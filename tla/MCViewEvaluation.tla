-------------------------- MODULE MCViewEvaluation --------------------------
(***************************************************************************)
(* A package p with a submodule q and a subpackage s, a source t of the    *)
(* namespace package n, an entry point m, and up to three of ten imports   *)
(* between them, each in a module body, under TYPE_CHECKING or in a        *)
(* function.                                                               *)
(***************************************************************************)
EXTENDS ViewEvaluation
LOCAL INSTANCE FiniteSetsExt
LOCAL INSTANCE TLC

Source(name, isPackage) ==
  [id |-> <<"source">> \o name, name |-> name, isPackage |-> isPackage, status |-> "bound"]

P == Source(<<"p">>, TRUE)
Q == Source(<<"p", "q">>, FALSE)
S == Source(<<"p", "s">>, TRUE)
T == Source(<<"n", "t">>, FALSE)
M == Source(<<"m">>, FALSE)

Sources == {P, Q, S, T, M, [Source(<<"x", "y">>, FALSE) EXCEPT !.status = "path_only"]}

Import(fact, source, target, how) == [source |-> source.id, target |-> target.id, fact |-> fact, how |-> how]

\* the resolved evidence of each import
Imports ==
  [m_from_p_q |-> {Import("m_from_p_q", M, P, "exact_base"), Import("m_from_p_q", M, Q, "probable_submodule")},
   m_from_p_s |-> {Import("m_from_p_s", M, P, "exact_base"), Import("m_from_p_s", M, S, "probable_submodule")},
   q_m        |-> {Import("q_m", Q, M, "exact_module")},
   q_from_n_t |-> {Import("q_from_n_t", Q, T, "probable_submodule")},
   s_m        |-> {Import("s_m", S, M, "exact_module")},
   t_p_q      |-> {Import("t_p_q", T, Q, "exact_module")},
   p_from_q   |-> {Import("p_from_q", P, Q, "exact_base")},
   q_from_p   |-> {Import("q_from_p", Q, P, "exact_base")},
   q_missing  |-> {}, q_missing_too |-> {}]

Origin == [m_from_p_q |-> M, m_from_p_s |-> M, q_m |-> Q, q_from_n_t |-> Q, s_m |-> S, t_p_q |-> T,
           p_from_q |-> P, q_from_p |-> Q, q_missing |-> Q,
           q_missing_too |-> Q]

Contexts == {<<FALSE, FALSE>>, <<TRUE, FALSE>>, <<FALSE, TRUE>>}

\* p.q and p.s are imported by one statement, q.z is requested twice by another
At == [i \in DOMAIN Imports |-> IF i = "m_from_p_s" THEN "m_from_p_q" ELSE IF i = "q_missing_too" THEN "q_missing" ELSE i]

Snapshot(chosen, context) ==
  LET resolved == UNION {Imports[i] : i \in chosen}
      missing  == chosen \cap {"q_missing", "q_missing_too"}
  IN [sources      |-> Sources,
      facts        |-> {[id |-> i, source |-> Origin[i].id, at |-> <<At[i], context[i]>>,
                         typingOnly |-> context[i][1], inFunction |-> context[i][2]] : i \in chosen},
      resolved     |-> resolved,
      dependencies |-> {e \in resolved :
                          e.how = "exact_base" => ~ \E p \in resolved : p.fact = e.fact /\ p.how = "probable_submodule"},
      unresolved   |-> {[source |-> Q.id, requested |-> <<"p", "z">>, reason |-> "missing_internal_target",
                         facts |-> missing] : i \in missing}
                       \cup
                       {[source |-> Q.id, requested |-> <<"n">>, reason |-> "namespace_base_unmodelled",
                         facts |-> {"q_from_n_t"}] : i \in chosen \cap {"q_from_n_t"}}]

Snapshots(size, contexts) ==
  UNION {{Snapshot(chosen, context) : context \in [chosen -> contexts]} : chosen \in kSubset(size, DOMAIN Imports)}

Shown(id, base, package) == [id |-> id, base |-> base, package |-> package, depth |-> 0]
Cut(view, max_depth) == [view EXCEPT !.depth = max_depth]
Always(id, strategy) == [id |-> id, strategy |-> strategy, everywhere |-> TRUE, views |-> {}]

Rule == [id |-> "rule", strategy |-> "custom", everywhere |-> FALSE, views |-> {"layers"}]

\* an extension view and an extension check beside built-in ones
Extended ==
  [views     |-> << Shown("package-structural", "structural", TRUE), Shown("layers", "custom", FALSE) >>,
   checks    |-> << Always("cycles", "cycles"), Rule, Always("unresolved-imports", "unresolved-imports") >>,
   selection |-> "layers" :> << "unresolved-imports", "rule" >>]

\* package views that do not all have the same depth of their own
Deepening ==
  [DefaultRegistry EXCEPT !.views = [i \in DOMAIN @ |-> IF i \in {4, 6} THEN Cut(@[i], 1) ELSE @[i]]]

\* registries that bend what the built-in names mean, or select less than there is or what there
\* is not
Bent ==
  {[DefaultRegistry EXCEPT !.views = << Shown("package-non-typing", "structural", TRUE) >>],
   [DefaultRegistry EXCEPT !.views = << Shown("structural", "module-body", FALSE), Shown("package-structural", "structural", TRUE) >>],
   [DefaultRegistry EXCEPT !.views = << Shown("structural", "structural", FALSE), Shown("package-structural", "module-body", TRUE) >>],
   [DefaultRegistry EXCEPT !.views = << Shown("layers", "structural", FALSE), Shown("layers", "structural", TRUE) >>],
   [DefaultRegistry EXCEPT !.checks = << Always("cycles", "unresolved-imports") >>],
   [DefaultRegistry EXCEPT !.checks = @ \o << Always("rule", "cycles"), Always("rule", "custom") >>],
   [DefaultRegistry EXCEPT !.checks = @ \o << Rule >>],
   [Extended EXCEPT !.selection = "package-structural" :> << "rule" >>],
   [Extended EXCEPT !.selection = "layers" :> << "cycles", "cycles" >>],
   [Extended EXCEPT !.selection = "structural" :> << "cycles" >>],
   [DefaultRegistry EXCEPT !.selection = "package-structural" :> << "unresolved-imports" >>]}

Evaluation(snapshot_, depth_, registry_) == [snapshot |-> snapshot_, depth |-> depth_, registry |-> registry_]

AllEvaluations ==
  {Evaluation(s, d, DefaultRegistry) : s \in Snapshots(3, Contexts), d \in {0, 1}}
    \cup {Evaluation(s, d, Deepening) : s \in Snapshots(2, Contexts), d \in {0, 1, 2}}
    \cup {Evaluation(s, 0, Extended) : s \in Snapshots(2, {<<FALSE, FALSE>>, <<FALSE, TRUE>>})}
    \cup {Evaluation(s, 1, b) : s \in Snapshots(2, {<<FALSE, FALSE>>, <<FALSE, TRUE>>}), b \in Bent}

\* layers that leave sources out, hold them together or claim one twice
Layer(id, sources) == [id |-> <<id>>, members |-> Ids(sources)]

LayerSets ==
  { {Layer("top", {M}), Layer("low", {P, Q, S})},
    {Layer("top", {M, Q}), Layer("low", {P, S, T})},
    {Layer("top", {M, Q}), Layer("low", {Q, P})},
    {Layer("top", {M}), Layer("low", {P})} }

LayerGraphs ==
  {[nodes |-> nodes, edges |-> edges, retained |-> retained] :
     nodes \in LayerSets,
     retained \in {{}, {"m_from_p_q"}, {"m_from_p_q", "q_m"}, {"m_from_p_q", "m_from_p_s"}, {"q_missing"},
                   {"q_missing", "q_missing_too"}},
     edges \in {{}} \cup
       {{[source |-> <<a>>, target |-> <<b>>, evidence |-> {e}]} :
          <<a, b>> \in {<<"top", "low">>, <<"low", "top">>},
          e \in {Import("m_from_p_q", M, P, "exact_base"), Import("q_m", Q, M, "exact_module"),
                 Import("q_m", S, M, "exact_module")}}}

Location(at, fact, source, target, how) ==
  [at |-> <<at, <<FALSE, FALSE>>>>, fact |-> fact, source |-> source, target |-> target, how |-> how]

ExtensionLocations ==
  {Location("m_from_p_q", "none", NoName, NoName, "none"), Location("m_from_p_q", "m_from_p_s", M.id, NoName, "none"),
   Location("m_from_p_q", "none", NoName, P.id, "exact_base"), Location("q_m", "q_m", NoName, M.id, "none"),
   Location("q_m", "none", P.id, NoName, "none")}

Missing(source, node, at) ==
  [kind |-> "unresolved", source |-> source.id, requested |-> <<"p", "z">>, reason |-> "missing_internal_target",
   node |-> <<node>>, evidence |-> {Location(at, "none", NoName, NoName, "none")}]

\* what an extension check returns: nothing, a rule, a cycle, or its own unresolved import
ExtensionFindings ==
  {{}} \cup {{[kind |-> "rule", nodes |-> {<<n>>}, sources |-> {M.id}, evidence |-> {e}]} :
              n \in {"top", "middle"}, e \in ExtensionLocations}
    \cup {{[kind |-> "cycle", members |-> {<<"top">>, <<"low">>}, certainty |-> "possible"]}}
    \cup {{Missing(Q, n, at)} : n \in {"top", "low"}, at \in {"q_missing", "m_from_p_q"}}
=============================================================================
