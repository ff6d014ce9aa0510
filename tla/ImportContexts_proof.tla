------------------------ MODULE ImportContexts_proof ------------------------
(***************************************************************************)
(* For every syntax tree: the worklist of _imports_with_context loses no   *)
(* import, every context says where the import stands, and what it says    *)
(* agrees with what Python may do with the source.                         *)
(***************************************************************************)
EXTENDS ImportContexts, CommonLemmas, TLAPS

ContextType ==
  [scope : {"module", "class", "function"}, inFunction : BOOLEAN, conditional : BOOLEAN, typingOnly : BOOLEAN, handler : BOOLEAN]

\* below which statements node k stands
InFunction(k)  == Entered(k, {"function"}, {"body"}) # {}
Conditional(k) == \E m \in Path(k) \ {k} : Kind(m) \in {"if", "block"}
InHandler(k)   == \E m \in Path(k) \ {k} : Kind(m) = "handler"
Guarded(k)     == \E m \in Entered(k, {"if"}, {"body"}) : ChecksTyping(tree[m].parent)

\* context c says where node k stands
Says(c, k) ==
  /\ c \in ContextType
  /\ c.inFunction <=> InFunction(k)
  /\ c.conditional <=> Conditional(k)
  /\ c.handler <=> InHandler(k)
  /\ c.typingOnly <=> Guarded(k)
  /\ LET scopes == Entered(k, {"function", "class"}, {"body"})
     IN \/ scopes = {} /\ c.scope = "module"
        \/ \E m \in scopes : c.scope = Kind(tree[m].parent) /\ \A o \in scopes : o <= m

\* an import is found already, or a node above it is still to be visited
Reached(k) ==
  \/ \A i \in DOMAIN tree[k].aliases : \E f \in facts : f.node = k /\ f.alias = i
  \/ \E p \in pending : p.node \in Path(k)

IInv ==
  /\ tree \in Trees
  /\ \A p \in pending : p.node \in Nodes \cup {0} /\ Says(p.context, p.node)
  /\ \A f \in facts : f.node \in Imports /\ f.alias \in DOMAIN tree[f.node].aliases /\ Says(f.context, f.node)
  /\ \A k \in Imports : Reached(k)
  /\ phase = "extracted" => pending = {}
-----------------------------------------------------------------------------
(* What running the source keeps true.                                     *)

FieldNames == {"body", "orelse", "args"} \cup {tree[k].field : k \in Nodes}

BodyType == [owner : Nodes \cup {0}, at : Nodes \cup {0}, entered : SUBSET ((Nodes \cup {0}) \X FieldNames)]

\* a statement that runs whenever the module body does
Straight(k) == Kind(k) \notin Expressions /\ ~ Conditional(k) /\ ~ InFunction(k)

HasRun(k) == \E r \in ran : r.node = k

\* a body leads to imports that are called as the body was, and to no guarded one
MayEnter(owner, e) ==
  /\ IF owner = 0 THEN ~ InFunction(e[1]) /\ Kind(e[1]) # "function" ELSE InFunction(e[1]) \/ Kind(e[1]) = "function"
  /\ setBy = {} => ~ Guarded(e[1]) /\ ~ (e[2] = "body" /\ ChecksTyping(e[1]))

\* the module body has executed its statement k
Executed(k, entered) ==
  /\ k \in Imports => HasRun(k)
  /\ Kind(k) \in {"class", "handler"} => <<k, "body">> \in entered
  /\ Kind(k) = "case" => Fields(k) \subseteq entered

BodyInv(fr) ==
  /\ \A e \in fr.entered : MayEnter(fr.owner, e)
  /\ fr.owner = 0 => /\ <<0, "body">> \in fr.entered
                     /\ \A k \in Nodes : k <= fr.at /\ Straight(k) => Executed(k, fr.entered)

Bodies == {frames[i] : i \in 1 .. Len(frames)}

FramesInv == frames \in Seq(BodyType) /\ \A fr \in Bodies : BodyInv(fr)

\* what the value of a name may be that the extractor takes for TYPE_CHECKING or for typing
MayBe(n, value) ==
  /\ n \in DirectAliases => value \in {"unbound", "false"}
  /\ n \in QualifiedAliases => value \in {"unbound", "typing"}

EnvInv ==
  /\ DOMAIN env = Nodes \cup {0}
  /\ \A s \in Nodes \cup {0} : DOMAIN env[s] = Names
  /\ setBy = {} => \A s \in Nodes \cup {0} : \A n \in Names : MayBe(n, env[s][n])

FlagInv == flag \in BOOLEAN /\ setBy \subseteq Binding({"attribute"}) /\ (flag => setBy # {})

DefinedInv == \A f \in defined : f \in Nodes /\ Kind(f) = "function" /\ (setBy = {} => ~ Guarded(f))

RanInv == \A r \in ran : r.node \in Imports /\ r.called = InFunction(r.node) /\ (setBy = {} => ~ Guarded(r.node))

EndInv == outcome = "ended" => \A k \in Imports : Straight(k) => HasRun(k)

RunInv == tree \in Trees /\ FramesInv /\ EnvInv /\ FlagInv /\ DefinedInv /\ RanInv /\ EndInv
-----------------------------------------------------------------------------
(* Trees.                                                                  *)

LEMMA TreeFacts ==
  ASSUME tree \in Trees
  PROVE  /\ Nodes = 1 .. Len(tree) /\ Len(tree) \in Nat
         /\ \A k \in Nodes : /\ tree[k].parent \in 0 .. k - 1
                             /\ tree[k].parent # 0 => Kind(tree[k].parent) \notin Leaves
BY TreesAssumption DEF Nodes, Kind, Leaves, Expressions, Compounds

LEMMA PathIsClosed ==
  ASSUME tree \in Trees, NEW k \in Nodes \cup {0}
  PROVE  /\ k \in Path(k) /\ Path(k) \subseteq 0 .. k
         /\ \A m \in Path(k) \ {0} : tree[m].parent \in Path(k)
<1>1. Path(k) = {a \in 0 .. k : \A above \in SUBSET (0 .. k) :
                    k \in above /\ (\A m \in above \ {0} : tree[m].parent \in above) => a \in above}
  BY DEF Path
<1>2. k \in Nat /\ k \in 0 .. k
  BY TreeFacts
<1>3. ASSUME NEW m \in Path(k) \ {0} PROVE tree[m].parent \in Path(k)
  <2>1. m \in Nodes /\ m \in 0 .. k
    BY <1>1, TreeFacts
  <2>2. tree[m].parent \in 0 .. k
    BY <2>1, TreeFacts
  <2>3. ASSUME NEW above \in SUBSET (0 .. k), k \in above, \A j \in above \ {0} : tree[j].parent \in above
        PROVE  tree[m].parent \in above
    <3>1. m \in above
      BY <1>1, <2>3
    <3> QED BY <3>1, <2>3
  <2> QED BY <1>1, <2>2, <2>3
<1> QED BY <1>1, <1>2, <1>3

\* The path to a child is the path to its parent and the child.
LEMMA PathOfChild ==
  ASSUME tree \in Trees, NEW n \in Nodes \cup {0}, NEW k \in Children(n)
  PROVE  Path(k) = Path(n) \cup {k} /\ k \notin Path(n) /\ k \in Nodes
<1>1. k \in Nodes /\ tree[k].parent = n /\ n \in 0 .. k - 1 /\ k \in Nat /\ n \in Nat
  BY TreeFacts DEF Children
<1>2. Path(n) \subseteq 0 .. n /\ k \notin Path(n)
  BY <1>1, PathIsClosed
<1>3. ASSUME NEW a \in Path(k) PROVE a \in Path(n) \cup {k}
  <2>1. Path(n) \cup {k} \in SUBSET (0 .. k)
    BY <1>1, <1>2
  <2>2. \A m \in (Path(n) \cup {k}) \ {0} : tree[m].parent \in Path(n) \cup {k}
    BY <1>1, PathIsClosed
  <2> QED BY <1>3, <2>1, <2>2 DEF Path
<1>4. ASSUME NEW a \in Path(n) PROVE a \in Path(k)
  <2>1. a \in 0 .. k
    BY <1>1, <1>2
  <2>2. ASSUME NEW above \in SUBSET (0 .. k), k \in above, \A m \in above \ {0} : tree[m].parent \in above
        PROVE  a \in above
    <3> DEFINE part == above \cap (0 .. n)
    <3>1. part \in SUBSET (0 .. n)
      OBVIOUS
    <3>2. n \in part
      BY <1>1, <2>2
    <3>3. ASSUME NEW m \in part \ {0} PROVE tree[m].parent \in part
      <4>1. m \in Nodes /\ m \in 0 .. n
        BY <1>1, TreeFacts
      <4>2. tree[m].parent \in 0 .. m - 1
        BY <4>1, TreeFacts
      <4> QED BY <1>1, <2>2, <4>1, <4>2
    <3>4. a \in part
      <4> HIDE DEF part
      <4> QED BY <3>1, <3>2, <3>3 DEF Path
    <3> QED BY <3>4
  <2> QED BY <2>1, <2>2 DEF Path
<1>5. k \in Path(k)
  BY <1>1, PathIsClosed
<1> QED BY <1>1, <1>2, <1>3, <1>4, <1>5

\* The path from a node above k to k leads through one of its children.
LEMMA PathGoesOn ==
  ASSUME tree \in Trees, NEW k \in Nodes, NEW n \in Path(k), n # k
  PROVE  \E j \in Children(n) : j \in Path(k)
<1> SUFFICES ASSUME \A j \in Path(k) \ {0} : tree[j].parent # n PROVE FALSE
  <2>1. \A j \in Path(k) \ {0} : j \in Nodes
    BY PathIsClosed, TreeFacts
  <2> QED BY <2>1 DEF Children
<1>1. Path(k) \ {n} \in SUBSET (0 .. k)
  BY PathIsClosed
<1>2. k \in Path(k) \ {n} /\ \A m \in (Path(k) \ {n}) \ {0} : tree[m].parent \in Path(k) \ {n}
  BY PathIsClosed
<1> QED BY <1>1, <1>2 DEF Path

\* A child has entered what its parent has, and perhaps its parent.
LEMMA EnteredByChild ==
  ASSUME tree \in Trees, NEW n \in Nodes \cup {0}, NEW k \in Children(n), NEW kinds, NEW fields
  PROVE  /\ Entered(n, kinds, fields) \subseteq Entered(k, kinds, fields)
         /\ Entered(k, kinds, fields) \subseteq Entered(n, kinds, fields) \cup {k}
         /\ k \in Entered(k, kinds, fields) <=> Kind(n) \in kinds /\ tree[k].field \in fields
<1>1. Path(k) = Path(n) \cup {k} /\ k \notin Path(n) /\ k # 0 /\ tree[k].parent = n
  BY PathOfChild, TreeFacts DEF Children
<1> QED BY <1>1 DEF Entered

\* A child stands below what its parent stands below, and below its parent.
LEMMA StandingOfChild ==
  ASSUME tree \in Trees, NEW n \in Nodes \cup {0}, NEW k \in Children(n)
  PROVE  /\ InFunction(k) <=> InFunction(n) \/ (tree[k].field = "body" /\ Kind(n) = "function")
         /\ Conditional(k) <=> Conditional(n) \/ Kind(n) \in {"if", "block"}
         /\ InHandler(k) <=> InHandler(n) \/ Kind(n) = "handler"
         /\ Guarded(k) <=> Guarded(n) \/ (tree[k].field = "body" /\ ChecksTyping(n))
<1>1. Path(k) \ {k} = (Path(n) \ {n}) \cup {n} /\ tree[k].parent = n
  BY PathOfChild, PathIsClosed DEF Children
<1>2. InFunction(k) <=> InFunction(n) \/ (tree[k].field = "body" /\ Kind(n) = "function")
  <2>1. k \in Entered(k, {"function"}, {"body"}) <=> Kind(n) = "function" /\ tree[k].field = "body"
    BY EnteredByChild
  <2> QED BY <2>1, EnteredByChild DEF InFunction
<1>3. Guarded(k) <=> Guarded(n) \/ (tree[k].field = "body" /\ ChecksTyping(n))
  <2>1. ChecksTyping(n) => Kind(n) = "if"
    BY DEF ChecksTyping
  <2>2. k \in Entered(k, {"if"}, {"body"}) <=> Kind(n) = "if" /\ tree[k].field = "body"
    BY EnteredByChild
  <2> QED BY <1>1, <2>1, <2>2, EnteredByChild DEF Guarded
<1>4. /\ Conditional(k) <=> Conditional(n) \/ Kind(n) \in {"if", "block"}
      /\ InHandler(k) <=> InHandler(n) \/ Kind(n) = "handler"
  BY <1>1 DEF Conditional, InHandler
<1> QED BY <1>2, <1>3, <1>4

\* A node hands its children what they need to say where they stand.
LEMMA ContextOfChild ==
  ASSUME tree \in Trees, NEW n \in Nodes \cup {0}, NEW k \in Children(n), NEW c, Says(c, n)
  PROVE  Says(ChildContext(n, c, k), k)
<1> DEFINE d == ChildContext(n, c, k)
           inBody == tree[k].field = "body"
<1>1. Path(k) = Path(n) \cup {k} /\ k \notin Path(n) /\ k \in Nodes /\ tree[k].parent = n
  BY PathOfChild DEF Children
<1>2. c \in ContextType
  BY DEF Says
<1>3. /\ d.scope = IF inBody /\ Kind(n) \in {"function", "class"} THEN Kind(n) ELSE c.scope
      /\ d.inFunction = (c.inFunction \/ (inBody /\ Kind(n) = "function"))
      /\ d.conditional = (c.conditional \/ Kind(n) \in {"if", "block"})
      /\ d.typingOnly = (c.typingOnly \/ (inBody /\ ChecksTyping(n)))
      /\ d.handler = (c.handler \/ Kind(n) = "handler")
      /\ d.scope \in {"module", "class", "function"} => d \in ContextType
  BY <1>2 DEF ChildContext, ContextType
<1>4. d \in ContextType
  <2>1. c.scope \in {"module", "class", "function"}
    BY <1>2 DEF ContextType
  <2>2. d.scope = IF inBody /\ Kind(n) \in {"function", "class"} THEN Kind(n) ELSE c.scope
    BY <1>3
  <2>3. d.scope \in {"module", "class", "function"}
    BY <2>1, <2>2
  <2> QED BY <1>3, <2>3
<1> HIDE DEF d
<1>5. /\ d.inFunction <=> c.inFunction \/ (inBody /\ Kind(n) = "function")
      /\ d.conditional <=> c.conditional \/ Kind(n) \in {"if", "block"}
      /\ d.typingOnly <=> c.typingOnly \/ (inBody /\ ChecksTyping(n))
      /\ d.handler <=> c.handler \/ Kind(n) = "handler"
  BY <1>3
<1>6. /\ d.inFunction <=> InFunction(k)
      /\ d.conditional <=> Conditional(k)
      /\ d.typingOnly <=> Guarded(k)
      /\ d.handler <=> InHandler(k)
  BY <1>5, StandingOfChild DEF Says
<1>7. LET scopes == Entered(k, {"function", "class"}, {"body"})
      IN \/ scopes = {} /\ d.scope = "module"
         \/ \E m \in scopes : d.scope = Kind(tree[m].parent) /\ \A o \in scopes : o <= m
  <2> DEFINE scopes == Entered(k, {"function", "class"}, {"body"})
             above  == Entered(n, {"function", "class"}, {"body"})
  <2>1. \A o \in scopes : o \in 0 .. k
    BY <1>1, PathIsClosed DEF Entered
  <2>2. CASE k \in scopes
    <3>1. d.scope = Kind(tree[k].parent)
      BY <1>1, <1>3, <2>2, EnteredByChild
    <3>2. \A o \in scopes : o <= k
      BY <1>1, <2>1, TreeFacts
    <3> QED BY <2>2, <3>1, <3>2
  <2>3. CASE k \notin scopes
    <3>1. scopes = above
      BY <2>3, EnteredByChild
    <3>2. d.scope = c.scope
      BY <1>3, <2>3, EnteredByChild
    <3>3. \/ above = {} /\ c.scope = "module"
          \/ \E m \in above : c.scope = Kind(tree[m].parent) /\ \A o \in above : o <= m
      BY DEF Says
    <3> QED BY <3>1, <3>2, <3>3
  <2> QED BY <2>2, <2>3
<1> QED BY <1>4, <1>6, <1>7 DEF Says, d

\* Every path begins at the module.
LEMMA PathBegins ==
  ASSUME tree \in Trees, NEW k \in Nodes
  PROVE  0 \in Path(k)
<1> SUFFICES ASSUME 0 \notin Path(k) PROVE FALSE
  OBVIOUS
<1>1. k \in Path(k) /\ Path(k) \subseteq Nodes /\ \A m \in Path(k) : tree[m].parent \in Path(k)
  BY PathIsClosed, TreeFacts
<1>2. Path(k) \in SUBSET Nat
  BY <1>1, TreeFacts
<1>3. PICK m \in Path(k) : \A o \in Path(k) : m <= o
  BY <1>1, <1>2, LeastElementExists
<1>4. tree[m].parent \in Path(k) /\ tree[m].parent < m
  BY <1>1, TreeFacts
<1> QED BY <1>2, <1>3, <1>4
LEMMA TreeKinds ==
  ASSUME tree \in Trees, NEW k \in Nodes
  PROVE  /\ Kind(k) \in Leaves \cup Compounds /\ k # 0 /\ k \in Nat
         /\ Kind(k) = tree[k].kind
         /\ tree[k].parent # 0 => tree[k].parent \in Nodes /\ Kind(tree[k].parent) \in Compounds
         /\ tree[k].parent = 0 => Kind(tree[k].parent) = "module"
         /\ \/ Kind(k) \in Expressions \/ tree[k].field = "body"
            \/ Kind(tree[k].parent) \in {"if", "block", "case"}
         /\ k \in Imports => Len(tree[k].aliases) \in Nat /\ DOMAIN tree[k].aliases = 1 .. Len(tree[k].aliases)
<1>1. k # 0 /\ k \in Nat
  BY TreeFacts
<1>2. tree[k].parent # 0 => tree[k].parent \in Nodes
  BY TreeFacts
<1> QED BY <1>1, <1>2, TreesAssumption DEF Kind, Nodes, Imports

\* A set of numbers up to a number has a greatest one.
LEMMA GreatestElementExists ==
  ASSUME NEW N \in Nat, NEW S \in SUBSET (0 .. N), S # {}
  PROVE  Max(S) \in S /\ \A m \in S : m <= Max(S)
<1> DEFINE T == {N - m : m \in S}
<1>1. T \in SUBSET Nat /\ T # {}
  <2>1. \A m \in S : N - m \in Nat
    OBVIOUS
  <2> QED BY <2>1
<1>2. PICK t \in T : \A u \in T : t <= u
  BY <1>1, LeastElementExists
<1>3. PICK g \in S : t = N - g
  BY <1>2
<1>4. \A m \in S : g >= m
  <2> TAKE m \in S
  <2>1. N - g <= N - m
    BY <1>2, <1>3
  <2> QED BY <2>1
<1> QED BY <1>4 DEF Max

LEMMA ScopeIsNode ==
  ASSUME tree \in Trees, NEW k \in Nodes \cup {0}
  PROVE  Scope(k) \in Nodes \cup {0}
<1>1. \A kinds : Scopes(k, kinds) \subseteq 0 .. k
  <2> SUFFICES ASSUME NEW kinds, NEW m \in Entered(k, kinds, {"body", "args"}) PROVE tree[m].parent \in 0 .. k
    BY DEF Scopes
  <2>1. m \in Path(k) \ {0}
    BY DEF Entered
  <2>2. tree[m].parent \in Path(k) /\ Path(k) \subseteq 0 .. k
    BY <2>1, PathIsClosed
  <2> QED BY <2>2
<1>2. k \in Nat /\ 0 .. k \subseteq Nodes \cup {0}
  BY TreeFacts
<1>3. {0} \cup Scopes(k, {"function", "class"}) \in SUBSET (0 .. k)
  BY <1>1, <1>2
<1>4. Scope(k) \in {0} \cup Scopes(k, {"function", "class"})
  BY <1>2, <1>3, GreatestElementExists DEF Scope
<1> QED BY <1>2, <1>3, <1>4

LEMMA ValueComesFromScope ==
  ASSUME tree \in Trees, NEW s \in Nodes \cup {0}, NEW n
  PROVE  \E o \in Nodes \cup {0} : Value(s, n) = env[o][n]
<1> DEFINE S == {o \in Visible(s) : Holds(o, n)}
<1>1. Scopes(s, {"function"}) \subseteq 0 .. s
  <2> SUFFICES ASSUME NEW m \in Entered(s, {"function"}, {"body", "args"}) PROVE tree[m].parent \in 0 .. s
    BY DEF Scopes
  <2>1. m \in Path(s) \ {0}
    BY DEF Entered
  <2>2. tree[m].parent \in Path(s) /\ Path(s) \subseteq 0 .. s
    BY <2>1, PathIsClosed
  <2> QED BY <2>2
<1>2. s \in Nat /\ 0 .. s \subseteq Nodes \cup {0}
  BY TreeFacts
<1>3. S \in SUBSET (0 .. s)
  BY <1>1, <1>2 DEF Visible
<1>4. 0 \in S
  BY DEF Visible, Holds
<1> HIDE DEF S
<1>5. Max(S) \in S
  BY <1>2, <1>3, <1>4, GreatestElementExists
<1> QED BY <1>2, <1>3, <1>5 DEF Value, S

\* The names the extractor takes for TYPE_CHECKING or typing are bound by imports of them only.
LEMMA AliasBinding ==
  ASSUME tree \in Trees, NEW n, n \in DirectAliases \cup QualifiedAliases
  PROVE  /\ \A k \in Nodes : Kind(k) \in {"name", "attribute", "function", "class", "handler", "arg"} => tree[k].id # n
         /\ \A p \in Items : Item(p).name # "*"
         /\ \A p \in Items :
              Item(p).bound = n =>
                /\ Item(p).module = "typing"
                /\ n \in QualifiedAliases => Kind(p[1]) = "import"
                /\ n \in DirectAliases => Kind(p[1]) # "import" /\ Item(p).name = "TYPE_CHECKING"
<1>1. n \notin Conflicting /\ ~ Wildcard
  BY DEF DirectAliases, QualifiedAliases
<1>2. \A k \in Nodes : Kind(k) \in {"name", "attribute", "function", "class", "handler", "arg"} => tree[k].id # n
  BY <1>1 DEF Conflicting, Binding
<1>3. ASSUME NEW p \in Items, Item(p).bound = n
      PROVE  /\ Item(p).module = "typing"
             /\ n \in QualifiedAliases => Kind(p[1]) = "import"
             /\ n \in DirectAliases => Kind(p[1]) # "import" /\ Item(p).name = "TYPE_CHECKING"
  <2>1. p \in TypingItems
    BY <1>1, <1>3 DEF Conflicting, Bound
  <2>2. ~ (n \in Direct /\ n \in Qualified)
    BY <1>1 DEF Conflicting
  <2>3. Kind(p[1]) \in {"import", "from"}
    <3>1. p[1] \in Imports
      BY DEF Items
    <3> QED BY <3>1, TreeKinds DEF Imports
  <2>4. Kind(p[1]) = "from" => n \in Direct
    BY <1>3, <2>1 DEF Direct, Bound
  <2>5. Kind(p[1]) = "import" => n \in Qualified
    BY <1>3, <2>1 DEF Qualified, Bound
  <2>6. (n \in DirectAliases => n \in Direct) /\ (n \in QualifiedAliases => n \in Qualified)
    BY DEF DirectAliases, QualifiedAliases
  <2> QED BY <2>1, <2>2, <2>3, <2>4, <2>5, <2>6 DEF TypingItems
<1> QED BY <1>1, <1>2, <1>3 DEF Wildcard
\* What is said of the tree alone stays true.
LEMMA TreeStays ==
  ASSUME tree' = tree
  PROVE  /\ Nodes' = Nodes /\ Imports' = Imports /\ FieldNames' = FieldNames /\ BodyType' = BodyType
         /\ Names' = Names /\ DirectAliases' = DirectAliases /\ QualifiedAliases' = QualifiedAliases
         /\ \A kinds : Binding(kinds)' = Binding(kinds)
<1>1. Nodes' = Nodes /\ \A n : Kind(n)' = Kind(n)
  BY DEF Nodes, Kind
<1>2. Imports' = Imports /\ Items' = Items /\ \A p : Item(p)' = Item(p)
  BY <1>1 DEF Items, Item, Imports
<1>4. \A kinds : Binding(kinds)' = Binding(kinds)
  BY <1>1 DEF Binding
<1>5. \A S : Bound(S)' = Bound(S)
  BY <1>2 DEF Bound
<1>6. TypingItems' = TypingItems
  BY <1>1, <1>2 DEF TypingItems, InModuleBody
<1>7. Direct' = Direct /\ Qualified' = Qualified
  BY <1>1, <1>5, <1>6 DEF Direct, Qualified
<1>8. Conflicting' = Conflicting
  BY <1>2, <1>4, <1>5, <1>6, <1>7 DEF Conflicting
<1>9. DirectAliases' = DirectAliases /\ QualifiedAliases' = QualifiedAliases
  BY <1>2, <1>7, <1>8 DEF DirectAliases, QualifiedAliases, Wildcard
<1>10. FieldNames' = FieldNames
  BY <1>1 DEF FieldNames
<1>11. BodyType' = BodyType
  BY <1>1, <1>10 DEF BodyType
<1>12. Binders' = Binders
  BY <1>1 DEF Binders
<1>13. Names' = Names
  BY <1>1, <1>2, <1>12 DEF Names
<1> QED BY <1>1, <1>2, <1>4, <1>9, <1>10, <1>11, <1>13

LEMMA NodeStays ==
  ASSUME tree' = tree, NEW k
  PROVE  /\ Kind(k)' = Kind(k) /\ Fields(k)' = Fields(k)
         /\ InFunction(k)' <=> InFunction(k)
         /\ Conditional(k)' <=> Conditional(k)
         /\ InHandler(k)' <=> InHandler(k)
         /\ Guarded(k)' <=> Guarded(k)
         /\ Straight(k)' <=> Straight(k)
         /\ ChecksTyping(k)' <=> ChecksTyping(k)
         /\ \A kinds, fields : Entered(k, kinds, fields)' = Entered(k, kinds, fields)
<1>1. Nodes' = Nodes /\ (\A n : Kind(n)' = Kind(n)) /\ Path(k)' = Path(k) /\ Children(k)' = Children(k)
  BY DEF Nodes, Kind, Path, Children
<1>2. \A kinds, fields : Entered(k, kinds, fields)' = Entered(k, kinds, fields)
  BY <1>1 DEF Entered
<1>3. \A n : ChecksTyping(n)' <=> ChecksTyping(n)
  BY <1>1, TreeStays DEF ChecksTyping
<1>4. /\ InFunction(k)' <=> InFunction(k)
      /\ Conditional(k)' <=> Conditional(k)
      /\ InHandler(k)' <=> InHandler(k)
      /\ Guarded(k)' <=> Guarded(k)
  BY <1>1, <1>2, <1>3 DEF InFunction, Conditional, InHandler, Guarded
<1>5. Straight(k)' <=> Straight(k)
  BY <1>1, <1>4 DEF Straight
<1>6. Fields(k)' = Fields(k)
  BY <1>1 DEF Fields
<1> QED BY <1>1, <1>2, <1>3, <1>4, <1>5, <1>6
-----------------------------------------------------------------------------
(* The extraction.                                                         *)

LEMMA InitInv == Init => IInv
<1> SUFFICES ASSUME Init PROVE IInv
  OBVIOUS
<1>1. tree \in Trees /\ pending = {[node |-> 0, context |-> ModuleContext]} /\ facts = {} /\ phase = "extract"
  BY DEF Init, ExtractionInit
<1>2. Path(0) = {0}
  BY <1>1, PathIsClosed, TreeFacts
<1>3. Says(ModuleContext, 0)
  <2>1. \A kinds, fields : Entered(0, kinds, fields) = {}
    BY <1>2 DEF Entered
  <2>2. ModuleContext \in ContextType
    BY DEF ModuleContext, ContextType
  <2> QED BY <1>2, <2>1, <2>2 DEF Says, ModuleContext, InFunction, Conditional, InHandler, Guarded
<1>4. \A k \in Imports : 0 \in Path(k)
  BY <1>1, PathBegins DEF Imports
<1>5. \A k \in Imports : Reached(k)
  BY <1>1, <1>4 DEF Reached
<1> QED BY <1>1, <1>3, <1>5 DEF IInv

\* As long as the tree stays, contexts keep saying what they said.
LEMMA SaysUnchanged ==
  ASSUME tree' = tree, NEW c, NEW k, Says(c, k)
  PROVE  Says(c, k)'
<1>1. \A n : Kind(n)' = Kind(n)
  BY DEF Kind
<1>2. \A kinds, fields : Entered(k, kinds, fields)' = Entered(k, kinds, fields)
  BY NodeStays
<1> QED BY <1>1, <1>2, NodeStays DEF Says

LEMMA YieldPreserves ==
  ASSUME IInv, Yield
  PROVE  IInv'
<1>1. PICK p \in pending :
        /\ p.node \in Imports
        /\ pending' = pending \ {p}
        /\ facts' = facts \cup {[node |-> p.node, alias |-> i, context |-> p.context] : i \in DOMAIN tree[p.node].aliases}
        /\ UNCHANGED <<tree, phase>>
  BY DEF Yield
<1>2. tree' \in Trees /\ Nodes' = Nodes /\ Imports' = Imports /\ \A k : Path(k)' = Path(k)
  BY <1>1 DEF IInv, Nodes, Imports, Path
<1>3. \A q \in pending' : q.node \in Nodes' \cup {0} /\ Says(q.context, q.node)'
  BY <1>1, <1>2, SaysUnchanged DEF IInv
<1>4. ASSUME NEW f \in facts'
      PROVE  f.node \in Imports' /\ f.alias \in DOMAIN tree'[f.node].aliases /\ Says(f.context, f.node)'
  <2>1. f.node \in Imports /\ f.alias \in DOMAIN tree[f.node].aliases /\ Says(f.context, f.node)
    BY <1>1 DEF IInv
  <2> QED BY <1>1, <1>2, <2>1, SaysUnchanged
<1>5. ASSUME NEW k \in Imports PROVE Reached(k)'
  <2>1. Reached(k)
    BY DEF IInv
  <2>2. CASE \A i \in DOMAIN tree[k].aliases : \E f \in facts : f.node = k /\ f.alias = i
    BY <1>1, <2>2 DEF Reached
  <2>3. CASE k = p.node
    <3>1. \A i \in DOMAIN tree[k].aliases : [node |-> k, alias |-> i, context |-> p.context] \in facts'
      BY <1>1, <2>3
    <3> QED BY <1>1, <3>1 DEF Reached
  <2>4. ASSUME k # p.node, NEW q \in pending, q.node \in Path(k) PROVE Reached(k)'
    <3>1. CASE q # p
      BY <1>1, <1>2, <2>4, <3>1 DEF Reached
    <3>2. CASE q = p
      <4>1. k \in Nodes
        BY DEF Imports
      <4>2. PICK j \in Children(p.node) : j \in Path(k)
        BY <2>4, <3>2, <4>1, PathGoesOn DEF IInv
      <4>3. Kind(p.node) \in Leaves /\ p.node # 0
        BY <1>1, TreeFacts DEF Imports, Kind, Leaves, IInv
      <4> QED BY <4>2, <4>3, TreeFacts DEF IInv, Children
    <3> QED BY <3>1, <3>2
  <2> QED BY <2>1, <2>2, <2>3, <2>4 DEF Reached
<1>6. phase' = "extracted" => pending' = {}
  BY <1>1 DEF IInv
<1> QED BY <1>2, <1>3, <1>4, <1>5, <1>6 DEF IInv

LEMMA DescendPreserves ==
  ASSUME IInv, Descend
  PROVE  IInv'
<1>1. PICK p \in pending :
        /\ p.node \notin Imports
        /\ pending' = (pending \ {p}) \cup
             {[node |-> k, context |-> ChildContext(p.node, p.context, k)] :
                k \in {j \in Children(p.node) : Kind(j) \notin {"name", "attribute"}}}
        /\ UNCHANGED <<tree, facts, phase>>
  BY DEF Descend
<1>2. tree' \in Trees /\ Nodes' = Nodes /\ Imports' = Imports /\ \A k : Path(k)' = Path(k)
  BY <1>1 DEF IInv, Nodes, Imports, Path
<1>3. ASSUME NEW q \in pending' PROVE q.node \in Nodes' \cup {0} /\ Says(q.context, q.node)'
  <2>1. CASE q \in pending
    BY <1>1, <1>2, <2>1, SaysUnchanged DEF IInv
  <2>2. ASSUME NEW k \in Children(p.node), q = [node |-> k, context |-> ChildContext(p.node, p.context, k)]
        PROVE  q.node \in Nodes' \cup {0} /\ Says(q.context, q.node)'
    <3>1. k \in Nodes /\ q.node = k /\ q.context = ChildContext(p.node, p.context, k)
      BY <2>2 DEF Children
    <3>2. Says(q.context, k)
      BY <3>1, ContextOfChild DEF IInv
    <3> QED BY <1>1, <1>2, <3>1, <3>2, SaysUnchanged
  <2> QED BY <1>1, <2>1, <2>2
<1>4. \A f \in facts' : f.node \in Imports' /\ f.alias \in DOMAIN tree'[f.node].aliases /\ Says(f.context, f.node)'
  BY <1>1, <1>2, SaysUnchanged DEF IInv
<1>5. ASSUME NEW k \in Imports PROVE Reached(k)'
  <2>1. Reached(k)
    BY DEF IInv
  <2>2. CASE \A i \in DOMAIN tree[k].aliases : \E f \in facts : f.node = k /\ f.alias = i
    BY <1>1, <2>2 DEF Reached
  <2>3. ASSUME NEW q \in pending, q.node \in Path(k) PROVE Reached(k)'
    <3>1. CASE q # p
      BY <1>1, <1>2, <2>3, <3>1 DEF Reached
    <3>2. CASE q = p
      <4>1. k \in Nodes /\ k # p.node
        BY <1>1 DEF Imports
      <4>2. PICK j \in Children(p.node) : j \in Path(k)
        BY <2>3, <3>2, <4>1, PathGoesOn DEF IInv
      <4>3. Kind(j) \notin {"name", "attribute"}
        <5>1. CASE j = k
          BY <4>1, <5>1, TreeFacts DEF Imports, Kind, IInv
        <5>2. CASE j # k
          <6>1. PICK i \in Children(j) : i \in Path(k)
            BY <4>1, <4>2, <5>2, PathGoesOn DEF IInv
          <6>2. j # 0
            BY <4>2, TreeFacts DEF Children, IInv
          <6> QED BY <6>1, <6>2, TreeFacts DEF Children, Leaves, Expressions, IInv
        <5> QED BY <5>1, <5>2
      <4>4. [node |-> j, context |-> ChildContext(p.node, p.context, j)] \in pending'
        BY <1>1, <4>2, <4>3
      <4> QED BY <1>2, <4>2, <4>4 DEF Reached
    <3> QED BY <3>1, <3>2
  <2> QED BY <2>1, <2>2, <2>3 DEF Reached
<1>6. phase' = "extracted" => pending' = {}
  <2>1. phase' # "extracted"
    BY <1>1 DEF IInv
  <2> QED BY <2>1
<1> QED BY <1>2, <1>3, <1>4, <1>5, <1>6 DEF IInv

LEMMA FinishPreserves ==
  ASSUME IInv, UNCHANGED <<tree, pending, facts>>, phase' = "extracted" => pending = {}
  PROVE  IInv'
<1>1. tree' \in Trees /\ Nodes' = Nodes /\ Imports' = Imports /\ \A k : Path(k)' = Path(k)
  BY DEF IInv, Nodes, Imports, Path
<1>2. \A k \in Imports : Reached(k)'
  BY <1>1 DEF IInv, Reached
<1> QED BY <1>1, <1>2, SaysUnchanged DEF IInv

\* Every reachable state satisfies the strengthened invariant.
THEOREM InductiveInvariant == Spec => []IInv
<1>1. IInv /\ [Next]_vars => IInv'
  <2> SUFFICES ASSUME IInv, [Next]_vars PROVE IInv'
    OBVIOUS
  <2>1. CASE Yield
    BY <2>1, YieldPreserves
  <2>2. CASE Descend
    BY <2>2, DescendPreserves
  <2>3. CASE Finish
    BY <2>3, FinishPreserves DEF Finish
  <2>4. CASE UNCHANGED extractionVars
    BY <2>4, FinishPreserves DEF extractionVars, IInv
  <2>5. Extraction \/ UNCHANGED extractionVars
    BY DEF Next, Extract, Run, vars
  <2> QED BY <2>1, <2>2, <2>3, <2>4, <2>5 DEF Extraction
<1> QED BY <1>1, InitInv, PTL DEF Spec

\* "Once the search ends, each imported item of the file is one fact, and its context says where
\* the statement stands", for every syntax tree and every order of the worklist.
THEOREM ContextsAreRight == Spec => []FactsSayWhereImportsStand
<1>1. IInv => FactsSayWhereImportsStand
  <2> SUFFICES ASSUME IInv, phase = "extracted"
               PROVE  /\ {<<f.node, f.alias>> : f \in facts} = Items
                      /\ \A f \in facts :
                           /\ f.context.inFunction = (Entered(f.node, {"function"}, {"body"}) # {})
                           /\ f.context.conditional = \E m \in Path(f.node) : Kind(m) \in {"if", "block"}
                           /\ f.context.handler = \E m \in Path(f.node) : Kind(m) = "handler"
                           /\ f.context.typingOnly =
                                \E m \in Entered(f.node, {"if"}, {"body"}) : ChecksTyping(tree[m].parent)
                           /\ LET scopes == Entered(f.node, {"function", "class"}, {"body"})
                              IN \/ scopes = {} /\ f.context.scope = "module"
                                 \/ \E m \in scopes : /\ f.context.scope = Kind(tree[m].parent)
                                                      /\ \A o \in scopes : o <= m
    BY DEF FactsSayWhereImportsStand
  <2>1. pending = {}
    BY DEF IInv
  <2>2. \A k \in Imports : \A i \in DOMAIN tree[k].aliases : \E f \in facts : f.node = k /\ f.alias = i
    BY <2>1 DEF IInv, Reached
  <2>3. {<<f.node, f.alias>> : f \in facts} = Items
    BY <2>2 DEF IInv, Items
  <2>4. ASSUME NEW f \in facts
        PROVE  /\ Says(f.context, f.node) /\ f.context \in ContextType
               /\ f.node \in Path(f.node) /\ Kind(f.node) \in {"import", "from"}
    <3>1. Says(f.context, f.node) /\ f.node \in Imports /\ tree \in Trees
      BY <2>4 DEF IInv
    <3>2. f.context \in ContextType
      BY <3>1 DEF Says
    <3>3. f.node \in Nodes /\ tree[f.node].kind \in {"import", "from"}
      BY <3>1 DEF Imports
    <3>4. f.node \in Nat \ {0}
      BY <3>1, <3>3, TreeFacts
    <3>5. f.node \in Path(f.node)
      BY <3>1, <3>3, PathIsClosed
    <3> QED BY <3>1, <3>2, <3>3, <3>4, <3>5 DEF Kind
  <2>5. ASSUME NEW f \in facts
        PROVE  /\ f.context.inFunction = (Entered(f.node, {"function"}, {"body"}) # {})
               /\ f.context.conditional = \E m \in Path(f.node) : Kind(m) \in {"if", "block"}
               /\ f.context.handler = \E m \in Path(f.node) : Kind(m) = "handler"
               /\ f.context.typingOnly = \E m \in Entered(f.node, {"if"}, {"body"}) : ChecksTyping(tree[m].parent)
    <3>1. /\ f.context.inFunction \in BOOLEAN /\ f.context.conditional \in BOOLEAN
          /\ f.context.handler \in BOOLEAN /\ f.context.typingOnly \in BOOLEAN
      BY <2>4 DEF ContextType
    <3>2. f.context.conditional <=> \E m \in Path(f.node) : Kind(m) \in {"if", "block"}
      BY <2>4 DEF Says, Conditional
    <3>3. f.context.handler <=> \E m \in Path(f.node) : Kind(m) = "handler"
      BY <2>4 DEF Says, InHandler
    <3> QED BY <2>4, <3>1, <3>2, <3>3 DEF Says, InFunction, Guarded
  <2> QED BY <2>3, <2>4, <2>5 DEF Says
<1> QED BY <1>1, InductiveInvariant, PTL
-----------------------------------------------------------------------------
(* One step of a body.                                                     *)

LEMMA CurrentIsFirst ==
  ASSUME RunInv, frames # <<>>, Ready # {}
  PROVE  /\ Top \in BodyType /\ BodyInv(Top) /\ Len(frames) \in 1 .. Len(frames)
         /\ Current \in Nodes /\ Current > Top.at /\ <<tree[Current].parent, tree[Current].field>> \in Top.entered
         /\ \A k \in Ready : Current <= k
<1>1. frames \in Seq(BodyType) /\ \A i \in 1 .. Len(frames) : BodyInv(frames[i])
  BY DEF RunInv, FramesInv, Bodies
<1>2. Len(frames) \in 1 .. Len(frames)
  BY <1>1
<1>3. Top \in BodyType /\ BodyInv(Top)
  BY <1>1, <1>2 DEF Top
<1>4. Ready \in SUBSET Nat
  BY TreeFacts DEF Ready, RunInv
<1>5. PICK m \in Ready : \A k \in Ready : m <= k
  BY <1>4, LeastElementExists
<1>6. Current \in Ready /\ \A k \in Ready : Current <= k
  BY <1>5 DEF Current, Min
<1> QED BY <1>2, <1>3, <1>6 DEF Ready

\* What a body may enter decides about the statements it leads to.
LEMMA WhereCurrentStands ==
  ASSUME RunInv, frames # <<>>, Ready # {}
  PROVE  /\ Top.owner = 0 => ~ InFunction(Current)
         /\ Top.owner # 0 => InFunction(Current) \/ Kind(Current) \in Expressions
         /\ setBy = {} => ~ Guarded(Current)
<1> DEFINE n == tree[Current].parent
           e == <<n, tree[Current].field>>
<1>1. Current \in Nodes /\ MayEnter(Top.owner, e) /\ tree \in Trees
  BY CurrentIsFirst DEF BodyInv, RunInv
<1>2. n \in Nodes \cup {0} /\ Current \in Children(n)
  BY <1>1, TreeKinds DEF Children
<1>3. /\ InFunction(Current) <=> InFunction(n) \/ (tree[Current].field = "body" /\ Kind(n) = "function")
      /\ Guarded(Current) <=> Guarded(n) \/ (tree[Current].field = "body" /\ ChecksTyping(n))
  BY <1>1, <1>2, StandingOfChild
<1>4. e[1] = n /\ e[2] = tree[Current].field
  OBVIOUS
<1>5. \/ Kind(Current) \in Expressions \/ tree[Current].field = "body"
      \/ Kind(n) \in {"if", "block", "case"}
  BY <1>1, TreeKinds
<1> HIDE DEF n, e
<1>6. IF Top.owner = 0 THEN ~ InFunction(n) /\ Kind(n) # "function" ELSE InFunction(n) \/ Kind(n) = "function"
  BY <1>1, <1>4 DEF MayEnter
<1>7. setBy = {} => ~ Guarded(n) /\ ~ (e[2] = "body" /\ ChecksTyping(n))
  BY <1>1, <1>4 DEF MayEnter
<1> QED BY <1>3, <1>4, <1>5, <1>6, <1>7

\* The statements that run whenever the module body does stand below such statements only.
LEMMA StraightParent ==
  ASSUME tree \in Trees, NEW k \in Nodes, Straight(k), tree[k].parent # 0
  PROVE  /\ tree[k].parent \in Nodes /\ Straight(tree[k].parent)
         /\ \/ Kind(tree[k].parent) \in {"class", "handler"} /\ tree[k].field = "body"
            \/ Kind(tree[k].parent) = "case"
<1> DEFINE n == tree[k].parent
<1>1. n \in Nodes /\ k \in Children(n) /\ Kind(n) \in Compounds
  BY TreeKinds DEF Children
<1>2. /\ InFunction(k) <=> InFunction(n) \/ (tree[k].field = "body" /\ Kind(n) = "function")
      /\ Conditional(k) <=> Conditional(n) \/ Kind(n) \in {"if", "block"}
  BY <1>1, StandingOfChild
<1>3. tree[k].field = "body" \/ Kind(n) \in {"if", "block", "case"}
  BY TreeKinds DEF Straight
<1> HIDE DEF n
<1>4. /\ Straight(n)
      /\ (Kind(n) \in {"class", "handler"} /\ tree[k].field = "body") \/ Kind(n) = "case"
  BY <1>1, <1>2, <1>3 DEF Straight, Compounds, Expressions
<1> QED BY <1>1, <1>4 DEF n

\* The module body passes over none of them.
LEMMA NonePassedOver ==
  ASSUME RunInv, frames # <<>>, Top.owner = 0, NEW k \in Nodes, Straight(k), k > Top.at
  PROVE  \E j \in Ready : j <= k
<1>1. Top \in BodyType /\ BodyInv(Top)
  <2>1. Len(frames) \in 1 .. Len(frames) /\ frames \in Seq(BodyType)
    BY DEF RunInv, FramesInv
  <2> QED BY <2>1 DEF RunInv, FramesInv, Bodies, Top
<1>2. tree \in Trees /\ Top.at \in Nat
  BY <1>1, TreeFacts DEF RunInv, BodyType
<1> DEFINE S == {j \in Nodes : Straight(j) /\ j > Top.at}
<1>3. S \in SUBSET Nat /\ k \in S
  BY <1>2, TreeFacts
<1>4. PICK j \in S : \A i \in S : j <= i
  BY <1>3, LeastElementExists
<1>5. j \in Nodes /\ Straight(j) /\ j > Top.at /\ j \in Nat
  BY <1>3, <1>4
<1>6. <<tree[j].parent, tree[j].field>> \in Top.entered
  <2>1. CASE tree[j].parent = 0
    <3>1. tree[j].field = "body"
      BY <1>2, <1>5, <2>1, TreeKinds DEF Straight
    <3> QED BY <1>1, <2>1, <3>1 DEF BodyInv
  <2>2. CASE tree[j].parent # 0
    <3> DEFINE n == tree[j].parent
    <3>1. /\ n \in Nodes /\ Straight(n)
          /\ (Kind(n) \in {"class", "handler"} /\ tree[j].field = "body") \/ Kind(n) = "case"
      BY <1>2, <1>5, <2>2, StraightParent
    <3>2. n \in Nat /\ n < j /\ j \in Children(n)
      BY <1>2, <1>5, <3>1, TreeFacts DEF Children
    <3>3. n \notin S
      BY <1>4, <1>5, <3>2
    <3>4. n <= Top.at
      BY <1>2, <3>1, <3>2, <3>3
    <3>5. Executed(n, Top.entered)
      BY <1>1, <3>1, <3>4 DEF BodyInv
    <3> HIDE DEF n
    <3>6. <<n, tree[j].field>> \in Top.entered
      BY <3>1, <3>2, <3>5 DEF Executed, Fields
    <3> QED BY <3>6 DEF n
  <2> QED BY <2>1, <2>2
<1> QED BY <1>3, <1>4, <1>5, <1>6 DEF Ready

\* What holds of a body holds as more imports run and the flag is set.
LEMMA BodyStays ==
  ASSUME tree' = tree, ran \subseteq ran', setBy \subseteq setBy', NEW fr, BodyInv(fr)
  PROVE  BodyInv(fr)'
<1>1. ASSUME NEW e \in fr.entered PROVE MayEnter(fr.owner, e)'
  <2>1. MayEnter(fr.owner, e) /\ (setBy' = {} => setBy = {})
    BY DEF BodyInv
  <2>2. /\ InFunction(e[1])' <=> InFunction(e[1])
        /\ Guarded(e[1])' <=> Guarded(e[1])
        /\ ChecksTyping(e[1])' <=> ChecksTyping(e[1])
        /\ Kind(e[1])' = Kind(e[1])
    BY NodeStays
  <2> QED BY <2>1, <2>2 DEF MayEnter
<1>2. \A k : HasRun(k) => HasRun(k)'
  BY DEF HasRun
<1>3. ASSUME fr.owner = 0, NEW k \in Nodes', k <= fr.at, Straight(k)' PROVE Executed(k, fr.entered)'
  <2>1. Executed(k, fr.entered)
    BY <1>3, TreeStays, NodeStays DEF BodyInv
  <2>2. Kind(k)' = Kind(k) /\ Fields(k)' = Fields(k) /\ Imports' = Imports
    BY TreeStays, NodeStays
  <2> QED BY <1>2, <2>1, <2>2 DEF Executed
<1> QED BY <1>1, <1>3 DEF BodyInv

\* The innermost body advances to its current statement and enters some of its fields.
LEMMA AdvanceKeepsFrames ==
  ASSUME RunInv, frames # <<>>, Ready # {}, tree' = tree, ran \subseteq ran', setBy \subseteq setBy',
         NEW new \in SUBSET ({Current} \X FieldNames), Advance(new),
         new # {} => Kind(Current) \in Compounds \ {"function"},
         setBy = {} /\ ChecksTyping(Current) => <<Current, "body">> \notin new,
         Top.owner = 0 /\ Straight(Current) =>
           /\ Current \in Imports => \E r \in ran' : r.node = Current
           /\ Kind(Current) \in {"class", "handler"} => <<Current, "body">> \in new
           /\ Kind(Current) = "case" => Fields(Current) \subseteq new
  PROVE  FramesInv'
<1> DEFINE next == [owner |-> Top.owner, at |-> Current, entered |-> Top.entered \cup new]
<1>1. tree \in Trees /\ frames \in Seq(BodyType) /\ \A fr \in Bodies : BodyInv(fr)
  BY DEF RunInv, FramesInv
<1>2. /\ Top \in BodyType /\ BodyInv(Top) /\ Len(frames) \in 1 .. Len(frames)
      /\ Current \in Nodes /\ \A k \in Ready : Current <= k
  BY CurrentIsFirst
<1>3. next \in BodyType
  <2>1. new \in SUBSET ((Nodes \cup {0}) \X FieldNames)
    BY <1>2
  <2> QED BY <1>2, <2>1 DEF BodyType
<1>4. frames' = [frames EXCEPT ![Len(frames)] = next]
  BY DEF Advance
<1>5. PICK fr : fr = next
  OBVIOUS
<1>6. fr.owner = Top.owner /\ fr.at = Current /\ fr.entered = Top.entered \cup new
  BY <1>5
<1> HIDE DEF next
<1>7. ASSUME NEW e \in fr.entered PROVE MayEnter(fr.owner, e)'
  <2>1. MayEnter(fr.owner, e)
    <3>1. CASE e \in Top.entered
      BY <1>2, <1>6, <3>1 DEF BodyInv
    <3>2. CASE e \in new
      <4>1. e[1] = Current /\ e = <<Current, e[2]>>
        BY <3>2
      <4>2. Kind(Current) \in Compounds \ {"function"}
        BY <3>2
      <4>3. /\ Top.owner = 0 => ~ InFunction(Current)
            /\ Top.owner # 0 => InFunction(Current) \/ Kind(Current) \in Expressions
            /\ setBy = {} => ~ Guarded(Current)
        BY WhereCurrentStands
      <4>4. setBy = {} => ~ (e[2] = "body" /\ ChecksTyping(Current))
        BY <3>2, <4>1
      <4> QED BY <1>6, <4>1, <4>2, <4>3, <4>4 DEF MayEnter, Compounds, Expressions
    <3> QED BY <1>6, <1>7, <3>1, <3>2
  <2>2. /\ InFunction(e[1])' <=> InFunction(e[1])
        /\ Guarded(e[1])' <=> Guarded(e[1])
        /\ ChecksTyping(e[1])' <=> ChecksTyping(e[1])
        /\ Kind(e[1])' = Kind(e[1])
    BY NodeStays
  <2> QED BY <2>1, <2>2 DEF MayEnter
<1>8. ASSUME fr.owner = 0 PROVE <<0, "body">> \in fr.entered
  BY <1>2, <1>6, <1>8 DEF BodyInv
<1>9. ASSUME fr.owner = 0, NEW k \in Nodes', k <= fr.at, Straight(k)' PROVE Executed(k, fr.entered)'
  <2>1. /\ Nodes' = Nodes /\ Imports' = Imports /\ Kind(k)' = Kind(k) /\ Fields(k)' = Fields(k)
        /\ Straight(k)' <=> Straight(k)
    BY TreeStays, NodeStays
  <2>2. k \in Nodes /\ Straight(k)
    BY <1>9, <2>1
  <2>3. CASE k <= Top.at
    <3>1. Executed(k, Top.entered)
      BY <1>2, <1>6, <1>9, <2>2, <2>3 DEF BodyInv
    <3>2. HasRun(k) => HasRun(k)'
      BY DEF HasRun
    <3> QED BY <1>6, <2>1, <3>1, <3>2 DEF Executed
  <2>4. CASE ~ (k <= Top.at)
    <3>1. k \in Nat /\ Top.at \in Nat /\ Current \in Nat /\ Ready \subseteq Nat
      BY <1>1, <1>2, <2>2, TreeFacts DEF BodyType, Ready
    <3>2. PICK j \in Ready : j <= k
      BY <1>6, <1>9, <2>2, <2>4, <3>1, NonePassedOver
    <3>3. k = Current
      BY <1>2, <1>6, <1>9, <3>1, <3>2
    <3>4. /\ k \in Imports => HasRun(k)'
          /\ Kind(k) \in {"class", "handler"} => <<k, "body">> \in new
          /\ Kind(k) = "case" => Fields(k) \subseteq new
      BY <1>6, <1>9, <2>2, <3>3 DEF HasRun
    <3> QED BY <1>6, <2>1, <3>4 DEF Executed
  <2> QED BY <2>3, <2>4
<1>10. BodyInv(fr)'
  BY <1>7, <1>8, <1>9 DEF BodyInv
<1>11. frames' \in Seq(BodyType') /\ Bodies' \subseteq Bodies \cup {fr}
  <2>1. BodyType' = BodyType
    BY TreeStays
  <2>2. frames' \in Seq(BodyType) /\ Len(frames') = Len(frames)
    BY <1>1, <1>2, <1>3, <1>4
  <2>3. \A i \in 1 .. Len(frames) : frames'[i] \in Bodies \cup {fr}
    BY <1>1, <1>2, <1>4, <1>5 DEF Bodies
  <2> QED BY <2>1, <2>2, <2>3 DEF Bodies
<1>12. ASSUME NEW f \in Bodies' PROVE BodyInv(f)'
  BY <1>1, <1>10, <1>11, BodyStays
<1> QED BY <1>11, <1>12 DEF FramesInv

\* What a step leaves alone keeps its part of the invariant.
LEMMA PartsStay ==
  ASSUME RunInv, tree' = tree, setBy \subseteq setBy'
  PROVE  /\ UNCHANGED env => EnvInv'
         /\ UNCHANGED <<flag, setBy>> => FlagInv'
         /\ UNCHANGED defined => DefinedInv'
         /\ UNCHANGED ran => RanInv'
         /\ ran \subseteq ran' /\ UNCHANGED outcome => EndInv'
<1>1. setBy' = {} => setBy = {}
  OBVIOUS
<1>2. ASSUME UNCHANGED env PROVE EnvInv'
  BY <1>1, <1>2, TreeStays DEF RunInv, EnvInv, MayBe
<1>3. ASSUME UNCHANGED <<flag, setBy>> PROVE FlagInv'
  BY <1>3, TreeStays DEF RunInv, FlagInv
<1>4. ASSUME UNCHANGED defined PROVE DefinedInv'
  <2> SUFFICES ASSUME NEW f \in defined'
               PROVE  f \in Nodes' /\ Kind(f)' = "function" /\ (setBy' = {} => ~ Guarded(f)')
    BY DEF DefinedInv
  <2>1. f \in Nodes /\ Kind(f) = "function" /\ (setBy = {} => ~ Guarded(f))
    BY <1>4 DEF RunInv, DefinedInv
  <2> QED BY <1>1, <2>1, TreeStays, NodeStays
<1>5. ASSUME UNCHANGED ran PROVE RanInv'
  <2> SUFFICES ASSUME NEW r \in ran'
               PROVE  r.node \in Imports' /\ r.called = InFunction(r.node)' /\ (setBy' = {} => ~ Guarded(r.node)')
    BY DEF RanInv
  <2>1. r.node \in Imports /\ r.called = InFunction(r.node) /\ (setBy = {} => ~ Guarded(r.node))
    BY <1>5 DEF RunInv, RanInv
  <2> QED BY <1>1, <2>1, TreeStays, NodeStays DEF InFunction
<1>6. ASSUME ran \subseteq ran', UNCHANGED outcome PROVE EndInv'
  <2> SUFFICES ASSUME outcome' = "ended", NEW k \in Imports', Straight(k)' PROVE HasRun(k)'
    BY DEF EndInv
  <2>1. k \in Imports /\ Straight(k)
    BY TreeStays, NodeStays
  <2> QED BY <1>6, <2>1 DEF RunInv, EndInv, HasRun
<1> QED BY <1>2, <1>3, <1>4, <1>5, <1>6

\* Binding another name, or one of the extractor's to what it may be.
LEMMA BindKeepsEnv ==
  ASSUME RunInv, tree' = tree, setBy \subseteq setBy', NEW s, NEW n, NEW value, Bind(s, n, value),
         setBy = {} => MayBe(n, value)
  PROVE  EnvInv'
<1>1. env' = [env EXCEPT ![s][n] = value] /\ EnvInv
  BY DEF Bind, RunInv
<1>2. DOMAIN env' = Nodes \cup {0} /\ \A o \in Nodes \cup {0} : DOMAIN env'[o] = Names
  BY <1>1 DEF EnvInv
<1>3. ASSUME setBy' = {}, NEW o \in Nodes \cup {0}, NEW m \in Names PROVE MayBe(m, env'[o][m])
  <2>1. MayBe(m, env[o][m]) /\ (setBy = {} => MayBe(n, value))
    BY <1>1, <1>3 DEF EnvInv
  <2>2. CASE o = s /\ m = n
    BY <1>1, <1>3, <2>1, <2>2 DEF EnvInv
  <2>3. CASE ~ (o = s /\ m = n)
    <3>1. env'[o][m] = env[o][m]
      BY <1>1, <2>3 DEF EnvInv
    <3> QED BY <2>1, <3>1
  <2> QED BY <2>2, <2>3
<1> QED BY <1>2, <1>3, TreeStays DEF EnvInv, MayBe

\* What the program itself binds is none of the names the extractor relies on.
LEMMA OtherNames ==
  ASSUME tree \in Trees, NEW k \in Nodes, Kind(k) \in {"name", "attribute", "function", "class", "handler", "arg"}, NEW value
  PROVE  MayBe(tree[k].id, value)
BY AliasBinding DEF MayBe

\* A test of one of these names does not hold, as long as nobody has set the flag.
LEMMA TestsFail ==
  ASSUME RunInv, setBy = {}, NEW k \in Nodes, ChecksTyping(k)
  PROVE  Outcomes(k) \subseteq {FALSE}
<1> DEFINE n == tree[k].test.id
           value == Value(Scope(k), n)
<1>1. tree \in Trees /\ EnvInv /\ flag = FALSE
  BY DEF RunInv, FlagInv
<1>2. Kind(k) = "if" /\ n \in Names
  BY DEF ChecksTyping, Names
<1>3. PICK o \in Nodes \cup {0} : value = env[o][n]
  BY <1>1, ScopeIsNode, ValueComesFromScope
<1>4. MayBe(n, value)
  BY <1>1, <1>2, <1>3 DEF EnvInv
<1>5. CASE tree[k].test.form = "name" /\ n \in DirectAliases
  <2>1. value \in {"unbound", "false"}
    BY <1>4, <1>5 DEF MayBe
  <2>2. Outcomes(k) = Truth(value)
    BY <1>5 DEF Outcomes
  <2> QED BY <2>1, <2>2 DEF Truth
<1>6. CASE tree[k].test.form = "attribute" /\ n \in QualifiedAliases
  <2>1. value \in {"unbound", "typing"}
    BY <1>4, <1>6 DEF MayBe
  <2>2. Outcomes(k) = IF value = "typing" THEN {flag} ELSE IF value = "any" THEN BOOLEAN ELSE {}
    BY <1>6 DEF Outcomes
  <2> QED BY <1>1, <2>1, <2>2
<1> QED BY <1>5, <1>6 DEF ChecksTyping
-----------------------------------------------------------------------------
(* The steps.                                                              *)

LEMMA ImportKeeps ==
  ASSUME RunInv, tree' = tree, frames # <<>>, Ready # {}, RunImport
  PROVE  RunInv'
<1>1. /\ Current \in Imports /\ Advance({})
      /\ ran' = ran \cup {[node |-> Current, called |-> Top.owner # 0]}
      /\ UNCHANGED <<flag, setBy, defined, calls, outcome>>
  BY DEF RunImport
<1>2. tree \in Trees /\ EnvInv /\ Current \in Nodes /\ Kind(Current) \in {"import", "from"}
  BY <1>1, TreeKinds DEF RunInv, Imports
<1>3. FramesInv'
  <2>1. ran \subseteq ran' /\ setBy \subseteq setBy' /\ {} \in SUBSET ({Current} \X FieldNames)
    BY <1>1
  <2>2. [node |-> Current, called |-> Top.owner # 0] \in ran'
    BY <1>1
  <2>3. \E r \in ran' : r.node = Current
    BY <2>2
  <2> QED BY <1>1, <1>2, <2>1, <2>3, AdvanceKeepsFrames
<1>4. EnvInv'
  <2> DEFINE items == DOMAIN tree[Current].aliases
             Of(n) == {i \in items : Item(<<Current, i>>).bound = n}
  <2>1. env' = [env EXCEPT ![Scope(Current)] =
                 [n \in Names |->
                    IF \E i \in items : Item(<<Current, i>>).name = "*" THEN "any"
                    ELSE IF Of(n) # {} THEN ImportedValue(Current, Item(<<Current, Max(Of(n))>>))
                    ELSE env[Scope(Current)][n]]]
    BY DEF RunImport
  <2>2. \A i \in items : <<Current, i>> \in Items
    BY <1>1 DEF Items
  <2>3. \A n : Of(n) # {} => Max(Of(n)) \in Of(n)
    <3> SUFFICES ASSUME NEW n, Of(n) # {} PROVE Max(Of(n)) \in Of(n)
      OBVIOUS
    <3>1. Len(tree[Current].aliases) \in Nat /\ items = 1 .. Len(tree[Current].aliases)
      BY <1>1, <1>2, TreeKinds
    <3>2. Of(n) \in SUBSET (0 .. Len(tree[Current].aliases))
      BY <3>1
    <3> HIDE DEF Of, items
    <3> QED BY <3>1, <3>2, GreatestElementExists
  <2>4. ASSUME setBy = {}, NEW n \in Names, Of(n) # {}
        PROVE  MayBe(n, ImportedValue(Current, Item(<<Current, Max(Of(n))>>)))
    <3>1. PICK i \in items : i = Max(Of(n)) /\ Item(<<Current, i>>).bound = n
      BY <2>3, <2>4
    <3>2. PICK p \in Items : p = <<Current, i>>
      BY <2>2
    <3>3. p[1] = Current /\ Item(p).bound = n /\ ~ flag
      BY <2>4, <3>1, <3>2 DEF RunInv, FlagInv
    <3>4. n \in QualifiedAliases => Item(p).module = "typing" /\ Kind(Current) = "import"
      BY <1>2, <3>3, AliasBinding
    <3>5. n \in DirectAliases => Item(p).module = "typing" /\ Kind(Current) # "import" /\ Item(p).name = "TYPE_CHECKING"
      BY <1>2, <3>3, AliasBinding
    <3>6. MayBe(n, ImportedValue(Current, Item(p)))
      BY <3>3, <3>4, <3>5 DEF MayBe, ImportedValue
    <3> QED BY <3>1, <3>2, <3>6
  <2>5. ASSUME NEW n \in DirectAliases \cup QualifiedAliases, NEW i \in items PROVE Item(<<Current, i>>).name # "*"
    <3>1. PICK p \in Items : p = <<Current, i>>
      BY <2>2
    <3>2. Item(p).name # "*"
      BY <1>2, AliasBinding
    <3> QED BY <3>1, <3>2
  <2> HIDE DEF Of, items
  <2>6. DOMAIN env' = Nodes \cup {0} /\ \A o \in Nodes \cup {0} : DOMAIN env'[o] = Names
    BY <1>2, <2>1 DEF EnvInv
  <2>7. ASSUME setBy = {}, NEW o \in Nodes \cup {0}, NEW n \in Names PROVE MayBe(n, env'[o][n])
    <3>1. MayBe(n, env[o][n])
      BY <1>2, <2>7 DEF EnvInv
    <3>2. CASE o = Scope(Current) /\ n \in DirectAliases \cup QualifiedAliases
      <4>1. ~ \E i \in items : Item(<<Current, i>>).name = "*"
        BY <2>5, <3>2
      <4>2. env'[o][n] = IF Of(n) # {} THEN ImportedValue(Current, Item(<<Current, Max(Of(n))>>)) ELSE env[o][n]
        BY <1>2, <2>1, <3>2, <4>1 DEF EnvInv
      <4> QED BY <2>4, <2>7, <3>1, <4>2
    <3>3. CASE n \notin DirectAliases \cup QualifiedAliases
      BY <3>3 DEF MayBe
    <3>4. CASE o # Scope(Current)
      <4>1. env'[o] = env[o]
        BY <1>2, <2>1, <3>4 DEF EnvInv
      <4> QED BY <3>1, <4>1
    <3> QED BY <3>2, <3>3, <3>4
  <2>8. setBy' = setBy
    BY <1>1
  <2> QED BY <2>6, <2>7, <2>8, TreeStays DEF EnvInv, MayBe
<1>5. RanInv'
  <2> SUFFICES ASSUME NEW r \in ran'
               PROVE  r.node \in Imports' /\ r.called = InFunction(r.node)' /\ (setBy' = {} => ~ Guarded(r.node)')
    BY DEF RanInv
  <2>1. r.node \in Imports /\ r.called = InFunction(r.node) /\ (setBy = {} => ~ Guarded(r.node))
    <3>1. CASE r \in ran
      BY <3>1 DEF RunInv, RanInv
    <3>2. CASE r = [node |-> Current, called |-> Top.owner # 0]
      <4>1. /\ Top.owner = 0 => ~ InFunction(Current)
            /\ Top.owner # 0 => InFunction(Current)
            /\ setBy = {} => ~ Guarded(Current)
        BY <1>2, WhereCurrentStands DEF Expressions
      <4>2. (Top.owner # 0) = InFunction(Current)
        BY <4>1 DEF InFunction
      <4> QED BY <1>1, <3>2, <4>1, <4>2
    <3> QED BY <1>1, <3>1, <3>2
  <2> QED BY <1>1, <2>1, TreeStays, NodeStays DEF InFunction
<1>6. FlagInv' /\ DefinedInv' /\ EndInv' /\ tree' \in Trees
  BY <1>1, <1>2, PartsStay
<1> QED BY <1>3, <1>4, <1>5, <1>6 DEF RunInv

\* Statements that bind a name of their own, and may be entered if they are classes or handlers.
LEMMA BindingKeeps ==
  ASSUME RunInv, tree' = tree, frames # <<>>, Ready # {}, NEW new \in SUBSET {<<Current, "body">>}, Advance(new),
         Kind(Current) \in {"name", "arg", "function", "class", "handler"},
         new # {} <=> Kind(Current) \in {"class", "handler"},
         EnvInv', UNCHANGED <<flag, setBy, calls, ran, outcome>>,
         defined' = defined \/ (Kind(Current) = "function" /\ defined' = defined \cup {Current})
  PROVE  RunInv'
<1>1. tree \in Trees /\ Current \in Nodes
  BY CurrentIsFirst DEF RunInv
<1>2. FramesInv'
  <2>1. new \in SUBSET ({Current} \X FieldNames)
    BY DEF FieldNames
  <2>2. /\ new # {} => Kind(Current) \in Compounds \ {"function"}
        /\ ~ ChecksTyping(Current)
    BY DEF Compounds, ChecksTyping
  <2>3. /\ Current \notin Imports /\ Kind(Current) # "case"
        /\ Kind(Current) \in {"class", "handler"} => <<Current, "body">> \in new
    BY <1>1, TreeKinds DEF Imports
  <2> QED BY <2>1, <2>2, <2>3, AdvanceKeepsFrames
<1>3. DefinedInv'
  <2> SUFFICES ASSUME NEW f \in defined'
               PROVE  f \in Nodes' /\ Kind(f)' = "function" /\ (setBy' = {} => ~ Guarded(f)')
    BY DEF DefinedInv
  <2>1. f \in Nodes /\ Kind(f) = "function" /\ (setBy = {} => ~ Guarded(f))
    <3>1. CASE f \in defined
      BY <3>1 DEF RunInv, DefinedInv
    <3>2. CASE f = Current /\ Kind(Current) = "function"
      BY <1>1, <3>2, WhereCurrentStands
    <3> QED BY <3>1, <3>2
  <2> QED BY <2>1, TreeStays, NodeStays
<1>4. FlagInv' /\ RanInv' /\ EndInv' /\ tree' \in Trees
  BY <1>1, PartsStay
<1> QED BY <1>2, <1>3, <1>4 DEF RunInv

\* Such a statement binds none of the names the extractor relies on.
LEMMA BindingKeepsEnv ==
  ASSUME RunInv, tree' = tree, frames # <<>>, Ready # {}, setBy' = setBy, NEW s, NEW value,
         Kind(Current) \in {"name", "arg", "function", "class", "handler"}, Bind(s, tree[Current].id, value)
  PROVE  EnvInv'
<1>1. MayBe(tree[Current].id, value)
  BY CurrentIsFirst, OtherNames DEF RunInv
<1> QED BY <1>1, BindKeepsEnv

LEMMA ClassKeeps ==
  ASSUME RunInv, tree' = tree, frames # <<>>, Ready # {}, RunClass
  PROVE  RunInv'
<1>1. /\ Kind(Current) = "class" /\ Advance({<<Current, "body">>})
      /\ env' = [env EXCEPT ![Current] = NothingBound, ![Scope(Current)] = [@ EXCEPT ![tree[Current].id] = "any"]]
      /\ UNCHANGED <<flag, setBy, defined, calls, ran, outcome>>
  BY DEF RunClass
<1>2. tree \in Trees /\ EnvInv /\ Current \in Nodes
  BY CurrentIsFirst DEF RunInv
<1>3. EnvInv'
  <2> DEFINE id == tree[Current].id
  <2>1. MayBe(id, "any")
    BY <1>1, <1>2, OtherNames
  <2> HIDE DEF id
  <2>2. DOMAIN env' = Nodes \cup {0} /\ \A o \in Nodes \cup {0} : DOMAIN env'[o] = Names
    BY <1>1, <1>2 DEF EnvInv, NothingBound
  <2>3. ASSUME setBy = {}, NEW o \in Nodes \cup {0}, NEW n \in Names PROVE MayBe(n, env'[o][n])
    <3>1. MayBe(n, env[o][n]) /\ MayBe(n, "unbound")
      BY <1>2, <2>3 DEF EnvInv, MayBe
    <3>2. env'[o][n] \in {env[o][n], "unbound"} \/ (n = id /\ env'[o][n] = "any")
      BY <1>1, <1>2 DEF EnvInv, NothingBound, id
    <3> QED BY <2>1, <3>1, <3>2
  <2> QED BY <1>1, <2>2, <2>3, TreeStays DEF EnvInv, MayBe
<1> QED BY <1>1, <1>3, BindingKeeps

\* Statements that bind nothing and run nothing: branches, blocks and what is passed over.
LEMMA PassingKeeps ==
  ASSUME RunInv, tree' = tree, frames # <<>>, Ready # {}, Passed,
         NEW new \in SUBSET ({Current} \X FieldNames), Advance(new),
         new # {} => Kind(Current) \in Compounds \ {"function"},
         setBy = {} /\ ChecksTyping(Current) => <<Current, "body">> \notin new,
         Top.owner = 0 /\ Straight(Current) =>
           Kind(Current) \notin {"import", "from", "class", "handler"} /\ (Kind(Current) = "case" => Fields(Current) \subseteq new)
  PROVE  RunInv'
<1>1. UNCHANGED <<env, flag, setBy, defined, calls, ran, outcome>>
  BY DEF Passed
<1>2. tree \in Trees /\ Current \in Nodes
  BY CurrentIsFirst DEF RunInv
<1>3. FramesInv'
  <2>1. Current \in Imports => Kind(Current) \in {"import", "from"}
    BY <1>2, TreeKinds DEF Imports
  <2> QED BY <1>1, <2>1, AdvanceKeepsFrames
<1> QED BY <1>1, <1>2, <1>3, PartsStay DEF RunInv

LEMMA SkipKeeps ==
  ASSUME RunInv, tree' = tree, frames # <<>>, Ready # {}, Skip
  PROVE  RunInv'
<1>1. Advance({}) /\ Passed /\ Skippable(Current)
  BY DEF Skip
<1>2. ~ (Top.owner = 0 /\ Straight(Current))
  BY <1>1 DEF Skippable, Straight, Conditional
<1> QED BY <1>1, <1>2, PassingKeeps

LEMMA BlockKeeps ==
  ASSUME RunInv, tree' = tree, frames # <<>>, Ready # {}, RunBlock
  PROVE  RunInv'
<1>1. Kind(Current) \in {"block", "case"} /\ Advance(Fields(Current)) /\ Passed
  BY DEF RunBlock
<1>2. Fields(Current) \in SUBSET ({Current} \X FieldNames)
  BY DEF Fields, FieldNames, Children
<1>3. ~ ChecksTyping(Current) /\ Kind(Current) \in Compounds \ {"function"}
  BY <1>1 DEF ChecksTyping, Compounds
<1> QED BY <1>1, <1>2, <1>3, PassingKeeps

LEMMA IfKeeps ==
  ASSUME RunInv, tree' = tree, frames # <<>>, Ready # {}, RunIf
  PROVE  RunInv'
<1>1. PICK holds \in Outcomes(Current) : Advance({<<Current, IF holds THEN "body" ELSE "orelse">>})
  BY DEF RunIf
<1>2. Kind(Current) = "if" /\ Passed
  BY DEF RunIf
<1> DEFINE new == {<<Current, IF holds THEN "body" ELSE "orelse">>}
<1>3. new \in SUBSET ({Current} \X FieldNames) /\ Kind(Current) \in Compounds \ {"function"}
  BY <1>2 DEF FieldNames, Compounds
<1>4. ASSUME setBy = {}, ChecksTyping(Current) PROVE <<Current, "body">> \notin new
  <2>1. Outcomes(Current) \subseteq {FALSE}
    BY <1>4, CurrentIsFirst, TestsFail
  <2>2. holds = FALSE
    BY <2>1
  <2> QED BY <2>2
<1>5. Advance(new)
  BY <1>1
<1> HIDE DEF new
<1> QED BY <1>2, <1>3, <1>4, <1>5, PassingKeeps

LEMMA AssignFlagKeeps ==
  ASSUME RunInv, tree' = tree, frames # <<>>, Ready # {}, RunAssignFlag
  PROVE  RunInv'
<1>1. /\ Kind(Current) = "attribute" /\ Advance({}) /\ UNCHANGED <<env, defined, calls, ran, outcome>>
      /\ (flag' = TRUE /\ setBy' = setBy \cup {tree[Current].id}) \/ UNCHANGED <<flag, setBy>>
  BY DEF RunAssignFlag
<1>2. tree \in Trees /\ Current \in Nodes /\ setBy \subseteq setBy' /\ FlagInv
  BY <1>1, CurrentIsFirst DEF RunInv
<1>3. FramesInv'
  <2>1. Current \notin Imports
    BY <1>1, <1>2, TreeKinds DEF Imports
  <2> QED BY <1>1, <1>2, <2>1, AdvanceKeepsFrames
<1>4. FlagInv'
  <2>1. tree[Current].id \in Binding({"attribute"})
    BY <1>1, <1>2 DEF Binding
  <2>2. Binding({"attribute"})' = Binding({"attribute"})
    BY TreeStays
  <2>3. CASE flag' = TRUE /\ setBy' = setBy \cup {tree[Current].id}
    <3>1. setBy' \subseteq Binding({"attribute"})' /\ setBy' # {}
      BY <1>2, <2>1, <2>2, <2>3 DEF FlagInv
    <3>2. flag' \in BOOLEAN
      BY <2>3
    <3> QED BY <3>1, <3>2 DEF FlagInv
  <2>4. CASE UNCHANGED <<flag, setBy>>
    BY <1>2, <2>4, PartsStay
  <2> QED BY <1>1, <2>3, <2>4
<1> QED BY <1>1, <1>2, <1>3, <1>4, PartsStay DEF RunInv

\* The innermost body is left.
LEMMA PopKeepsFrames ==
  ASSUME RunInv, tree' = tree, frames # <<>>, UNCHANGED <<ran, setBy>>, frames' = SubSeq(frames, 1, Len(frames) - 1)
  PROVE  FramesInv'
<1>1. frames \in Seq(BodyType) /\ (\A fr \in Bodies : BodyInv(fr)) /\ BodyType' = BodyType
  BY TreeStays DEF RunInv, FramesInv
<1>2. frames' \in Seq(BodyType) /\ Bodies' \subseteq Bodies
  BY <1>1 DEF Bodies
<1>3. ASSUME NEW fr \in Bodies' PROVE BodyInv(fr)'
  BY <1>1, <1>2, BodyStays
<1> QED BY <1>1, <1>2, <1>3 DEF FramesInv

LEMMA RaiseKeeps ==
  ASSUME RunInv, tree' = tree, frames # <<>>, Ready # {}, Raise
  PROVE  RunInv'
<1>1. /\ frames' = SubSeq(frames, 1, Len(frames) - 1) /\ UNCHANGED <<env, flag, setBy, defined, calls, ran>>
      /\ outcome' = IF Top.owner = 0 THEN "raised" ELSE outcome
  BY DEF Raise
<1>2. EndInv'
  BY <1>1, PartsStay DEF EndInv
<1> QED BY <1>1, <1>2, PopKeepsFrames, PartsStay DEF RunInv

LEMMA ReturnKeeps ==
  ASSUME RunInv, tree' = tree, Return
  PROVE  RunInv'
<1>1. /\ frames # <<>> /\ Ready = {}
      /\ frames' = SubSeq(frames, 1, Len(frames) - 1) /\ UNCHANGED <<env, flag, setBy, defined, calls, ran>>
      /\ outcome' = IF Top.owner = 0 THEN "ended" ELSE outcome
  BY DEF Return
<1>2. EndInv'
  <2>1. CASE Top.owner = 0
    <3>1. Top \in BodyType /\ BodyInv(Top) /\ tree \in Trees
      <4>1. Len(frames) \in 1 .. Len(frames) /\ frames \in Seq(BodyType)
        BY <1>1 DEF RunInv, FramesInv
      <4> QED BY <4>1 DEF RunInv, FramesInv, Bodies, Top
    <3>2. ASSUME NEW k \in Imports, Straight(k) PROVE HasRun(k)
      <4>1. k \in Nodes /\ k \in Nat /\ Top.at \in Nat
        BY <3>1, TreeFacts DEF Imports, BodyType
      <4>2. k <= Top.at
        BY <1>1, <2>1, <3>2, <4>1, NonePassedOver
      <4> QED BY <2>1, <3>1, <3>2, <4>1, <4>2 DEF BodyInv, Executed
    <3>3. ASSUME NEW k \in Imports', Straight(k)' PROVE HasRun(k)'
      <4>1. k \in Imports /\ Straight(k)
        BY <3>3, TreeStays, NodeStays
      <4> QED BY <1>1, <3>2, <4>1 DEF HasRun
    <3> QED BY <3>3 DEF EndInv
  <2>2. CASE Top.owner # 0
    BY <1>1, <2>2, PartsStay
  <2> QED BY <2>1, <2>2
<1> QED BY <1>1, <1>2, PopKeepsFrames, PartsStay DEF RunInv

LEMMA CallKeeps ==
  ASSUME RunInv, tree' = tree, Call
  PROVE  RunInv'
<1>1. PICK f \in defined :
        /\ frames' = Append(frames, [owner |-> f, at |-> f, entered |-> {<<f, "args">>, <<f, "body">>}])
        /\ env' = [env EXCEPT ![f] = NothingBound]
  BY DEF Call
<1>2. UNCHANGED <<flag, setBy, defined, ran, outcome>>
  BY DEF Call
<1>3. /\ tree \in Trees /\ f \in Nodes /\ Kind(f) = "function" /\ f # 0 /\ (setBy = {} => ~ Guarded(f))
      /\ frames \in Seq(BodyType) /\ (\A fr \in Bodies : BodyInv(fr)) /\ EnvInv
  BY <1>1, TreeFacts DEF RunInv, DefinedInv, FramesInv
<1> DEFINE new == [owner |-> f, at |-> f, entered |-> {<<f, "args">>, <<f, "body">>}]
<1>4. new \in BodyType
  BY <1>3 DEF BodyType, FieldNames
<1>5. BodyInv(new)
  <2>1. ~ ChecksTyping(f)
    BY <1>3 DEF ChecksTyping
  <2>2. MayEnter(f, <<f, "args">>) /\ MayEnter(f, <<f, "body">>)
    BY <1>3, <2>1 DEF MayEnter
  <2> QED BY <1>3, <2>2 DEF BodyInv
<1> HIDE DEF new
<1>6. FramesInv'
  <2>1. frames' \in Seq(BodyType) /\ Bodies' \subseteq Bodies \cup {new}
    BY <1>1, <1>3, <1>4 DEF Bodies, new
  <2>2. ASSUME NEW fr \in Bodies' PROVE BodyInv(fr)'
    <3>1. BodyInv(fr)
      BY <1>3, <1>5, <2>1, <2>2
    <3> QED BY <1>2, <3>1, BodyStays
  <2> QED BY <2>1, <2>2, TreeStays DEF FramesInv
<1>7. EnvInv'
  <2>1. DOMAIN env' = Nodes \cup {0} /\ \A o \in Nodes \cup {0} : DOMAIN env'[o] = Names
    BY <1>1, <1>3 DEF EnvInv, NothingBound
  <2>2. ASSUME setBy = {}, NEW o \in Nodes \cup {0}, NEW n \in Names PROVE MayBe(n, env'[o][n])
    <3>1. MayBe(n, env[o][n]) /\ MayBe(n, "unbound")
      BY <1>3, <2>2 DEF EnvInv, MayBe
    <3>2. env'[o][n] \in {env[o][n], "unbound"}
      BY <1>1, <1>3 DEF EnvInv, NothingBound
    <3> QED BY <3>1, <3>2
  <2> QED BY <1>2, <2>1, <2>2, TreeStays DEF EnvInv, MayBe
<1> QED BY <1>2, <1>3, <1>6, <1>7, PartsStay DEF RunInv

LEMMA StatementKeeps ==
  ASSUME RunInv, tree' = tree, Statement
  PROVE  RunInv'
<1>1. frames # <<>> /\ Ready # {}
  BY DEF Statement
<1>2. CASE Skip
  BY <1>1, <1>2, SkipKeeps
<1>3. CASE RunImport
  BY <1>1, <1>3, ImportKeeps
<1>4. CASE RunName
  <2>1. PICK s \in {Scope(Current), 0}, value \in {"any", "unbound"} : Bind(s, tree[Current].id, value)
    BY <1>4 DEF RunName
  <2>2. Kind(Current) = "name" /\ Advance({}) /\ UNCHANGED <<flag, setBy, defined, calls, ran, outcome>>
    BY <1>4 DEF RunName
  <2>3. EnvInv'
    BY <1>1, <2>1, <2>2, BindingKeepsEnv
  <2> QED BY <1>1, <2>2, <2>3, BindingKeeps
<1>5. CASE RunArgument
  <2>1. Kind(Current) = "arg" /\ Advance({}) /\ UNCHANGED <<flag, setBy, defined, calls, ran, outcome>>
        /\ Bind(Scope(Current), tree[Current].id, "any")
    BY <1>5 DEF RunArgument
  <2>2. EnvInv'
    BY <1>1, <2>1, BindingKeepsEnv
  <2> QED BY <1>1, <2>1, <2>2, BindingKeeps
<1>6. CASE RunDefinition
  <2>1. Kind(Current) = "function" /\ Advance({}) /\ UNCHANGED <<flag, setBy, calls, ran, outcome>>
        /\ defined' = defined \cup {Current} /\ Bind(Scope(Current), tree[Current].id, "any")
    BY <1>6 DEF RunDefinition
  <2>2. EnvInv'
    BY <1>1, <2>1, BindingKeepsEnv
  <2> QED BY <1>1, <2>1, <2>2, BindingKeeps
<1>7. CASE RunClass
  BY <1>1, <1>7, ClassKeeps
<1>8. CASE RunHandler
  <2>1. Kind(Current) = "handler" /\ Advance({<<Current, "body">>}) /\ UNCHANGED <<flag, setBy, defined, calls, ran, outcome>>
        /\ Bind(Scope(Current), tree[Current].id, "any")
    BY <1>8 DEF RunHandler
  <2>2. EnvInv'
    BY <1>1, <2>1, BindingKeepsEnv
  <2> QED BY <1>1, <2>1, <2>2, BindingKeeps
<1>9. CASE RunBlock
  BY <1>1, <1>9, BlockKeeps
<1>10. CASE RunAssignFlag
  BY <1>1, <1>10, AssignFlagKeeps
<1>11. CASE RunIf
  BY <1>1, <1>11, IfKeeps
<1>12. CASE Raise
  BY <1>1, <1>12, RaiseKeeps
<1> QED BY <1>2, <1>3, <1>4, <1>5, <1>6, <1>7, <1>8, <1>9, <1>10, <1>11, <1>12 DEF Statement

LEMMA InitRunInv == Init => RunInv
<1> SUFFICES ASSUME Init PROVE RunInv
  OBVIOUS
<1>1. /\ tree \in Trees /\ frames = <<[owner |-> 0, at |-> 0, entered |-> {<<0, "body">>}]>>
      /\ env = [s \in Nodes \cup {0} |-> NothingBound]
      /\ flag = FALSE /\ setBy = {} /\ defined = {} /\ ran = {} /\ outcome = "running"
  BY DEF Init, ExtractionInit, RunInit
<1> DEFINE fr == [owner |-> 0, at |-> 0, entered |-> {<<0, "body">>}]
<1>2. fr \in BodyType
  BY DEF BodyType, FieldNames
<1>3. BodyInv(fr)
  <2>1. Path(0) = {0}
    BY <1>1, PathIsClosed, TreeFacts
  <2>2. \A kinds, fields : Entered(0, kinds, fields) = {}
    BY <2>1 DEF Entered
  <2>3. MayEnter(0, <<0, "body">>)
    BY <2>2 DEF MayEnter, InFunction, Guarded, ChecksTyping, Kind
  <2>4. \A k \in Nodes : ~ (k <= 0)
    BY <1>1, TreeFacts
  <2> QED BY <2>3, <2>4 DEF BodyInv
<1> HIDE DEF fr
<1>4. frames = <<fr>>
  BY <1>1 DEF fr
<1>5. FramesInv
  BY <1>2, <1>3, <1>4 DEF FramesInv, Bodies
<1>6. EnvInv
  BY <1>1 DEF EnvInv, NothingBound, MayBe
<1> QED BY <1>1, <1>5, <1>6 DEF RunInv, FlagInv, DefinedInv, RanInv, EndInv

\* What running a source keeps true, for every tree and however often its functions are called.
THEOREM RunInvariant == Spec => []RunInv
<1>1. RunInv /\ [Next]_vars => RunInv'
  <2> SUFFICES ASSUME RunInv, [Next]_vars PROVE RunInv'
    OBVIOUS
  <2>1. tree' = tree
    BY DEF Next, Extract, Extraction, Yield, Descend, Finish, Run, vars, extractionVars
  <2>2. CASE UNCHANGED runVars
    <3>1. UNCHANGED <<frames, env, flag, setBy, defined, ran, outcome>>
      BY <2>2 DEF runVars
    <3>2. FramesInv'
      <4>1. frames' \in Seq(BodyType') /\ Bodies' = Bodies
        BY <2>1, <3>1, TreeStays DEF RunInv, FramesInv, Bodies
      <4> QED BY <2>1, <3>1, <4>1, BodyStays DEF RunInv, FramesInv
    <3> QED BY <2>1, <3>1, <3>2, PartsStay DEF RunInv
  <2>3. CASE RunNext
    BY <2>1, <2>3, StatementKeeps, ReturnKeeps, CallKeeps DEF RunNext
  <2> QED BY <2>2, <2>3 DEF Next, Extract, Run, vars
<1> QED BY <1>1, InitRunInv, PTL DEF Spec

\* "An import called typing-only does not run", unless the source sets the flag through a name
\* that no guard of the import uses.
THEOREM TypingOnlyImportsDoNotRun == Spec => []TypingOnlyNeverRuns
<1>1. IInv /\ RunInv => TypingOnlyNeverRuns
  <2> SUFFICES ASSUME IInv, RunInv, NEW r \in ran, NEW c \in Contexts(r.node), c.typingOnly
               PROVE  setBy \ GuardNames(r.node) # {}
    BY DEF TypingOnlyNeverRuns
  <2>1. PICK f \in facts : f.node = r.node /\ f.context = c
    BY DEF Contexts
  <2>2. Says(c, r.node)
    BY <2>1 DEF IInv
  <2>3. setBy # {}
    BY <2>2 DEF Says, RunInv, RanInv
  <2>4. PICK n \in setBy : n \in Binding({"attribute"})
    BY <2>3 DEF RunInv, FlagInv
  <2>5. n \notin DirectAliases \cup QualifiedAliases
    BY <2>4, AliasBinding DEF RunInv, Binding
  <2>6. n \notin GuardNames(r.node)
    BY <2>5 DEF GuardNames, ChecksTyping
  <2> QED BY <2>6
<1> QED BY <1>1, InductiveInvariant, RunInvariant, PTL

\* "The other contexts mean what they say": an import runs in a call exactly if its context is
\* in_function, and every unconditional import of the module body has run when the body ends.
THEOREM ContextsTellExecution == Spec => []ContextsMatchExecution
<1>1. IInv /\ RunInv => ContextsMatchExecution
  <2> SUFFICES ASSUME IInv, RunInv PROVE ContextsMatchExecution
    OBVIOUS
  <2>1. ASSUME NEW r \in ran, NEW c \in Contexts(r.node) PROVE r.called = c.inFunction
    <3>1. PICK f \in facts : f.node = r.node /\ f.context = c
      BY <2>1 DEF Contexts
    <3>2. Says(c, r.node)
      BY <3>1 DEF IInv
    <3>3. c.inFunction \in BOOLEAN /\ (c.inFunction <=> InFunction(r.node))
      BY <3>2 DEF Says, ContextType
    <3>4. r.called = InFunction(r.node)
      BY DEF RunInv, RanInv
    <3> QED BY <3>3, <3>4 DEF InFunction
  <2>2. ASSUME outcome = "ended", NEW f \in facts, ~ f.context.conditional, ~ f.context.inFunction
        PROVE  \E r \in ran : r.node = f.node
    <3>1. Says(f.context, f.node) /\ f.node \in Imports
      BY DEF IInv
    <3>2. Kind(f.node) \in {"import", "from"}
      BY <3>1, TreeKinds DEF RunInv, Imports
    <3>3. Straight(f.node)
      BY <2>2, <3>1, <3>2 DEF Says, Straight, Expressions
    <3> QED BY <2>2, <3>1, <3>3 DEF RunInv, EndInv, HasRun
  <2> QED BY <2>1, <2>2 DEF ContextsMatchExecution
<1> QED BY <1>1, InductiveInvariant, RunInvariant, PTL
=============================================================================
