----------------------------- MODULE PythonRun ------------------------------
(***************************************************************************)
(* What Python may do with a source: run its module body once, statement   *)
(* by statement, and call its functions at any time after their            *)
(* definition.  This is the meaning that the contexts of import facts are  *)
(* measured by; it is no part of the program.                              *)
(*                                                                         *)
(* A value is "typing" for the typing module, "true" and "false" for what  *)
(* TYPE_CHECKING may be, "any" for every other value, and "unbound".  What *)
(* the tree does not tell is left open: tests other than those for names   *)
(* have either outcome, a statement in a branch or a block may be passed   *)
(* over (an untaken path, an exception), and a wildcard binds anything.    *)
(***************************************************************************)
EXTENDS SyntaxTree, FiniteSetsExt

CONSTANT MaxCalls  \* bound on the function calls

VARIABLES
  frames,   \* the running bodies, innermost last: [owner, at, entered]
  env,      \* the values of the names in every scope
  flag,     \* typing.TYPE_CHECKING
  setBy,    \* the names through which typing.TYPE_CHECKING was assigned
  defined,  \* the functions that can be called
  calls,    \* how many have been called
  ran,      \* the import statements that were executed: [node, called]
  outcome   \* of the module body: "running", "ended", "raised"

runVars == <<frames, env, flag, setBy, defined, calls, ran, outcome>>
-----------------------------------------------------------------------------
(* Scopes                                                                  *)

Scopes(k, kinds) == {tree[m].parent : m \in Entered(k, kinds, {"body", "args"})}

\* the function or class that a node's names belong to; 0 is the module
Scope(k) == Max({0} \cup Scopes(k, {"function", "class"}))

\* where a scope's names are looked up: classes are not visible from within
Visible(s) == {0, s} \cup Scopes(s, {"function"})

Binders == {k \in Nodes : Kind(k) \in {"name", "function", "class", "handler", "arg"}}

BoundIn(s) ==
  {tree[k].id : k \in {b \in Binders : Scope(b) = s}} \cup {Item(p).bound : p \in {q \in Items : Scope(q[1]) = s}}

Names ==
  {tree[k].id : k \in Binders \cup {j \in Nodes : Kind(j) = "attribute"}}
    \cup {Item(p).bound : p \in Items}
    \cup {tree[k].test.id : k \in {j \in Nodes : Kind(j) = "if"}}

NothingBound == [n \in Names |-> "unbound"]

Holds(s, n) == s = 0 \/ IF Kind(s) = "class" THEN env[s][n] # "unbound" ELSE n \in BoundIn(s)

Value(s, n) == env[Max({o \in Visible(s) : Holds(o, n)})][n]
-----------------------------------------------------------------------------
(* Statements                                                              *)

Top == frames[Len(frames)]

Ready == {k \in Nodes : k > Top.at /\ <<tree[k].parent, tree[k].field>> \in Top.entered}

Current == Min(Ready)

Advance(entered) ==
  frames' = [frames EXCEPT ![Len(frames)] =
               [owner |-> Top.owner, at |-> Current, entered |-> Top.entered \cup entered]]

Fields(n) == {<<n, tree[k].field>> : k \in Children(n)}

\* an exception, a loop that does not run, an earlier return
Skippable(k) == Top.owner # 0 \/ \E a \in Path(k) \ {k} : Kind(a) \in {"if", "block"}

Passed == UNCHANGED <<env, flag, setBy, defined, calls, ran, outcome>>

Skip == Skippable(Current) /\ Advance({}) /\ Passed

Bind(s, n, value) == env' = [env EXCEPT ![s][n] = value]

ImportedValue(k, item) ==
  IF item.module # "typing" THEN "any"
  ELSE IF Kind(k) = "import" THEN "typing"
  ELSE IF item.name = "TYPE_CHECKING" THEN (IF flag THEN "true" ELSE "false")
  ELSE "any"

RunImport ==
  /\ Current \in Imports
  /\ Advance({})
  /\ LET items == DOMAIN tree[Current].aliases
         Of(n) == {i \in items : Item(<<Current, i>>).bound = n}
     IN env' = [env EXCEPT ![Scope(Current)] =
                  [n \in Names |->
                     IF \E i \in items : Item(<<Current, i>>).name = "*" THEN "any"
                     ELSE IF Of(n) # {} THEN ImportedValue(Current, Item(<<Current, Max(Of(n))>>))
                     ELSE @[n]]]
  /\ ran' = ran \cup {[node |-> Current, called |-> Top.owner # 0]}
  /\ UNCHANGED <<flag, setBy, defined, calls, outcome>>

\* an assignment or a deletion, perhaps of a name declared global
RunName ==
  /\ Kind(Current) = "name"
  /\ Advance({})
  /\ \E s \in {Scope(Current), 0}, value \in {"any", "unbound"} : Bind(s, tree[Current].id, value)
  /\ UNCHANGED <<flag, setBy, defined, calls, ran, outcome>>

RunArgument ==
  /\ Kind(Current) = "arg"
  /\ Advance({})
  /\ Bind(Scope(Current), tree[Current].id, "any")
  /\ UNCHANGED <<flag, setBy, defined, calls, ran, outcome>>

RunDefinition ==
  /\ Kind(Current) = "function"
  /\ Advance({})
  /\ Bind(Scope(Current), tree[Current].id, "any")
  /\ defined' = defined \cup {Current}
  /\ UNCHANGED <<flag, setBy, calls, ran, outcome>>

RunClass ==
  /\ Kind(Current) = "class"
  /\ Advance({<<Current, "body">>})
  /\ env' = [env EXCEPT ![Current] = NothingBound, ![Scope(Current)] = [@ EXCEPT ![tree[Current].id] = "any"]]
  /\ UNCHANGED <<flag, setBy, defined, calls, ran, outcome>>

RunHandler ==
  /\ Kind(Current) = "handler"
  /\ Advance({<<Current, "body">>})
  /\ Bind(Scope(Current), tree[Current].id, "any")
  /\ UNCHANGED <<flag, setBy, defined, calls, ran, outcome>>

RunBlock ==
  /\ Kind(Current) \in {"block", "case"}
  /\ Advance(Fields(Current))
  /\ Passed

\* x.TYPE_CHECKING = True, where x is the typing module or may be it
RunAssignFlag ==
  /\ Kind(Current) = "attribute"
  /\ Advance({})
  /\ \/ /\ Value(Scope(Current), tree[Current].id) \in {"typing", "any"}
        /\ flag' = TRUE
        /\ setBy' = setBy \cup {tree[Current].id}
     \/ UNCHANGED <<flag, setBy>>
  /\ UNCHANGED <<env, defined, calls, ran, outcome>>

Truth(value) ==
  CASE value = "unbound" -> {}
    [] value = "false" -> {FALSE}
    [] value \in {"true", "typing"} -> {TRUE}
    [] value = "any" -> BOOLEAN

\* the outcomes of a test; none if it raises
Outcomes(k) ==
  LET test  == tree[k].test
      value == Value(Scope(k), test.id)
  IN CASE test.form = "other" -> BOOLEAN
       [] test.form = "name" -> Truth(value)
       [] test.form = "attribute" -> IF value = "typing" THEN {flag} ELSE IF value = "any" THEN BOOLEAN ELSE {}

RunIf ==
  /\ Kind(Current) = "if"
  /\ \E holds \in Outcomes(Current) : Advance({<<Current, IF holds THEN "body" ELSE "orelse">>})
  /\ Passed

\* a test of something unbound ends the body it is in
Raise ==
  /\ Kind(Current) = "if" /\ Outcomes(Current) = {}
  /\ frames' = SubSeq(frames, 1, Len(frames) - 1)
  /\ outcome' = IF Top.owner = 0 THEN "raised" ELSE outcome
  /\ UNCHANGED <<env, flag, setBy, defined, calls, ran>>

Return ==
  /\ frames # <<>> /\ Ready = {}
  /\ frames' = SubSeq(frames, 1, Len(frames) - 1)
  /\ outcome' = IF Top.owner = 0 THEN "ended" ELSE outcome
  /\ UNCHANGED <<env, flag, setBy, defined, calls, ran>>

Call ==
  /\ calls < MaxCalls
  /\ calls' = calls + 1
  /\ \E f \in defined :
       /\ frames' = Append(frames, [owner |-> f, at |-> f, entered |-> {<<f, "args">>, <<f, "body">>}])
       /\ env' = [env EXCEPT ![f] = NothingBound]
  /\ UNCHANGED <<flag, setBy, defined, ran, outcome>>

Statement ==
  /\ frames # <<>> /\ Ready # {}
  /\ \/ Skip \/ RunImport \/ RunName \/ RunArgument \/ RunDefinition \/ RunClass \/ RunHandler
     \/ RunBlock \/ RunAssignFlag \/ RunIf \/ Raise

RunInit ==
  /\ frames = <<[owner |-> 0, at |-> 0, entered |-> {<<0, "body">>}]>>
  /\ env = [s \in Nodes \cup {0} |-> NothingBound]
  /\ flag = FALSE
  /\ setBy = {}
  /\ defined = {} /\ calls = 0
  /\ ran = {}
  /\ outcome = "running"

RunNext == Statement \/ Return \/ Call
=============================================================================
