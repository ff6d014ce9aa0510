----------------------------- MODULE SyntaxTree -----------------------------
(***************************************************************************)
(* The syntax tree of one source, as ast.parse returns it, reduced to the  *)
(* nodes that decide where an import stands and what a name is bound to.   *)
(***************************************************************************)
EXTENDS Naturals, Sequences, FiniteSets

CONSTANT Trees  \* the syntax trees

(***************************************************************************)
(* A tree is a sequence of nodes in document order, under a Module that is *)
(* node 0.  A node has a parent, the field of the parent it is in, a kind, *)
(* and with some kinds                                                     *)
(*   id       "function", "class", "handler", "arg", and "name" for a Name *)
(*            that is stored or deleted: the identifier bound; "attribute": *)
(*            the x of x.TYPE_CHECKING stored or deleted                    *)
(*   test     "if": [form, id], where form is "name" for x, "attribute" for *)
(*            x.TYPE_CHECKING and "other" for everything else               *)
(*   aliases  "import", "from": the items [module, name, bound]; module is  *)
(*            "typing" only without leading dots                            *)
(* "block" stands for the other compound statements, "case" for the cases  *)
(* of a match; what an identifier captured in a pattern or declared as a   *)
(* type parameter binds is a "name".  Statements stand in the body of what *)
(* they belong to, or in any field of a branch, a block or a case.         *)
(***************************************************************************)
Expressions == {"name", "attribute", "arg"}
Leaves      == {"import", "from"} \cup Expressions
Compounds   == {"function", "class", "handler", "if", "block", "case"}

ASSUME TreesAssumption ==
  \A t \in Trees :
    /\ Len(t) \in Nat /\ DOMAIN t = 1 .. Len(t)
    /\ \A k \in DOMAIN t : /\ t[k].parent \in 0 .. k - 1
                           /\ t[k].parent # 0 => t[t[k].parent].kind \in Compounds
                           /\ t[k].kind \in Leaves \cup Compounds
                           /\ t[k].kind \in {"import", "from"} =>
                                Len(t[k].aliases) \in Nat /\ DOMAIN t[k].aliases = 1 .. Len(t[k].aliases)
                           /\ \/ t[k].kind \in Expressions \/ t[k].field = "body"
                              \/ t[k].parent # 0 /\ t[t[k].parent].kind \in {"if", "block", "case"}

VARIABLE tree  \* the tree of the source at hand

Nodes == DOMAIN tree

Children(n) == {k \in Nodes : tree[k].parent = n}

Kind(n) == IF n = 0 THEN "module" ELSE tree[n].kind

Imports == {k \in Nodes : tree[k].kind \in {"import", "from"}}

Items == UNION {{k} \X DOMAIN tree[k].aliases : k \in Imports}

Item(p) == tree[p[1]].aliases[p[2]]

\* the nodes from the module down to k, k included
Path(k) ==
  {a \in 0 .. k : \A above \in SUBSET (0 .. k) :
     k \in above /\ (\A m \in above \ {0} : tree[m].parent \in above) => a \in above}

\* the nodes on it that stand in one of the fields of a node of one of the kinds
Entered(k, kinds, fields) ==
  {m \in Path(k) \ {0} : Kind(tree[m].parent) \in kinds /\ tree[m].field \in fields}
=============================================================================
