-------------------------- MODULE ImportExtraction --------------------------
(***************************************************************************)
(* ModuleImportExtractor: the syntax tree of one source is searched for    *)
(* import statements with a worklist that hands every node the context it  *)
(* stands in: in which kind of scope, in a function, in a branch or loop,  *)
(* in an exception handler, or in the body of an `if TYPE_CHECKING`.  Which *)
(* names mean TYPE_CHECKING is settled before, for the whole file           *)
(* (_typing_aliases).                                                       *)
(***************************************************************************)
EXTENDS SyntaxTree

VARIABLES
  pending,  \* the nodes to visit: [node, context]
  facts,    \* the imports found: [node, alias, context]
  phase     \* "extract", "extracted"

extractionVars == <<tree, pending, facts, phase>>
-----------------------------------------------------------------------------
Bound(items) == {Item(p).bound : p \in items}
-----------------------------------------------------------------------------
(* _typing_aliases                                                         *)

InModuleBody(k) == tree[k].parent = 0

\* import typing [as x], from typing import TYPE_CHECKING [as x]
TypingItems ==
  {p \in Items : /\ InModuleBody(p[1]) /\ Item(p).module = "typing"
                 /\ Kind(p[1]) = "import" \/ Item(p).name = "TYPE_CHECKING"}

Direct    == Bound({p \in TypingItems : Kind(p[1]) = "from"})
Qualified == Bound({p \in TypingItems : Kind(p[1]) = "import"})

Wildcard == \E p \in Items : Item(p).name = "*"

Binding(kinds) == {tree[k].id : k \in {j \in Nodes : Kind(j) \in kinds}}

\* mutant: a parameter does not shadow a name
ConflictingStatements ==
  Bound(Items \ TypingItems)
    \cup Binding({"name", "attribute", "function", "class", "handler"})
    \cup (Direct \cap Qualified)

\* the names with another binding in the file, wherever and whenever it takes effect
Conflicting ==
  Bound(Items \ TypingItems)
    \cup Binding({"name", "attribute", "function", "class", "handler", "arg"})
    \cup (Direct \cap Qualified)

\* the names that a test for TYPE_CHECKING may use: TYPE_CHECKING itself, and typing
DirectAliases    == IF Wildcard THEN {} ELSE Direct \ Conflicting
QualifiedAliases == IF Wildcard THEN {} ELSE Qualified \ Conflicting
-----------------------------------------------------------------------------
(* _imports_with_context                                                   *)

ChecksTyping(n) ==
  /\ Kind(n) = "if"
  /\ \/ tree[n].test.form = "name" /\ tree[n].test.id \in DirectAliases
     \/ tree[n].test.form = "attribute" /\ tree[n].test.id \in QualifiedAliases

ModuleContext ==
  [scope |-> "module", inFunction |-> FALSE, conditional |-> FALSE, typingOnly |-> FALSE, handler |-> FALSE]

\* mutant: a class body is no longer in a function
ContextByScope(n, c, k) ==
  LET inBody == tree[k].field = "body"
      scope  == IF inBody /\ Kind(n) \in {"function", "class"} THEN Kind(n) ELSE c.scope
  IN [scope       |-> scope,
      inFunction  |-> scope = "function",
      conditional |-> c.conditional \/ Kind(n) \in {"if", "block"},
      typingOnly  |-> c.typingOnly \/ (inBody /\ ChecksTyping(n)),
      handler     |-> c.handler \/ Kind(n) = "handler"]

\* mutant: the else branch of a test is taken for its body
ContextOfBranches(n, c, k) ==
  LET inBody == tree[k].field = "body"
  IN [scope       |-> IF inBody /\ Kind(n) \in {"function", "class"} THEN Kind(n) ELSE c.scope,
      inFunction  |-> c.inFunction \/ (inBody /\ Kind(n) = "function"),
      conditional |-> c.conditional \/ Kind(n) \in {"if", "block"},
      typingOnly  |-> c.typingOnly \/ ChecksTyping(n),
      handler     |-> c.handler \/ Kind(n) = "handler"]

\* the context of child k of node n, which stands in context c
ChildContext(n, c, k) ==
  LET inBody == tree[k].field = "body"
  IN [scope       |-> IF inBody /\ Kind(n) \in {"function", "class"} THEN Kind(n) ELSE c.scope,
      inFunction  |-> c.inFunction \/ (inBody /\ Kind(n) = "function"),
      conditional |-> c.conditional \/ Kind(n) \in {"if", "block"},
      typingOnly  |-> c.typingOnly \/ (inBody /\ ChecksTyping(n)),
      handler     |-> c.handler \/ Kind(n) = "handler"]

ExtractionInit ==
  /\ tree \in Trees
  /\ pending = {[node |-> 0, context |-> ModuleContext]}
  /\ facts = {}
  /\ phase = "extract"

\* an import statement is a fact for each of its items
Yield ==
  \E p \in pending :
    /\ p.node \in Imports
    /\ pending' = pending \ {p}
    /\ facts' = facts \cup {[node |-> p.node, alias |-> i, context |-> p.context] : i \in DOMAIN tree[p.node].aliases}
    /\ UNCHANGED <<tree, phase>>

\* every other node hands a context to its children, except the expressions
Descend ==
  \E p \in pending :
    /\ p.node \notin Imports
    /\ pending' = (pending \ {p}) \cup
         {[node |-> k, context |-> ChildContext(p.node, p.context, k)] :
            k \in {j \in Children(p.node) : Kind(j) \notin {"name", "attribute"}}}
    /\ UNCHANGED <<tree, facts, phase>>

Finish ==
  /\ phase = "extract" /\ pending = {}
  /\ phase' = "extracted"
  /\ UNCHANGED <<tree, pending, facts>>

Extraction == Yield \/ Descend \/ Finish
-----------------------------------------------------------------------------
\* Once the search ends, each imported item of the file is one fact, and its context says where
\* the statement stands: below the body of which functions, classes and typing guards, below
\* any branch, loop or handler, and in which scope innermost.
FactsSayWhereImportsStand ==
  phase = "extracted" =>
    /\ {<<f.node, f.alias>> : f \in facts} = Items
    /\ \A f \in facts :
         /\ f.context.inFunction = (Entered(f.node, {"function"}, {"body"}) # {})
         /\ f.context.conditional = \E m \in Path(f.node) : Kind(m) \in {"if", "block"}
         /\ f.context.handler = \E m \in Path(f.node) : Kind(m) = "handler"
         /\ f.context.typingOnly =
              \E m \in Entered(f.node, {"if"}, {"body"}) : ChecksTyping(tree[m].parent)
         /\ LET scopes == Entered(f.node, {"function", "class"}, {"body"})
            IN \/ scopes = {} /\ f.context.scope = "module"
               \/ \E m \in scopes : f.context.scope = Kind(tree[m].parent) /\ \A o \in scopes : o <= m
=============================================================================
