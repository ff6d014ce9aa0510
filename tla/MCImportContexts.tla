-------------------------- MODULE MCImportContexts --------------------------
(***************************************************************************)
(* Two families of small sources.  In the first, TYPE_CHECKING or typing   *)
(* is imported, something else happens to the name, inside a definition or *)
(* block and after it, and an import is guarded by a test of the name.  In *)
(* the second, an import stands below three nested statements.             *)
(***************************************************************************)
EXTENDS ImportContexts

None == [form |-> "none", id |-> ""]

Node(parent, field, kind, id, test, aliases) ==
  [parent |-> parent, field |-> field, kind |-> kind, id |-> id, test |-> test, aliases |-> aliases]

Plain(parent, field, kind, id) == Node(parent, field, kind, id, None, <<>>)
If(parent, field, form, id) == Node(parent, field, "if", "", [form |-> form, id |-> id], <<>>)
Import(parent, field, aliases) == Node(parent, field, "import", "", None, aliases)
From(parent, field, aliases) == Node(parent, field, "from", "", None, aliases)

Alias(module, name, bound) == [module |-> module, name |-> name, bound |-> bound]

TypingAs(x) == <<Alias("typing", "", x)>>
FlagAs(x)   == <<Alias("typing", "TYPE_CHECKING", x)>>

\* import typing as t; from typing import TYPE_CHECKING as T, perhaps with both names alike
Preludes ==
  {Import(0, "body", TypingAs("t")), From(0, "body", FlagAs("T")), From(0, "body", FlagAs("t")),
   From(0, "body", <<Alias("typing", "TYPE_CHECKING", "T"), Alias("typing", "Any", "t")>>)}

Disturbances(parent, field) ==
  {Import(parent, field, TypingAs("t")), From(parent, field, FlagAs("T")),
   From(parent, field, <<Alias("other", "x", "T")>>), From(parent, field, <<Alias("other", "*", "")>>),
   Plain(parent, field, "name", "T"), Plain(parent, field, "name", "t"), Plain(parent, field, "attribute", "t")}

Containers(parent, field) ==
  {Plain(parent, field, "function", "f"), Plain(parent, field, "class", "T"), Plain(parent, field, "block", "")}

Guards(parent, field) ==
  {If(parent, field, "name", "T"), If(parent, field, "name", "t"), If(parent, field, "attribute", "t"),
   If(parent, field, "other", "")}

Target(parent, field) == Import(parent, field, <<Alias("other", "", "other")>>)

Recognitions ==
  {<<prelude, container, disturbance, guard, target>> :
     prelude \in Preludes, container \in Containers(0, "body"),
     disturbance \in Disturbances(2, "body") \cup {Plain(2, "args", "arg", "T"), Plain(2, "args", "arg", "t")},
     guard \in Guards(0, "body") \cup Guards(2, "body"), target \in {Target(4, "body"), Target(4, "orelse")}}

Changes ==
  {<<prelude, guard, target, change, later, again>> :
     prelude \in Preludes, guard \in {Plain(0, "body", "function", "g")} \cup Guards(0, "body"),
     target \in {Target(2, "body")}, change \in Disturbances(0, "body"),
     later \in {If(2, "body", "name", "T"), If(2, "body", "attribute", "t")}, again \in {Target(5, "body")}}

Statements(parent, field) ==
  {Plain(parent, field, "function", "f"), Plain(parent, field, "class", "c"), Plain(parent, field, "block", ""),
   If(parent, field, "name", "T"), Plain(parent, field, "case", ""), Plain(parent, field, "handler", "e")}

Nestings ==
  {<<From(0, "body", FlagAs("T")), a, b, c, target, beside>> :
     a \in Statements(0, "body"), b \in Statements(2, "body") \cup Statements(2, "orelse"),
     c \in Statements(3, "body"), target \in {Target(4, "body"), Target(4, "orelse")},
     beside \in {Target(0, "body"), Target(2, "body"), Target(3, "orelse")}}

\* only a block has handlers and cases
Parsed(t) ==
  \A k \in DOMAIN t :
    LET p == t[k].parent
        kind == IF p = 0 THEN "module" ELSE t[p].kind
    IN /\ t[k].kind \in {"handler", "case"} => kind = "block"
       /\ t[k].field = "args" => kind = "function"
       /\ t[k].field = "orelse" => kind \in {"if", "block"}

Sources == {t \in Recognitions \cup Changes \cup Nestings : Parsed(t)}
=============================================================================
