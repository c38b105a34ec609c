------------------------------- MODULE Programs -------------------------------
(***************************************************************************)
(* Constructors of syntax trees for CodeGenerator.tla, and what the        *)
(* families of programs have in common that the runs execute.              *)
(***************************************************************************)
EXTENDS CodeGenerator

Literal(type, v) == [kind |-> "literal", type |-> type, value |-> v]
Num(n) == Literal("Integer", n)
Bool(v) == Literal("Boolean", v)
Text(n) == Literal("String", n)
Var(i, type) ==
  [kind |-> "identifier", parameter |-> FALSE, index |-> i, type |-> type]
Param(i) ==
  [kind |-> "identifier", parameter |-> TRUE, index |-> i, type |-> "Integer"]
Operation(op, type, operands) ==
  [kind |-> "operation", op |-> op, type |-> type, operands |-> operands]
Plus(e, f) == Operation("Add", e.type, <<e, f>>)
Minus(e, f) == Operation("Subtract", e.type, <<e, f>>)
Power(e, f) == Operation("Power", "Integer", <<e, f>>)
Neg(e) == Operation("Neg", e.type, <<e>>)
Relation(op, e, f) == Operation(op, "Boolean", <<e, f>>)
Less(e, f) == Relation("Less", e, f)
And(e, f) == Operation("And", "Boolean", <<e, f>>)
Or(e, f) == Operation("Or", "Boolean", <<e, f>>)
Not(e) == Operation("Not", "Boolean", <<e>>)
CastTo(type, e) == [kind |-> "cast", type |-> type, operand |-> e]
FStringOf(parts) == [kind |-> "fstring", type |-> "String", parts |-> parts]
CallTo(i, type, arguments) ==
  [kind |-> "call", index |-> i, type |-> type, arguments |-> arguments]

Let(i, e) == [kind |-> "let", index |-> i, value |-> e]
Assign(i, e) ==
  [kind |-> "assignment", target |-> Var(i, e.type), value |-> e]
Do(e) == [kind |-> "statement", expression |-> e]
PrintOf(e) == [kind |-> "print", value |-> e]
AssertThat(e) == [kind |-> "assert", condition |-> e]
ReturnOf(e) == [kind |-> "return", value |-> e]
Raise == [kind |-> "raise", uid |-> 7]
If(e, block, elseif) ==
  [kind |-> "if", condition |-> e, block |-> block, elseif |-> elseif]
While(e, block) == [kind |-> "while", condition |-> e, block |-> block]
Break == [kind |-> "break"]
For(i, e, f, g, block) ==
  [kind |-> "for", iterator |-> Let(i, e), end |-> f, stepsize |-> g,
   block |-> block]
TryCatch(block, handlers) ==
  [kind |-> "try", block |-> block, handlers |-> handlers]

Procedure(variables, parameters, block) ==
  [variables |-> variables, parameters |-> parameters, returns |-> FALSE,
   block |-> block]
FunctionOf(variables, parameters, block) ==
  [variables |-> variables, parameters |-> parameters, returns |-> TRUE,
   block |-> block]

(* What the first three variables of Main are. *)
X == Var(0, "Integer")
Y == Var(1, "Integer")
B == Var(2, "Boolean")

Each(F(_), s) == [i \in 1 .. Len(s) |-> F(s[i])]
Pairs(F(_, _), s, t) ==
  FlattenSeq([i \in 1 .. Len(s) |-> [j \in 1 .. Len(t) |-> F(s[i], t[j])]])

Main(more, prelude, block) ==
  Procedure(<<"Integer", "Integer", "Boolean", "Integer">> \o more, 0,
    <<Let(0, Num(4)), Let(1, Num(3)), Let(2, Bool(TRUE))>> \o prelude \o block
      \o <<PrintOf(X), PrintOf(Y)>>)
==============================================================================
