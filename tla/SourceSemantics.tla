--------------------------- MODULE SourceSemantics ---------------------------
(***************************************************************************)
(* The reference the generated code is compared with: what a program       *)
(* prints, read off its syntax tree without regions, stacks or addresses.  *)
(* The nodes are those of CodeGenerator.tla.                               *)
(*                                                                         *)
(* A configuration is a record: the values of the variables (vars) and of  *)
(* the arguments (args), the value of the last expression, the output, the *)
(* outcomes still to be given to comparisons (decisions) and where control *)
(* goes next (flow): next statement, break, return, raise or failed.       *)
(***************************************************************************)
EXTENDS Integers, Sequences

CONSTANT Modulus  \* integers are numbers below Modulus

Calculated(op, v) ==
  CASE op = "Not"      -> ~v[1]
    [] op = "And"      -> v[1] /\ v[2]
    [] op = "Or"       -> v[1] \/ v[2]
    [] op = "Neg"      -> (-v[1]) % Modulus
    [] op = "Add"      -> (v[1] + v[2]) % Modulus
    [] op = "Subtract" -> (v[1] - v[2]) % Modulus
    [] op = "Power"    -> (v[1] ^ v[2]) % Modulus

(* What stands for the text of a value, and for two texts in a row. *)
Text(v, type) == IF type = "Boolean" THEN IF v THEN 1 ELSE 0 ELSE v
Appended(v, w) == (2 * v + w) % Modulus

RECURSIVE Run(_, _, _), RunAll(_, _, _), Values(_, _, _), Repeat(_, _, _)

(* The values of some expressions, from left to right, as r.value. *)
Values(p, nodes, s) ==
  IF nodes = <<>> THEN [s EXCEPT !.value = <<>>]
  ELSE LET first == Run(p, Head(nodes), s)
           rest == Values(p, Tail(nodes), first)
       IN  [rest EXCEPT !.value = <<first.value>> \o @]

RunAll(p, nodes, s) ==
  IF nodes = <<>> THEN s ELSE RunAll(p, Tail(nodes), Run(p, Head(nodes), s))

Decide(s) ==
  IF s.decisions = <<>> THEN [s EXCEPT !.flow = "undecided"]
  ELSE [s EXCEPT !.value = Head(s.decisions), !.decisions = Tail(@)]

Operation(p, node, s) ==
  LET r == Values(p, node.operands, s)
  IN  IF r.flow # "next" THEN r
      ELSE IF node.op \in {"Less", "Equal", "In"} THEN Decide(r)
      ELSE IF node.op = "NotEqual"
      THEN LET d == Decide(r)
           IN  IF d.flow = "next" THEN [d EXCEPT !.value = ~@] ELSE d
      ELSE [r EXCEPT !.value = Calculated(node.op, @)]

(* All parts of an f-string, as texts, one after the other. *)
FString(p, node, s) ==
  LET r == Values(p, node.parts, s)
      text[i \in 1 .. Len(node.parts)] ==
        LET part == Text(r.value[i], node.parts[i].type)
        IN  IF i = 1 THEN part ELSE Appended(text[i - 1], part)
  IN  IF r.flow # "next" THEN r
      ELSE [r EXCEPT !.value = text[Len(node.parts)]]

(* A parameter is the argument at its index (thread.h:27). *)
CallOf(p, node, s) ==
  LET r == Values(p, node.arguments, s)
      f == p[node.index + 1]
      callee == RunAll(p, f.block,
                  [r EXCEPT !.vars = [i \in 1 .. Len(f.variables) |-> 0],
                            !.args = r.value])
  IN  IF r.flow # "next" THEN r
      ELSE [callee EXCEPT !.vars = s.vars, !.args = s.args,
                          !.flow = IF @ = "return" THEN "next" ELSE @]

Try(p, node, s) ==
  LET r == RunAll(p, node.block, s)
  IN  IF r.flow = "raise"
      THEN RunAll(p, node.handlers[1], [r EXCEPT !.flow = "next"])
      ELSE r

(* A loop: its condition, its block, what follows the block, and again. *)
Repeat(p, node, s) ==
  LET test == Run(p, node.condition, s)
      r == RunAll(p, node.block, test)
  IN  IF test.flow # "next" \/ ~test.value THEN test
      ELSE IF r.flow = "break" THEN [r EXCEPT !.flow = "next"]
      ELSE IF r.flow # "next" THEN r
      ELSE Repeat(p, node, r)

(* for: let i = start; while i < end { block; i = i + step } *)
ForLoop(node) ==
  LET i == [kind |-> "identifier", parameter |-> FALSE,
            index |-> node.iterator.index, type |-> "Integer"]
      Of(op, e, f) == [kind |-> "operation", op |-> op, type |-> "Integer",
                       operands |-> <<e, f>>]
  IN  [condition |-> Of("Less", i, node.end),
       block |-> Append(node.block, [node.iterator EXCEPT
                   !.value = Of("Add", i, node.stepsize)])]

Printed(s, type) == [s EXCEPT !.output = Append(@, <<type, s.value>>)]

Bind(s, i) == [s EXCEPT !.vars[i + 1] = s.value]

Run(p, node, s) ==
  IF s.flow # "next" THEN s
  ELSE
  CASE node.kind = "literal"    -> [s EXCEPT !.value = node.value]
    [] node.kind = "identifier" ->
         [s EXCEPT !.value = IF node.parameter THEN s.args[node.index + 1]
                             ELSE s.vars[node.index + 1]]
    [] node.kind = "operation"  -> Operation(p, node, s)
    [] node.kind = "cast"       -> LET r == Run(p, node.operand, s)
                                   IN  [r EXCEPT !.value =
                                          Text(@, node.operand.type)]
    [] node.kind = "fstring"    -> FString(p, node, s)
    [] node.kind = "call"       -> CallOf(p, node, s)
    [] node.kind = "let"        -> LET r == Run(p, node.value, s)
                                   IN  IF r.flow = "next" THEN Bind(r, node.index)
                                       ELSE r
    [] node.kind = "assignment" -> LET r == Run(p, node.value, s)
                                   IN  IF r.flow = "next"
                                       THEN Bind(r, node.target.index) ELSE r
    [] node.kind = "statement"  -> Run(p, node.expression, s)
    [] node.kind = "print"      -> LET r == Run(p, node.value, s)
                                   IN  IF r.flow = "next"
                                       THEN Printed(r, node.value.type)
                                       ELSE r
    [] node.kind = "assert"     -> LET r == Run(p, node.condition, s)
                                   IN  IF r.flow = "next" /\ ~r.value
                                       THEN [r EXCEPT !.flow = "failed"] ELSE r
    [] node.kind = "return"     -> LET r == Run(p, node.value, s)
                                   IN  IF r.flow = "next"
                                       THEN [r EXCEPT !.flow = "return"] ELSE r
    [] node.kind = "raise"      -> [s EXCEPT !.flow = "raise"]
    [] node.kind = "break"      -> [s EXCEPT !.flow = "break"]
    [] node.kind = "if"         -> LET r == Run(p, node.condition, s)
                                   IN  IF r.flow # "next" THEN r
                                       ELSE RunAll(p, IF r.value THEN node.block
                                                      ELSE node.elseif, r)
    [] node.kind = "while"      -> Repeat(p, node, s)
    [] node.kind = "for"        -> Repeat(p, ForLoop(node),
                                          Run(p, node.iterator, s))
    [] node.kind = "try"        -> Try(p, node, s)

(* What the program prints and how it ends when its comparisons come out *)
(* as decided.                                                           *)
Meaning(program, decisions) ==
  LET main == program[1]
      end == RunAll(program, main.block,
               [vars |-> [i \in 1 .. Len(main.variables) |-> 0],
                args |-> <<>>, value |-> 0, output |-> <<>>,
                decisions |-> decisions, flow |-> "next"])
  IN  [output |-> end.output,
       end |-> IF end.flow = "failed" THEN "failed" ELSE "halted"]
==============================================================================
