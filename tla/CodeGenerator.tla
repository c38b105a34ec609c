---------------------------- MODULE CodeGenerator ----------------------------
(***************************************************************************)
(* The code generator of bytecode/bytecode.c: from a validated syntax tree *)
(* to the image VirtualMachine.tla runs.                                   *)
(*                                                                         *)
(* A node is a record with a kind; an expression also has a type.  A       *)
(* program is a sequence of functions, main first (analyze.c gives main    *)
(* index 0), with the types of their variables in scope order.             *)
(*                                                                         *)
(* Emit(node, at, c) is what generate(node) writes when the instruction    *)
(* offset is at.  The code makes two passes, the first one only to find    *)
(* the offsets that jumps ahead need; here those are the sizes of what is  *)
(* emitted in between, which do not depend on where they are.              *)
(***************************************************************************)
EXTENDS Instructions, Integers, Sequences, SequencesExt

Instruction(op, arg) == <<[op |-> op, arg |-> arg]>>
Plain(op) == Instruction(op, 0)

RECURSIVE Size(_), Placed(_, _)
Size(code) == IF code = <<>> THEN 0 ELSE Width(Head(code).op) + Size(Tail(code))

(* The code as a function from the offsets of its instructions. *)
Placed(code, at) ==
  IF code = <<>> THEN <<>>
  ELSE at :> Head(code) @@ Placed(Tail(code), at + Width(Head(code).op))

------------------------------------------------------------------------------
(* Values of variables. *)

VariablePointer(i) == Instruction("LoadVariablePointer", i)

(* generate_variable stores a rational like a number in a slot, and copies *)
(* the values of other variables except those.                             *)
LetStore(type) ==
  Plain(CASE type = "Integer" -> "StoreInteger"
          [] type = "String"  -> "StoreString"
          [] OTHER            -> "StoreValue")
LetCopy(value) ==
  IF value.kind # "identifier" THEN <<>>
  ELSE CASE value.type = "Integer" -> Plain("CopyInteger")
         [] value.type = "String"  -> Plain("CopyString")
         [] OTHER                  -> <<>>

(* generate_assignment stores and copies all boxed types alike. *)
Store(type) ==
  IF type = "Rational" THEN Plain("StoreRational") ELSE LetStore(type)
Copy(value) ==
  IF value.kind = "identifier" /\ value.type = "Rational"
  THEN Plain("CopyRational") ELSE LetCopy(value)

FreeOpcode ==
  [Integer |-> "FreeInteger", Rational |-> "FreeRational", String |-> "FreeString"]

(* Mutant: the first variable is not freed. *)
FreeButFirst(types, except) ==
  FlattenSeq([i \in 1 .. Len(types) |->
    IF types[i] \in Boxed /\ except # i - 1 /\ i > 1
    THEN VariablePointer(i - 1) \o Plain(FreeOpcode[types[i]]) ELSE <<>>])

(* free_function_variables: all boxed variables of the function, but for *)
(* the one whose identifier is returned.                                 *)
FreeVariables(types, except) ==
  FlattenSeq([i \in 1 .. Len(types) |->
    IF types[i] \in Boxed /\ except # i - 1
    THEN VariablePointer(i - 1) \o Plain(FreeOpcode[types[i]]) ELSE <<>>])

NoVariable == -1
ReturnedVariable(e) ==
  IF e.kind = "identifier" /\ ~e.parameter THEN e.index ELSE NoVariable

(* generate_identifier *)
Identifier(node) ==
  Instruction(IF node.parameter THEN "LoadArgument" ELSE "LoadValue", node.index)

(* The instructions of the operators, by the type they work on. *)
LogicalOpcode == [And |-> "LogicalAnd", Or |-> "LogicalOr"]
NegOpcode == [Float |-> "FloatNeg", Integer |-> "IntegerNeg",
              Rational |-> "RationalNeg"]
RelationalOpcode ==
  [Float    |-> [Less |-> "FloatLessThan", Equal |-> "FloatEquality"],
   Integer  |-> [Less |-> "IntegerLessThan", Equal |-> "IntegerEquality"],
   Rational |-> [Less |-> "RationalLessThan", Equal |-> "RationalEquality"],
   String   |-> [In |-> "StringContains", Equal |-> "StringEquality"]]
ArithmeticOpcode ==
  [Float    |-> [Add |-> "FloatAddition", Subtract |-> "FloatSubtraction"],
   Integer  |-> [Add |-> "IntegerAddition", Subtract |-> "IntegerSubtraction",
                 Power |-> "IntegerPower"],
   Rational |-> [Add |-> "RationalAddition", Subtract |-> "RationalSubtraction"]]

RelationalCode(op, type) ==
  IF op = "NotEqual"
  THEN Plain(RelationalOpcode[type].Equal) \o Plain("LogicalNot")
  ELSE Plain(RelationalOpcode[type][op])

Operator(node) ==
  LET type == node.operands[1].type
  IN  CASE node.op = "Not"                -> Plain("LogicalNot")
        [] node.op \in DOMAIN LogicalOpcode -> Plain(LogicalOpcode[node.op])
        [] node.op = "Neg"                -> Plain(NegOpcode[type])
        [] node.op \in {"Less", "Equal", "NotEqual", "In"}
                                          -> RelationalCode(node.op, type)
        [] OTHER -> Plain(ArithmeticOpcode[type][node.op])

(* generate_literal *)
LiteralOpcode == [Integer |-> "PushInteger", Float |-> "PushFloat",
                  Rational |-> "PushRational", String |-> "PushString"]
LiteralCode(node) ==
  IF node.type = "Boolean"
  THEN Plain(IF node.value THEN "PushTrue" ELSE "PushFalse")
  ELSE Instruction(LiteralOpcode[node.type], node.value)

(* generate_typecast *)
CastOpcode == [Integer |-> "CastToInteger", Float |-> "CastToFloat",
               Rational |-> "CastToRational", String |-> "CastToString"]
CastCode(node) == Instruction(CastOpcode[node.type], node.operand.type)

PrintOpcode ==
  [Boolean |-> "PrintBoolean", Float |-> "PrintFloat", Integer |-> "PrintInteger",
   Rational |-> "PrintRational", String |-> "PrintString"]

------------------------------------------------------------------------------
RECURSIVE Emit(_, _, _), EmitBlock(_, _, _)

(* generate_block: one element after the other. *)
EmitBlock(nodes, at, c) ==
  IF nodes = <<>> THEN <<>>
  ELSE LET first == Emit(Head(nodes), at, c)
       IN  first \o EmitBlock(Tail(nodes), at + Size(first), c)

(* generate_expression of one operand after the other. *)
Operands(nodes, at, c) == EmitBlock(nodes, at, c)

(* generate_fstring: the parts as strings, each but the first appended.  *)
(* (It has no conversion for a Boolean part and reports an error.)        *)
FStringCode(node, at, c) ==
  FlattenSeq([i \in 1 .. Len(node.parts) |->
    Emit(node.parts[i], at, c)
      \o (IF node.parts[i].type = "String" THEN <<>>
          ELSE Instruction("CastToString", node.parts[i].type))
      \o (IF i = 1 THEN <<>> ELSE Plain("StringConcat"))])

(* generate_variable *)
LetCode(node, at, c) ==
  Emit(node.value, at, c) \o LetCopy(node.value)
    \o VariablePointer(node.index) \o LetStore(node.value.type)

(* generate_assignment: the target is generated as an expression. *)
AssignmentCode(node, at, c) ==
  Emit(node.value, at, c) \o Identifier(node.target)
    \o Copy(node.value) \o Store(node.value.type)

(* generate_return.  Mutant: the result stays in its region. *)
ReturnTracked(node, at, c) ==
  LET frees == FreeVariables(c.types, ReturnedVariable(node.value))
  IN  frees \o Emit(node.value, at + Size(frees), c)
        \o Instruction("Return", node.value.type)

ReturnCode(node, at, c) ==
  LET frees == FreeVariables(c.types, ReturnedVariable(node.value))
  IN  frees \o Emit(node.value, at + Size(frees), c)
        \o (IF node.value.kind = "identifier" THEN <<>> ELSE Plain("UnTrack"))
        \o Instruction("Return", node.value.type)

(* generate_if *)
IfCode(node, at, c) ==
  LET condition == Emit(node.condition, at, c)
      start == at + Size(condition) + Width("GotoIfFalse")
      block == EmitBlock(node.block, start, c)
      skip == IF node.elseif = <<>> THEN 0 ELSE Width("Goto")
      middle == start + Size(block) + skip
      elseif == EmitBlock(node.elseif, middle, c)
      end == middle + Size(elseif)
  IN  condition \o Instruction("GotoIfFalse", middle) \o block
        \o (IF skip = 0 THEN <<>> ELSE Instruction("Goto", end)) \o elseif

(* generate_while: one region for the condition, one for the block. *)
WhileCode(node, at, c) ==
  LET condition == Emit(node.condition, at + Width("PushRegion"), c)
      start == at + Size(condition) + 2 * Width("PushRegion")
                 + Width("GotoIfFalse")
      rest == 2 * Width("PopRegion") + Width("Goto")
      end == start + Size(EmitBlock(node.block, start, [c EXCEPT !.break = 0]))
               + rest
  IN  Plain("PushRegion") \o condition \o Instruction("GotoIfFalse", end)
        \o Plain("PushRegion")
        \o EmitBlock(node.block, start, [c EXCEPT !.break = end])
        \o Plain("PopRegion") \o Plain("PopRegion")
        \o Instruction("Goto", at) \o Plain("PopRegion")

(* generate_break.  Mutant: the region of the block is left open. *)
BreakOpen(c) == Instruction("Goto", c.break)

(* It closes the region of the block; the one of the condition is closed *)
(* at the end of the loop.                                               *)
BreakCode(c) == Plain("PopRegion") \o Instruction("Goto", c.break)

(* generate_for.  The last pointer is written with a 16-bit argument, so  *)
(* its high byte is an instruction of its own, OP_NoOperation.            *)
ForCode(node, at, c) ==
  LET first == LetCode(node.iterator, at, c)
      start == at + Size(first)
      iterator == Instruction("LoadValue", node.iterator.index)
      end == Emit(node.end, start, c)
      block == EmitBlock(node.block, 0, c)
      step == Emit(node.stepsize, 0, c)
      length == 2 * Size(iterator) + Size(end) + Size(block) + Size(step) + 16
      test == Plain("PushRegion") \o iterator \o end
                \o Plain("IntegerLessThan")
                \o Instruction("GotoIfFalse", start + length)
                \o Plain("PushRegion")
  IN  first \o test \o EmitBlock(node.block, start + Size(test), c)
        \o iterator \o step \o Plain("IntegerAddition")
        \o VariablePointer(node.iterator.index) \o Plain("NoOperation")
        \o Plain("StoreInteger") \o Plain("PopRegion") \o Plain("PopRegion")
        \o Instruction("Goto", start) \o Plain("PopRegion")

(* Mutant: the block leaves its handler open. *)
HandlerOpen == Plain("NoOperation")

(* How the block of a try ends that raised nothing. *)
HandlerClosed == Plain("PopTry")

(* Mutant: try->handlers_end is that of the first pass, before the handlers. *)
HandlersEndFirst(end, handlers) == end

HandlersEnd(end, handlers) == end + Width("Goto") + Size(handlers)

(* generate_try and generate_catch: the first handler catches whatever is *)
(* raised.                                                                *)
TryCode(node, at, c) ==
  LET body == EmitBlock(node.block, at + Width("PushTry"), c)
      end == at + Width("PushTry") + Size(body) + Size(HandlerClosed)
      start == end + Width("Goto")
      handler(i) == EmitBlock(node.handlers[i], 0, c) \o Instruction("Goto", end)
      before(i) == Size(FlattenSeq([j \in 1 .. i - 1 |-> handler(j)]))
      handlers == FlattenSeq([i \in 1 .. Len(node.handlers) |->
        EmitBlock(node.handlers[i], start + before(i), c)
          \o Instruction("Goto", end)])
  IN  Instruction("PushTry", start) \o body \o HandlerClosed
        \o Instruction("Goto", HandlersEnd(end, handlers)) \o handlers

(* generate_print *)
PrintCode(node, at, c) ==
  Emit(node.value, at, c) \o Plain(PrintOpcode[node.value.type])

(* generate *)
Emit(node, at, c) ==
  CASE node.kind = "literal"    -> LiteralCode(node)
    [] node.kind = "identifier" -> Identifier(node)
    [] node.kind = "operation"  -> Operands(node.operands, at, c)
                                     \o Operator(node)
    [] node.kind = "cast"       -> Emit(node.operand, at, c) \o CastCode(node)
    [] node.kind = "fstring"    -> FStringCode(node, at, c)
    [] node.kind = "call"       -> Operands(node.arguments, at, c)
                                     \o Instruction("CallFunction", node.index)
    [] node.kind = "let"        -> LetCode(node, at, c)
    [] node.kind = "assignment" -> AssignmentCode(node, at, c)
    [] node.kind = "statement"  -> Emit(node.expression, at, c)
    [] node.kind = "print"      -> PrintCode(node, at, c)
    [] node.kind = "assert"     -> Emit(node.condition, at, c)
                                     \o Instruction("Assert", 0)
    [] node.kind = "return"     -> ReturnCode(node, at, c)
    [] node.kind = "raise"      -> Instruction("RaiseException", node.uid)
    [] node.kind = "if"         -> IfCode(node, at, c)
    [] node.kind = "while"      -> WhileCode(node, at, c)
    [] node.kind = "break"      -> BreakCode(c)
    [] node.kind = "for"        -> ForCode(node, at, c)
    [] node.kind = "try"        -> TryCode(node, at, c)

------------------------------------------------------------------------------
(* generate_function: OP_Debug, the block, and finally, the end of the *)
(* function that every path without a return takes.                    *)
Body(f, at) ==
  Instruction("Debug", 0)
    \o EmitBlock(f.block, at + Width("Debug"), [types |-> f.variables, break |-> 0])

(* Mutant: a function that ends without a return frees nothing. *)
FunctionUnfreed(f, at) == Body(f, at) \o Instruction("Return", "Void")

FunctionCode(f, at) ==
  Body(f, at) \o FreeVariables(f.variables, NoVariable)
    \o Instruction("Return", "Void")

(* generate_module: the call of main, then the functions. *)
Start == Instruction("CallFunction", 0) \o Plain("Halt")

RECURSIVE Address(_, _)
Address(program, i) ==
  IF i = 1 THEN Size(Start)
  ELSE Address(program, i - 1) + Size(FunctionCode(program[i - 1], 0))

Finally(f, address) == address + Size(Body(f, 0))

(* tarot_setup_function keeps 4 bits of the parameters and 7 of the        *)
(* variables, whose eighth falls on the lowest of the parameters.          *)
NumVariables(variables) == variables % 128
NumParameters(parameters, variables) ==
  IF variables % 256 >= 128 /\ parameters % 2 = 0
  THEN (parameters % 16) + 1
  ELSE parameters % 16

(* register_function *)
FunctionEntry(program, i) ==
  LET f == program[i]
      address == Address(program, i)
  IN  [address |-> address,
       finally |-> Finally(f, address),
       parameters |-> NumParameters(f.parameters, Len(f.variables)),
       variables |-> NumVariables(Len(f.variables)),
       returns |-> f.returns]

(* tarot_create_bytecode *)
Image(program) ==
  LET functions == FlattenSeq([i \in 1 .. Len(program) |->
                     FunctionCode(program[i], Address(program, i))])
  IN  [code |-> Placed(Start \o functions, 0),
       functions |-> [i \in 1 .. Len(program) |-> FunctionEntry(program, i)],
       source |-> program]
==============================================================================
