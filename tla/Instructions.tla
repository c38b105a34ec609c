----------------------------- MODULE Instructions -----------------------------
(***************************************************************************)
(* The part of the instruction set (bytecode/opcodes.h) that is modelled,  *)
(* shared by the code generator and the virtual machine.                   *)
(***************************************************************************)
EXTENDS Naturals

Stores == {"StoreValue", "StoreInteger", "StoreRational", "StoreString"}
Frees == {"FreeInteger", "FreeRational", "FreeString"}
Copies == {"CopyInteger", "CopyRational", "CopyString"}
Prints == {"PrintBoolean", "PrintFloat", "PrintInteger", "PrintRational",
  "PrintString"}
Relations == {"FloatLessThan", "FloatEquality", "IntegerLessThan",
  "IntegerEquality", "RationalLessThan", "RationalEquality", "StringEquality",
  "StringContains"}
Literals == {"PushInteger", "PushFloat", "PushRational", "PushString"}
Negations == {"FloatNeg", "IntegerNeg", "RationalNeg"}
Additions == {"FloatAddition", "IntegerAddition", "RationalAddition"}
Subtractions ==
  {"FloatSubtraction", "IntegerSubtraction", "RationalSubtraction"}

NoArgument ==
  Stores \union Frees \union Copies \union Prints \union Relations
    \union Negations \union Additions \union Subtractions
    \union {"NoOperation", "Halt", "PopTry", "PushRegion", "PopRegion",
            "UnTrack", "PushTrue", "PushFalse", "LogicalAnd", "LogicalOr",
            "LogicalNot", "IntegerPower", "StringConcat"}

(* Bytes of an instruction: the opcode and its 8-bit or 16-bit argument. *)
Width(op) == CASE op \in NoArgument          -> 1
               [] op = "LoadVariablePointer" -> 2
               [] OTHER                      -> 3

(* The types whose values are pointers to blocks. *)
Boxed == {"Integer", "Rational", "String"}

------------------------------------------------------------------------------
(* What instructions leave on the stack: blocks the region tracks, *)
IntegerResults == {"PushInteger", "CopyInteger", "IntegerNeg",
  "IntegerAddition", "IntegerSubtraction"}
StringResults == {"PushString", "CopyString", "StringConcat"}

(* blocks that nothing tracks, *)
RationalResults == {"PushRational", "CopyRational", "RationalNeg",
  "RationalAddition", "RationalSubtraction"}
Keeping == RationalResults \union {"IntegerPower"}

(* and values that are not in blocks. *)
FloatResults == {"PushFloat", "FloatNeg", "FloatAddition", "FloatSubtraction"}

(* The types a cast converts from; it leaves others, its own too, alone. *)
Casting == [CastToInteger  |-> {"Float", "Rational", "String"},
            CastToFloat    |-> {"Integer", "Rational", "String"},
            CastToRational |-> {"Integer", "Float", "String"},
            CastToString   |-> {"Integer", "Float", "Rational", "Boolean"}]

ConvertsTo(i, cast) == i.op = cast /\ i.arg \in Casting[cast]

TracksOf(i) == i.op \in IntegerResults \union StringResults
                 \/ ConvertsTo(i, "CastToInteger") \/ ConvertsTo(i, "CastToString")
KeepsOf(i) == i.op \in Keeping \/ ConvertsTo(i, "CastToRational")
FloatsOf(i) == i.op \in FloatResults \/ ConvertsTo(i, "CastToFloat")

PushesOf(i) ==
  \/ TracksOf(i) \/ KeepsOf(i) \/ FloatsOf(i)
  \/ i.op \in Relations \union
       {"PushTrue", "PushFalse", "LogicalAnd", "LogicalOr", "LogicalNot",
        "LoadValue", "LoadArgument", "LoadVariablePointer", "RaiseException"}

KindOf(type) == CASE type \in Boxed     -> "block"
                  [] type = "Float"     -> "float"
                  [] type = "Boolean"   -> "bool"

FloatPairs ==
  {"FloatLessThan", "FloatEquality", "FloatAddition", "FloatSubtraction"}
BlockPairs ==
  (Relations \union Additions \union Subtractions
     \union {"IntegerPower", "StringConcat"}) \ FloatPairs
BlockSingles ==
  Copies \union {"IntegerNeg", "RationalNeg", "PrintInteger", "PrintRational",
                 "PrintString"}

(* What an instruction pops, the top of the stack first. *)
PopsOf(i) ==
  CASE i.op \in FloatPairs  -> <<"float", "float">>
    [] i.op \in BlockPairs  -> <<"block", "block">>
    [] i.op \in {"FloatNeg", "PrintFloat"} -> <<"float">>
    [] i.op \in BlockSingles -> <<"block">>
    [] i.op \in {"Assert", "GotoIfFalse", "LogicalNot", "PrintBoolean"}
              -> <<"bool">>
    [] i.op \in {"LogicalAnd", "LogicalOr"} -> <<"bool", "bool">>
    [] i.op \in {"StoreValue", "StoreInteger", "StoreString"} -> <<"slot", "any">>
    [] i.op \in {"FreeInteger", "FreeString"} -> <<"slot">>
    [] i.op \in DOMAIN Casting /\ i.arg \in Casting[i.op] -> <<KindOf(i.arg)>>
    [] OTHER -> <<>>
==============================================================================
