----------------------------- MODULE Formatter ------------------------------
(***************************************************************************)
(* The parser and the serializer together, as in pentagram -f: the tree of *)
(* a file without errors is printed, and what was printed is a file that   *)
(* can be parsed in turn.                                                  *)
(***************************************************************************)
EXTENDS Parser

Printer == INSTANCE Serializer

VARIABLE printed     \* the tree that was printed, and whether all of it was

allVars == <<vars, printed>>

Levels_ == <<"expression", "equality", "relational", "additive",
             "multiplicative", "postfix">>
Operating == {"LogicalExpression", "RelationalExpression", "ArithmeticExpression"}

\* The level of an operator; what is not an operation binds tightest.
Tightness(n) ==
    IF heap[n].kind \notin Operating THEN 7
    ELSE CHOOSE l \in 1 .. 6 : heap[n].text \in Rules[Levels_[l]].operators

\* The operands bind as tightly as the source made them, which a copied
\* target and its operand need not.
Grouped(n) ==
    heap[n].kind \in Operating =>
        LET right == Kid(heap, n, "right_operand")
        IN  right # Null => Tightness(right) >= Tightness(n)

\* Kinds, and forms of some kinds, the serializer prints in part or not at all.
Unprinted(n) ==
    \/ heap[n].kind \in {"PrintStatement", "For", "Range", "Break", "Breakpoint",
                         "Constructor", "Method", "Attribute"}
    \/ heap[n].kind = "ForeignFunction" /\ Kid(heap, n, "return_value") # Null
    \/ heap[n].kind \in {"Variable", "Constant"} /\ Kid(heap, n, "value") = Null

Format ==
    /\ Finished /\ answer # Null /\ Errors = 0 /\ printed = <<>>
    /\ source' = Printer!Serialized(heap, answer)
    /\ printed' = <<[tree |-> Printer!Shape(heap, answer),
                     whole |-> /\ "ERROR" \notin ToSet(source')
                               /\ \A n \in Tree : Grouped(n) /\ ~Unprinted(n)]>>
    /\ Restart

FormatterInit == Init /\ printed = <<>>
Proceed == Parsing /\ UNCHANGED printed
FormatterNext == Proceed \/ Format
FormatterSpec == FormatterInit /\ [][FormatterNext]_allVars
                               /\ WF_allVars(Proceed)

\* The file could be opened and has been parsed.
HasRead == Finished /\ parsers[1].stream # 0

(* What is printed is read back as the same tree, without an error, when   *)
(* every part of the tree has a printed form (serialize.c:264-620).        *)
ReadsBack ==
    HasRead /\ printed # <<>> /\ printed[1].whole =>
        Errors = 0 /\ Printer!Shape(heap, answer) = printed[1].tree
=============================================================================
