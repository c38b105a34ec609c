----------------------------- MODULE Serializer -----------------------------
(***************************************************************************)
(* tree/serialize.c: the tokens that a tree is printed as.  White space    *)
(* and the breaking of long strings are left out.  A kind of node without  *)
(* a layout is printed as nothing at all.                                  *)
(***************************************************************************)
EXTENDS SyntaxTree, SequencesExt

CONSTANT Slices    \* the slices of an f-string token

\* Pieces of a layout.
Word(token) == [print |-> "word", word |-> token]
Part(field) == [print |-> "part", field |-> field]
Text == [print |-> "text"]
Note == [print |-> "note"]
Visibility == [print |-> "visibility"]
Each(behind) == [print |-> "each", behind |-> behind]
\* Pieces that are printed only when the node has the field.
WhenSet(field, pieces) == [print |-> "when", field |-> field, pieces |-> pieces]

Enclosed(field) == <<Word("("), Part(field), Word(")")>>
Binary == <<Part("left_operand"), Text, Part("right_operand")>>

Expressions ==
    [ InfixExpression |-> Enclosed("expression"),
      LogicalExpression |-> Binary, RelationalExpression |-> Binary,
      ArithmeticExpression |-> Binary,
      Not |-> <<Word("not"), Part("expression")>>,
      Neg |-> <<Word("-"), Part("expression")>>,
      Abs |-> <<Word("abs")>> \o Enclosed("expression"),
      FunctionCall |-> <<Part("identifier")>> \o Enclosed("arguments"),
      Relation |-> <<Part("parent"), Word("."), Text>>,
      Subscript |-> <<Part("identifier"), Word("["), Part("index"), Word("]")>>,
      Pair |-> <<Part("key"), Word(":"), Part("value")>>,
      Typecast |-> <<Text>> \o Enclosed("operand"),
      Input |-> <<Word("input")>> \o Enclosed("prompt"),
      List |-> <<Word("["), Each(<<Word(",")>>), Word("]")>>,
      Dict |-> <<Word("{"), Each(<<Word(",")>>), Word("}")>>,
      Literal |-> <<Text>>, Identifier |-> <<Text>>, Enumerator |-> <<Text>> ]

ElseIf == WhenSet("elseif", <<Word("else"), Part("elseif")>>)

Statements ==
    [ If |-> <<Word("if"), Part("condition"), Part("block"), ElseIf>>,
      While |-> <<Word("while"), Part("condition"), Part("block")>>,
      Match |-> <<Word("match"), Part("pattern"), Part("block")>>,
      Case |-> <<Part("condition"), Part("block")>>,
      Assignment |-> <<Part("identifier"), Word("="), Part("value"), Word(";")>>,
      ExpressionStatement |-> <<Part("expression"), Word(";")>>,
      PrintStatement |-> <<Text>> \o Enclosed("arguments"),
      Return |-> <<Word("return"), Part("expression"), Word(";")>>,
      Try |-> <<Word("try"), Part("block"), Part("handlers")>>,
      Catch |-> <<Word("catch"), Part("identifiers"), Part("block")>>,
      Raise |-> <<Word("raise"), Part("identifier"), Word(";")>>,
      Assert |-> <<Word("assert"), Part("condition"), Word(";")>>,
      Import |-> <<Word("from"), Note, Word("import"), Part("identifier"),
                   Word("as"), Text, Word(";")>> ]

TypedAs == WhenSet("type", <<Word(":"), Part("type")>>)
ValueOf == WhenSet("value", <<Word("="), Part("value")>>)
Named(keyword) == <<Visibility, Word(keyword), Text>>

Definitions ==
    [ Module |-> <<Part("block")>>,
      Class |-> Named("class") \o <<WhenSet("extends", Enclosed("extends")),
                                    Part("block")>>,
      Enum |-> Named("enumeration") \o <<Word("{"), Part("block"), Word("}")>>,
      Function |-> Named("function") \o Enclosed("parameters")
                   \o <<WhenSet("return_value", <<Word("->"), Part("return_value")>>),
                        Part("block")>>,
      ForeignFunction |-> Named("foreign_function") \o Enclosed("parameters")
                          \o <<Word(";")>>,
      Namespace |-> Named("namespace") \o <<Part("block")>>,
      Union |-> Named("union") \o <<Part("block")>>,
      Variable |-> <<Word("let"), Text, TypedAs, ValueOf, Word(";")>>,
      Constant |-> <<Word("constant"), Text, TypedAs, ValueOf, Word(";")>>,
      Parameter |-> <<Text, Word(":"), Part("type"), ValueOf>> ]

Layouts == Expressions @@ Statements @@ Definitions

(* Mutant: the elements of a list have no commas between them. *)
BlockLayoutsBare ==
    [ default |-> <<Each(<<>>)>>,
      scoped |-> <<Word("{"), Each(<<>>), Word("}")>>,
      list |-> <<Each(<<>>)>> ]

BlockLayouts ==
    [ default |-> <<Each(<<>>)>>,
      scoped |-> <<Word("{"), Each(<<>>), Word("}")>>,
      list |-> <<[print |-> "separated"]>> ]

-----------------------------------------------------------------------------
SubType == WhenSet("subtype", <<Word("["), Part("subtype"), Word("]")>>)

\* The pieces of a node: a type prints its name, or what it was built in.
LayoutOf(node) ==
    IF node.kind = "Block" THEN BlockLayouts[node.note]
    ELSE IF node.kind = "Type"
    THEN <<IF node.text = "none" THEN Part("identifier") ELSE Text, SubType>>
    ELSE IF node.kind \in DOMAIN Layouts THEN Layouts[node.kind]
    ELSE <<>>

RECURSIVE Serialized(_, _), PrintedPieces(_, _, _)

\* The f-string token with these slices.
FString(heap, elements) ==
    LET Printed(n) ==
            IF heap[n].kind = "FStringString"
            THEN [text |-> heap[n].text, code |-> <<>>]
            ELSE [text |-> "none", code |-> Serialized(heap, Kid(heap, n, "expression"))]
        slices == [i \in DOMAIN elements |-> Printed(elements[i])]
    IN  IF \E t \in DOMAIN Slices : Slices[t] = slices
        THEN CHOOSE t \in DOMAIN Slices : Slices[t] = slices ELSE "ERROR"

\* tarot_serialize_node.
Serialized(heap, n) ==
    IF n = Null THEN <<"ERROR">>
    ELSE IF heap[n].kind = "FString"
    THEN <<FString(heap, [i \in DOMAIN heap[n].kids |-> heap[n].kids[i].node])>>
    ELSE PrintedPieces(heap, n, LayoutOf(heap[n]))

PrintedPieces(heap, n, pieces) ==
    LET node == heap[n]
        element(i) == Serialized(heap, node.kids[i].node)
        Printed(p) ==
            CASE p.print = "word" -> <<p.word>>
              [] p.print = "part" -> Serialized(heap, Kid(heap, n, p.field))
              [] p.print = "text" -> <<node.text>>
              [] p.print = "note" -> <<node.note>>
              [] p.print = "visibility" ->
                    IF node.note = "none" THEN <<>> ELSE <<node.note>>
              [] p.print = "when" ->
                    IF Kid(heap, n, p.field) = Null THEN <<>>
                    ELSE PrintedPieces(heap, n, p.pieces)
              [] p.print = "each" ->
                    FlattenSeq([i \in DOMAIN node.kids |->
                        element(i) \o [j \in DOMAIN p.behind |-> p.behind[j].word]])
              [] p.print = "separated" ->
                    FlattenSeq([i \in DOMAIN node.kids |->
                        element(i) \o IF i < Len(node.kids) THEN <<",">> ELSE <<>>])
    IN  FlattenSeq([i \in DOMAIN pieces |-> Printed(pieces[i])])

-----------------------------------------------------------------------------
RECURSIVE Shape(_, _)

\* A tree without the addresses of its nodes: what two trees have in common
\* when they are the same program.
Shape(heap, n) ==
    IF n = Null THEN <<>>
    ELSE [kind |-> heap[n].kind, text |-> heap[n].text, note |-> heap[n].note,
          kids |-> [i \in DOMAIN heap[n].kids |->
                      <<heap[n].kids[i].field, Shape(heap, heap[n].kids[i].node)>>]]
=============================================================================
