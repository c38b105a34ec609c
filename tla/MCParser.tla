------------------------------ MODULE MCParser ------------------------------
(***************************************************************************)
(* Files for the parser: programs, and the same with one token removed, or *)
(* with another token in its place.                                        *)
(***************************************************************************)
EXTENDS Formatter

MCClass ==
    [ identifier |-> {"a", "b", "f", "C", "E", "print", "println", "abs", "range",
                      "input", "Integer", "List"},
      integer |-> {"1"}, rational |-> {"1/2"}, string |-> {"s", "t", "st"},
      rstring |-> {"r"}, fstring |-> {"F", "G"} ]

MCSlices ==
    ("F" :> <<[text |-> "s", code |-> <<>>],
              [text |-> "none", code |-> <<"a", "+", "1">>]>>)
 @@ ("G" :> <<[text |-> "none", code |-> <<"a", "b">>]>>)

Body(statements) == <<"function", "f", "(", ")", "{">> \o statements \o <<"}">>

Programs ==
  { <<"function", "f", "(", "a", ":", "Integer", "=", "1", ")", "->", "Integer", "{",
      "return", "a", "-", "1", "*", "b", ";", "}">>,
    <<"public", "class", "C", "(", "a", ")", "{", "__init__", "(", "b", ":", "List",
      "[", "Integer", "]", ")", "{", "return", "1", ";", "}", "}">>,
    <<"class", "C", "{", "a", ":", "Integer", "=", "1", ";", "function", "f", "(", ")",
      "{", "assert", "self", ".", "a", ";", "}", "}">>,
    <<"namespace", "a", "{", "private", "enumeration", "E", "{", "a", ",", "b", "}",
      "union", "b", "{", "class", "C", "{", "}", "}", "}">>,
    Body(<<"while", "a", "{", "if", "b", "{", "break", ";", "}", "else", "{",
           "print", "(", "1", ")", ";", "}", "}">>),
    Body(<<"for", "a", "in", "range", "(", "1", ")", "{", "a", ".", "b", "+=", "1", ";",
           "__breakpoint__", ";", "}">>),
    Body(<<"try", "{", "raise", "a", ";", "}", "catch", "a", ",", "b", "{", "}">>),
    Body(<<"if", "a", "{", "let", "b", "=", "1", ";", "}", "let", "a", "=", "1",
           ";">>),
    Body(<<"match", "a", "{", "1", "{", "f", "(", "a", ",", "1", ")", ";", "}", "}",
           "a", "=", "1", ";">>),
    Body(<<"let", "a", "=", "not", "(", "1", "==", "1/2", "and", "b", ")", ";",
           "a", "[", "1", "]", "=", "input", "(", "r", ")", ";">>),
    <<"constant", "a", ":", "Integer", "=", "[", "1", ",", "abs", "(", "-", "1", ")",
      "]", ";", "constant", "b", "=", "{", "s", "t", ":", "1", "}", ";">>,
    <<"constant", "a", "=", "F", ";", "constant", "b", "=", "Integer", "(", "1", ")",
      ";">>,
    <<"foreign_function", "f", "(", "a", ":", "Integer", ")", "->", "Integer", ";">>,
    <<"from", "s", "import", "a", ".", "b", "as", "f", ";", "from", "t", "import", "a",
      ";">>,
    Body(<<"a", "*=", "b", "+", "1", ";", "let", "a", ":", "C", ".", "E", "=", "1", ";">>) }

Without(s, i) == SubSeq(s, 1, i - 1) \o SubSeq(s, i + 1, Len(s))

Edited ==
    {Without(s, i) : <<s, i>> \in {p \in Programs \X (1 .. 25) : p[2] <= Len(p[1])}}
    \cup {[s EXCEPT ![i] = t] : <<s, i, t>> \in
            {p \in Programs \X (1 .. 25) \X {"}", "a", ";"} : p[2] <= Len(p[1])}}

MCSources ==
    Programs \cup Edited
    \cup { <<"define_type", "a", "as", "Integer", ";">>,
           <<"constant", "a", "=", "G", ";">>,
           <<"constant", "comment", "a", "=", "bad", ";">>,
           Body(<<"a", "[", "range", "(", "1", ")", "]", "+=", "1", ";">>) }

(* The programs as written are accepted.                                   *)
AcceptsPrograms == HasRead /\ source \in Programs => answer # Null /\ Errors = 0
=============================================================================
