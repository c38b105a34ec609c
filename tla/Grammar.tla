------------------------------ MODULE Grammar ------------------------------
(***************************************************************************)
(* The rules of tree/parse.c as data: Parser.tla executes them.  A rule    *)
(* that starts with a token is tried by looking at the current token; a    *)
(* rule whose start is {} is always entered.                               *)
(***************************************************************************)
EXTENDS Integers, Sequences, TLC

\* Steps of a rule: expect a token, read a name, parse a field, act.
Expect(token) == [do |-> "expect", token |-> token]
Child(field, rule) == [do |-> "child", field |-> field, rule |-> rule]
Do(what) == [do |-> what]

\* Steps behind a token that may be missing.
Maybe(token, steps) ==
    <<[do |-> "maybe", token |-> token, over |-> Len(steps)]>> \o steps

\* A node that starts with one of some tokens.
Construct(start, kind, steps) ==
    [form |-> "construct", start |-> start, kind |-> kind, steps |-> steps]

\* A node around what another rule returns.
Wrap(first, kind, field, steps) ==
    [form |-> "wrap", start |-> {}, first |-> first, kind |-> kind,
     field |-> field, steps |-> steps]

\* A node made around the one to its left.
Suffix(start, kind, field, steps) ==
    [form |-> "suffix", start |-> start, kind |-> kind, field |-> field,
     steps |-> steps]

\* An identifier and the suffixes behind it.
Chain(suffixes) ==
    [form |-> "chain", start |-> {"identifier", "self"}, kind |-> "Identifier",
     of |-> suffixes]

\* The first of some rules that returns a node.
Choice(rules) == [form |-> "choice", start |-> {}, of |-> rules]

\* One level of binary operators; the right operand is of the same level.
Level(self, operand, operators, kind) ==
    [form |-> "level", start |-> {}, self |-> self, operand |-> operand,
     operators |-> operators, kind |-> kind]

\* multiparse: a sequence of what a rule returns.
Many(start, of, comma, kind, note, close) ==
    [form |-> "many", start |-> start, of |-> of, comma |-> comma,
     kind |-> kind, note |-> note, close |-> close]

Separated(of) == Many({}, of, TRUE, "Block", "list", {})
Repeated(of) == Many({}, of, FALSE, "Block", "default", {})

Scoped(block) ==
    [form |-> "scoped", start |-> {},
     steps |-> <<Expect("{"), [do |-> "become", rule |-> block], Expect("}"),
                 Do("scoped")>>]

-----------------------------------------------------------------------------
\* Literals: the text of the token is the value.
Literals ==
    [ constantLiteral |->
        Construct({"true", "false", "integer", "float", "rational", "rstring"},
                  "Literal", <<>>),
      string  |-> Construct({"string"}, "Literal", <<Do("concat")>>),
      fstring |-> [form |-> "fstring", start |-> {"fstring"}] ]

\* Identifiers, the relations in types and imports, primary expressions.
Primaries ==
    [ relation     |-> Chain(<<"dot">>),
      primary      |-> Chain(<<"dot", "subscript", "call">>),
      dot          |-> Suffix({"."}, "Relation", "parent", <<Do("name")>>),
      subscript    |-> Suffix({"["}, "Subscript", "identifier",
                              <<Child("index", "expression"), Expect("]")>>),
      call         |-> Suffix({"("}, "FunctionCall", "identifier",
                              <<Child("arguments", "arguments"), Expect(")")>>),
      arguments    |-> Separated("expression") ]

Builtins == {"Boolean", "Integer", "Rational", "Float", "String"}
TypeNames == Builtins \cup {"Void", "List", "Dict"}

Bracketed(field, rule) == <<Expect("("), Child(field, rule), Expect(")")>>

Unaries ==
    [ infix    |-> Construct({"("}, "InfixExpression",
                             <<Child("expression", "expression"), Expect(")")>>),
      not      |-> Construct({"not"}, "Not", <<Child("expression", "expression")>>),
      neg      |-> Construct({"-"}, "Neg", <<Child("expression", "expression")>>),
      abs      |-> Construct({"abs"}, "Abs", Bracketed("expression", "expression")),
      range    |-> Construct({"range"}, "Range",
                             <<Expect("("), Child("end", "expression"),
                               Do("range"), Expect(")")>>),
      input    |-> Construct({"input"}, "Input", Bracketed("prompt", "prompt")),
      prompt   |-> Choice(<<"string", "fstring", "rstring">>),
      rstring  |-> Construct({"rstring"}, "Literal", <<>>),
      typecast |-> Construct(Builtins, "Typecast", Bracketed("operand", "expression")),
      list     |-> Many({"["}, "expression", TRUE, "List", "none", {"]"}),
      dict     |-> Many({"{"}, "pair", TRUE, "Dict", "none", {"}"}),
      pair     |-> Wrap("prompt", "Pair", "key",
                        <<Expect(":"), Child("value", "expression")>>),
      unary    |-> Choice(<<"infix", "not", "neg", "abs", "range", "typecast",
                            "input", "list", "dict", "constantLiteral", "string",
                            "fstring", "primary">>) ]

Levels ==
    [ postfix        |-> Level("postfix", "unary", {"**"}, "ArithmeticExpression"),
      multiplicative |-> Level("multiplicative", "postfix", {"*", "/", "mod"},
                               "ArithmeticExpression"),
      additive       |-> Level("additive", "multiplicative", {"+", "-"},
                               "ArithmeticExpression"),
      relational     |-> Level("relational", "additive", {">", "<", ">=", "<="},
                               "RelationalExpression"),
      equality       |-> Level("equality", "relational", {"==", "!=", "in"},
                               "RelationalExpression"),
      expression     |-> Level("expression", "equality", {"and", "or", "xor"},
                               "LogicalExpression") ]

-----------------------------------------------------------------------------
Typed == Maybe(":", <<Child("type", "datatype")>>)
Valued == <<Expect("="), Child("value", "expression"), Expect(";"), Do("declare")>>

Variables ==
    [ datatype  |-> Wrap("relation", "Type", "identifier",
                         Maybe("[", <<Child("subtype", "datatype"), Expect("]")>>)),
      constant  |-> Construct({"constant"}, "Constant", <<Do("name")>> \o Typed \o Valued),
      variable  |-> Construct({"let"}, "Variable", <<Do("name")>> \o Typed \o Valued),
      parameter |-> Construct({"identifier"}, "Parameter",
                       <<Expect(":"), Child("type", "datatype")>>
                       \o Maybe("=", <<Child("value", "expression")>>)
                       \o <<Do("declare")>>),
      attribute |-> Construct({"identifier"}, "Attribute",
                       Typed \o Maybe("=", <<Child("value", "expression")>>)
                       \o <<Expect(";")>>) ]

Returning == Maybe("->", <<Child("return_value", "datatype")>>)
Parameters == <<Expect("("), Child("parameters", "parameters"), Do("index"),
                Expect(")")>>

Callables ==
    [ parameters  |-> Separated("parameter"),
      function    |-> Construct({"function"}, "Function",
                        <<Do("name"), Do("enter")>> \o Parameters \o Returning
                        \o <<Child("block", "statements"), Do("leave")>>),
      method      |-> Construct({"function"}, "Method",
                        <<Do("name"), Do("enter")>> \o Parameters \o Returning
                        \o <<Child("block", "statements"), Do("leave")>>),
      constructor |-> Construct({"__init__"}, "Constructor",
                        <<Do("constructor")>> \o Parameters
                        \o <<Child("block", "statements")>>),
      foreignParameters |-> Separated("foreignParameter"),
      foreignParameter  |-> Construct({"identifier"}, "Parameter",
                        <<Expect(":"), Child("type", "datatype")>>
                        \o Maybe("=", <<Child("value", "expression")>>)),
      foreign     |-> Construct({"foreign_function"}, "ForeignFunction",
                        <<Do("name"), Expect("("),
                          Child("parameters", "foreignParameters"), Expect(")")>>
                        \o Returning \o <<Expect(";")>>) ]

Definitions ==
    [ member      |-> Choice(<<"constructor", "method", "constant", "import",
                               "attribute">>),
      members     |-> Scoped("memberList"),
      memberList  |-> Repeated("member"),
      class       |-> Construct({"class"}, "Class",
                        <<Do("name")>>
                        \o Maybe("(", <<Child("extends", "relations"), Expect(")")>>)
                        \o <<Do("enter"), Child("block", "members"), Do("leave")>>),
      relations   |-> Separated("relation"),
      enumerator  |-> Construct({"identifier"}, "Enumerator", <<>>),
      enumerators |-> Separated("enumerator"),
      enumeration |-> Construct({"enumeration"}, "Enum",
                        <<Do("name"), Expect("{"), Child("block", "enumerators"),
                          Expect("}"), Do("enumerators")>>),
      namespace   |-> Construct({"namespace"}, "Namespace",
                        <<Do("name"), Do("enter"), Child("block", "scopedGlobals"),
                          Do("leave")>>),
      typedef     |-> Construct({"define_type"}, "Type", <<Do("typedef")>>),
      union       |-> Construct({"union"}, "Union",
                        <<Do("name"), Child("block", "scopedDefinitions")>>),
      scopedDefinitions |-> Scoped("definitionList"),
      definitionList    |-> Repeated("definition"),
      definition  |-> [form |-> "definition", start |-> {},
                       of |-> <<"class", "enumeration", "function", "foreign",
                                "namespace", "typedef", "union">>] ]

-----------------------------------------------------------------------------
Jumps ==
    [ assert     |-> Construct({"assert"}, "Assert",
                       <<Child("condition", "expression"), Do("inFunction"), Expect(";")>>),
      raise      |-> Construct({"raise"}, "Raise",
                       <<Child("identifier", "primary"), Expect(";")>>),
      return     |-> Construct({"return"}, "Return",
                       <<Do("inFunction"), Child("expression", "expression"), Expect(";")>>),
      break      |-> Construct({"break"}, "Break",
                       <<Do("inLoop"), Expect(";"), Do("outside")>>),
      breakpoint |-> Construct({"__breakpoint__"}, "Breakpoint", <<Expect(";")>>) ]

Branches ==
    [ if       |-> Construct({"if"}, "If",
                     <<Child("condition", "expression"), Child("block", "statements")>>
                     \o Maybe("else", <<Child("elseif", "elseBranch"), Do("require")>>)),
      elseBranch |-> Choice(<<"if", "statements">>),
      while    |-> Construct({"while"}, "While",
                     <<Child("condition", "expression"), Do("loop"),
                       Child("block", "statements"), Do("unloop")>>),
      for      |-> Construct({"for"}, "For",
                     <<Do("name"), Do("iterator"), Expect("in"),
                       Child("expression", "expression"), Do("loop"),
                       Child("block", "statements"), Do("unloop")>>),
      case     |-> Wrap("expression", "Case", "condition",
                        <<Child("block", "statements")>>),
      caseList |-> Repeated("case"),
      cases    |-> Scoped("caseList"),
      match    |-> Construct({"match"}, "Match",
                     <<Child("pattern", "expression"), Child("block", "cases")>>) ]

Statements ==
    [ assignment |-> Suffix({"="}, "Assignment", "identifier",
                            <<Child("value", "expression"), Expect(";")>>),
      compound   |-> Suffix({"+=", "-=", "*=", "/="}, "ArithmeticExpression",
                            "left_operand",
                            <<Child("right_operand", "expression"), Do("assign"),
                              Expect(";")>>),
      assignOrExpression |-> [form |-> "assign", start |-> {}],
      catch      |-> Construct({"catch"}, "Catch",
                       <<Child("identifiers", "catchList"), Child("block", "statements")>>),
      catchList  |-> Separated("primary"),
      catches    |-> Repeated("catch"),
      try        |-> Construct({"try"}, "Try",
                       <<Child("block", "statements"), Child("handlers", "catches"),
                         Do("handlers")>>),
      import     |-> Construct({"from"}, "Import",
                       <<Do("path"), Expect("import"), Child("identifier", "relation"),
                         Do("alias"), Do("name"), Expect(";"), Do("declare")>>),
      print      |-> Construct({"print", "println"}, "PrintStatement",
                       Bracketed("arguments", "expression") \o <<Expect(";")>>),
      statement  |-> Choice(<<"assert", "import", "raise", "return", "if", "while",
                              "for", "break", "breakpoint", "match", "try", "print",
                              "constant", "variable", "assignOrExpression">>),
      statementList |-> Repeated("statement"),
      statements |-> Scoped("statementList") ]

Globals ==
    [ global     |-> Choice(<<"import", "constant", "definition">>),
      globalList |-> Repeated("global"),
      scopedGlobals |-> Scoped("globalList"),
      module     |-> Construct({}, "Module",
                       <<Do("enter"), Child("block", "globalList"), Do("leave"),
                         Expect("EOF")>>) ]

Rules == Literals @@ Primaries @@ Unaries @@ Levels @@ Variables @@ Callables
         @@ Definitions @@ Jumps @@ Branches @@ Statements @@ Globals
=============================================================================
