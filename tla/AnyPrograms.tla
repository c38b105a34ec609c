----------------------------- MODULE AnyPrograms -----------------------------
(***************************************************************************)
(* Programs of every kind: what goes wrong in them is found when they run. *)
(***************************************************************************)
EXTENDS Programs

(* Functions 1 to 7 of these. *)
AnyLibrary == <<
  FunctionOf(<<>>, 1, <<ReturnOf(Param(0))>>),
  FunctionOf(<<"Integer">>, 2, <<Let(0, Minus(Param(0), Param(1))),
    ReturnOf(Minus(Var(0, "Integer"), Num(1)))>>),
  FunctionOf(<<"Integer">>, 1, <<Let(0, Minus(Param(0), Num(1))),
    ReturnOf(Var(0, "Integer"))>>),
  FunctionOf(<<>>, 0, <<ReturnOf(Not(Bool(TRUE)))>>),
  Procedure(<<"Integer">>, 1, <<If(Less(Param(0), Num(1)), <<Raise>>, <<>>),
    Let(0, Num(1)), PrintOf(Var(0, "Integer"))>>),
  FunctionOf(<<>>, 1, <<If(Less(Num(1), Param(0)),
    <<ReturnOf(CallTo(6, "Integer", <<Minus(Param(0), Num(1))>>))>>, <<>>),
    ReturnOf(Minus(Param(0), Num(1)))>>),
  Procedure(<<"Integer">>, 0, <<TryCatch(<<Raise, PrintOf(Num(1))>>,
    <<<<PrintOf(Num(2))>>>>)>>)>>

AnyStatements == <<
  Assign(0, Minus(X, Num(1))), Assign(0, Y), Assign(2, Bool(FALSE)),
  Let(0, Power(Y, Num(2))), PrintOf(Power(Y, Num(2))),
  Let(0, CallTo(1, "Integer", <<X>>)),
  PrintOf(CallTo(2, "Integer", <<X, Y>>)),
  Let(1, CallTo(3, "Integer", <<X>>)),
  PrintOf(CallTo(4, "Boolean", <<>>)),
  Do(CallTo(5, "Void", <<X>>)), Do(CallTo(6, "Integer", <<Y>>)),
  Do(CallTo(7, "Void", <<>>)),
  Raise, AssertThat(Less(X, Y)),
  Let(1, X), Let(0, Minus(X, Y)), PrintOf(X)>>

AnyCompound(block) == <<
  If(Less(X, Y), block, <<Let(1, Num(2))>>),
  While(Less(X, Y), block),
  While(Less(X, Y), <<While(Less(Y, X), block)>>),
  While(Less(X, Y), block \o <<Break>>),
  For(3, Num(0), Num(2), Num(1), block),
  TryCatch(block, <<<<PrintOf(X)>>>>),
  TryCatch(<<While(Less(X, Y), block)>>, <<<<PrintOf(X)>>, <<Let(0, Y)>>>>),
  While(Less(X, Y), <<TryCatch(block, <<<<PrintOf(Y)>>>>)>>)>>

(* A main with variables of the other types. *)
S == Var(0, "String")
F == Var(2, "Float")
Q == Var(3, "Rational")
TypedMain(block) ==
  Procedure(<<"String", "String", "Float", "Rational">>, 0,
    <<Let(0, Text(4)), Let(2, Literal("Float", 3))>> \o block \o <<PrintOf(S)>>)

TypedStatements == <<
  Let(3, Literal("Rational", 2)), Let(3, Plus(Q, Neg(Q))), Assign(3, Q),
  Let(1, S), Let(0, FStringOf(<<S, F, Text(1)>>)), Assign(1, Text(2)),
  Let(2, Minus(F, Neg(F))), Let(2, CastTo("Float", S)),
  PrintOf(CastTo("Integer", F)), PrintOf(CastTo("Integer", Neg(CastTo("Integer", F)))),
  PrintOf(CastTo("Rational", F)), PrintOf(CastTo("String", S)),
  If(Or(Relation("In", S, S), Less(F, F)), <<PrintOf(Q)>>, <<PrintOf(F)>>),
  AssertThat(Relation("NotEqual", Q, Q))>>

AnyPrograms ==
  Pairs(LAMBDA s, t : <<Main(<<>>, <<>>, <<s, t>>)>> \o AnyLibrary,
        AnyStatements, AnyStatements)
    \o FlattenSeq(Each(LAMBDA s :
         Each(LAMBDA t : <<Main(<<>>, <<>>, <<t>>)>> \o AnyLibrary, AnyCompound(<<s>>)),
         AnyStatements))
    \o Pairs(LAMBDA s, t : <<TypedMain(<<s, t>>)>>,
             TypedStatements, TypedStatements)

AnyImages == Each(Image, AnyPrograms)
==============================================================================
