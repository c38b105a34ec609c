---------------------------- MODULE SoundPrograms ----------------------------
(***************************************************************************)
(* Programs the generated code is right for.  Only main has variables that *)
(* live on, functions return what they compute (the one that returns its   *)
(* variable is called once), a raise ends its function and is caught by    *)
(* main, and variables change by let or for alone.  A function with two    *)
(* parameters makes no difference between them: in what order the machine  *)
(* counts them is a question of its own (TwoArguments of Divergences.tla). *)
(***************************************************************************)
EXTENDS Programs

(* Two more variables of main. *)
S == Var(4, "String")
F == Var(5, "Float")

(* Functions 1 to 7. *)
Library == <<
  FunctionOf(<<>>, 1, <<ReturnOf(Minus(Param(0), Num(1)))>>),
  FunctionOf(<<>>, 1, <<If(Less(Num(1), Param(0)),
    <<ReturnOf(Plus(Param(0), CallTo(2, "Integer", <<Minus(Param(0), Num(1))>>)))>>,
    <<>>), ReturnOf(Num(1))>>),
  Procedure(<<>>, 2, <<PrintOf(Plus(Param(0), Param(1))),
    PrintOf(Minus(Neg(Param(1)), Param(0)))>>),
  Procedure(<<"Integer">>, 1, <<Let(0, Minus(Param(0), Num(1))), Raise>>),
  Procedure(<<"Integer", "Boolean">>, 0, <<Let(0, Num(2)),
    Do(CallTo(4, "Void", <<Var(0, "Integer")>>)), PrintOf(Var(0, "Integer"))>>),
  Procedure(<<>>, 0, <<TryCatch(<<PrintOf(Num(6))>>, <<<<PrintOf(Num(0))>>>>)>>),
  FunctionOf(<<"Integer", "String">>, 1, <<Let(0, Minus(Param(0), Num(1))),
    Let(1, Text(2)), ReturnOf(Var(0, "Integer"))>>)>>

Stored == <<X, Minus(Y, X), CallTo(1, "Integer", <<Plus(X, Y)>>),
            CallTo(2, "Integer", <<Y>>)>>
Conditions == <<B, And(Not(Less(Y, X)), B)>>
Mixed == Or(Relation("NotEqual", S, CastTo("String", F)), Relation("Equal", F, F))

Simple ==
  Each(LAMBDA e : Let(0, e), Stored)
    \o <<PrintOf(CallTo(1, "Integer", <<X>>)),
         Do(CallTo(6, "Void", <<>>)), Let(2, Less(X, Y)),
         Let(4, S), Let(4, FStringOf(<<S, X, Text(1)>>)),
         Let(5, Minus(F, Neg(F))), Let(1, Plus(Y, CastTo("Integer", F)))>>

Compound ==
  Each(LAMBDA c : If(c, <<PrintOf(X)>>, <<Let(1, Minus(X, Num(1)))>>), Conditions)
    \o Each(AssertThat, Conditions)
    \o <<If(Mixed, <<PrintOf(S)>>, <<PrintOf(F)>>)>>
    \o Each(LAMBDA s : While(Less(X, Num(3)),
                          <<s, If(Less(Y, X), <<Break>>, <<>>), PrintOf(Y)>>),
            <<Let(1, Plus(Y, Num(1))), PrintOf(CallTo(1, "Integer", <<X>>))>>)
    \o Each(LAMBDA s : For(3, Num(0), Num(2), Num(1),
                        <<s, If(B, <<PrintOf(Var(3, "Integer"))>>, <<>>)>>),
            <<Let(1, Var(3, "Integer")), PrintOf(X)>>)
    \o <<TryCatch(<<Let(1, Num(3)), PrintOf(X)>>, <<<<PrintOf(Num(8))>>>>)>>

(* After these the stack holds values above ptr, *)
Staling == <<Do(CallTo(3, "Void", <<X, Num(1)>>))>>

(* and before these it may not, as they call functions with variables. *)
Throwing ==
  Each(LAMBDA s : TryCatch(<<s, PrintOf(X)>>,
                           <<<<PrintOf(Num(8))>>, <<PrintOf(Num(9))>>>>),
       <<Do(CallTo(5, "Void", <<>>)),
         If(Less(X, Y), <<Do(CallTo(4, "Void", <<Y>>))>>, <<>>)>>)

WithMain(block) ==
  <<Main(<<"String", "Float">>, <<Let(4, Text(5)), Let(5, CastTo("Float", X))>>,
         block)>> \o Library

Nested(block) ==
  <<WithMain(<<While(Less(X, Y), block)>>),
    WithMain(<<For(3, Num(0), X, Num(1), block)>>),
    WithMain(<<TryCatch(block, <<block>>), If(Not(B), <<>>, block)>>)>>

SoundPrograms ==
  Pairs(LAMBDA s, t : WithMain(<<s, t>>),
        Simple \o Compound \o Throwing \o Staling, Compound \o Staling)
    \o Pairs(LAMBDA s, t : WithMain(<<s, t>>), Simple \o Compound, Throwing)
    \o FlattenSeq(Each(LAMBDA s : Nested(<<s>>), Compound \o Staling))
    \o Each(LAMBDA s : WithMain(<<PrintOf(CallTo(7, "Integer", <<Y>>)), s>>),
            Simple \o Compound)

SoundImages == Each(Image, SoundPrograms)
==============================================================================
