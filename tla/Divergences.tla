----------------------------- MODULE Divergences -----------------------------
(***************************************************************************)
(* Programs each of which shows one divergence of the code from what its   *)
(* sources say of it.                                                      *)
(***************************************************************************)
EXTENDS Programs

(* function g() { raise g; print(1); } main() { try { g(); } catch {...} } *)
AfterRaise == Each(Image, <<<<
  Procedure(<<>>, 0, <<TryCatch(<<Do(CallTo(1, "Void", <<>>))>>,
                         <<<<PrintOf(Num(2))>>>>)>>),
  Procedure(<<>>, 0, <<Raise, PrintOf(Num(1))>>)>>>>)

(* The example of README.md:22-31. *)
Readme == Each(Image, <<<<Procedure(<<"Integer">>, 0, <<Let(0, Num(1)),
  While(Less(X, Num(10)), <<PrintOf(X), PrintOf(Power(X, Num(2))),
    Assign(0, Plus(X, Num(1)))>>)>>)>>>>)

(* main() { print(f(5, 2)); } f(a, b) { return a - b; } *)
TwoArguments == Each(Image, <<<<
  Procedure(<<>>, 0, <<PrintOf(CallTo(1, "Integer", <<Num(5), Num(2)>>))>>),
  FunctionOf(<<>>, 2, <<ReturnOf(Minus(Param(0), Param(1)))>>)>>>>)

(* for i in range(10) { try { while i < 10 { raise main; } } catch {...} } *)
LeaveLoops == Each(Image, <<<<Procedure(<<"Integer">>, 0, <<For(0, Num(0), Num(10), Num(1),
  <<TryCatch(<<While(Less(X, Num(10)), <<Raise>>)>>,
             <<<<PrintOf(X)>>>>)>>)>>)>>>>)

(* main() { let q = 1.5; print(q); } *)
KeptRational == Each(Image, <<<<Procedure(<<"Rational">>, 0,
  <<Let(0, Literal("Rational", 1)), PrintOf(Var(0, "Rational"))>>)>>>>)
==============================================================================
