---------------------------- MODULE MCDivergences ----------------------------
(***************************************************************************)
(* The virtual machine on the programs of Divergences.tla, one at a time.  *)
(***************************************************************************)
EXTENDS VirtualMachine

P == INSTANCE Divergences

AfterRaise == P!AfterRaise
Readme == P!Readme
TwoArguments == P!TwoArguments
LeaveLoops == P!LeaveLoops
KeptRational == P!KeptRational
==============================================================================
