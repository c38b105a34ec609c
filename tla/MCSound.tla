------------------------------- MODULE MCSound -------------------------------
(***************************************************************************)
(* The programs of SoundPrograms.tla, generated by CodeGenerator.tla, on   *)
(* the virtual machine; what they print is compared with their meaning in  *)
(* SourceSemantics.tla.                                                    *)
(***************************************************************************)
EXTENDS VirtualMachine, Discipline

P == INSTANCE SoundPrograms
S == INSTANCE SourceSemantics

SoundImages == P!SoundImages

(* What the code generator writes keeps operands, regions and handlers in   *)
(* order on every way through every function, and forgets no block that a  *)
(* variable or a result owns.  The interpreter looks at neither; the        *)
(* theorems of VirtualMachineProofs.tla rest on both.                       *)
CodeInOrder == ip = 0 => Disciplined(bytecode) /\ Accounted(bytecode)

(* The run prints what its source says, in that order, and ends as it says. *)
OutputAgrees ==
  Halted => S!Meaning(bytecode.source, decisions) = [output |-> output, end |-> status]
==============================================================================
