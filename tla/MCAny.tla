-------------------------------- MODULE MCAny --------------------------------
(***************************************************************************)
(* The programs of AnyPrograms.tla, generated by CodeGenerator.tla, on the *)
(* virtual machine.                                                        *)
(***************************************************************************)
EXTENDS VirtualMachine

P == INSTANCE AnyPrograms

AnyImages == P!AnyImages
==============================================================================
