---------------------------- MODULE MissingModule ----------------------------
(***************************************************************************)
(* The analyzer on a program that imports from a file that is not there:   *)
(*   from "nowhere" import f; function main() { print(1); }                *)
(***************************************************************************)
EXTENDS Analyzer

NodeOf(kind, name, children, owner, last, file) ==
  [kind |-> kind, name |-> name, children |-> children, owner |-> owner,
   root |-> 1, last |-> last, path |-> file, valid |-> TRUE]

MissingModule == {<<
  NodeOf("Module", "", <<2, 4>>, 0, 6, "main"),
  NodeOf("Import", "f", <<3>>, 1, 3, "nowhere"),
  NodeOf("Identifier", "f", <<>>, 1, 3, ""),
  NodeOf("Function", "main", <<5>>, 1, 6, ""),
  NodeOf("Statement", "", <<6>>, 4, 6, ""),
  NodeOf("Expression", "", <<>>, 4, 6, "")>>}
==============================================================================
