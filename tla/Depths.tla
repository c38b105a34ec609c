-------------------------------- MODULE Depths --------------------------------
(***************************************************************************)
(* How many operands the instructions of an image find, at least.          *)
(*                                                                         *)
(* The interpreter never looks at how full the stack is: stack_pop takes   *)
(* what is under the stack pointer, an operand or whatever lies below.     *)
(* That it takes operands is up to the code it runs, and it can be told    *)
(* from the code alone, one instruction at a time.                         *)
(***************************************************************************)
EXTENDS Instructions, Integers, Sequences

(* Operands the instruction looks at: what it pops, the arguments of a     *)
(* call, the value that is untracked or returned.                          *)
Needs(image, i) ==
  CASE i.op = "CallFunction"            -> image.functions[i.arg + 1].parameters
    [] i.op = "UnTrack"                 -> 1
    [] i.op = "Return" /\ i.arg # "Void" -> 1
    [] OTHER                            -> Len(PopsOf(i))

(* Operands it leaves in their place.  A raise in a function whose frame   *)
(* has no handler leaves the exception's uid.                              *)
Leaves(image, i) ==
  CASE i.op = "CallFunction" -> IF image.functions[i.arg + 1].returns THEN 1 ELSE 0
    [] i.op = "UnTrack"      -> 1
    [] OTHER                 -> IF PushesOf(i) THEN 1 ELSE 0

(* The instruction before address a runs on into it. *)
Before(image, a) ==
  {b \in {a - 1, a - 2, a - 3} \intersect DOMAIN image.code :
     /\ image.code[b].op \notin {"Goto", "Return", "Halt"}
     /\ b + Width(image.code[b].op) = a}

(* Where instructions are reached from elsewhere: with no operands. *)
Entries(image) ==
  {image.code[a].arg : a \in {b \in DOMAIN image.code :
                                image.code[b].op \in {"Goto", "GotoIfFalse", "PushTry"}}}
    \union {image.functions[f].address : f \in DOMAIN image.functions}
    \union {image.functions[f].finally : f \in DOMAIN image.functions}

Depths(image) ==
  LET entries == Entries(image)
      depth[a \in DOMAIN image.code] ==
        IF a \in entries \/ Before(image, a) = {} THEN 0
        ELSE LET b == CHOOSE b \in Before(image, a) : TRUE
                 i == image.code[b]
             IN  depth[b] - Needs(image, i) + Leaves(image, i)
  IN  depth

(* depth is a lower bound on the operands each instruction finds: no more  *)
(* are promised to it than any instruction that leads to it leaves, none   *)
(* where exceptions lead, and they are enough for it.                      *)
Covers(depth, image) ==
  /\ depth \in [DOMAIN image.code -> Nat]
  /\ depth[0] = 0
  /\ \A a \in DOMAIN image.code :
       LET i == image.code[a]
           left == depth[a] - Needs(image, i) + Leaves(image, i)
       IN  /\ Needs(image, i) <= depth[a]
           /\ i.op \notin {"Goto", "Return", "Halt"} => depth[a + Width(i.op)] <= left
           /\ i.op \in {"Goto", "GotoIfFalse"} => depth[i.arg] <= left
           /\ i.op = "PushTry" => depth[i.arg] = 0
  /\ \A f \in DOMAIN image.functions :
       /\ depth[image.functions[f].address] = 0
       /\ depth[image.functions[f].finally] = 0

Balanced(image) == Covers(Depths(image), image)
===============================================================================
