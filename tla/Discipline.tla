------------------------------ MODULE Discipline ------------------------------
(***************************************************************************)
(* Images whose functions keep their operands, regions and handlers in     *)
(* order.                                                                  *)
(*                                                                         *)
(* Regions and handlers are opened and closed by instructions of their own *)
(* and an exception leaves them as they are, so the interpreter relies on  *)
(* every way through a function closing what it opened.  Whether an image  *)
(* does can be told from its code: at every instruction there is one       *)
(* answer to how many operands, open regions and open handlers there are.  *)
(* The second half does the same for blocks that belong to variables.      *)
(***************************************************************************)
EXTENDS Depths, FiniteSets

Main == 0

(* The function whose code the address is in; the call of main and OP_Halt *)
(* are in none.  (Functions are numbered in the order of their code.)      *)
Home(image, a) ==
  Cardinality({f \in DOMAIN image.functions : image.functions[f].address <= a}) - 1

HandlersIn(image, f) ==
  {image.code[a].arg : a \in {b \in DOMAIN image.code :
                                image.code[b].op = "PushTry" /\ Home(image, b) = f}}

(* Functions that an exception may leave: they raise, or call one that it  *)
(* may leave.                                                              *)
Propagates(image, functions) ==
  \A a \in DOMAIN image.code :
    LET i == image.code[a]
    IN  i.op = "RaiseException" \/ (i.op = "CallFunction" /\ i.arg \in functions)
          => Home(image, a) \in functions

Raising(image) ==
  LET callable == {f - 1 : f \in DOMAIN image.functions} \union {-1}
  IN  {f \in callable : \A q \in SUBSET callable : Propagates(image, q) => f \in q}

(* What there is at an instruction. *)
Counts == [operands : Nat, regions : Nat, tries : Nat]
AtStart == [operands |-> 0, regions |-> 1, tries |-> 0]

(* What there is after it.  A handler that was entered stays open, so the  *)
(* handlers are counted in the functions that are never left for one.      *)
Moved(image, a, x) ==
  LET i == image.code[a]
  IN  [operands |-> x.operands - Needs(image, i) + Leaves(image, i),
       regions  |-> x.regions + (IF i.op = "PushRegion" THEN 1 ELSE 0)
                              - (IF i.op = "PopRegion" THEN 1 ELSE 0),
       tries    |-> IF Home(image, a) = Main THEN x.tries
                    ELSE x.tries + (IF i.op = "PushTry" THEN 1 ELSE 0)
                                 - (IF i.op = "PopTry" THEN 1 ELSE 0)]

JumpsTo(image, a) ==
  {b \in DOMAIN image.code : /\ b < a
                             /\ image.code[b].op \in {"Goto", "GotoIfFalse", "PushTry"}
                             /\ image.code[b].arg = a}

(* The way through the code from the top down. *)
Reckoned(image) ==
  LET starts == {image.functions[f].address : f \in DOMAIN image.functions}
                  \union {image.functions[f].finally : f \in DOMAIN image.functions}
      count[a \in DOMAIN image.code] ==
        IF a \in starts THEN AtStart
        ELSE IF Before(image, a) # {}
        THEN LET b == CHOOSE b \in Before(image, a) : TRUE
             IN  Moved(image, b, count[b])
        ELSE IF JumpsTo(image, a) # {}
        THEN LET b == CHOOSE b \in JumpsTo(image, a) : TRUE
             IN  IF image.code[b].op = "PushTry" THEN count[b]
                 ELSE Moved(image, b, count[b])
        ELSE AtStart
  IN  count

(* What is left of a function on the way out: its variables are freed. *)
Leaving == {"LoadVariablePointer", "FreeInteger", "FreeRational", "FreeString", "Return"}

(* count is right at every instruction, whatever way led there: a jump, a  *)
(* call, a return or an exception.  Exceptions are raised where a function *)
(* ends and, if not by the functions they are raised in, caught by main,   *)
(* whose handlers all expect what its calls leave.                         *)
Agrees(count, functions, image) ==
  /\ DOMAIN image.code \subseteq Nat
  /\ count \in [DOMAIN image.code -> Counts]
  /\ Propagates(image, functions)
  /\ Home(image, 0) = -1 /\ count[0] = AtStart
  /\ \A f \in DOMAIN image.functions :
       \A a \in {image.functions[f].address, image.functions[f].finally} :
         count[a] = AtStart /\ Home(image, a) = f - 1
  /\ \A a \in DOMAIN image.code :
       LET i == image.code[a]
           home == Home(image, a)
           next == a + Width(i.op)
           moved == Moved(image, a, count[a])
           function == image.functions[home + 1]
       IN  /\ home = -1 => i.op \in {"CallFunction", "Halt"}
           /\ i.op = "Halt" => home = -1 /\ count[a].operands = 0
           /\ i.op \notin {"Goto", "Return", "Halt", "RaiseException"}
                => count[next] = moved /\ Home(image, next) = home
           /\ i.op \in {"Goto", "GotoIfFalse"}
                => count[i.arg] = moved /\ Home(image, i.arg) = home
           /\ i.op = "PushTry"
                => /\ home >= 0 /\ Home(image, i.arg) = home
                   /\ i.arg \in function.address .. function.finally
           /\ i.op = "CallFunction" => i.arg \in Nat /\ (i.arg = Main <=> home = -1)
           /\ i.op = "CallFunction" /\ i.arg \in functions =>
                IF home = Main
                THEN \A h \in HandlersIn(image, Main) : count[h] = moved
                ELSE count[a].tries = 0
           /\ i.op = "RaiseException" =>
                home > Main /\ next = function.finally /\ count[a].tries = 0
           /\ i.op = "Return" =>
                /\ home # Main => count[a].tries = 0
                /\ i.arg = "Void" => count[a].operands = 0 /\ count[a].regions = 1
           /\ home >= 0 /\ a >= function.finally => i.op \in Leaving

Disciplined(image) == Agrees(Reckoned(image), Raising(image), image)

------------------------------------------------------------------------------
(* Blocks that no region frees.                                            *)
(*                                                                         *)
(* A block that was taken out of its region belongs to a variable, until   *)
(* the function frees its variables on the way out, or it is the result on *)
(* top of the stack while they are freed.  That no block is forgotten can  *)
(* be told from the code as well.                                          *)

BoxStores == {"StoreInteger", "StoreString"}
BoxFrees == {"FreeInteger", "FreeString"}

(* Instructions that take a pointer to a variable, loaded just before. *)
Uses == {"StoreValue"} \union BoxStores \union BoxFrees
None == -1

(* The variable that the pointer on top is one to.  (OP_NoOperation is the  *)
(* second byte of the argument where a loop writes one that is too wide.)  *)
Pointed(image) ==
  LET pointed[a \in DOMAIN image.code] ==
        IF a \in Entries(image) \/ Before(image, a) = {} THEN None
        ELSE LET b == CHOOSE b \in Before(image, a) : TRUE
             IN  CASE image.code[b].op = "LoadVariablePointer" -> image.code[b].arg
                   [] image.code[b].op = "NoOperation" -> pointed[b]
                   [] OTHER -> None
  IN  pointed

(* The variables of a function that blocks are stored in, or freed. *)
Owned(image, f) ==
  {Pointed(image)[a] : a \in {b \in DOMAIN image.code :
                                /\ image.code[b].op \in BoxStores \union BoxFrees
                                /\ Home(image, b) = f}}

(* Results that wait for the variables to be freed: a value just untracked *)
(* or never tracked, or the value of a variable that is spared.            *)
Spares(image, a) ==
  /\ image.code[a].op = "LoadValue"
  /\ image.code[a].arg \in Owned(image, Home(image, a))
  /\ image.code[a + Width("LoadValue")].op \in {"LoadVariablePointer", "Return"}

Carried(image) ==
  LET carried[a \in DOMAIN image.code] ==
        \E b \in Before(image, a) :
          \/ image.code[b].op = "UnTrack" \/ KeepsOf(image.code[b]) \/ Spares(image, b)
          \/ carried[b] /\ image.code[b].op \in {"LoadVariablePointer"} \union BoxFrees
  IN  {a \in DOMAIN image.code : carried[a]}

(* The variables that may own a block before the instruction: all but those *)
(* freed, or spared, by the instructions just before.                       *)
Pending(image) ==
  LET entries == Entries(image)
      pending[a \in DOMAIN image.code] ==
        IF a \in entries \/ Before(image, a) = {} THEN Owned(image, Home(image, a))
        ELSE LET b == CHOOSE b \in Before(image, a) : TRUE
                 op == image.code[b].op
             IN  CASE op \in BoxFrees -> pending[b] \ {Pointed(image)[b]}
                   [] op \in {"LoadVariablePointer", "FreeRational"} -> pending[b]
                   [] Spares(image, b) -> pending[b] \ {image.code[b].arg}
                   [] OTHER -> Owned(image, Home(image, b))
  IN  pending

(* What comes between the first free and the return; the pending variables  *)
(* of any other place are all of them.                                     *)
Freeing(carried, next, i) ==
  \/ i.op \in {"LoadVariablePointer", "FreeRational"} \union BoxFrees
  \/ i.op = "LoadValue" /\ next \in carried

(* pointed, pending and carried are right, whatever way led to an           *)
(* instruction, and nothing is left of them where a function returns.      *)
Accounts(pointed, pending, carried, image) ==
  /\ pointed \in [DOMAIN image.code -> Nat \union {None}]
  /\ pending \in [DOMAIN image.code -> SUBSET Nat]
  /\ \A a \in Entries(image) :
       pointed[a] = None /\ a \notin carried /\ pending[a] = Owned(image, Home(image, a))
  /\ \A a \in DOMAIN image.code :
       LET i == image.code[a]
           home == Home(image, a)
           next == a + Width(i.op)
       IN  /\ pending[a] \subseteq Owned(image, home)
           /\ i.op \in Uses =>
                /\ home >= 0
                /\ pointed[a] \in 0 .. image.functions[home + 1].variables - 1
           /\ i.op \in BoxStores => pointed[a] \in pending[next]
           /\ i.op = "StoreValue" => pointed[a] \notin Owned(image, home)
           /\ i.op \notin {"Goto", "Return", "Halt"} =>
                /\ pointed[next] \in {None, CASE i.op = "LoadVariablePointer" -> i.arg
                                           [] i.op = "NoOperation" -> pointed[a]
                                           [] OTHER -> None}
                /\ pending[a] \ (CASE i.op \in BoxFrees -> {pointed[a]}
                                   [] i.op = "LoadValue" /\ next \in carried -> {i.arg}
                                   [] OTHER -> {})
                     \subseteq pending[next]
           /\ i.op \notin {"Goto", "Return", "Halt"} /\ ~Freeing(carried, next, i)
                => pending[next] = Owned(image, home)
           /\ i.op = "UnTrack" \/ KeepsOf(i) => next \in carried
           /\ a \in carried =>
                /\ i.op \in {"LoadVariablePointer", "Return"} \union BoxFrees
                /\ i.op = "LoadVariablePointer" => image.code[next].op \in BoxFrees
                /\ i.op # "Return" => next \in carried
           /\ i.op = "Return" => pending[a] = {} /\ (i.arg \in Boxed <=> a \in carried)

(* Instructions that are reached otherwise than on the way of an exception. *)
Reached(image) ==
  LET targets == Entries(image) \ {image.functions[f].finally : f \in DOMAIN image.functions}
      reached[a \in DOMAIN image.code] ==
        \/ a = 0 \/ a \in targets \/ JumpsTo(image, a) # {}
        \/ \E b \in Before(image, a) : reached[b]
  IN  {a \in DOMAIN image.code : reached[a]}

(* A function with a result returns one.  Its end, which returns none, is  *)
(* not reached, and no exception leaves it by its end.                     *)
Delivers(reached, functions, image) ==
  /\ 0 \in reached
  /\ \A f \in DOMAIN image.functions :
       /\ image.functions[f].address \in reached
       /\ f - 1 \in functions => ~image.functions[f].returns
  /\ \A a \in DOMAIN image.code :
       LET i == image.code[a]
       IN  /\ i.op \in {"Goto", "GotoIfFalse", "PushTry"} => i.arg \in reached
           /\ a \in reached =>
                /\ i.op \notin {"Goto", "Return", "Halt"} => a + Width(i.op) \in reached
                /\ i.op = "Return" /\ image.functions[Home(image, a) + 1].returns
                     => i.arg # "Void"

(* The variables of Integers and Strings are among those that are owned. *)
Declares(image) ==
  \A f \in DOMAIN image.functions : \A v \in 0 .. image.functions[f].variables - 1 :
    image.source[f].variables[v + 1] \in {"Integer", "String"} => v \in Owned(image, f - 1)

Accounted(image) ==
  /\ Declares(image)
  /\ Accounts(Pointed(image), Pending(image), Carried(image), image)
  /\ Delivers(Reached(image), Raising(image), image)

=============================================================================
