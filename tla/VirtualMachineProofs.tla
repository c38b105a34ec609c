------------------------- MODULE VirtualMachineProofs -------------------------
(***************************************************************************)
(* Whatever image the virtual machine runs, it executes only instructions  *)
(* of the image if the jumps, handlers and calls of the image name some,   *)
(* and it uses the regions as Regions.tla says they may be used, so what   *)
(* is proved of Regions.tla holds of the machine.                          *)
(*                                                                         *)
(* The second half is about images whose functions keep their operands,    *)
(* regions and handlers in order (Discipline.tla): the machine then finds  *)
(* exactly those, at every instruction and however it came there.  If the  *)
(* functions also account for the blocks that no region frees, nothing is  *)
(* left when the machine halts, and nothing in the variables of a frame    *)
(* when it is left.                                                        *)
(***************************************************************************)
EXTENDS VirtualMachine, Discipline, FiniteSetTheorems, SequenceTheorems, TLAPS

Address == DOMAIN Code

(* Every place an instruction pointer can come from is an instruction: the *)
(* pointer itself, the return addresses of the active frames, and the      *)
(* handlers of all frames, which a call inherits as they were left.        *)
FramesInCode ==
  /\ DOMAIN frames = Frame
  /\ \A f \in 1 .. callstack :
       /\ frames[f].return_address \in Address
       /\ frames[f].function + 1 \in DOMAIN bytecode.functions

CodeInv ==
  /\ WellFormed(bytecode)
  /\ ip \in Address
  /\ callstack \in 0 .. MaxFrames
  /\ FramesInCode
  /\ except \in [Frame -> Seq(Address)]
  /\ FramesLinked

LEMMA InitCode == Init => CodeInv
<1> SUFFICES ASSUME Init PROVE CodeInv
  OBVIOUS
<1>1. PICK i \in 1 .. Len(Images) : bytecode = Images[i]
  BY DEF Init
<1>2. WellFormed(bytecode)
  BY <1>1, ImagesAssumption
<1>3. ip \in Address
  BY <1>2 DEF Init, WellFormed, Address, Code
<1>4. callstack = 0
  BY DEF Init, R!Init
<1>5. callstack \in 0 .. MaxFrames
  BY <1>4, VirtualMachineAssumption
<1>6. FramesInCode /\ FramesLinked
  BY <1>4 DEF Init, FramesInCode, FramesLinked
<1>7. except \in [Frame -> Seq(Address)]
  BY DEF Init
<1> QED
  BY <1>2, <1>3, <1>5, <1>6, <1>7 DEF CodeInv

(* Nothing of the invariant but the instruction pointer is touched. *)
LEMMA SameFrames ==
  ASSUME CodeInv, ip' \in Address,
         UNCHANGED <<bytecode, callstack, frames, baseptr, except>>
  PROVE  CodeInv'
BY DEF CodeInv, FramesInCode, FramesLinked, Address, Code, CurrentFunction, Function

(* What follows an instruction that is not a jump is an instruction. *)
LEMMA NextInCode ==
  ASSUME CodeInv, Op \notin {"Goto", "Return", "Halt"}
  PROVE  After \in Address
BY DEF CodeInv, WellFormed, Address, After, Op, Code

(* The instructions that go on with the next one. *)
Straight ==
  \/ Skip \/ Assert \/ PushRegion \/ PopRegion \/ StoreValue \/ StoreInteger
  \/ FreeInteger \/ LoadValue \/ LoadArgument \/ LoadVariablePointer
  \/ UnTrack \/ Logic \/ Create \/ CreateFloat \/ Compare \/ PrintValue

LEMMA StraightSteps ==
  ASSUME Straight
  PROVE  /\ Op \notin {"Goto", "Return", "Halt"}
         /\ ip' = After \/ ip' = ip
         /\ UNCHANGED <<callstack, frames, baseptr, except>>
<1> USE DEF Continue, KeepRegions, KeepStack, KeepExcept, regionVars, stackVars,
      exceptVars, Replace, Pop
<1>1. CASE Skip
  BY <1>1 DEF Skip, Casting
<1>2. CASE Assert
  BY <1>2 DEF Assert
<1>3. CASE PushRegion \/ PopRegion
  BY <1>3 DEF PushRegion, PopRegion, R!PushRegion, R!PopRegion
<1>4. CASE StoreValue
  BY <1>4 DEF StoreValue
<1>5. CASE StoreInteger
  BY <1>5 DEF StoreInteger, R!Store
<1>6. CASE FreeInteger
  BY <1>6 DEF FreeInteger, R!Release
<1>7. CASE LoadValue \/ LoadArgument \/ LoadVariablePointer
  BY <1>7 DEF LoadValue, LoadArgument, LoadVariablePointer
<1>8. CASE UnTrack
  BY <1>8 DEF UnTrack, R!Untrack
<1>9. CASE Logic
  BY <1>9 DEF Logic
<1>10. CASE Create
  <2>1. Op \notin {"Goto", "Return", "Halt"}
    BY <1>10 DEF Create, Tracks, Keeps, Op, IntegerResults, StringResults, Keeping,
      RationalResults, Converts, TracksOf, KeepsOf, ConvertsTo
  <2> QED
    BY <1>10, <2>1 DEF Create, R!Allocate, R!AllocateUntracked
<1>11. CASE CreateFloat
  BY <1>11 DEF CreateFloat, Floats, FloatsOf, FloatResults, ConvertsTo, Op
<1>12. CASE Compare
  BY <1>12 DEF Compare, Relations
<1>13. CASE PrintValue
  BY <1>13 DEF PrintValue, Prints
<1> QED
  BY <1>1, <1>2, <1>3, <1>4, <1>5, <1>6, <1>7, <1>8, <1>9, <1>10, <1>11, <1>12,
     <1>13 DEF Straight

(* Jumps and the last instruction. *)
LEMMA JumpSteps ==
  ASSUME CodeInv, Goto \/ GotoIfFalse \/ Halt \/ Stop
  PROVE  ip' \in Address /\ UNCHANGED <<callstack, frames, baseptr, except>>
<1> USE DEF KeepRegions, KeepStack, KeepExcept, regionVars, stackVars, exceptVars, Pop
<1>1. CASE Goto
  BY <1>1 DEF Goto, CodeInv, WellFormed, Address, Op, Arg, Code
<1>2. CASE GotoIfFalse
  <2>1. Arg \in Address
    BY <1>2 DEF GotoIfFalse, CodeInv, WellFormed, Address, Op, Arg, Code
  <2> QED
    BY <1>2, <2>1, NextInCode DEF GotoIfFalse
<1>3. CASE Halt
  BY <1>3 DEF Halt, CodeInv
<1>4. CASE Stop
  BY <1>4 DEF Stop, CodeInv
<1> QED
  BY <1>1, <1>2, <1>3, <1>4

(* A raise goes on at a handler of the frame, or with the next instruction. *)
LEMMA RaiseCode ==
  ASSUME CodeInv, ~Asserts, RaiseException
  PROVE  ip' \in Address /\ UNCHANGED <<callstack, frames, baseptr, except>>
<1>1. callstack \in Frame
  BY DEF Asserts, RaiseException, CodeInv, Frame
<1>2. UNCHANGED <<callstack, frames, baseptr, except>>
  BY DEF RaiseException, KeepRegions, regionVars, Replace
<1>3. CASE except[callstack] # <<>>
  <2>1. except[callstack] \in Seq(Address) /\ ip' = CurrentTry(callstack)
    BY <1>1, <1>3 DEF RaiseException, CodeInv
  <2> QED
    BY <1>2, <1>3, <2>1 DEF CurrentTry
<1>4. CASE except[callstack] = <<>>
  BY <1>2, <1>4, NextInCode DEF RaiseException
<1> QED
  BY <1>3, <1>4

(* Handlers are opened at instructions. *)
LEMMA TryCode ==
  ASSUME CodeInv, ~Asserts, PushTry \/ PopTry
  PROVE  /\ ip' \in Address
         /\ except' \in [Frame -> Seq(Address)]
         /\ UNCHANGED <<callstack, frames, baseptr>>
<1> USE DEF KeepRegions, KeepStack, regionVars, stackVars, Continue
<1>1. /\ UNCHANGED <<callstack, frames, baseptr>>
      /\ ip' = After /\ Op \in {"PushTry", "PopTry"}
  BY DEF PushTry, PopTry
<1>2. callstack \in Frame
  BY <1>1 DEF Asserts, CodeInv, Frame
<1>3. except \in [Frame -> Seq(Address)]
  BY DEF CodeInv
<1>4. ip' \in Address
  BY <1>1, NextInCode
<1>5. CASE PushTry
  <2>1. Arg \in Address
    BY <1>5 DEF PushTry, CodeInv, WellFormed, Address, Op, Arg, Code
  <2>2. Append(except[callstack], Arg) \in Seq(Address)
    BY <1>2, <1>3, <2>1
  <2>3. except' = [except EXCEPT ![callstack] = Append(except[callstack], Arg)]
    BY <1>5 DEF PushTry
  <2>4. except' \in [Frame -> Seq(Address)]
    BY <1>2, <1>3, <2>2, <2>3
  <2> QED
    BY <1>1, <1>4, <2>4
<1>6. CASE PopTry
  <2> DEFINE s == except[callstack]
             t == SubSeq(s, 1, Len(s) - 1)
  <2>1. s \in Seq(Address) /\ s # <<>>
    BY <1>2, <1>3, <1>6 DEF Asserts, PopTry
  <2>2. t \in Seq(Address)
    BY <2>1
  <2>3. except' = [except EXCEPT ![callstack] = t]
    BY <1>6 DEF PopTry
  <2> HIDE DEF t
  <2>4. except' \in [Frame -> Seq(Address)]
    BY <1>2, <1>3, <2>2, <2>3
  <2> QED
    BY <1>1, <1>4, <2>4
<1> QED
  BY <1>5, <1>6

(* A call links the new frame to the one that was on top. *)
LEMMA CallCode ==
  ASSUME CodeInv, CallFunction, bytecode' = bytecode
  PROVE  CodeInv'
<1> DEFINE new == callstack + 1
           frame == [function |-> Arg, return_address |-> After,
                     baseptr |-> baseptr, ptr |-> ptr]
<1> USE DEF CodeInv
<1>1. /\ callstack' = new /\ new \in Frame /\ callstack \in 0 .. MaxFrames
      /\ new \in 1 .. MaxFrames
  BY VirtualMachineAssumption DEF CallFunction, R!Call, Frame
<1>2. Arg + 1 \in DOMAIN bytecode.functions
  BY DEF CallFunction, WellFormed, Op, Arg, Code, Address
<1>3. /\ frames' = [frames EXCEPT ![new] = frame]
      /\ baseptr' = ptr + Function(Arg).variables
      /\ ip' = Function(Arg).address
      /\ except' = except
  BY DEF CallFunction, KeepExcept, exceptVars
<1>4. After \in Address
  BY NextInCode DEF CallFunction
<1>5. Address' = Address
  BY DEF Address, Code
<1>6. ip' \in Address
  BY <1>2, <1>3 DEF WellFormed, Function, Address, Code
<1>7. DOMAIN frames = Frame
  BY DEF FramesInCode
<1>8. frames'[new] = frame /\ \A f \in Frame \ {new} : frames'[f] = frames[f]
  BY <1>1, <1>3, <1>7
<1>9. DOMAIN frames' = Frame
  BY <1>3, <1>7
<1>10. ASSUME NEW f \in 1 .. callstack'
       PROVE  /\ frames'[f].return_address \in Address
              /\ frames'[f].function + 1 \in DOMAIN bytecode.functions
  <2>1. CASE f = new
    BY <1>2, <1>4, <1>8, <2>1
  <2>2. CASE f # new
    <3>1. f \in 1 .. callstack /\ f \in Frame \ {new}
      BY <1>1, <2>2, VirtualMachineAssumption DEF Frame
    <3> QED
      BY <1>8, <3>1 DEF FramesInCode
  <2> QED
    BY <2>1, <2>2
<1>11. FramesInCode'
  BY <1>5, <1>9, <1>10 DEF FramesInCode
<1>12. ASSUME NEW f \in 2 .. callstack'
       PROVE  frames'[f].baseptr = frames'[f - 1].ptr
                                    + Function(frames'[f - 1].function).variables
  <2>1. f - 1 \in Frame \ {new} /\ f - 1 \in 1 .. callstack
    BY <1>1, VirtualMachineAssumption DEF Frame
  <2>2. CASE f = new
    <3>1. callstack = f - 1 /\ callstack > 0
      BY <1>1, <2>1, <2>2
    <3>2. baseptr = frames[callstack].ptr + Function(frames[callstack].function).variables
      BY <3>1 DEF FramesLinked, CurrentFunction
    <3> QED
      BY <1>8, <2>1, <2>2, <3>1, <3>2
  <2>3. CASE f # new
    <3>1. f \in Frame \ {new} /\ f \in 2 .. callstack /\ callstack > 0
      BY <1>1, <2>3, VirtualMachineAssumption DEF Frame
    <3> QED
      BY <1>8, <2>1, <3>1 DEF FramesLinked
  <2> QED
    BY <2>2, <2>3
<1>13. FramesLinked'
  BY <1>1, <1>3, <1>8, <1>12 DEF FramesLinked, CurrentFunction, Function
<1>14. WellFormed(bytecode)' /\ callstack' \in 0 .. MaxFrames
  BY <1>1
<1>15. except' \in [Frame -> Seq(Address)]
  BY <1>3
<1> QED
  BY <1>5, <1>6, <1>11, <1>13, <1>14, <1>15

(* What is common to the three ways a function returns. *)
LEMMA ReturnCode ==
  ASSUME CodeInv, ~Asserts, Op = "Return", ReturnRegions, ReturnStack,
         ip' \in Address, except' = except, bytecode' = bytecode
  PROVE  CodeInv'
<1> USE DEF CodeInv
<1>1. callstack \in Frame
  BY DEF Asserts, Frame
<1>2. callstack' = callstack - 1
  BY DEF ReturnRegions, R!Return
<1>3. frames' = frames /\ baseptr' = frames[callstack].baseptr
  BY DEF ReturnStack
<1>4. Address' = Address
  BY DEF Address, Code
<1>5. callstack' \in 0 .. MaxFrames /\ callstack > 0
  BY <1>1, <1>2, VirtualMachineAssumption DEF Frame
<1>6. FramesInCode'
  BY <1>1, <1>2, <1>3, <1>4 DEF FramesInCode, Frame
<1>7. ASSUME callstack' > 0
      PROVE  baseptr' = frames[callstack'].ptr
                          + Function(frames[callstack'].function).variables
  <2>1. callstack \in 2 .. callstack
    BY <1>2, <1>5, <1>7
  <2> QED
    BY <1>2, <1>3, <1>5, <2>1 DEF FramesLinked
<1>8. ASSUME NEW f \in 2 .. callstack'
      PROVE  frames[f].baseptr = frames[f - 1].ptr
                                   + Function(frames[f - 1].function).variables
  <2>1. f \in 2 .. callstack
    BY <1>2, <1>5
  <2> QED
    BY <1>5, <2>1 DEF FramesLinked
<1>9. FramesLinked'
  BY <1>3, <1>7, <1>8 DEF FramesLinked, CurrentFunction, Function
<1>10. except' \in [Frame -> Seq(Address)] /\ WellFormed(bytecode)'
  OBVIOUS
<1> QED
  BY <1>4, <1>5, <1>6, <1>9, <1>10

(* A function goes on after its call, at a handler of its caller, or at    *)
(* the end of its caller.                                                  *)
LEMMA ReturnsCode ==
  ASSUME CodeInv, ~Asserts, bytecode' = bytecode,
         Return \/ ReturnToHandler \/ ReturnUnwinding
  PROVE  CodeInv'
<1>1. /\ Op = "Return" /\ ReturnRegions /\ ReturnStack /\ except' = except
  BY DEF Return, ReturnToHandler, ReturnUnwinding, KeepExcept, exceptVars
<1>2. callstack \in Frame
  BY <1>1 DEF Asserts, CodeInv, Frame
<1>3. ip' \in Address
  <2>1. CASE Return
    BY <1>2, <2>1 DEF Return, CodeInv, FramesInCode, Frame
  <2>2. ASSUME unwinding
        PROVE  callstack - 1 \in Frame /\ callstack - 1 \in 1 .. callstack
    BY <1>1, <1>2, <2>2, VirtualMachineAssumption
      DEF Asserts, Outlives, Frame, CodeInv
  <2>3. CASE ReturnToHandler
    <3>1. /\ except[callstack - 1] \in Seq(Address)
          /\ except[callstack - 1] # <<>>
          /\ ip' = CurrentTry(callstack - 1)
      BY <2>2, <2>3 DEF ReturnToHandler, CodeInv
    <3> QED
      BY <3>1 DEF CurrentTry
  <2>4. CASE ReturnUnwinding
    BY <2>2, <2>4 DEF ReturnUnwinding, CodeInv, FramesInCode, WellFormed,
      Function, Address, Code
  <2> QED
    BY <2>1, <2>3, <2>4
<1> QED
  BY <1>1, <1>3, ReturnCode

LEMMA NextCode == CodeInv /\ [Next]_vars => CodeInv'
<1> SUFFICES ASSUME CodeInv, [Next]_vars PROVE CodeInv'
  OBVIOUS
<1>1. CASE UNCHANGED vars
  BY <1>1, SameFrames DEF vars, stackVars, regionVars, exceptVars, CodeInv
<1>2. CASE Stopped
  BY <1>1, <1>2 DEF Stopped
<1>3. CASE Stop
  BY <1>3, JumpSteps, SameFrames DEF Stop
<1>4. CASE Proceeds /\ Step /\ UNCHANGED bytecode
  <2>1. ~Asserts
    BY <1>4 DEF Proceeds
  <2>2. CASE Straight
    <3>1. ip' \in Address
      BY <2>2, StraightSteps, NextInCode DEF CodeInv
    <3> QED
      BY <1>4, <2>2, <3>1, StraightSteps, SameFrames
  <2>3. CASE Goto \/ GotoIfFalse \/ Halt
    BY <1>4, <2>3, JumpSteps, SameFrames
  <2>4. CASE RaiseException
    BY <1>4, <2>1, <2>4, RaiseCode, SameFrames
  <2>5. CASE PushTry \/ PopTry
    BY <1>4, <2>1, <2>5, TryCode DEF CodeInv, FramesInCode, FramesLinked,
      Address, Code, CurrentFunction, Function
  <2>6. CASE CallFunction
    BY <1>4, <2>6, CallCode
  <2>7. CASE Return \/ ReturnToHandler \/ ReturnUnwinding
    BY <1>4, <2>1, <2>7, ReturnsCode
  <2> QED
    BY <1>4, <2>2, <2>3, <2>4, <2>5, <2>6, <2>7 DEF Step, Straight
<1> QED
  BY <1>1, <1>2, <1>3, <1>4 DEF Next, Execute

(* Whatever well formed image it runs, the machine never leaves the        *)
(* instructions of its code: no jump, call, return, handler or end of an   *)
(* abandoned function leads in between them or out of them.                *)
THEOREM AlwaysOnInstruction == Spec => []OnInstruction
<1>1. CodeInv => OnInstruction
  BY DEF CodeInv, OnInstruction, InCode, Address
<1> QED
  BY <1>1, InitCode, NextCode, PTL DEF Spec

(* Every frame starts where the variables of the frame below end, after    *)
(* any sequence of calls, returns and exceptions.                          *)
THEOREM FramesStayLinked == Spec => []FramesLinked
<1>1. CodeInv => FramesLinked
  BY DEF CodeInv
<1> QED
  BY <1>1, InitCode, NextCode, PTL DEF Spec

------------------------------------------------------------------------------
(* Given also that the instructions of the image find their operands when  *)
(* each is looked at on its own (Depths.tla), the running machine never    *)
(* takes a value from below the operands of the function it is in: the     *)
(* frames on the operand stack never overlap, through any sequence of      *)
(* calls, returns and exceptions.                                          *)

Depth(a) == Depths(bytecode)[a]
Needed == Needs(bytecode, Code[ip])
Left == Leaves(bytecode, Code[ip])

ParametersOf(f) == Function(frames[f].function).parameters
ResultsOf(f) == IF Function(frames[f].function).returns THEN 1 ELSE 0

(* What a frame promises to the one below it for when it returns. *)
FrameNests(f) ==
  /\ frames[f].ptr \in Nat
  /\ frames[f].baseptr \in Nat
  /\ frames[f].ptr - ParametersOf(f) >= frames[f].baseptr
  /\ frames[f].ptr - ParametersOf(f) + ResultsOf(f)
       >= frames[f].baseptr + Depth(frames[f].return_address)

(* Exceptions lead where no operands are expected. *)
Handler == {a \in Address : Depth(a) = 0}

StackInv ==
  /\ CodeInv
  /\ Balanced(bytecode)
  /\ ptr \in Nat
  /\ baseptr \in Nat
  /\ \A f \in 1 .. callstack : FrameNests(f)
  /\ except \in [Frame -> Seq(Handler)]
  /\ status = "running" => ptr >= baseptr + Depth(ip)

------------------------------------------------------------------------------
(* What the depths of a balanced image say. *)

(* Of one instruction. *)
LEMMA DepthFacts ==
  ASSUME StackInv
  PROVE  /\ \A a \in Address : Depth(a) \in Nat
         /\ Needed \in Nat /\ Left \in 0 .. 1
         /\ Needed <= Depth(ip)
         /\ Op \notin {"Goto", "Return", "Halt"}
              => Depth(After) <= Depth(ip) - Needed + Left
         /\ Op \in {"Goto", "GotoIfFalse"} => Depth(Arg) <= Depth(ip) - Needed + Left
         /\ Op = "PushTry" => Depth(Arg) = 0
<1> USE DEF StackInv, CodeInv, Balanced, Depth, Address, Needed, Left
<1>1. Covers(Depths(bytecode), bytecode) /\ ip \in DOMAIN bytecode.code
  BY DEF Code
<1>2. \A a \in Address : Depth(a) \in Nat
  BY <1>1 DEF Covers, Code
<1>3. Left \in 0 .. 1
  BY DEF Leaves
<1>4. Needed \in Nat
  <2>1. CASE Op = "CallFunction"
    <3>1. Arg + 1 \in DOMAIN bytecode.functions
      BY <2>1 DEF WellFormed, Op, Arg, Code
    <3>2. bytecode.functions[Arg + 1].parameters \in 0 .. 15
      BY <3>1 DEF WellFormed
    <3>3. Needed = bytecode.functions[Arg + 1].parameters
      BY <2>1 DEF Needs, Op, Arg
    <3> HIDE DEF Needed
    <3> QED
      BY <3>2, <3>3
  <2>2. CASE Op # "CallFunction"
    BY <2>2 DEF Needs, Op, PopsOf
  <2> QED
    BY <2>1, <2>2
<1> HIDE DEF Needed, Left
<1> QED
  BY <1>1, <1>2, <1>3, <1>4 DEF Covers, Op, Arg, Code, After, Needed, Left

(* Of a function: it starts, and is left, with no operands. *)
LEMMA EntryFacts ==
  ASSUME StackInv, NEW f, f + 1 \in DOMAIN bytecode.functions
  PROVE  /\ Depth(Function(f).address) = 0
         /\ Depth(Function(f).finally) = 0
         /\ Function(f).parameters \in Nat
         /\ Function(f).variables \in Nat
<1> DEFINE function == bytecode.functions[f + 1]
<1>1. function.parameters \in 0 .. 15 /\ function.variables \in 0 .. 127
  BY DEF StackInv, CodeInv, WellFormed, MaxVariables
<1>2. Depth(function.address) = 0 /\ Depth(function.finally) = 0
  BY DEF StackInv, Balanced, Covers, Depth
<1>3. Function(f) = function
  BY DEF Function
<1> HIDE DEF function
<1> QED
  BY <1>1, <1>2, <1>3

LEMMA InitStack == Init => StackInv
<1> SUFFICES ASSUME Init PROVE StackInv
  OBVIOUS
<1>1. PICK i \in 1 .. Len(Images) : bytecode = Images[i]
  BY DEF Init
<1>2. Balanced(bytecode)
  BY <1>1, ImagesAssumption
<1>3. Depth(ip) = 0
  BY <1>2 DEF Init, Balanced, Covers, Depth
<1>4. callstack = 0
  BY DEF Init, R!Init
<1> QED
  BY <1>2, <1>3, <1>4, InitCode DEF Init, StackInv

------------------------------------------------------------------------------
(* What instructions do to the stack pointer. *)

(* The frames of the call stack, and the base of the running function. *)
LEMMA SameDepths ==
  ASSUME StackInv, CodeInv', ptr' \in Nat,
         UNCHANGED <<bytecode, callstack, frames, baseptr>>,
         except' \in [Frame -> Seq(Handler)],
         status' = "running" => ptr' >= baseptr + Depth(ip')
  PROVE  StackInv'
<1>1. /\ Balanced(bytecode)' /\ baseptr' \in Nat
      /\ \A f \in 1 .. callstack' : FrameNests(f)'
  BY DEF StackInv, FrameNests, Depth, ParametersOf, ResultsOf, Function
<1>2. Handler' = Handler
  BY DEF Handler, Address, Code, Depth
<1>3. Depth(ip)' = Depth(ip')
  BY DEF Depth
<1> QED
  BY <1>1, <1>2, <1>3 DEF StackInv

(* Instructions by how much they pop. *)
PopNone == {"NoOperation", "Debug", "FreeRational", "PushTry", "PopTry",
  "RaiseException", "PushRegion", "PopRegion", "LoadValue", "LoadArgument",
  "LoadVariablePointer", "PushTrue", "PushFalse", "Goto"}
PopOne == Prints \union
  {"Assert", "FreeInteger", "FreeString", "GotoIfFalse", "LogicalNot"}
PopTwo == Relations \union
  {"StoreValue", "StoreInteger", "StoreString", "LogicalAnd", "LogicalOr"}

LEMMA PopCounts ==
  /\ Op \in PopNone => Len(Pops) = 0
  /\ Op \in PopOne => Len(Pops) = 1
  /\ Op \in PopTwo => Len(Pops) = 2
<1> USE DEF Op, Pops, PopsOf, FloatPairs, BlockPairs, BlockSingles, Casting,
      Copies, Relations, Additions, Subtractions
<1>1. ASSUME Op \in PopNone
      PROVE  Len(Pops) = 0
  BY <1>1 DEF PopNone
<1>2. ASSUME Op \in PopOne
      PROVE  Len(Pops) = 1
  BY <1>2 DEF PopOne, Prints
<1>3. ASSUME Op \in PopTwo
      PROVE  Len(Pops) = 2
  BY <1>3 DEF PopTwo
<1> QED
  BY <1>1, <1>2, <1>3

LEMMA PushCounts ==
  /\ Op \in {"NoOperation", "Debug", "FreeRational", "PushTry", "PopTry",
             "PushRegion", "PopRegion", "Goto", "Assert", "FreeInteger",
             "FreeString", "GotoIfFalse", "StoreValue", "StoreInteger",
             "StoreString"} \union Prints => ~Pushes
  /\ Op \in {"RaiseException", "LoadValue", "LoadArgument", "PushTrue",
             "LoadVariablePointer", "PushFalse", "LogicalAnd", "LogicalOr",
             "LogicalNot"} \union Relations => Pushes
BY DEF Op, Pushes, PushesOf, TracksOf, KeepsOf, FloatsOf, ConvertsTo, Prints,
  IntegerResults, StringResults, Keeping, RationalResults, FloatResults, Relations

(* What the depths say of most instructions. *)
LEMMA NeedsPops ==
  ASSUME Op \notin {"CallFunction", "UnTrack", "Return"}
  PROVE  Needed = Len(Pops) /\ Left = IF Pushes THEN 1 ELSE 0
BY DEF Needed, Left, Needs, Leaves, Op, Pops, Pushes

(* An instruction that goes on with the next one takes from the stack what *)
(* it needs and pushes what it leaves.                                     *)
LEMMA StraightMoves ==
  ASSUME StackInv, Straight
  PROVE  ptr' = ptr - Needed + Left
<1> USE DEF Pop, Replace, KeepStack, stackVars
<1>0. ptr \in Nat
  BY DEF StackInv
<1>1. CASE Skip
  <2>1. UNCHANGED ptr
    BY <1>1 DEF Skip
  <2>2. CASE Op \in {"NoOperation", "Debug", "FreeRational"}
    <3>1. Op \in PopNone /\ Op \notin {"CallFunction", "UnTrack", "Return"}
      BY <2>2 DEF PopNone
    <3> QED
      BY <1>0, <2>1, <2>2, <3>1, PopCounts, PushCounts, NeedsPops
  <2>3. CASE Op \in DOMAIN Casting /\ ~Converts(Op)
    <3>1. Op \in DOMAIN Casting /\ ~(Arg \in Casting[Op])
      BY <2>3 DEF Converts, ConvertsTo, Op, Arg
    <3>2. Pops = <<>>
      BY <3>1 DEF Op, Arg, Pops, PopsOf, Casting, FloatPairs, BlockPairs,
        BlockSingles, Copies, Relations, Additions, Subtractions
    <3>3. ~Pushes
      BY <3>1 DEF Op, Arg, Pushes, PushesOf, TracksOf, KeepsOf, FloatsOf,
        ConvertsTo, IntegerResults, StringResults, Keeping, RationalResults,
        FloatResults, Casting, Relations
    <3>4. Op \notin {"CallFunction", "UnTrack", "Return"}
      BY <3>1 DEF Casting
    <3> QED
      BY <1>0, <2>1, <3>2, <3>3, <3>4, NeedsPops
  <2> QED
    BY <1>1, <2>2, <2>3 DEF Skip
<1>2. CASE Assert \/ FreeInteger \/ PrintValue
  <2>1. /\ ptr' = ptr - 1
        /\ Op \in {"Assert", "FreeInteger", "FreeString"} \union Prints
    BY <1>2 DEF Assert, FreeInteger, PrintValue
  <2>2. Op \in PopOne /\ Op \notin {"CallFunction", "UnTrack", "Return"}
    BY <2>1 DEF PopOne, Prints
  <2> QED
    BY <1>0, <2>1, <2>2, PopCounts, PushCounts, NeedsPops
<1>3. CASE PushRegion \/ PopRegion
  <2>1. UNCHANGED ptr /\ Op \in {"PushRegion", "PopRegion"}
    BY <1>3 DEF PushRegion, PopRegion
  <2>2. Op \in PopNone
    BY <2>1 DEF PopNone
  <2> QED
    BY <1>0, <2>1, <2>2, PopCounts, PushCounts, NeedsPops
<1>4. CASE StoreValue \/ StoreInteger
  <2>1. /\ ptr' = ptr - 2
        /\ Op \in {"StoreValue", "StoreInteger", "StoreString"}
    BY <1>4 DEF StoreValue, StoreInteger
  <2>2. Op \in PopTwo
    BY <2>1 DEF PopTwo
  <2> QED
    BY <1>0, <2>1, <2>2, PopCounts, PushCounts, NeedsPops
<1>5. CASE LoadValue \/ LoadArgument \/ LoadVariablePointer
  <2>1. /\ ptr' = ptr + 1
        /\ Op \in {"LoadValue", "LoadArgument", "LoadVariablePointer"}
    BY <1>0, <1>5 DEF LoadValue, LoadArgument, LoadVariablePointer
  <2>2. Op \in PopNone
    BY <2>1 DEF PopNone
  <2> QED
    BY <1>0, <2>1, <2>2, PopCounts, PushCounts, NeedsPops
<1>6. CASE UnTrack
  <2>1. UNCHANGED ptr /\ Op = "UnTrack"
    BY <1>6 DEF UnTrack
  <2>2. Needed = 1 /\ Left = 1
    BY <2>1 DEF Needed, Left, Needs, Leaves, Op
  <2> QED
    BY <1>0, <2>1, <2>2
<1>7. CASE Logic
  <2>1. CASE Op \in {"PushTrue", "PushFalse"}
    <3>1. ptr' = ptr - 0 + 1
      BY <1>7, <2>1 DEF Logic
    <3>2. Op \in PopNone
      BY <2>1 DEF PopNone
    <3> QED
      BY <1>0, <2>1, <3>1, <3>2, PopCounts, PushCounts, NeedsPops
  <2>2. CASE Op \in {"LogicalAnd", "LogicalOr"}
    <3>1. ptr' = ptr - 2 + 1
      BY <1>7, <2>2 DEF Logic
    <3>2. Op \in PopTwo
      BY <2>2 DEF PopTwo
    <3> QED
      BY <1>0, <2>2, <3>1, <3>2, PopCounts, PushCounts, NeedsPops
  <2>3. CASE Op = "LogicalNot"
    <3>1. ptr' = ptr /\ Op \in PopOne
      BY <1>0, <1>7, <2>3 DEF Logic, PopOne
    <3> QED
      BY <1>0, <2>3, <3>1, PopCounts, PushCounts, NeedsPops
  <2> QED
    BY <1>7, <2>1, <2>2, <2>3 DEF Logic
<1>8. CASE Create \/ CreateFloat
  <2>1. ptr' = ptr - Len(Pops) + 1 /\ (Tracks \/ Keeps \/ Floats)
    BY <1>8 DEF Create, CreateFloat
  <2>2. Pushes
    BY <2>1 DEF Pushes, PushesOf, Tracks, Keeps, Floats
  <2>3. Op \notin {"CallFunction", "UnTrack", "Return"}
    BY <2>1 DEF Op, Tracks, Keeps, Floats, TracksOf, KeepsOf, FloatsOf,
      ConvertsTo, IntegerResults, StringResults, Keeping, RationalResults,
      FloatResults
  <2> QED
    BY <2>1, <2>2, <2>3, NeedsPops
<1>9. CASE Compare
  <2>1. ptr' = ptr - 1 /\ Op \in Relations
    BY <1>0, <1>9 DEF Compare
  <2>2. Op \in PopTwo /\ Op \notin {"CallFunction", "UnTrack", "Return"}
    BY <2>1 DEF PopTwo, Relations
  <2>3. Pushes
    BY <2>1, PushCounts
  <2>4. Len(Pops) = 2
    BY <2>2, PopCounts
  <2>5. Needed = 2 /\ Left = 1
    BY <2>2, <2>3, <2>4, NeedsPops
  <2> QED
    BY <1>0, <2>1, <2>5
<1> QED
  BY <1>1, <1>2, <1>3, <1>4, <1>5, <1>6, <1>7, <1>8, <1>9 DEF Straight
------------------------------------------------------------------------------
(* Every step keeps the invariant. *)

LEMMA StraightStack ==
  ASSUME StackInv, Straight, status = "running", bytecode' = bytecode, CodeInv'
  PROVE  StackInv'
<1>1. ptr >= baseptr + Depth(ip) /\ ptr \in Nat /\ baseptr \in Nat
  BY DEF StackInv
<1>2. ptr' = ptr - Needed + Left
  BY StraightMoves
<1>3. Op \notin {"Goto", "Return", "Halt"} /\ UNCHANGED <<callstack, frames, baseptr, except>>
  BY StraightSteps
<1>4. Depth(After) <= Depth(ip) - Needed + Left
  BY <1>3, DepthFacts
<1>5. ip' = After \/ status' = "failed"
  BY DEF Straight, Skip, Assert, PushRegion, PopRegion, StoreValue,
    StoreInteger, FreeInteger, LoadValue, LoadArgument, LoadVariablePointer,
    UnTrack, Logic, Create, CreateFloat, Compare, PrintValue, Continue
<1>6. Needed \in Nat /\ Left \in 0 .. 1 /\ Needed <= Depth(ip) /\ Depth(ip) \in Nat
  BY DepthFacts DEF StackInv, CodeInv
<1>7. ptr' \in Nat
  BY <1>1, <1>2, <1>6
<1>8. Depth(After) \in Nat
  BY <1>3, NextInCode, DepthFacts DEF StackInv
<1>9. status' = "running" => ptr' >= baseptr + Depth(ip')
  BY <1>1, <1>2, <1>4, <1>5, <1>6, <1>8
<1>10. except' \in [Frame -> Seq(Handler)]
  BY <1>3 DEF StackInv
<1> QED
  BY <1>3, <1>7, <1>9, <1>10, SameDepths

LEMMA JumpStack ==
  ASSUME StackInv, Goto \/ GotoIfFalse \/ Halt \/ Stop, status = "running",
         bytecode' = bytecode, CodeInv'
  PROVE  StackInv'
<1> USE DEF KeepRegions, KeepStack, KeepExcept, regionVars, stackVars, exceptVars
<1>1. ptr >= baseptr + Depth(ip) /\ ptr \in Nat /\ baseptr \in Nat
  BY DEF StackInv
<1>2. UNCHANGED <<callstack, frames, baseptr, except>>
  BY JumpSteps DEF StackInv
<1>3. Needed \in Nat /\ Left \in 0 .. 1 /\ Needed <= Depth(ip) /\ Depth(ip) \in Nat
  BY DepthFacts DEF StackInv, CodeInv
<1>4. except' \in [Frame -> Seq(Handler)]
  BY <1>2 DEF StackInv
<1>5. CASE Goto
  <2>1. Op = "Goto" /\ ip' = Arg /\ ptr' = ptr
    BY <1>5 DEF Goto
  <2>2. Needed = 0 /\ Left = 0
    BY <1>1, <2>1, PopCounts, PushCounts, NeedsPops DEF PopNone
  <2>3. Depth(Arg) <= Depth(ip) /\ Depth(Arg) \in Nat
    BY <1>3, <2>1, <2>2, DepthFacts DEF StackInv, CodeInv, WellFormed, Address,
      Op, Arg, Code
  <2>4. ptr' >= baseptr + Depth(ip')
    BY <1>1, <1>3, <2>1, <2>3
  <2> QED
    BY <1>1, <1>2, <1>4, <2>1, <2>4, SameDepths
<1>6. CASE GotoIfFalse
  <2>1. Op = "GotoIfFalse" /\ ip' \in {Arg, After} /\ ptr' = ptr - 1
    BY <1>6 DEF GotoIfFalse, Pop
  <2>2. Needed = 1 /\ Left = 0
    BY <1>1, <2>1, PopCounts, PushCounts, NeedsPops DEF PopOne
  <2>3. Depth(ip') <= Depth(ip) - 1
    BY <1>3, <2>1, <2>2, DepthFacts
  <2>4. Depth(ip') \in Nat
    BY DepthFacts DEF CodeInv, Address, Code
  <2>5. ptr' \in Nat /\ ptr' >= baseptr + Depth(ip')
    BY <1>1, <1>3, <2>1, <2>2, <2>3, <2>4
  <2> QED
    BY <1>2, <1>4, <2>5, SameDepths
<1>7. CASE Halt \/ Stop
  <2>1. ip' = ip /\ ptr' = ptr
    BY <1>7 DEF Halt, Stop
  <2> QED
    BY <1>1, <1>2, <1>4, <2>1, SameDepths
<1> QED
  BY <1>5, <1>6, <1>7

(* A raise leaves the exception on top of whatever operands there are. *)
LEMMA RaiseStack ==
  ASSUME StackInv, RaiseException, ~Asserts, status = "running",
         bytecode' = bytecode, CodeInv'
  PROVE  StackInv'
<1>1. ptr >= baseptr + Depth(ip) /\ ptr \in Nat /\ baseptr \in Nat
  BY DEF StackInv
<1>2. UNCHANGED <<callstack, frames, baseptr, except>>
  BY RaiseCode DEF StackInv
<1>3. Op = "RaiseException" /\ ptr' = ptr + 1
  BY <1>1 DEF RaiseException, Replace
<1>4. Needed = 0 /\ Left = 1
  BY <1>3, PopCounts, PushCounts, NeedsPops DEF PopNone
<1>5. except \in [Frame -> Seq(Handler)] /\ callstack \in Frame
  BY <1>3 DEF Asserts, StackInv, CodeInv, Frame
<1>6. Depth(ip) \in Nat
  BY DepthFacts DEF StackInv, CodeInv
<1>7. CASE except[callstack] # <<>>
  <2>1. ip' = CurrentTry(callstack)
    BY <1>7 DEF RaiseException
  <2>2. ip' \in Handler
    BY <1>5, <1>7, <2>1 DEF CurrentTry
  <2>3. ptr' \in Nat /\ ptr' >= baseptr + Depth(ip')
    BY <1>1, <1>3, <1>6, <2>2 DEF Handler
  <2> QED
    BY <1>2, <1>5, <2>3, SameDepths
<1>8. CASE except[callstack] = <<>>
  <2>1. ip' = After
    BY <1>8 DEF RaiseException
  <2>2. Depth(After) <= Depth(ip) + 1 /\ Depth(After) \in Nat
    BY <1>3, <1>4, <1>6, DepthFacts, NextInCode DEF StackInv
  <2>3. ptr' \in Nat /\ ptr' >= baseptr + Depth(ip')
    BY <1>1, <1>3, <1>6, <2>1, <2>2
  <2> QED
    BY <1>2, <1>5, <2>3, SameDepths
<1> QED
  BY <1>7, <1>8

LEMMA TryStack ==
  ASSUME StackInv, PushTry \/ PopTry, ~Asserts, status = "running",
         bytecode' = bytecode, CodeInv'
  PROVE  StackInv'
<1>1. ptr >= baseptr + Depth(ip) /\ ptr \in Nat /\ baseptr \in Nat
  BY DEF StackInv
<1>2. UNCHANGED <<callstack, frames, baseptr>>
  BY TryCode DEF StackInv
<1>3. /\ Op \in {"PushTry", "PopTry"} /\ ptr' = ptr /\ ip' = After
  BY DEF PushTry, PopTry, KeepStack, stackVars, Continue
<1>4. Needed = 0 /\ Left = 0
  BY <1>3, PopCounts, PushCounts, NeedsPops DEF PopNone
<1>5. except \in [Frame -> Seq(Handler)] /\ callstack \in Frame
  BY <1>3 DEF Asserts, StackInv, CodeInv, Frame
<1>6. Depth(ip) \in Nat
  BY DepthFacts DEF StackInv, CodeInv
<1>7. Depth(After) <= Depth(ip) /\ Depth(After) \in Nat
  BY <1>3, <1>4, <1>6, DepthFacts, NextInCode DEF StackInv
<1>8. ptr' >= baseptr + Depth(ip')
  BY <1>1, <1>3, <1>6, <1>7
<1>9. except' \in [Frame -> Seq(Handler)]
  <2>1. CASE PushTry
    <3>1. Op = "PushTry" /\ except' = [except EXCEPT ![callstack] = Append(except[callstack], Arg)]
      BY <2>1 DEF PushTry
    <3>2. Arg \in Handler
      BY <3>1, DepthFacts DEF StackInv, CodeInv, WellFormed, Address, Op, Arg,
        Code, Handler
    <3>3. Append(except[callstack], Arg) \in Seq(Handler)
      BY <1>5, <3>2
    <3> QED
      BY <1>5, <3>1, <3>3
  <2>2. CASE PopTry
    <3> DEFINE s == except[callstack]
               t == SubSeq(s, 1, Len(s) - 1)
    <3>1. s \in Seq(Handler) /\ s # <<>>
      BY <1>5, <2>2 DEF Asserts, PopTry
    <3>2. t \in Seq(Handler)
      BY <3>1
    <3>3. except' = [except EXCEPT ![callstack] = t]
      BY <2>2 DEF PopTry
    <3> HIDE DEF t
    <3> QED
      BY <1>5, <3>2, <3>3
  <2> QED
    BY <2>1, <2>2
<1> QED
  BY <1>1, <1>2, <1>3, <1>8, <1>9, SameDepths

(* A call takes its arguments from the operands of the caller. *)
LEMMA CallStack ==
  ASSUME StackInv, CallFunction, status = "running", bytecode' = bytecode, CodeInv'
  PROVE  StackInv'
<1> DEFINE new == callstack + 1
           frame == [function |-> Arg, return_address |-> After,
                     baseptr |-> baseptr, ptr |-> ptr]
<1>1. /\ ptr >= baseptr + Depth(ip) /\ ptr \in Nat /\ baseptr \in Nat
      /\ callstack \in 0 .. MaxFrames /\ DOMAIN frames = Frame
  BY DEF StackInv, CodeInv, FramesInCode
<1>2. callstack' = new /\ new \in Frame
  BY <1>1, VirtualMachineAssumption DEF CallFunction, R!Call, Frame
<1>3. Arg + 1 \in DOMAIN bytecode.functions
  BY DEF CallFunction, StackInv, CodeInv, WellFormed, Op, Arg, Code, Address
<1>4. /\ frames' = [frames EXCEPT ![new] = frame]
      /\ ptr' = ptr + Function(Arg).variables /\ baseptr' = ptr'
      /\ ip' = Function(Arg).address /\ except' = except
  BY DEF CallFunction, KeepExcept, exceptVars
<1>5. frames'[new] = frame /\ \A f \in Frame \ {new} : frames'[f] = frames[f]
  BY <1>1, <1>2, <1>4
<1>6. /\ Depth(ip') = 0 /\ Function(Arg).parameters \in Nat
      /\ Function(Arg).variables \in Nat
  BY <1>3, <1>4, EntryFacts
<1>7. ptr' \in Nat /\ baseptr' \in Nat /\ ptr' >= baseptr' + Depth(ip')
  BY <1>1, <1>4, <1>6
<1>8. /\ Function(Arg).parameters <= Depth(ip)
      /\ Depth(After) <= Depth(ip) - Function(Arg).parameters
                           + (IF Function(Arg).returns THEN 1 ELSE 0)
  <2>1. Op = "CallFunction"
    BY DEF CallFunction
  <2>2. /\ Needed = Function(Arg).parameters
        /\ Left = IF Function(Arg).returns THEN 1 ELSE 0
    BY <2>1 DEF Needed, Left, Needs, Leaves, Op, Arg, Function
  <2> QED
    BY <2>1, <2>2, DepthFacts
<1>9. Depth(ip) \in Nat /\ Depth(After) \in Nat
  BY DepthFacts, NextInCode DEF CallFunction, StackInv, CodeInv
<1>10. ASSUME NEW f \in 1 .. callstack'
       PROVE  FrameNests(f)'
  <2>1. CASE f = new
    <3>1. /\ ptr - Function(Arg).parameters >= baseptr
          /\ ptr - Function(Arg).parameters
               + (IF Function(Arg).returns THEN 1 ELSE 0) >= baseptr + Depth(After)
      BY <1>1, <1>6, <1>8, <1>9
    <3>2. frames'[f] = frame
      BY <1>5, <2>1
    <3> QED
      BY <1>1, <3>1, <3>2 DEF FrameNests, ParametersOf, ResultsOf, Function, Depth
  <2>2. CASE f # new
    <3>1. f \in 1 .. callstack /\ frames'[f] = frames[f]
      BY <1>1, <1>2, <1>5, <2>2, VirtualMachineAssumption DEF Frame
    <3> QED
      BY <3>1 DEF StackInv, FrameNests, ParametersOf, ResultsOf, Function, Depth
  <2> QED
    BY <2>1, <2>2
<1>11. except' \in [Frame -> Seq(Handler')]
  BY <1>4 DEF StackInv, Handler, Address, Code, Depth
<1>12. Balanced(bytecode)' /\ Depth(ip)' = Depth(ip')
  BY DEF StackInv, Depth
<1> QED
  BY <1>7, <1>10, <1>11, <1>12 DEF StackInv

(* Where a function leaves the stack its caller finds what it expects: the *)
(* result, if it returns, and no less than its own operands otherwise.     *)
LEMMA ReturnsStack ==
  ASSUME StackInv, ~Asserts, status = "running", bytecode' = bytecode,
         Return \/ ReturnToHandler \/ ReturnUnwinding, CodeInv'
  PROVE  StackInv'
<1>1. /\ Op = "Return" /\ ReturnRegions /\ ReturnStack /\ except' = except
  BY DEF Return, ReturnToHandler, ReturnUnwinding, KeepExcept, exceptVars
<1>2. callstack \in Frame /\ callstack \in 1 .. callstack /\ callstack \in Nat
  BY <1>1, VirtualMachineAssumption DEF Asserts, StackInv, CodeInv, Frame
<1>3. callstack' = callstack - 1 /\ frames' = frames
  BY <1>1 DEF ReturnRegions, R!Return, ReturnStack
<1>4. /\ FrameNests(callstack)
      /\ frames[callstack].function + 1 \in DOMAIN bytecode.functions
      /\ frames[callstack].return_address \in Address
  BY <1>2 DEF StackInv, CodeInv, FramesInCode
<1> DEFINE landing == frames[callstack].ptr - ParametersOf(callstack)
                        + ResultsOf(callstack)
           base == frames[callstack].baseptr
<1>5. ptr' = landing /\ baseptr' = base
  <2>1. ParametersOf(callstack) \in Nat /\ frames[callstack].ptr \in Nat
    BY <1>4, EntryFacts DEF ParametersOf, FrameNests
  <2> QED
    BY <1>1, <2>1 DEF ReturnStack, ReturnPtr, CurrentFunction, ParametersOf, ResultsOf
<1>6. /\ base \in Nat /\ landing \in Nat /\ landing >= base
      /\ landing >= base + Depth(frames[callstack].return_address)
  BY <1>4, EntryFacts DEF FrameNests, ParametersOf, ResultsOf
<1>7. \/ ip' = frames[callstack].return_address
      \/ ip' \in Address /\ Depth(ip') = 0
  <2>1. CASE Return
    <3>1. ip' = frames[callstack].return_address
      BY <2>1 DEF Return
    <3> QED
      BY <3>1
  <2>2. ASSUME unwinding
        PROVE  callstack - 1 \in Frame /\ callstack - 1 \in 1 .. callstack
    BY <1>1, <1>2, <2>2, VirtualMachineAssumption DEF Asserts, Outlives, Frame
  <2>3. CASE ReturnToHandler
    <3>1. /\ except[callstack - 1] \in Seq(Handler)
          /\ except[callstack - 1] # <<>>
          /\ ip' = CurrentTry(callstack - 1)
      BY <2>2, <2>3 DEF ReturnToHandler, StackInv
    <3>2. ip' \in Handler
      BY <3>1 DEF CurrentTry
    <3> QED
      BY <3>2 DEF Handler
  <2>4. CASE ReturnUnwinding
    <3>1. /\ unwinding
          /\ ip' = Function(frames[callstack - 1].function).finally
      BY <2>4 DEF ReturnUnwinding
    <3>2. frames[callstack - 1].function + 1 \in DOMAIN bytecode.functions
      BY <2>2, <3>1 DEF StackInv, CodeInv, FramesInCode
    <3>3. ip' \in Address
      BY DEF CodeInv, Address, Code
    <3> QED
      BY <3>1, <3>2, <3>3, EntryFacts
  <2> QED
    BY <2>1, <2>3, <2>4
<1>8. ptr' \in Nat /\ baseptr' \in Nat /\ ptr' >= baseptr' + Depth(ip')
  BY <1>5, <1>6, <1>7
<1>9. ASSUME NEW f \in 1 .. callstack'
      PROVE  FrameNests(f)'
  <2>1. f \in 1 .. callstack
    BY <1>2, <1>3
  <2> QED
    BY <1>3, <2>1 DEF StackInv, FrameNests, ParametersOf, ResultsOf, Function, Depth
<1>10. except' \in [Frame -> Seq(Handler')]
  BY <1>1 DEF StackInv, Handler, Address, Code, Depth
<1>11. Balanced(bytecode)' /\ Depth(ip)' = Depth(ip')
  BY DEF StackInv, Depth
<1> QED
  BY <1>8, <1>9, <1>10, <1>11 DEF StackInv

LEMMA NextStack == StackInv /\ [Next]_vars => StackInv'
<1> SUFFICES ASSUME StackInv, [Next]_vars PROVE StackInv'
  OBVIOUS
<1>1. CodeInv'
  BY NextCode DEF StackInv
<1>2. CASE UNCHANGED vars
  BY <1>1, <1>2, SameDepths DEF vars, stackVars, regionVars, exceptVars, StackInv
<1>3. CASE Stopped
  BY <1>2, <1>3 DEF Stopped
<1>4. CASE status = "running" /\ Stop
  BY <1>1, <1>4, JumpStack DEF Stop
<1>5. CASE status = "running" /\ Proceeds /\ Step /\ UNCHANGED bytecode
  <2>1. ~Asserts
    BY <1>5 DEF Proceeds
  <2>2. CASE Straight
    BY <1>1, <1>5, <2>2, StraightStack
  <2>3. CASE Goto \/ GotoIfFalse \/ Halt
    BY <1>1, <1>5, <2>3, JumpStack
  <2>4. CASE RaiseException
    BY <1>1, <1>5, <2>1, <2>4, RaiseStack
  <2>5. CASE PushTry \/ PopTry
    BY <1>1, <1>5, <2>1, <2>5, TryStack
  <2>6. CASE CallFunction
    BY <1>1, <1>5, <2>6, CallStack
  <2>7. CASE Return \/ ReturnToHandler \/ ReturnUnwinding
    BY <1>1, <1>5, <2>1, <2>7, ReturnsStack
  <2> QED
    BY <1>5, <2>2, <2>3, <2>4, <2>5, <2>6, <2>7 DEF Step, Straight
<1> QED
  BY <1>2, <1>3, <1>4, <1>5 DEF Next, Execute

(* The frames of a running program never overlap, and no instruction takes *)
(* a value that is not an operand of its own function.                     *)
THEOREM FramesNeverOverlap == Spec => []FramesNest
<1>1. StackInv => FramesNest
  <2> SUFFICES ASSUME StackInv PROVE FramesNest
    OBVIOUS
  <2>1. FramesLinked
    BY DEF StackInv, CodeInv
  <2>2. ASSUME NEW f \in 1 .. callstack
        PROVE  frames[f].ptr - Function(frames[f].function).parameters
                 >= frames[f].baseptr
    BY DEF StackInv, FrameNests, ParametersOf
  <2>3. ASSUME status = "running"
        PROVE  ptr - Needed >= baseptr
    <3>1. Needed \in Nat /\ Needed <= Depth(ip) /\ Depth(ip) \in Nat
      BY DepthFacts DEF StackInv, CodeInv
    <3> QED
      BY <2>3, <3>1 DEF StackInv
  <2> QED
    BY <2>1, <2>2, <2>3 DEF FramesNest, Needed
<1> QED
  BY <1>1, InitStack, NextStack, PTL DEF Spec

------------------------------------------------------------------------------
(* The types and bounds of the machine's state. *)

(* The variables of the calls a frame is above of are counted in the stack *)
(* pointer, whether the stack has as many slots or not: a call does not    *)
(* make room for them.                                                     *)
StackTypes ==
  /\ stack \in Seq(Value) /\ Len(stack) <= StackLimit
  /\ ptr \in Nat /\ baseptr \in Nat
  /\ ptr <= Len(stack) + callstack * MaxVariables
  /\ \A f \in Frame : frames[f].ptr \in Nat
  /\ \A f \in 1 .. callstack :
       /\ frames[f].baseptr \in Nat
       /\ frames[f].ptr <= Len(stack) + (f - 1) * MaxVariables

ExceptTypes ==
  /\ \A f \in Frame : Len(except[f]) <= TrySlots
  /\ unwinding \in BOOLEAN
  /\ traces \in Nat
  /\ unwinding => traces > 0

HistoryTypes ==
  /\ status \in {"running", "halted", "failed", "aborted", "fault", "exhausted"}
  /\ content \in [Block -> 0 .. Modulus - 1]
  /\ decisions \in Seq(BOOLEAN) /\ Cardinality(Trues) <= MaxDecisions

TypeInv == CodeInv /\ StackTypes /\ ExceptTypes /\ HistoryTypes

LEMMA TypeInvTypes == TypeInv => TypeOK
<1> SUFFICES ASSUME TypeInv PROVE TypeOK
  OBVIOUS
<1> USE DEF TypeInv
<1>1. ip \in Nat
  BY DEF CodeInv, WellFormed, Address, Code
<1>2. callstack \in Nat /\ MaxFrames \in Nat /\ callstack <= MaxFrames
  BY VirtualMachineAssumption DEF CodeInv
<1>3. ptr \in Nat /\ Len(stack) \in Nat /\ ptr <= Len(stack) + callstack * 127
  BY DEF StackTypes, MaxVariables
<1>4. ptr \in 0 .. Len(stack) + MaxFrames * MaxVariables
  BY <1>2, <1>3 DEF MaxVariables
<1> QED
  BY <1>1, <1>4 DEF TypeOK, StackTypes, ExceptTypes, HistoryTypes

(* Values by their kinds. *)
LEMMA ValueFacts ==
  /\ Null \in Value
  /\ \A b \in Block : Ref(b) \in Value
  /\ \A v \in BOOLEAN : Boolean(v) \in Value
  /\ \A n \in 0 .. Modulus - 1 : Float(n) \in Value
  /\ \A u \in Nat : Uid(u) \in Value
  /\ \A i \in Int, n \in Nat : <<"slot", i, n>> \in Value
  /\ \A v \in Value :
       /\ v[1] = "block" => v[2] \in Block
       /\ v[1] = "bool" => v[2] \in BOOLEAN
       /\ v[1] = "float" => v[2] \in 0 .. Modulus - 1
BY DEF Value, Null, Ref, Boolean, Float, Uid

LEMMA InitTypes == Init => TypeInv
<1> SUFFICES ASSUME Init PROVE TypeInv
  OBVIOUS
<1>1. callstack = 0 /\ stack = <<>> /\ decisions = <<>>
  BY DEF Init, R!Init
<1>2. StackTypes
  BY <1>1, VirtualMachineAssumption DEF Init, StackTypes, MaxVariables
<1>3. ExceptTypes
  <2>1. TrySlots \in Nat /\ unwinding = FALSE /\ traces = 0
    BY VirtualMachineAssumption DEF Init
  <2>2. \A f \in Frame : except[f] = <<>>
    BY DEF Init
  <2>3. \A f \in Frame : Len(except[f]) <= TrySlots
    BY <2>1, <2>2
  <2>4. unwinding \in BOOLEAN /\ traces \in Nat
    BY <2>1
  <2> QED
    BY <2>1, <2>3, <2>4, Zenon DEF ExceptTypes
<1>4. Trues = {}
  BY <1>1 DEF Trues
<1>5. Cardinality(Trues) = 0
  BY <1>4, FS_EmptySet
<1>6. HistoryTypes
  BY <1>1, <1>5, VirtualMachineAssumption DEF Init, HistoryTypes
<1> QED
  BY <1>2, <1>3, <1>6, InitCode DEF TypeInv

(* What an instruction may do to the stack. *)
StackMoves ==
  /\ stack' \in Seq(Value)
  /\ Len(stack) <= Len(stack') /\ Len(stack') <= StackLimit
  /\ ptr' \in Nat
  /\ ptr' <= ptr \/ ptr' <= Len(stack')

LEMMA MovedTypes ==
  ASSUME TypeInv, StackMoves, UNCHANGED <<callstack, frames, baseptr>>
  PROVE  StackTypes'
<1>1. callstack \in Nat
  BY DEF TypeInv, CodeInv
<1>2. Len(stack) \in Nat /\ Len(stack') \in Nat
  BY DEF TypeInv, StackTypes, StackMoves
<1>3. ptr' <= Len(stack') + callstack * 127
  BY <1>1, <1>2 DEF TypeInv, StackTypes, StackMoves, MaxVariables
<1>4. ASSUME NEW f \in 1 .. callstack
      PROVE  frames[f].ptr <= Len(stack') + (f - 1) * 127
  <2>1. f \in Frame
    BY VirtualMachineAssumption DEF TypeInv, CodeInv, Frame
  <2>2. frames[f].ptr \in Nat /\ frames[f].ptr <= Len(stack) + (f - 1) * 127
    BY <1>4, <2>1 DEF TypeInv, StackTypes, MaxVariables
  <2> QED
    BY <1>2, <2>2 DEF StackMoves
<1> QED
  BY <1>1, <1>3, <1>4 DEF TypeInv, StackTypes, StackMoves, MaxVariables

(* stack_pop and the growth of the stack, whatever the slots hold. *)
LEMMA PoppedFacts ==
  ASSUME NEW S, stack \in Seq(S), ptr \in Nat, NEW n \in Nat
  PROVE  /\ Popped(n) \in Seq(S \union {Null})
         /\ Len(Popped(n)) = Len(stack)
         /\ \A k \in 1 .. Len(stack) : k <= ptr - n \/ k > ptr => Popped(n)[k] = stack[k]
<1>1. \A k \in 1 .. Len(stack) : stack[k] \in S
  OBVIOUS
<1>2. Len(stack) \in Nat
  OBVIOUS
<1> QED
  BY <1>1, <1>2 DEF Popped

LEMMA GrownFacts ==
  ASSUME NEW S, NEW s \in Seq(S), NEW p \in Nat, Room(s, p)
  PROVE  /\ Grown(s, p) \in Seq(S \union {Null})
         /\ p + 1 \in 1 .. Len(Grown(s, p))
         /\ \A k \in 1 .. Len(s) : k \in 1 .. Len(Grown(s, p)) /\ Grown(s, p)[k] = s[k]
<1>1. CASE p < Len(s)
  BY <1>1 DEF Grown
<1>2. CASE ~(p < Len(s))
  <2> DEFINE pad == [i \in 1 .. Growth + Len(s) |-> Null]
  <2>1. Len(s) \in Nat /\ Growth \in Nat
    BY VirtualMachineAssumption
  <2>2. pad \in Seq({Null}) /\ Len(pad) = Growth + Len(s)
    BY <2>1
  <2>3. Grown(s, p) = s \o pad
    BY <1>2 DEF Grown
  <2> HIDE DEF pad
  <2>4. /\ s \o pad \in Seq(S \union {Null})
        /\ Len(s \o pad) = Growth + 2 * Len(s)
        /\ \A k \in 1 .. Len(s) : (s \o pad)[k] = s[k]
    BY <2>1, <2>2
  <2>5. p < Growth + 2 * Len(s)
    BY <1>2 DEF Room
  <2> QED
    BY <2>1, <2>3, <2>4, <2>5
<1> QED
  BY <1>1, <1>2

LEMMA GrownLength ==
  ASSUME NEW S, NEW s \in Seq(S), NEW p \in Nat
  PROVE  Len(Grown(s, p)) = IF p < Len(s) THEN Len(s) ELSE Growth + 2 * Len(s)
<1> DEFINE pad == [i \in 1 .. Growth + Len(s) |-> Null]
<1>1. Len(s) \in Nat /\ Growth \in Nat
  BY VirtualMachineAssumption
<1>2. pad \in Seq({Null}) /\ Len(pad) = Growth + Len(s)
  BY <1>1
<1>3. Grown(s, p) = IF p < Len(s) THEN s ELSE s \o pad
  BY DEF Grown
<1> HIDE DEF pad
<1>4. Len(s \o pad) = Growth + 2 * Len(s)
  BY <1>1, <1>2
<1> QED
  BY <1>3, <1>4

LEMMA PutFacts ==
  ASSUME NEW S, NEW s \in Seq(S), NEW i \in 1 .. Len(s), NEW v \in S
  PROVE  [s EXCEPT ![i] = v] \in Seq(S) /\ Len([s EXCEPT ![i] = v]) = Len(s)
OBVIOUS

LEMMA PoppedTypes ==
  ASSUME TypeInv, NEW n \in Nat
  PROVE  Popped(n) \in Seq(Value) /\ Len(Popped(n)) = Len(stack)
<1>1. stack \in Seq(Value) /\ ptr \in Nat
  BY DEF TypeInv, StackTypes
<1>2. Value \union {Null} = Value
  BY ValueFacts
<1> QED
  BY <1>1, <1>2, PoppedFacts

LEMMA PopMoved ==
  ASSUME TypeInv, NEW n \in Nat, n <= ptr, Pop(n)
  PROVE  StackMoves
<1>1. stack' \in Seq(Value) /\ Len(stack') = Len(stack)
  BY PoppedTypes DEF Pop
<1>2. ptr \in Nat /\ Len(stack) \in Nat /\ Len(stack) <= StackLimit
  BY DEF TypeInv, StackTypes
<1> QED
  BY <1>1, <1>2 DEF Pop, StackMoves

(* A slot gets a value, and the stack is large enough for it. *)
LEMMA PutMoved ==
  ASSUME TypeInv, NEW n \in Nat, NEW p \in Nat, NEW v \in Value,
         Room(stack, p),
         p >= Len(stack) => Growth + 2 * Len(stack) <= StackLimit,
         stack' = [Grown(Popped(n), p) EXCEPT ![p + 1] = v],
         ptr' = p + 1
  PROVE  StackMoves
<1>1. PICK s : s = Popped(n)
  OBVIOUS
<1>2. s \in Seq(Value) /\ Len(s) = Len(stack)
  BY <1>1, PoppedTypes
<1>3. Len(stack) \in Nat /\ Len(stack) <= StackLimit /\ Growth \in Nat
  BY VirtualMachineAssumption DEF TypeInv, StackTypes
<1>4. PICK t : t = Grown(s, p)
  OBVIOUS
<1>5. Value \union {Null} = Value
  BY ValueFacts
<1>6. t \in Seq(Value) /\ p + 1 \in 1 .. Len(t)
  BY <1>2, <1>4, <1>5, GrownFacts DEF Room
<1>7. Len(t) = IF p < Len(stack) THEN Len(stack) ELSE Growth + 2 * Len(stack)
  BY <1>2, <1>4, GrownLength
<1>8. stack' = [t EXCEPT ![p + 1] = v]
  BY <1>1, <1>4
<1>9. stack' \in Seq(Value) /\ Len(stack') = Len(t)
  <2>1. PICK i : i = p + 1
    OBVIOUS
  <2>2. /\ [t EXCEPT ![i] = v] \in Seq(Value)
        /\ Len([t EXCEPT ![i] = v]) = Len(t)
    BY <1>6, <2>1, PutFacts
  <2> QED
    BY <1>8, <2>1, <2>2
<1>10. Len(stack) <= Len(t) /\ Len(t) <= StackLimit
  BY <1>3, <1>7
<1> QED
  BY <1>6, <1>9, <1>10 DEF StackMoves

LEMMA ReplaceMoved ==
  ASSUME TypeInv, NEW n \in Nat, n <= ptr, NEW v \in Value, Replace(n, v),
         Room(stack, ptr - n),
         ptr - n >= Len(stack) => Growth + 2 * Len(stack) <= StackLimit
  PROVE  StackMoves
<1>1. PICK p : p = ptr - n
  OBVIOUS
<1>2. p \in Nat
  BY <1>1 DEF TypeInv, StackTypes
<1>3. stack' = [Grown(Popped(n), p) EXCEPT ![p + 1] = v] /\ ptr' = p + 1
  BY <1>1 DEF Replace
<1> QED
  BY <1>1, <1>2, <1>3, PutMoved

(* What an instruction that is executed finds on the stack. *)
LEMMA PopsReady ==
  ASSUME TypeInv, Proceeds
  PROVE  /\ Len(Pops) \in 0 .. 2 /\ Len(Pops) <= ptr
         /\ \A k \in 1 .. Len(Pops) : Top(k) \in Value /\ Fits(Top(k), Pops[k])
         /\ Pushes => /\ Room(stack, ptr - Len(Pops))
                      /\ ptr - Len(Pops) >= Len(stack)
                           => Growth + 2 * Len(stack) <= StackLimit
<1>1. PICK n : n = Len(Pops)
  OBVIOUS
<1>2. n \in 0 .. 2
  BY <1>1 DEF Pops, PopsOf
<1>3. /\ n > 0 => n <= ptr /\ ptr <= Len(stack)
      /\ \A k \in 1 .. n : Fits(Top(k), Pops[k])
      /\ Pushes => Room(stack, ptr - n)
  BY <1>1, <1>2 DEF Proceeds, Defined, Readable
<1>4. ptr \in Nat /\ stack \in Seq(Value) /\ Len(stack) \in Nat
  BY DEF TypeInv, StackTypes
<1>5. \A k \in 1 .. n : Top(k) \in Value
  <2> SUFFICES ASSUME NEW k \in 1 .. n PROVE Top(k) \in Value
    OBVIOUS
  <2>1. ptr - k + 1 \in 1 .. Len(stack)
    BY <1>2, <1>3, <1>4
  <2> QED
    BY <1>4, <2>1 DEF Top
<1>6. Pushes /\ ptr - n >= Len(stack) => ~(Growth + 2 * Len(stack) > StackLimit)
  BY <1>1 DEF Proceeds, Exhausts
<1>7. StackLimit \in Nat /\ Growth \in Nat
  BY VirtualMachineAssumption
<1>8. Pushes /\ ptr - n >= Len(stack) => Growth + 2 * Len(stack) <= StackLimit
  BY <1>4, <1>6, <1>7
<1> QED
  BY <1>1, <1>2, <1>3, <1>4, <1>5, <1>8

(* The kinds of what the results are made of. *)
LEMMA PopKinds ==
  /\ Op \in Copies \union Negations \/ (Op \in DOMAIN Casting /\ Arg \in Casting[Op])
       => Len(Pops) = 1 /\ Pops[1] \in {"block", "float", "bool"}
  /\ Op \in Additions \union Subtractions \union {"IntegerPower", "StringConcat"}
       => Len(Pops) = 2 /\ \A k \in 1 .. 2 : Pops[k] \in {"block", "float"}
<1> USE DEF Op, Arg, Pops, PopsOf, FloatPairs, BlockPairs, BlockSingles, Copies,
      Relations, Negations, Additions, Subtractions
<1>1. ASSUME Op \in Copies \union Negations
      PROVE  Len(Pops) = 1 /\ Pops[1] \in {"block", "float", "bool"}
  BY <1>1 DEF Casting
<1>2. ASSUME Op \in DOMAIN Casting, Arg \in Casting[Op]
      PROVE  Len(Pops) = 1 /\ Pops[1] \in {"block", "float", "bool"}
  <2>1. Arg \in {"Float", "Rational", "String", "Integer", "Boolean"}
    BY <1>2 DEF Casting
  <2>2. KindOf(Arg) \in {"block", "float", "bool"}
    BY <2>1 DEF KindOf, Boxed
  <2>3. Pops = <<KindOf(Arg)>>
    BY <1>2 DEF Casting
  <2> HIDE DEF Pops, Arg
  <2> QED
    BY <2>2, <2>3
<1>3. ASSUME Op \in Additions \union Subtractions \union {"IntegerPower", "StringConcat"}
      PROVE  Len(Pops) = 2 /\ \A k \in 1 .. 2 : Pops[k] \in {"block", "float"}
  <2>1. Pops \in {<<"block", "block">>, <<"float", "float">>}
    <3>1. CASE Op \in {"FloatAddition", "FloatSubtraction"}
      BY <3>1 DEF Casting
    <3>2. CASE Op \notin {"FloatAddition", "FloatSubtraction"}
      BY <1>3, <3>2 DEF Casting
    <3> QED
      BY <3>1, <3>2
  <2> HIDE DEF Pops
  <2> QED
    BY <2>1
<1> QED
  BY <1>1, <1>2, <1>3

LEMMA HeldTypes ==
  ASSUME TypeInv, Proceeds, NEW k \in 1 .. Len(Pops),
         Pops[k] \in {"block", "float", "bool"}
  PROVE  Held(k) \in 0 .. Modulus - 1
<1>1. PICK v : v = Top(k)
  OBVIOUS
<1>2. v \in Value /\ Fits(v, Pops[k])
  BY <1>1, PopsReady
<1>3. v[1] \in {"block", "float", "bool", "null"}
  BY <1>2 DEF Fits, IsBlock
<1>4. Modulus \in Nat /\ Modulus > 1
  BY VirtualMachineAssumption
<1>5. content \in [Block -> 0 .. Modulus - 1]
  BY DEF TypeInv, HistoryTypes
<1>6. CASE v[1] = "block"
  <2>1. Held(k) = content[v[2]]
    BY <1>1, <1>6 DEF Held
  <2> QED
    BY <1>2, <1>5, <1>6, <2>1, ValueFacts
<1>7. CASE v[1] = "float"
  <2>1. Held(k) = v[2]
    BY <1>1, <1>7 DEF Held
  <2> QED
    BY <1>2, <1>7, <2>1, ValueFacts
<1>8. CASE v[1] = "bool"
  <2>1. Held(k) = IF v[2] THEN 1 ELSE 0
    BY <1>1, <1>8 DEF Held
  <2> QED
    BY <1>4, <2>1
<1>9. CASE v[1] = "null"
  <2>1. Held(k) = 0
    BY <1>1, <1>9 DEF Held
  <2> QED
    BY <1>4, <2>1
<1> QED
  BY <1>3, <1>6, <1>7, <1>8, <1>9

LEMMA ResultOps ==
  ASSUME Tracks \/ Keeps \/ Floats
  PROVE  \/ Op \in Literals \union Copies \union Negations \union Additions
                     \union Subtractions \union {"IntegerPower", "StringConcat"}
         \/ Op \in DOMAIN Casting /\ Arg \in Casting[Op]
BY DEF Op, Arg, Tracks, Keeps, Floats, TracksOf, KeepsOf, FloatsOf, ConvertsTo,
  IntegerResults, StringResults, Keeping, RationalResults, FloatResults, Literals,
  Copies, Negations, Additions, Subtractions, Casting

(* The content of a result is a content. *)
LEMMA ResultTypes ==
  ASSUME TypeInv, Proceeds, Tracks \/ Keeps \/ Floats
  PROVE  Result \in 0 .. Modulus - 1
<1> USE DEF Literals, Copies, Negations, Additions, Subtractions
<1>0. Modulus \in Nat /\ Modulus > 0
  BY VirtualMachineAssumption
<1>1. CASE Op \in Literals
  <2>1. Result = Arg
    BY <1>1 DEF Result, Casting
  <2>2. Arg \in 0 .. Modulus - 1
    BY <1>1 DEF TypeInv, CodeInv, WellFormed, Address, Op, Arg, Code
  <2> QED
    BY <2>1, <2>2
<1>2. CASE Op \in Copies \/ (Op \in DOMAIN Casting /\ Arg \in Casting[Op])
  <2>1. Result = Held(1)
    BY <1>2 DEF Result, Casting
  <2>2. Held(1) \in 0 .. Modulus - 1
    BY <1>2, PopKinds, HeldTypes
  <2> QED
    BY <2>1, <2>2
<1>3. CASE Op \in Negations
  <2>1. Result = (-Held(1)) % Modulus
    BY <1>3 DEF Result, Casting
  <2>2. Held(1) \in 0 .. Modulus - 1
    BY <1>3, PopKinds, HeldTypes
  <2> QED
    BY <1>0, <2>1, <2>2
<1>4. CASE Op \in Additions \union Subtractions \union {"IntegerPower", "StringConcat"}
  <2>1. Held(1) \in 0 .. Modulus - 1 /\ Held(2) \in 0 .. Modulus - 1
    BY <1>4, PopKinds, HeldTypes
  <2>2. PICK x, y : x = Held(2) /\ y = Held(1)
    OBVIOUS
  <2>3. x \in Nat /\ y \in Nat
    BY <1>0, <2>1, <2>2
  <2>4. Result \in {(x + y) % Modulus, (x - y) % Modulus, (x ^ y) % Modulus,
                    (2 * x + y) % Modulus}
    BY <1>4, <2>2 DEF Result, Casting
  <2>5. (x ^ y) % Modulus \in 0 .. Modulus - 1
    BY <1>0, <2>3
  <2>6. /\ (x + y) % Modulus \in 0 .. Modulus - 1
        /\ (x - y) % Modulus \in 0 .. Modulus - 1
        /\ (2 * x + y) % Modulus \in 0 .. Modulus - 1
    BY <1>0, <2>3
  <2> QED
    BY <2>4, <2>5, <2>6
<1> QED
  BY <1>1, <1>2, <1>3, <1>4, ResultOps

(* Every kind of instruction moves the stack within its types. *)
LEMMA KeepMoved ==
  ASSUME TypeInv, UNCHANGED <<stack, ptr>>
  PROVE  StackMoves
BY DEF TypeInv, StackTypes, StackMoves

LEMMA StoreMoved ==
  ASSUME TypeInv, Proceeds, Op \in {"StoreValue", "StoreInteger", "StoreString"},
         stack' = [Popped(2) EXCEPT ![Top(1)[2] + 1] = Top(2)], ptr' = ptr - 2
  PROVE  StackMoves
<1>1. Len(Pops) = 2
  BY PopCounts DEF PopTwo
<1>2. Top(2) \in Value /\ 2 <= ptr
  BY <1>1, PopsReady
<1>3. PICK s : s = Popped(2)
  OBVIOUS
<1>4. s \in Seq(Value) /\ Len(s) = Len(stack)
  BY <1>3, PoppedTypes
<1>5. PICK i, v : i = Top(1)[2] + 1 /\ v = Top(2)
  OBVIOUS
<1>6. stack' = [s EXCEPT ![i] = v]
  BY <1>3, <1>5
<1>7. stack' \in Seq(Value) /\ Len(stack') = Len(stack)
  <2>1. CASE i \in 1 .. Len(s)
    <3>1. v \in Value
      BY <1>2, <1>5
    <3>2. /\ [s EXCEPT ![i] = v] \in Seq(Value)
          /\ Len([s EXCEPT ![i] = v]) = Len(s)
      BY <1>4, <2>1, <3>1, PutFacts
    <3> QED
      BY <1>4, <1>6, <3>2
  <2>2. CASE i \notin 1 .. Len(s)
    <3>1. DOMAIN s = 1 .. Len(s)
      BY <1>4
    <3>2. [s EXCEPT ![i] = v] = [k \in 1 .. Len(s) |-> s[k]]
      BY <2>2, <3>1
    <3>3. s = [k \in 1 .. Len(s) |-> s[k]]
      BY <1>4
    <3> QED
      BY <1>4, <1>6, <3>2, <3>3
  <2> QED
    BY <2>1, <2>2
<1>8. ptr \in Nat /\ Len(stack) \in Nat /\ Len(stack) <= StackLimit
  BY DEF TypeInv, StackTypes
<1> QED
  BY <1>2, <1>7, <1>8 DEF StackMoves

LEMMA LoadMoved ==
  ASSUME TypeInv, Proceeds, NEW v \in Value, Replace(0, v),
         Op \in {"RaiseException", "LoadValue", "LoadArgument",
                 "LoadVariablePointer", "PushTrue", "PushFalse"}
  PROVE  StackMoves
<1>1. Len(Pops) = 0 /\ Pushes
  BY PopCounts, PushCounts DEF PopNone
<1>2. ptr \in Nat
  BY DEF TypeInv, StackTypes
<1> QED
  BY <1>1, <1>2, PopsReady, ReplaceMoved

LEMMA LogicMoved ==
  ASSUME TypeInv, Proceeds, Logic
  PROVE  StackMoves
<1>1. \A v \in BOOLEAN : Boolean(v) \in Value
  BY ValueFacts
<1>2. CASE Op \in {"PushTrue", "PushFalse"}
  <2>1. PICK v \in BOOLEAN : Replace(0, Boolean(v))
    BY <1>2 DEF Logic
  <2> QED
    BY <1>1, <1>2, <2>1, LoadMoved
<1>3. CASE Op \in {"LogicalAnd", "LogicalOr"}
  <2>1. PICK v : v \in BOOLEAN /\ Replace(2, Boolean(v))
    <3>1. CASE Op = "LogicalAnd"
      <4>1. Replace(2, Boolean(Truth(Top(2)) /\ Truth(Top(1))))
        BY <3>1 DEF Logic
      <4> QED
        BY <4>1
    <3>2. CASE Op = "LogicalOr"
      <4>1. Replace(2, Boolean(Truth(Top(2)) \/ Truth(Top(1))))
        BY <3>2 DEF Logic
      <4> QED
        BY <4>1
    <3> QED
      BY <1>3, <3>1, <3>2
  <2>2. Len(Pops) = 2 /\ Pushes
    BY <1>3, PopCounts, PushCounts DEF PopTwo
  <2>3. Boolean(v) \in Value
    BY <1>1, <2>1
  <2> QED
    BY <2>1, <2>2, <2>3, PopsReady, ReplaceMoved
<1>4. CASE Op = "LogicalNot"
  <2>1. PICK v : v \in BOOLEAN /\ Replace(1, Boolean(v))
    <3>1. Replace(1, Boolean(~Truth(Top(1))))
      BY <1>4 DEF Logic
    <3> QED
      BY <3>1
  <2>2. Len(Pops) = 1 /\ Pushes
    BY <1>4, PopCounts, PushCounts DEF PopOne
  <2>3. Boolean(v) \in Value
    BY <1>1, <2>1
  <2> QED
    BY <2>1, <2>2, <2>3, PopsReady, ReplaceMoved
<1> QED
  BY <1>2, <1>3, <1>4 DEF Logic

LEMMA StraightMoved ==
  ASSUME TypeInv, Proceeds, Straight
  PROVE  StackMoves
<1>0. ptr \in Nat /\ stack \in Seq(Value)
  BY DEF TypeInv, StackTypes
<1>1. CASE Skip \/ PushRegion \/ PopRegion \/ UnTrack
  BY <1>1, KeepMoved DEF Skip, PushRegion, PopRegion, UnTrack, KeepStack, stackVars
<1>2. CASE Assert \/ FreeInteger \/ PrintValue
  <2>1. Pop(1) /\ Op \in {"Assert", "FreeInteger", "FreeString"} \union Prints
    BY <1>2 DEF Assert, FreeInteger, PrintValue
  <2>2. Len(Pops) = 1
    BY <2>1, PopCounts DEF PopOne
  <2> QED
    BY <2>1, <2>2, PopsReady, PopMoved
<1>3. CASE StoreValue \/ StoreInteger
  BY <1>3, StoreMoved DEF StoreValue, StoreInteger
<1>4. CASE LoadValue \/ LoadArgument
  <2>1. PICK i : /\ Replace(0, Slot(i)) /\ InStack(i)
                 /\ Op \in {"LoadValue", "LoadArgument"}
    BY <1>4 DEF LoadValue, LoadArgument, Proceeds, Defined
  <2>2. Slot(i) \in Value
    BY <1>0, <2>1 DEF InStack, Slot
  <2> QED
    BY <2>1, <2>2, LoadMoved
<1>5. CASE LoadVariablePointer
  <2>1. Op = "LoadVariablePointer" /\ Replace(0, Pointer(VariableSlot(Arg)))
    BY <1>5 DEF LoadVariablePointer
  <2>2. Arg \in Nat
    BY <2>1 DEF TypeInv, CodeInv, WellFormed, Address, Op, Arg, Code
  <2>3. VariableSlot(Arg) \in Int /\ Len(stack) \in Nat
    BY <1>0, <2>2 DEF VariableSlot, TypeInv, StackTypes
  <2>4. Pointer(VariableSlot(Arg)) \in Value
    BY <2>3, ValueFacts DEF Pointer
  <2> QED
    BY <2>1, <2>4, LoadMoved
<1>6. CASE Logic
  BY <1>6, LogicMoved
<1>7. CASE Create \/ CreateFloat
  <2>1. PICK v \in Value : Replace(Len(Pops), v)
    <3>1. CASE Create
      <4>1. PICK b \in Block : Replace(Len(Pops), Ref(b))
        BY <3>1 DEF Create, Fresh
      <4> QED
        BY <4>1, ValueFacts
    <3>2. CASE CreateFloat
      <4>1. Result \in 0 .. Modulus - 1 /\ Replace(Len(Pops), Float(Result))
        BY <3>2, ResultTypes DEF CreateFloat
      <4> QED
        BY <4>1, ValueFacts
    <3> QED
      BY <1>7, <3>1, <3>2
  <2>2. Tracks \/ Keeps \/ Floats
    BY <1>7 DEF Create, CreateFloat
  <2>3. Pushes
    BY <2>2 DEF Pushes, PushesOf, Tracks, Keeps, Floats
  <2>4. Len(Pops) \in Nat
    BY PopsReady
  <2> QED
    BY <2>1, <2>3, <2>4, PopsReady, ReplaceMoved
<1>8. CASE Compare
  <2>1. PICK outcome \in BOOLEAN : Replace(2, Boolean(outcome))
    BY <1>8 DEF Compare
  <2>2. Op \in Relations
    BY <1>8 DEF Compare
  <2>3. Len(Pops) = 2 /\ Pushes
    BY <2>2, PopCounts, PushCounts DEF PopTwo
  <2>4. Boolean(outcome) \in Value
    BY ValueFacts
  <2> QED
    BY <2>1, <2>3, <2>4, PopsReady, ReplaceMoved
<1> QED
  BY <1>1, <1>2, <1>3, <1>4, <1>5, <1>6, <1>7, <1>8 DEF Straight

(* A call takes room for the variables only in the stack pointer. *)
LEMMA CallTypes ==
  ASSUME TypeInv, Proceeds, CallFunction, CodeInv'
  PROVE  StackTypes'
<1>1. PICK top : top = callstack + 1
  OBVIOUS
<1>2. callstack \in Nat /\ callstack < MaxFrames /\ MaxFrames \in Nat
  BY VirtualMachineAssumption DEF CallFunction, Proceeds, Exhausts, TypeInv, CodeInv
<1>3. top \in Frame /\ callstack' = top
  BY <1>1, <1>2 DEF CallFunction, R!Call, Frame
<1>4. Function(Arg).variables \in 0 .. 127
  <2>1. Arg + 1 \in DOMAIN bytecode.functions
    BY DEF CallFunction, TypeInv, CodeInv, WellFormed, Address, Op, Arg, Code
  <2> QED
    BY <2>1 DEF TypeInv, CodeInv, WellFormed, MaxVariables, Function
<1>5. PICK n : n = Function(Arg).variables
  OBVIOUS
<1>6. n \in 0 .. 127
  BY <1>4, <1>5
<1>7. PICK r : r = [function |-> Arg, return_address |-> After,
                    baseptr |-> baseptr, ptr |-> ptr]
  OBVIOUS
<1>8. frames' = [frames EXCEPT ![top] = r]
  BY <1>1, <1>7 DEF CallFunction
<1>9. r.baseptr = baseptr /\ r.ptr = ptr
  BY <1>7
<1>10. ptr' = ptr + n /\ baseptr' = ptr + n /\ stack' = stack
  BY <1>5 DEF CallFunction
<1>11. /\ ptr \in Nat /\ baseptr \in Nat /\ Len(stack) \in Nat
       /\ ptr <= Len(stack) + callstack * 127
  BY DEF TypeInv, StackTypes, MaxVariables
<1>12. ptr' \in Nat /\ ptr' <= Len(stack) + top * 127
  BY <1>1, <1>2, <1>6, <1>10, <1>11
<1>13. DOMAIN frames = Frame
  BY DEF TypeInv, CodeInv, FramesInCode
<1>14. \A f \in Frame : frames'[f] = IF f = top THEN r ELSE frames[f]
  BY <1>3, <1>8, <1>13
<1>15. \A f \in Frame : frames'[f].ptr \in Nat
  BY <1>9, <1>11, <1>14 DEF TypeInv, StackTypes
<1>16. ASSUME NEW f \in 1 .. top
       PROVE  /\ frames'[f].baseptr \in Nat
              /\ frames'[f].ptr <= Len(stack) + (f - 1) * 127
  <2>1. f \in Frame
    BY <1>1, <1>2 DEF Frame
  <2>2. CASE f = top
    BY <1>1, <1>2, <1>9, <1>11, <1>14, <2>1, <2>2
  <2>3. CASE f # top
    <3>1. f \in 1 .. callstack /\ frames'[f] = frames[f]
      BY <1>1, <1>2, <1>14, <2>1, <2>3
    <3> QED
      BY <3>1 DEF TypeInv, StackTypes, MaxVariables
  <2> QED
    BY <2>2, <2>3
<1> QED
  BY <1>3, <1>10, <1>12, <1>15, <1>16 DEF TypeInv, StackTypes, MaxVariables

LEMMA ReturnTypes ==
  ASSUME TypeInv, Proceeds, Op = "Return", ReturnRegions, ReturnStack
  PROVE  StackTypes'
<1>1. PICK top : top = callstack
  OBVIOUS
<1>2. top \in Nat /\ top > 0 /\ top <= MaxFrames /\ MaxFrames \in Nat
  BY <1>1, VirtualMachineAssumption DEF Proceeds, Asserts, TypeInv, CodeInv
<1>3. callstack' = top - 1
  BY <1>1 DEF ReturnRegions, R!Return
<1>4. top \in Frame /\ top \in 1 .. callstack
  BY <1>1, <1>2 DEF Frame
<1>5. CurrentFunction.parameters \in 0 .. 15
  BY <1>1, <1>4 DEF TypeInv, CodeInv, FramesInCode, WellFormed, CurrentFunction, Function
<1>6. PICK p : p = ReturnPtr
  OBVIOUS
<1>7. frames[top].ptr \in Nat /\ frames[top].ptr <= Len(stack) + (top - 1) * 127
  BY <1>4 DEF TypeInv, StackTypes, MaxVariables
<1>8. Len(stack) \in Nat /\ StackLimit \in Nat /\ Growth \in Nat
  BY VirtualMachineAssumption DEF TypeInv, StackTypes
<1>9. p >= 0
  BY <1>6 DEF Proceeds, Defined
<1>10. p \in Nat /\ p <= Len(stack) + (top - 1) * 127
  <2>1. PICK a : a = CurrentFunction.parameters
    OBVIOUS
  <2>2. p = frames[top].ptr - a
    BY <1>1, <1>6, <2>1 DEF ReturnPtr
  <2>3. a \in 0 .. 15
    BY <1>5, <2>1
  <2>4. PICK q : q = frames[top].ptr
    OBVIOUS
  <2>5. q \in Nat /\ q <= Len(stack) + (top - 1) * 127 /\ p = q - a
    BY <1>7, <2>2, <2>4
  <2> QED
    BY <1>2, <1>8, <1>9, <2>3, <2>5
<1>11. /\ stack' \in Seq(Value)
       /\ Len(stack) <= Len(stack') /\ Len(stack') <= StackLimit
       /\ ptr' \in Nat
       /\ ptr' <= Len(stack') + (top - 1) * 127
  <2>1. CASE CurrentFunction.returns
    <3>1. stack' = [Grown(Popped(1), p) EXCEPT ![p + 1] = Top(1)] /\ ptr' = p + 1
      BY <1>6, <2>1 DEF ReturnStack
    <3>2. Room(stack, p) /\ 1 <= ptr /\ ptr <= Len(stack)
      BY <1>6, <2>1 DEF Proceeds, Defined, Readable
    <3>3. Top(1) \in Value
      <4>1. ptr - 1 + 1 \in 1 .. Len(stack)
        BY <1>8, <3>2 DEF TypeInv, StackTypes
      <4> QED
        BY <4>1 DEF Top, TypeInv, StackTypes
    <3>4. p >= Len(stack) => ~(Growth + 2 * Len(stack) > StackLimit)
      BY <1>1, <1>2, <1>6, <2>1 DEF Proceeds, Exhausts
    <3>5. p >= Len(stack) => Growth + 2 * Len(stack) <= StackLimit
      BY <1>8, <3>4
    <3>6. StackMoves
      BY <1>10, <3>1, <3>2, <3>3, <3>5, PutMoved
    <3>7. p + 1 <= Len(stack')
      <4>1. PICK s : s = Popped(1)
        OBVIOUS
      <4>2. s \in Seq(Value) /\ Len(s) = Len(stack)
        BY <4>1, PoppedTypes
      <4>3. PICK t : t = Grown(s, p)
        OBVIOUS
      <4>4. t \in Seq(Value \union {Null}) /\ p + 1 \in 1 .. Len(t)
        BY <1>10, <3>2, <4>2, <4>3, GrownFacts DEF Room
      <4>5. stack' = [t EXCEPT ![p + 1] = Top(1)]
        BY <3>1, <4>1, <4>3
      <4>6. Len(stack') = Len(t)
        BY <4>4, <4>5
      <4> QED
        BY <4>4, <4>6
    <3>8. Len(stack') \in Nat
      BY <3>6 DEF StackMoves
    <3> QED
      BY <1>2, <1>10, <3>1, <3>6, <3>7, <3>8 DEF StackMoves
  <2>2. CASE ~CurrentFunction.returns
    BY <1>6, <1>10, <2>2 DEF ReturnStack, TypeInv, StackTypes
  <2> QED
    BY <2>1, <2>2
<1>12. baseptr' \in Nat /\ frames' = frames
  BY <1>1, <1>4 DEF ReturnStack, TypeInv, StackTypes
<1>13. ASSUME NEW f \in 1 .. top - 1
       PROVE  /\ frames[f].baseptr \in Nat
              /\ frames[f].ptr <= Len(stack') + (f - 1) * 127
  <2>1. f \in 1 .. callstack /\ f \in Frame
    BY <1>1, <1>2 DEF Frame
  <2>2. /\ frames[f].ptr \in Nat /\ frames[f].baseptr \in Nat
        /\ frames[f].ptr <= Len(stack) + (f - 1) * 127
    BY <2>1 DEF TypeInv, StackTypes, MaxVariables
  <2>3. Len(stack') \in Nat
    BY <1>11
  <2> QED
    BY <1>8, <1>11, <2>2, <2>3
<1> QED
  BY <1>3, <1>11, <1>12, <1>13 DEF TypeInv, StackTypes, MaxVariables

(* The handlers, and the traces of exceptions on their way. *)
LEMMA KeepExceptTypes ==
  ASSUME TypeInv, UNCHANGED exceptVars
  PROVE  ExceptTypes'
BY DEF TypeInv, ExceptTypes, exceptVars

LEMMA StepExceptTypes ==
  ASSUME TypeInv, Proceeds, Step
  PROVE  ExceptTypes'
<1>0. ExceptTypes /\ except \in [Frame -> Seq(Address)] /\ TrySlots \in Nat
  BY VirtualMachineAssumption DEF TypeInv, CodeInv
<1>1. CASE PushTry
  <2>1. /\ Op = "PushTry" /\ UNCHANGED <<unwinding, traces>>
        /\ except' = [except EXCEPT ![callstack] = Append(@, Arg)]
    BY <1>1 DEF PushTry
  <2>2. callstack \in Frame
    BY <2>1, VirtualMachineAssumption DEF Proceeds, Asserts, TypeInv, CodeInv, Frame
  <2>3. PICK s : s = except[callstack]
    OBVIOUS
  <2>4. s \in Seq(Address) /\ Len(s) <= TrySlots /\ Len(s) # TrySlots
    BY <1>0, <2>1, <2>2, <2>3 DEF ExceptTypes, Proceeds, Asserts
  <2>5. Len(Append(s, Arg)) = Len(s) + 1 /\ Len(s) \in Nat
    BY <2>4
  <2>6. Len(Append(s, Arg)) <= TrySlots
    BY <1>0, <2>4, <2>5
  <2>7. \A f \in Frame : except'[f] = IF f = callstack THEN Append(s, Arg) ELSE except[f]
    BY <1>0, <2>1, <2>2, <2>3
  <2>8. \A f \in Frame : Len(except'[f]) <= TrySlots
    BY <1>0, <2>6, <2>7 DEF ExceptTypes
  <2> QED
    BY <1>0, <2>1, <2>8, Zenon DEF ExceptTypes
<1>2. CASE PopTry
  <2>1. /\ Op = "PopTry" /\ UNCHANGED <<unwinding, traces>>
        /\ except' = [except EXCEPT ![callstack] = SubSeq(@, 1, Len(@) - 1)]
    BY <1>2 DEF PopTry
  <2>2. callstack \in Frame
    BY <2>1, VirtualMachineAssumption DEF Proceeds, Asserts, TypeInv, CodeInv, Frame
  <2>3. PICK s : s = except[callstack]
    OBVIOUS
  <2>4. s \in Seq(Address) /\ Len(s) <= TrySlots /\ s # <<>>
    BY <1>0, <2>1, <2>2, <2>3 DEF ExceptTypes, Proceeds, Asserts
  <2>5. PICK t : t = SubSeq(s, 1, Len(s) - 1)
    OBVIOUS
  <2>6. Len(t) = Len(s) - 1 /\ Len(s) \in Nat
    <3>1. Len(s) \in Nat /\ Len(s) > 0
      BY <2>4
    <3>2. PICK n : n = Len(s) - 1
      OBVIOUS
    <3>3. n \in Nat /\ \A i \in 1 .. n : s[i] \in Address
      BY <2>4, <3>1, <3>2
    <3>4. Len(SubSeq(s, 1, n)) = IF 1 <= n THEN n - 1 + 1 ELSE 0
      BY <3>3, SubSeqProperties
    <3>5. Len(SubSeq(s, 1, n)) = n
      BY <3>3, <3>4
    <3> QED
      BY <2>5, <3>1, <3>2, <3>5
  <2>7. Len(t) <= TrySlots
    BY <1>0, <2>4, <2>6
  <2>8. \A f \in Frame : except'[f] = IF f = callstack THEN t ELSE except[f]
    BY <1>0, <2>1, <2>2, <2>3, <2>5
  <2>9. \A f \in Frame : Len(except'[f]) <= TrySlots
    BY <1>0, <2>7, <2>8 DEF ExceptTypes
  <2> QED
    BY <1>0, <2>1, <2>9, Zenon DEF ExceptTypes
<1>3. CASE RaiseException
  <2>1. /\ except' = except
        /\ \/ UNCHANGED <<unwinding, traces>>
           \/ unwinding' = TRUE /\ traces' = traces + 1
    BY <1>3 DEF RaiseException
  <2>2. CASE UNCHANGED <<unwinding, traces>>
    BY <2>1, <2>2, KeepExceptTypes DEF exceptVars
  <2>3. CASE unwinding' = TRUE /\ traces' = traces + 1
    <3>1. traces' \in Nat /\ traces' > 0
      BY <1>0, <2>3 DEF ExceptTypes
    <3>2. \A f \in Frame : Len(except'[f]) <= TrySlots
      BY <1>0, <2>1 DEF ExceptTypes
    <3> QED
      BY <2>3, <3>1, <3>2, Zenon DEF ExceptTypes
  <2> QED
    BY <2>1, <2>2, <2>3
<1>4. CASE ReturnToHandler
  <2>1. except' = except /\ unwinding /\ unwinding' = FALSE /\ traces' = traces - 1
    BY <1>4 DEF ReturnToHandler
  <2>2. traces \in Nat /\ traces > 0
    BY <1>0, <2>1, Zenon DEF ExceptTypes
  <2>3. traces' \in Nat
    BY <2>1, <2>2
  <2>4. \A f \in Frame : Len(except'[f]) <= TrySlots
    BY <1>0, <2>1 DEF ExceptTypes
  <2> QED
    BY <2>1, <2>3, <2>4, Zenon DEF ExceptTypes
<1>5. CASE \/ Straight \/ Halt \/ CallFunction \/ Return \/ ReturnUnwinding
           \/ Goto \/ GotoIfFalse
  <2>1. KeepExcept
    BY <1>5 DEF Straight, Skip, Halt, Assert, PushRegion, PopRegion, StoreValue,
      StoreInteger, FreeInteger, LoadValue, LoadArgument, LoadVariablePointer,
      UnTrack, CallFunction, Return, ReturnUnwinding, Goto, GotoIfFalse, Logic,
      Create, CreateFloat, Compare, PrintValue
  <2> QED
    BY <2>1, KeepExceptTypes DEF KeepExcept
<1> QED
  BY <1>1, <1>2, <1>3, <1>4, <1>5 DEF Step, Straight

(* The contents of blocks and the outcomes of comparisons. *)
LEMMA CreateHistory ==
  ASSUME TypeInv, Proceeds, Create
  PROVE  HistoryTypes'
<1>1. PICK b \in Block : content' = [content EXCEPT ![b] = Result]
  BY DEF Create, Fresh
<1>2. Tracks \/ Keeps
  BY DEF Create
<1>3. Result \in 0 .. Modulus - 1
  BY <1>2, ResultTypes
<1>4. content' \in [Block -> 0 .. Modulus - 1]
  BY <1>1, <1>3 DEF TypeInv, HistoryTypes
<1>5. decisions' = decisions /\ status' = status
  BY DEF Create, Continue
<1> QED
  BY <1>4, <1>5 DEF TypeInv, HistoryTypes, Trues

LEMMA CompareHistory ==
  ASSUME TypeInv, Compare
  PROVE  HistoryTypes'
<1>1. PICK outcome \in BOOLEAN : /\ outcome => Cardinality(Trues) < MaxDecisions
                                 /\ decisions' = Append(decisions, outcome)
  BY DEF Compare
<1>2. decisions \in Seq(BOOLEAN) /\ Cardinality(Trues) <= MaxDecisions
  BY DEF TypeInv, HistoryTypes
<1>3. PICK new : new = Len(decisions) + 1
  OBVIOUS
<1>4. /\ decisions' \in Seq(BOOLEAN) /\ Len(decisions') = new
      /\ \A i \in 1 .. new : decisions'[i] = IF i = new THEN outcome ELSE decisions[i]
  BY <1>1, <1>2, <1>3
<1>5. Len(decisions) \in Nat
  BY <1>2
<1>6. Trues' = IF outcome THEN Trues \union {new} ELSE Trues
  BY <1>3, <1>4, <1>5 DEF Trues
<1>7. IsFiniteSet(Trues)
  <2>1. IsFiniteSet(1 .. Len(decisions))
    BY <1>5, FS_Interval
  <2>2. Trues \subseteq 1 .. Len(decisions)
    BY DEF Trues
  <2> QED
    BY <2>1, <2>2, FS_Subset
<1>8. Cardinality(Trues) \in Nat /\ MaxDecisions \in Nat
  BY <1>7, FS_CardinalityType, VirtualMachineAssumption
<1>9. Cardinality(Trues') <= MaxDecisions
  <2>1. CASE outcome
    <3>1. Trues' = Trues \union {new} /\ Cardinality(Trues) < MaxDecisions
      BY <1>1, <1>6, <2>1
    <3>2. new \notin Trues
      BY <1>3, <1>5 DEF Trues
    <3>3. Cardinality(Trues') = Cardinality(Trues) + 1
      BY <1>7, <3>1, <3>2, FS_AddElement
    <3> QED
      BY <1>8, <3>1, <3>3
  <2>2. CASE ~outcome
    BY <1>2, <1>6, <2>2
  <2> QED
    BY <2>1, <2>2
<1>10. content' = content /\ status' = status
  BY DEF Compare, Continue
<1> QED
  BY <1>4, <1>9, <1>10 DEF TypeInv, HistoryTypes

LEMMA StepHistoryTypes ==
  ASSUME TypeInv, Proceeds, Step
  PROVE  HistoryTypes'
<1>1. CASE Create
  BY <1>1, CreateHistory
<1>2. CASE Compare
  BY <1>2, CompareHistory
<1>3. CASE ~Create /\ ~Compare
  <2>1. UNCHANGED <<content, decisions>>
    BY <1>3 DEF Step, Skip, Halt, Assert, PushTry, PopTry, RaiseException,
      PushRegion, PopRegion, StoreValue, StoreInteger, FreeInteger, LoadValue,
      LoadArgument, LoadVariablePointer, UnTrack, CallFunction, Return,
      ReturnToHandler, ReturnUnwinding, Goto, GotoIfFalse, Logic, CreateFloat,
      PrintValue, KeepHistory, historyVars
  <2>2. status' = status \/ status' \in {"halted", "failed"}
    BY <1>3 DEF Step, Skip, Halt, Assert, PushTry, PopTry, RaiseException,
      PushRegion, PopRegion, StoreValue, StoreInteger, FreeInteger, LoadValue,
      LoadArgument, LoadVariablePointer, UnTrack, CallFunction, Return,
      ReturnToHandler, ReturnUnwinding, Goto, GotoIfFalse, Logic, CreateFloat,
      PrintValue, Continue
  <2> QED
    BY <2>1, <2>2 DEF TypeInv, HistoryTypes, Trues
<1> QED
  BY <1>1, <1>2, <1>3

LEMMA StepStackTypes ==
  ASSUME TypeInv, Proceeds, Step, CodeInv'
  PROVE  StackTypes'
<1>1. CASE Straight
  BY <1>1, StraightMoved, StraightSteps, MovedTypes
<1>2. CASE Halt \/ PushTry \/ PopTry \/ Goto
  <2>1. UNCHANGED <<callstack, stack, ptr, baseptr, frames>>
    BY <1>2 DEF Halt, PushTry, PopTry, Goto, KeepRegions, regionVars, KeepStack, stackVars
  <2> QED
    BY <2>1, KeepMoved, MovedTypes
<1>3. CASE GotoIfFalse
  <2>1. Pop(1) /\ Op = "GotoIfFalse" /\ UNCHANGED <<callstack, baseptr, frames>>
    BY <1>3 DEF GotoIfFalse, KeepRegions, regionVars, Pop
  <2>2. Len(Pops) = 1
    BY <2>1, PopCounts DEF PopOne
  <2> QED
    BY <2>1, <2>2, PopsReady, PopMoved, MovedTypes
<1>4. CASE RaiseException
  <2>1. /\ Op = "RaiseException" /\ Replace(0, Uid(Arg))
        /\ UNCHANGED <<callstack, baseptr, frames>>
    BY <1>4 DEF RaiseException, KeepRegions, regionVars, Replace
  <2>2. Arg \in Nat
    BY <2>1 DEF TypeInv, CodeInv, WellFormed, Address, Op, Arg, Code
  <2>3. Uid(Arg) \in Value
    BY <2>2, ValueFacts
  <2> QED
    BY <2>1, <2>3, LoadMoved, MovedTypes
<1>5. CASE CallFunction
  BY <1>5, CallTypes
<1>6. CASE Return \/ ReturnToHandler \/ ReturnUnwinding
  <2>1. Op = "Return" /\ ReturnRegions /\ ReturnStack
    BY <1>6 DEF Return, ReturnToHandler, ReturnUnwinding
  <2> QED
    BY <2>1, ReturnTypes
<1> QED
  BY <1>1, <1>2, <1>3, <1>4, <1>5, <1>6 DEF Step, Straight

LEMMA NextTypes == TypeInv /\ [Next]_vars => TypeInv'
<1> SUFFICES ASSUME TypeInv, [Next]_vars PROVE TypeInv'
  OBVIOUS
<1>1. CodeInv'
  BY NextCode DEF TypeInv
<1>2. CASE UNCHANGED vars
  <2>1. /\ UNCHANGED <<stack, ptr, baseptr, frames, callstack>>
        /\ UNCHANGED <<except, unwinding, traces>>
        /\ UNCHANGED <<status, content, decisions>>
    BY <1>2 DEF vars, regionVars, stackVars, exceptVars, historyVars
  <2>2. StackTypes'
    BY <2>1, KeepMoved, MovedTypes
  <2>3. ExceptTypes'
    BY <2>1, KeepExceptTypes DEF exceptVars
  <2>4. HistoryTypes'
    BY <2>1 DEF TypeInv, HistoryTypes, Trues
  <2> QED
    BY <1>1, <2>2, <2>3, <2>4 DEF TypeInv
<1>3. CASE Stop
  <2>1. /\ UNCHANGED <<stack, ptr, baseptr, frames, callstack>>
        /\ UNCHANGED <<except, unwinding, traces, content, decisions>>
        /\ status' \in {"fault", "exhausted", "aborted"}
    BY <1>3 DEF Stop, regionVars, stackVars, exceptVars, historyVars
  <2>2. StackTypes'
    BY <2>1, KeepMoved, MovedTypes
  <2>3. ExceptTypes'
    BY <2>1, KeepExceptTypes DEF exceptVars
  <2>4. HistoryTypes'
    BY <2>1 DEF TypeInv, HistoryTypes, Trues
  <2> QED
    BY <1>1, <2>2, <2>3, <2>4 DEF TypeInv
<1>4. CASE Proceeds /\ Step
  BY <1>1, <1>4, StepStackTypes, StepExceptTypes, StepHistoryTypes DEF TypeInv
<1> QED
  BY <1>2, <1>3, <1>4 DEF Next, Execute, Stopped

(* The machine's state keeps its types and bounds for every well-formed      *)
(* image and any limits: no slot holds anything but a value (tarot_value),   *)
(* the stack pointer counts no more than the slots of the stack and the      *)
(* variables of the open calls (thread.c, tarot_call), no handler is pushed  *)
(* beyond lengthof(except.frames), and a stack trace is there for as long    *)
(* as an exception is on its way.                                            *)
THEOREM MachineTypes == Spec => []TypeOK
<1>1. Init => TypeInv
  BY InitTypes
<1>2. TypeInv /\ [Next]_vars => TypeInv'
  BY NextTypes
<1>3. TypeInv => TypeOK
  BY TypeInvTypes
<1> QED
  BY <1>1, <1>2, <1>3, PTL DEF Spec

-----------------------------------------------------------------------------
RP == INSTANCE RegionsProofs

(* The machine starts with the regions empty. *)
LEMMA InitRegions == Init => R!Init
  BY DEF Init

(* The instructions that leave the heap and the regions alone. *)
LEMMA RegionlessSteps ==
  ASSUME \/ Skip \/ Halt \/ Assert \/ PushTry \/ PopTry \/ RaiseException
         \/ StoreValue \/ LoadValue \/ LoadArgument \/ LoadVariablePointer
         \/ Goto \/ GotoIfFalse \/ Logic \/ CreateFloat \/ Compare
         \/ PrintValue \/ Stop
  PROVE  UNCHANGED regionVars
  BY DEF Skip, Halt, Assert, PushTry, PopTry, RaiseException, StoreValue,
    LoadValue, LoadArgument, LoadVariablePointer, Goto, GotoIfFalse, Logic,
    CreateFloat, Compare, PrintValue, Stop, KeepRegions

LEMMA RegionSteps ==
  ASSUME \/ PushRegion \/ PopRegion \/ StoreInteger \/ UnTrack
         \/ CallFunction \/ Create
  PROVE  R!Next
<1>1. CASE PushRegion
  BY <1>1 DEF PushRegion, R!Next
<1>2. CASE PopRegion
  BY <1>2 DEF PopRegion, R!Next
<1>3. CASE StoreInteger
  BY <1>3 DEF StoreInteger, R!Next
<1>4. CASE UnTrack
  BY <1>4 DEF UnTrack, R!Next
<1>5. CASE CallFunction
  BY <1>5 DEF CallFunction, R!Next
<1>6. CASE Create
  BY <1>6 DEF Create, Fresh, R!Next
<1> QED
  BY <1>1, <1>2, <1>3, <1>4, <1>5, <1>6

LEMMA ReturnSteps ==
  ASSUME ReturnRegions
  PROVE  R!Next
  BY DEF ReturnRegions, R!Next

(* Every step of the machine is a step of the regions or leaves them alone. *)
LEMMA StepRegions ==
  ASSUME [Next]_vars
  PROVE  [R!Next]_regionVars
<1>1. CASE UNCHANGED vars
  BY <1>1 DEF vars, regionVars
<1>2. CASE Stopped
  BY <1>2 DEF Stopped, vars, regionVars
<1>3. CASE Stop
  BY <1>3, RegionlessSteps
<1>4. CASE Step
  <2>1. CASE FreeInteger
    BY <2>1 DEF FreeInteger, KeepRegions, R!Next
  <2>2. CASE Return \/ ReturnToHandler \/ ReturnUnwinding
    BY <2>2, ReturnSteps DEF Return, ReturnToHandler, ReturnUnwinding
  <2> QED
    BY <1>4, <2>1, <2>2, RegionlessSteps, RegionSteps DEF Step
<1> QED
  BY <1>1, <1>2, <1>3, <1>4 DEF Next, Execute

(* The machine implements the regions: for every image, every sequence of  *)
(* instructions is a behavior that Regions.tla allows (the heap and region *)
(* operations of vm.c, in any order code can put them).                    *)
THEOREM MachineUsesRegions == Spec => RegionSpec
<1>1. Init => R!Init
  BY InitRegions
<1>2. [Next]_vars => [R!Next]_(R!regionVars)
  BY StepRegions DEF R!regionVars, regionVars
<1> QED
  BY <1>1, <1>2, PTL DEF Spec, RegionSpec, R!Spec

LEMMA RegionsAssumed == RP!RegionsAssumption
  BY VirtualMachineAssumption DEF RP!RegionsAssumption

(* The regions of the machine and those of the proofs are one thing. *)
LEMMA SameInit == R!Init => RP!Init
  BY DEF R!Init, RP!Init, R!Frame, RP!Frame

LEMMA SameSteps ==
  ASSUME R!Next
  PROVE  RP!Next
<1> USE DEF R!Frame, RP!Frame, R!Tracked, RP!Tracked, R!Elements, RP!Elements,
      R!Depth, RP!Depth, R!CanPush, RP!CanPush, R!InRegion, RP!InRegion,
      R!CanTrack, RP!CanTrack, R!AddToRegion, RP!AddToRegion
<1>1. ASSUME NEW b \in Block, R!Allocate(b)
      PROVE  RP!Next
  BY <1>1 DEF R!Allocate, RP!Allocate, RP!Next
<1>2. ASSUME NEW b \in Block, R!AllocateUntracked(b)
      PROVE  RP!Next
  BY <1>2 DEF R!AllocateUntracked, RP!AllocateUntracked, RP!Next
<1>3. ASSUME NEW b \in Block, R!Untrack(b)
      PROVE  RP!Next
  BY <1>3 DEF R!Untrack, RP!Untrack, RP!Next, R!RemoveFromRegion,
    RP!RemoveFromRegion, R!ListRemove, RP!ListRemove, R!Lookup, RP!Lookup
<1>4. ASSUME NEW b \in Block, R!Release(b)
      PROVE  RP!Next
  BY <1>4 DEF R!Release, RP!Release, RP!Next
<1>5. ASSUME NEW b \in Block, NEW old \in Block \union {NoBlock},
             R!Store(b, old)
      PROVE  RP!Next
  BY <1>5 DEF R!Store, RP!Store, RP!Next, R!RemoveFromRegion,
    RP!RemoveFromRegion, R!ListRemove, RP!ListRemove, R!Lookup, RP!Lookup
<1>6. CASE R!PushRegion
  BY <1>6 DEF R!PushRegion, RP!PushRegion, RP!Next, R!Index, RP!Index
<1>7. CASE R!PopRegion
  BY <1>7 DEF R!PopRegion, RP!PopRegion, RP!Next, R!Leaving, RP!Leaving,
    R!CurrentIndex, RP!CurrentIndex, R!PopTo, RP!PopTo
<1>8. CASE R!Call
  BY <1>8 DEF R!Call, RP!Call, RP!Next, R!Index, RP!Index
<1>9. ASSUME NEW b \in Block \union {NoBlock}, R!Return(b)
      PROVE  RP!Next
  BY <1>9 DEF R!Return, RP!Return, RP!Next
<1> QED
  BY <1>1, <1>2, <1>3, <1>4, <1>5, <1>6, <1>7, <1>8, <1>9 DEF R!Next

LEMMA SameOwner == RP!SingleOwner => RegionsOwn
  BY DEF RegionsOwn, RP!SingleOwner, R!SingleOwner, R!Frame, RP!Frame,
    R!Tracked, RP!Tracked, R!Elements, RP!Elements

(* Every live block of a running program has one owner. *)
THEOREM MachineOwnsOnce == Spec => []RegionsOwn
<1>1. RP!Spec => []RP!SingleOwner
  BY RP!OneOwner, RegionsAssumed
<1>2. Init => RP!Init
  BY InitRegions, SameInit
<1>3. [Next]_vars => [RP!Next]_(RP!regionVars)
  BY StepRegions, SameSteps DEF RP!regionVars, regionVars
<1> QED
  BY <1>1, <1>2, <1>3, SameOwner, PTL DEF Spec, RP!Spec

(* A running program's blocks are owned as Ownership.tla says: what a      *)
(* region of one call tracked is never freed by another call.              *)
THEOREM MachineKeepsOwners == Spec => RP!OwnershipSpec
<1>1. RP!Spec => RP!OwnershipSpec
  BY RP!RegionsOwnBlocks, RegionsAssumed
<1>2. Init => RP!Init
  BY InitRegions, SameInit
<1>3. [Next]_vars => [RP!Next]_(RP!regionVars)
  BY StepRegions, SameSteps DEF RP!regionVars, regionVars
<1> QED
  BY <1>1, <1>2, <1>3, PTL DEF Spec, RP!Spec

------------------------------------------------------------------------------
(* Given an image whose functions keep their operands, regions and         *)
(* handlers in order (Discipline.tla), the running machine does: wherever  *)
(* it is, and wherever its callers are to go on, there are exactly as many *)
(* operands and open regions, and below main no more open handlers, as the *)
(* image says there are.                                                   *)

Count(a) == Reckoned(bytecode)[a]
HomeOf(a) == Home(bytecode, a)
Raises(g) == g \in Raising(bytecode)
MainHandlers == HandlersIn(bytecode, Main)

(* The function that runs in a frame; below all frames is the call of main. *)
Runs(f) == IF f = 0 THEN -1 ELSE frames[f].function

(* What frame f returns to: its caller goes on as if the call were one      *)
(* instruction, and if f may end with an exception, so may the caller, or  *)
(* it is main and any of its handlers can go on.                           *)
ReturnsExact(f) ==
  LET to == frames[f].return_address
  IN  /\ Runs(f) # Main
      /\ frames[f].ptr - ParametersOf(f) + ResultsOf(f)
           = frames[f].baseptr + Count(to).operands
      /\ Len(indices[f - 1]) = Count(to).regions
      /\ f > 2 => Len(except[f - 1]) = Count(to).tries
      /\ Raises(Runs(f)) =>
           /\ Raises(Runs(f - 1))
           /\ f = 2 => \A h \in MainHandlers : Count(h) = Count(to)
           /\ f > 2 => except[f - 1] = <<>>

(* Handlers are opened in the functions they belong to; what is left of     *)
(* them is in the first frame, which is main's.                            *)
HandlersExact ==
  /\ except[1] \in Seq(MainHandlers)
  /\ \A f \in 2 .. callstack : except[f] \in Seq(HandlersIn(bytecode, Runs(f)))
  /\ \A f \in Frame \ {1} : f > callstack => except[f] = <<>>

(* The function that runs.  An exception leaves it by its end. *)
TopExact ==
  /\ callstack > 1 => Len(except[callstack]) = Count(ip).tries
  /\ callstack > 0 /\ ~unwinding /\ status # "failed" =>
       /\ ptr = baseptr + Count(ip).operands
       /\ Len(indices[callstack]) = Count(ip).regions
  /\ unwinding =>
       /\ callstack > 0
       /\ Raises(Runs(callstack))
       /\ ip >= CurrentFunction.finally
  /\ status = "failed" => Op = "Assert"

ExactInv ==
  /\ StackInv
  /\ Disciplined(bytecode)
  /\ HomeOf(ip) = Runs(callstack)
  /\ callstack > 0 => Runs(1) = Main
  /\ \A f \in 1 .. callstack : Runs(f) \in Nat
  /\ \A f \in 1 .. callstack : HomeOf(frames[f].return_address) = Runs(f - 1)
  /\ \A f \in 2 .. callstack : ReturnsExact(f)
  /\ \A f \in Frame : f > callstack => indices[f] = <<>>
  /\ HandlersExact
  /\ TopExact
  /\ unwinding \in BOOLEAN

(* What the image says of the instruction that is executed. *)
MovedNow == Moved(bytecode, ip, Count(ip))

LEMMA InstructionFacts ==
  ASSUME ExactInv
  PROVE  /\ Address \subseteq Nat
         /\ \A a \in Address : Count(a) \in Counts
         /\ Op \notin {"Goto", "Return", "Halt", "RaiseException"}
              => Count(After) = MovedNow /\ HomeOf(After) = HomeOf(ip)
         /\ Op \in {"Goto", "GotoIfFalse"}
              => Count(Arg) = MovedNow /\ HomeOf(Arg) = HomeOf(ip)
         /\ Op = "PushTry" => HomeOf(ip) >= 0
         /\ HomeOf(ip) = -1 => Op \in {"CallFunction", "Halt"}
         /\ Op = "CallFunction" => Arg \in Nat /\ (Arg = Main <=> HomeOf(ip) = -1)
         /\ Op = "CallFunction" /\ Raises(Arg) =>
              /\ Raises(HomeOf(ip))
              /\ HomeOf(ip) = Main => \A h \in MainHandlers : Count(h) = MovedNow
              /\ HomeOf(ip) # Main => Count(ip).tries = 0
         /\ Op = "RaiseException" =>
              /\ HomeOf(ip) > Main /\ Count(ip).tries = 0 /\ Raises(HomeOf(ip))
              /\ After = Function(HomeOf(ip)).finally
         /\ Op = "Return" =>
              /\ HomeOf(ip) # Main => Count(ip).tries = 0
              /\ Arg = "Void" => Count(ip).operands = 0 /\ Count(ip).regions = 1
         /\ HomeOf(ip) >= 0 /\ ip >= Function(HomeOf(ip)).finally => Op \in Leaving
<1>1. Agrees(Reckoned(bytecode), Raising(bytecode), bytecode)
  BY DEF ExactInv, Disciplined
<1>2. ip \in Address
  BY DEF ExactInv, StackInv, CodeInv
<1>3. Address \subseteq Nat /\ \A a \in Address : Count(a) \in Counts
  BY <1>1 DEF Agrees, Address, Code, Count
<1>4. Op = "RaiseException" \/ (Op = "CallFunction" /\ Raises(Arg)) => Raises(HomeOf(ip))
  BY <1>1, <1>2 DEF Agrees, Propagates, Address, Code, Op, Arg, HomeOf, Raises
<1> QED
  BY <1>1, <1>2, <1>3, <1>4 DEF Agrees, Address, Code, Op, Arg, After, Count, HomeOf,
    Raises, MainHandlers, MovedNow, Function

(* What it says of functions and their handlers. *)
LEMMA FunctionFacts ==
  ASSUME ExactInv, NEW g \in Nat, g + 1 \in DOMAIN bytecode.functions
  PROVE  /\ \A a \in {Function(g).address, Function(g).finally} :
              a \in Nat /\ Count(a) = AtStart /\ HomeOf(a) = g
         /\ \A h \in HandlersIn(bytecode, g) :
              HomeOf(h) = g /\ h \in Function(g).address .. Function(g).finally
<1>1. Agrees(Reckoned(bytecode), Raising(bytecode), bytecode)
  BY DEF ExactInv, Disciplined
<1>2. \A a \in {Function(g).address, Function(g).finally} :
        a \in Nat /\ Count(a) = AtStart /\ HomeOf(a) = g
  <2>1. \A a \in {Function(g).address, Function(g).finally} :
          Count(a) = AtStart /\ HomeOf(a) = g + 1 - 1
    BY <1>1 DEF Agrees, Count, HomeOf, Function
  <2>2. Function(g).address \in Address /\ Function(g).finally \in Address
    BY DEF ExactInv, StackInv, CodeInv, WellFormed, Function, Address, Code
  <2>3. Address \subseteq Nat
    BY <1>1 DEF Agrees, Address, Code
  <2>4. g + 1 - 1 = g
    OBVIOUS
  <2>5. ASSUME NEW a \in {Function(g).address, Function(g).finally}
        PROVE  a \in Nat
    BY <2>2, <2>3
  <2> QED
    BY <2>1, <2>4, <2>5, Zenon
<1>3. ASSUME NEW h \in HandlersIn(bytecode, g)
      PROVE  HomeOf(h) = g /\ h \in Function(g).address .. Function(g).finally
  <2>1. PICK b \in DOMAIN bytecode.code :
          h = bytecode.code[b].arg /\ bytecode.code[b].op = "PushTry" /\ HomeOf(b) = g
    BY <1>3 DEF HandlersIn, HomeOf
  <2> QED
    BY <1>1, <2>1 DEF Agrees, HomeOf, Function
<1> QED
  BY <1>2, <1>3

(* The region depth of Regions.tla is the length of a sequence. *)
LEMMA DepthsOfRegions ==
  ASSUME RP!TypeOK
  PROVE  indices \in [Frame -> Seq(Nat)] /\ callstack \in 0 .. MaxFrames
BY DEF RP!TypeOK, RP!Frame, Frame

LEMMA InitExact ==
  ASSUME Init, \A i \in 1 .. Len(Images) : Disciplined(Images[i])
  PROVE  ExactInv
<1>1. PICK i \in 1 .. Len(Images) : bytecode = Images[i]
  BY DEF Init
<1>2. Disciplined(bytecode)
  BY <1>1
<1>3. callstack = 0 /\ \A f \in Frame : indices[f] = <<>>
  BY DEF Init, R!Init, R!Frame, Frame
<1>4. HomeOf(ip) = Runs(callstack)
  BY <1>2, <1>3 DEF Init, HomeOf, Runs, Disciplined, Agrees
<1>5. HandlersExact
  BY <1>3, VirtualMachineAssumption DEF Init, HandlersExact, Frame
<1>6. TopExact
  BY <1>3 DEF Init, TopExact
<1>7. unwinding = FALSE
  BY DEF Init
<1>8. 1 .. callstack = {} /\ 2 .. callstack = {} /\ ~(callstack > 0)
  BY <1>3
<1> QED
  BY <1>2, <1>3, <1>4, <1>5, <1>6, <1>7, <1>8, InitStack DEF ExactInv

------------------------------------------------------------------------------
(* Steps within a function. *)

(* Only the frame on top changes. *)
LEMMA SameCallers ==
  ASSUME ExactInv, StackInv',
         UNCHANGED <<bytecode, callstack, frames>>,
         HomeOf(ip') = HomeOf(ip),
         \A f \in Frame : f # callstack => except'[f] = except[f] /\ indices'[f] = indices[f],
         callstack > 0 => except'[callstack] \in Seq(HandlersIn(bytecode, Runs(callstack))),
         TopExact', unwinding' \in BOOLEAN
  PROVE  ExactInv'
<1> USE DEF ExactInv
<1>1. callstack \in 0 .. MaxFrames /\ MaxFrames \in Nat
  BY VirtualMachineAssumption DEF StackInv, CodeInv
<1>2. Disciplined(bytecode)' /\ (callstack > 0 => Runs(1) = Main)'
        /\ (\A f \in 1 .. callstack : Runs(f) \in Nat)'
  BY DEF Runs
<1>3. (HomeOf(ip) = Runs(callstack))'
  BY DEF HomeOf, Runs
<1>4. (\A f \in 1 .. callstack : HomeOf(frames[f].return_address) = Runs(f - 1))'
  BY DEF HomeOf, Runs
<1>5. ASSUME NEW f \in 2 .. callstack
      PROVE  ReturnsExact(f)'
  <2>1. ReturnsExact(f) /\ f - 1 \in Frame /\ f - 1 # callstack
    BY <1>1 DEF Frame
  <2>2. except'[f - 1] = except[f - 1] /\ indices'[f - 1] = indices[f - 1]
    BY <2>1
  <2> QED
    BY <2>1, <2>2 DEF ReturnsExact, Runs, ParametersOf, ResultsOf, Function, Count,
      Raises, MainHandlers
<1>6. (\A f \in Frame : f > callstack => indices[f] = <<>>)'
  BY <1>1 DEF Frame
<1>7. HandlersExact'
  <2>1. except'[1] \in Seq(MainHandlers)
    <3>1. CASE callstack = 1
      BY <1>1, <3>1 DEF MainHandlers
    <3>2. CASE callstack # 1
      BY <3>2, VirtualMachineAssumption DEF HandlersExact, Frame
    <3> QED
      BY <3>1, <3>2
  <2>2. ASSUME NEW f \in 2 .. callstack
        PROVE  except'[f] \in Seq(HandlersIn(bytecode, Runs(f)))
    <3>1. CASE f = callstack
      BY <3>1
    <3>2. CASE f # callstack
      <4>1. f \in Frame /\ except'[f] = except[f]
        BY <1>1, <3>2 DEF Frame
      <4> QED
        BY <4>1 DEF HandlersExact
    <3> QED
      BY <3>1, <3>2
  <2>3. ASSUME NEW f \in Frame \ {1}, f > callstack
        PROVE  except'[f] = <<>>
    BY <1>1, <2>3 DEF HandlersExact, Frame
  <2> QED
    BY <2>1, <2>2, <2>3 DEF HandlersExact, Runs, MainHandlers
<1> QED
  BY <1>2, <1>3, <1>4, <1>5, <1>6, <1>7

LEMMA MovedFields ==
  /\ MovedNow.operands = Count(ip).operands - Needed + Left
  /\ MovedNow.regions = Count(ip).regions + (IF Op = "PushRegion" THEN 1 ELSE 0)
                                          - (IF Op = "PopRegion" THEN 1 ELSE 0)
  /\ MovedNow.tries = IF HomeOf(ip) = Main THEN Count(ip).tries
                      ELSE Count(ip).tries + (IF Op = "PushTry" THEN 1 ELSE 0)
                                           - (IF Op = "PopTry" THEN 1 ELSE 0)
BY DEF MovedNow, Moved, Needed, Left, Op, Code, HomeOf

LEMMA HandlersOfTop ==
  ASSUME ExactInv, callstack > 0
  PROVE  except[callstack] \in Seq(HandlersIn(bytecode, Runs(callstack)))
<1>1. CASE callstack = 1
  BY <1>1 DEF ExactInv, HandlersExact, MainHandlers
<1>2. CASE callstack # 1
  <2>1. callstack \in 2 .. callstack
    BY <1>2 DEF ExactInv, StackInv, CodeInv
  <2> QED
    BY <2>1 DEF ExactInv, HandlersExact
<1> QED
  BY <1>1, <1>2

(* An exception is on its way out of the function. *)
LEMMA UnwindingLeaves ==
  ASSUME ExactInv, unwinding
  PROVE  Op \in Leaving
<1>1. callstack > 0 /\ ip >= CurrentFunction.finally /\ HomeOf(ip) = Runs(callstack)
  BY DEF ExactInv, TopExact
<1>2. callstack \in 1 .. callstack
  BY <1>1 DEF ExactInv, StackInv, CodeInv
<1>3. Runs(callstack) \in Nat /\ CurrentFunction = Function(Runs(callstack))
  BY <1>1, <1>2 DEF ExactInv, Runs, CurrentFunction
<1> QED
  BY <1>1, <1>3, InstructionFacts

(* An instruction that leads to another one of the same function. *)
LEMMA MovesExact ==
  ASSUME ExactInv, StackInv', RP!TypeOK,
         UNCHANGED <<bytecode, callstack, frames, baseptr, except, unwinding>>,
         callstack > 0, status = "running", status' # "failed",
         Count(ip') = MovedNow, HomeOf(ip') = HomeOf(ip),
         ptr' = ptr - Needed + Left,
         Op \notin {"PushTry", "PopTry"},
         \A f \in Frame : f # callstack => indices'[f] = indices[f],
         Len(indices'[callstack]) =
           Len(indices[callstack]) + (IF Op = "PushRegion" THEN 1 ELSE 0)
                                   - (IF Op = "PopRegion" THEN 1 ELSE 0),
         unwinding => ip' >= CurrentFunction.finally
  PROVE  ExactInv'
<1>1. TopExact /\ callstack \in 0 .. MaxFrames /\ MaxFrames \in Nat /\ ip \in Address
  BY VirtualMachineAssumption DEF ExactInv, StackInv, CodeInv
<1>2. callstack \in Frame
  BY <1>1 DEF Frame
<1>3. /\ Count(ip).operands \in Nat /\ Count(ip).regions \in Nat /\ Count(ip).tries \in Nat
  BY <1>1, InstructionFacts DEF Counts
<1>4. Needed \in Nat /\ Left \in 0 .. 1 /\ ptr \in Nat /\ baseptr \in Nat
  BY DepthFacts DEF ExactInv, StackInv
<1>6. Count(ip)' = MovedNow
  BY DEF Count
<1>7. callstack > 1 => Len(except[callstack]) = Count(ip)'.tries
  BY <1>1, <1>3, <1>6, MovedFields DEF TopExact
<1>8. ASSUME ~unwinding
      PROVE  ptr' = baseptr + Count(ip)'.operands /\ Len(indices'[callstack]) = Count(ip)'.regions
  <2>1. ptr = baseptr + Count(ip).operands /\ Len(indices[callstack]) = Count(ip).regions
    BY <1>1, <1>8 DEF TopExact
  <2>2. ptr' = baseptr + Count(ip)'.operands
    BY <1>3, <1>4, <1>6, <2>1, MovedFields
  <2> QED
    BY <1>6, <2>1, <2>2, MovedFields
<1>9. TopExact'
  BY <1>1, <1>7, <1>8 DEF TopExact, Raises, Runs, CurrentFunction, Function
<1>10. except[callstack] \in Seq(HandlersIn(bytecode, Runs(callstack)))
  BY HandlersOfTop
<1> QED
  BY <1>9, <1>10, SameCallers DEF ExactInv

(* Regions are opened and closed by their own instructions. *)
LEMMA StraightRegions ==
  ASSUME Straight, RP!TypeOK, RP!TypeOK', callstack > 0
  PROVE  /\ \A f \in Frame : f # callstack => indices'[f] = indices[f]
         /\ Len(indices'[callstack]) =
              Len(indices[callstack]) + (IF Op = "PushRegion" THEN 1 ELSE 0)
                                      - (IF Op = "PopRegion" THEN 1 ELSE 0)
         /\ UNCHANGED unwinding
         /\ Op \notin {"PushTry", "PopTry", "RaiseException"}
<1>1. indices \in [Frame -> Seq(Nat)] /\ indices' \in [Frame -> Seq(Nat)] /\ callstack \in Frame
  BY DepthsOfRegions DEF RP!TypeOK, RP!Frame, Frame
<1>2. CASE PushRegion
  <2>1. /\ Op = "PushRegion" /\ UNCHANGED unwinding
        /\ indices' = [indices EXCEPT ![callstack] = Append(@, R!Index(callstack))]
    BY <1>2 DEF PushRegion, R!PushRegion, KeepExcept, exceptVars
  <2>2. indices'[callstack] = Append(indices[callstack], R!Index(callstack))
    BY <1>1, <2>1
  <2>3. Len(indices'[callstack]) = Len(indices[callstack]) + 1
    BY <1>1, <2>2
  <2> QED
    BY <1>1, <2>1, <2>3
<1>3. CASE PopRegion
  <2> DEFINE s == indices[callstack]
             n == IF Len(s) - 1 < Len(s) THEN Len(s) - 1 ELSE Len(s)
  <2>1. /\ Op = "PopRegion" /\ UNCHANGED unwinding
        /\ R!InRegion(callstack)
        /\ indices' = [indices EXCEPT ![callstack] = R!PopTo(@, Len(@) - 1)]
    BY <1>3 DEF PopRegion, R!PopRegion, KeepExcept, exceptVars
  <2>2. indices'[callstack] = R!PopTo(s, Len(s) - 1)
    BY <1>1, <2>1
  <2>3. Len(s) \in Nat /\ Len(s) > 0
    BY <1>1, <2>1 DEF R!InRegion, R!Depth
  <2>4. n = Len(s) - 1 /\ n \in Nat
    BY <2>3
  <2>5. DOMAIN indices'[callstack] = 1 .. n
    BY <2>2 DEF R!PopTo
  <2>6. Len(indices'[callstack]) = Len(s) - 1
    BY <1>1, <2>4, <2>5
  <2> HIDE DEF s
  <2> QED
    BY <1>1, <2>1, <2>3, <2>6 DEF s
<1>4. CASE Skip
  BY <1>1, <1>4 DEF Skip, KeepRegions, KeepExcept, regionVars, exceptVars, Casting
<1>5. CASE Assert \/ StoreValue \/ LoadValue \/ LoadArgument \/ LoadVariablePointer
  BY <1>1, <1>5 DEF Assert, StoreValue, LoadValue, LoadArgument, LoadVariablePointer,
    KeepRegions, KeepExcept, regionVars, exceptVars
<1>6. CASE StoreInteger \/ FreeInteger \/ UnTrack
  BY <1>1, <1>6 DEF StoreInteger, FreeInteger, UnTrack, R!Store, R!Release, R!Untrack,
    KeepRegions, KeepExcept, regionVars, exceptVars
<1>7. CASE Logic
  <2>1. UNCHANGED indices /\ UNCHANGED unwinding
    BY <1>7 DEF Logic, KeepRegions, KeepExcept, regionVars, exceptVars
  <2>2. Op \in {"PushTrue", "PushFalse", "LogicalAnd", "LogicalOr", "LogicalNot"}
    BY <1>7 DEF Logic
  <2> QED
    BY <1>1, <2>1, <2>2
<1>8. CASE Create \/ CreateFloat
  <2>1. Tracks \/ Keeps \/ Floats
    BY <1>8 DEF Create, CreateFloat
  <2>2. Op \notin {"PushRegion", "PopRegion", "PushTry", "PopTry", "RaiseException"}
    BY <2>1 DEF Op, Tracks, Keeps, Floats, TracksOf, KeepsOf, FloatsOf,
      ConvertsTo, IntegerResults, StringResults, Keeping, RationalResults,
      FloatResults
  <2>3. UNCHANGED indices /\ UNCHANGED unwinding
    BY <1>8 DEF Create, CreateFloat, R!Allocate, R!AllocateUntracked, KeepRegions,
      KeepExcept, regionVars, exceptVars
  <2> QED
    BY <1>1, <2>2, <2>3
<1>9. CASE Compare
  BY <1>1, <1>9 DEF Compare, Relations, KeepRegions, KeepExcept, regionVars, exceptVars
<1>10. CASE PrintValue
  BY <1>1, <1>10 DEF PrintValue, Prints, KeepRegions, KeepExcept, regionVars, exceptVars
<1> QED
  BY <1>2, <1>3, <1>4, <1>5, <1>6, <1>7, <1>8, <1>9, <1>10 DEF Straight

(* The next instruction lies behind this one. *)
LEMMA AfterLater ==
  ASSUME ip \in Nat
  PROVE  After \in Nat /\ After >= ip
BY DEF After, Width

LEMMA StraightExact ==
  ASSUME ExactInv, StackInv', RP!TypeOK, RP!TypeOK', Straight, callstack > 0,
         status = "running", bytecode' = bytecode
  PROVE  ExactInv'
<1>1. /\ Op \notin {"Goto", "Return", "Halt"}
      /\ UNCHANGED <<callstack, frames, baseptr, except>>
  BY StraightSteps
<1>2. /\ \A f \in Frame : f # callstack => indices'[f] = indices[f]
      /\ UNCHANGED unwinding /\ Op \notin {"PushTry", "PopTry", "RaiseException"}
      /\ Len(indices'[callstack]) =
           Len(indices[callstack]) + (IF Op = "PushRegion" THEN 1 ELSE 0)
                                   - (IF Op = "PopRegion" THEN 1 ELSE 0)
  BY StraightRegions
<1>3. \/ ip' = After /\ status' = "running"
      \/ ip' = ip /\ status' = "failed" /\ Op = "Assert" /\ UNCHANGED indices
  BY DEF Straight, Skip, Assert, PushRegion, PopRegion, StoreValue,
    StoreInteger, FreeInteger, LoadValue, LoadArgument, LoadVariablePointer,
    UnTrack, Logic, Create, CreateFloat, Compare, PrintValue, Continue,
    KeepRegions, regionVars
<1>4. ptr' = ptr - Needed + Left
  BY StraightMoves DEF ExactInv
<1>5. ip \in Nat
  BY InstructionFacts DEF ExactInv, StackInv, CodeInv
<1>6. CASE ip' = After /\ status' = "running"
  <2>1. Count(ip') = MovedNow /\ HomeOf(ip') = HomeOf(ip)
    BY <1>1, <1>2, <1>6, InstructionFacts
  <2>2. ASSUME unwinding
        PROVE  ip' >= CurrentFunction.finally
    <3>1. ip >= CurrentFunction.finally
      BY <2>2 DEF ExactInv, TopExact
    <3>2. callstack \in 1 .. callstack
      BY DEF ExactInv, StackInv, CodeInv
    <3>3. /\ frames[callstack].function + 1 \in DOMAIN bytecode.functions
          /\ frames[callstack].function \in Nat
      BY <3>2, <2>2 DEF ExactInv, StackInv, CodeInv, FramesInCode, Runs
    <3>4. CurrentFunction.finally \in Nat
      BY <3>3, FunctionFacts DEF CurrentFunction
    <3> QED
      BY <1>5, <1>6, <3>1, <3>4, AfterLater
  <2>3. status' # "failed"
    BY <1>6
  <2> QED
    BY <1>1, <1>2, <1>4, <2>1, <2>2, <2>3, MovesExact
<1>7. CASE ip' = ip /\ status' = "failed" /\ Op = "Assert" /\ UNCHANGED indices
  <2>1. ~unwinding
    BY <1>7, UnwindingLeaves DEF Leaving
  <2>2. TopExact'
    BY <1>1, <1>2, <1>7, <2>1 DEF ExactInv, TopExact, Count, Op, Code
  <2>3. except[callstack] \in Seq(HandlersIn(bytecode, Runs(callstack)))
    BY HandlersOfTop
  <2> QED
    BY <1>1, <1>2, <1>7, <2>2, <2>3, SameCallers DEF ExactInv
<1> QED
  BY <1>3, <1>6, <1>7

LEMMA JumpsExact ==
  ASSUME ExactInv, StackInv', RP!TypeOK, Goto \/ GotoIfFalse, callstack > 0,
         status = "running", bytecode' = bytecode
  PROVE  ExactInv'
<1>1. /\ Op \in {"Goto", "GotoIfFalse"} /\ UNCHANGED <<frames, baseptr>>
      /\ UNCHANGED <<callstack, indices>> /\ UNCHANGED <<except, unwinding>>
      /\ status' = "running"
  BY DEF Goto, GotoIfFalse, KeepRegions, KeepStack, KeepExcept, regionVars,
    stackVars, exceptVars, Pop
<1>2. ip' = Arg \/ (Op = "GotoIfFalse" /\ ip' = After)
  BY DEF Goto, GotoIfFalse
<1>3. Count(ip') = MovedNow /\ HomeOf(ip') = HomeOf(ip)
  BY <1>1, <1>2, InstructionFacts
<1>4. ~unwinding
  BY <1>1, UnwindingLeaves DEF Leaving
<1>5. ptr' = ptr - Needed + Left
  <2>1. ptr \in Nat
    BY DEF ExactInv, StackInv
  <2>2. CASE Goto
    <3>1. Op = "Goto" /\ ptr' = ptr
      BY <2>2 DEF Goto, KeepStack, stackVars
    <3> QED
      BY <2>1, <3>1, PopCounts, PushCounts, NeedsPops DEF PopNone
  <2>3. CASE GotoIfFalse
    <3>1. Op = "GotoIfFalse" /\ ptr' = ptr - 1
      BY <2>3 DEF GotoIfFalse, Pop
    <3> QED
      BY <2>1, <3>1, PopCounts, PushCounts, NeedsPops DEF PopOne
  <2> QED
    BY <2>2, <2>3
<1>6. Len(indices'[callstack]) =
        Len(indices[callstack]) + (IF Op = "PushRegion" THEN 1 ELSE 0)
                                - (IF Op = "PopRegion" THEN 1 ELSE 0)
  <2>1. Len(indices[callstack]) \in Nat
    BY DepthsOfRegions DEF Frame
  <2>2. Op # "PushRegion" /\ Op # "PopRegion" /\ indices' = indices
    BY <1>1
  <2> QED
    BY <2>1, <2>2
<1>7. \A f \in Frame : f # callstack => indices'[f] = indices[f]
  BY <1>1
<1>8. status' # "failed" /\ Op \notin {"PushTry", "PopTry"}
  BY <1>1
<1> QED
  BY <1>1, <1>3, <1>4, <1>5, <1>6, <1>7, <1>8, MovesExact

(* The machine stops, or has stopped. *)
LEMMA StaysExact ==
  ASSUME ExactInv, StackInv',
         UNCHANGED <<bytecode, callstack, indices, frames, ptr, baseptr, except,
                     unwinding, ip>>,
         status' = status \/ (status = "running" /\ status' # "failed")
  PROVE  ExactInv'
<1>1. TopExact'
  BY DEF ExactInv, TopExact, Count, CurrentFunction, Function, Raises, Runs, Op, Code
<1>2. callstack > 0 => except[callstack] \in Seq(HandlersIn(bytecode, Runs(callstack)))
  BY HandlersOfTop
<1> QED
  BY <1>1, <1>2, SameCallers DEF ExactInv

LEMMA RaiseExact ==
  ASSUME ExactInv, StackInv', RaiseException, callstack > 0,
         status = "running", bytecode' = bytecode
  PROVE  ExactInv'
<1>1. /\ Op = "RaiseException" /\ UNCHANGED <<callstack, indices, frames, except>>
      /\ status' = "running"
  BY DEF RaiseException, KeepRegions, regionVars, Replace
<1>2. /\ HomeOf(ip) = Runs(callstack) /\ callstack \in 1 .. callstack
      /\ Runs(callstack) \in Nat /\ Runs(callstack) + 1 \in DOMAIN bytecode.functions
  BY DEF ExactInv, StackInv, CodeInv, FramesInCode, Runs
<1>3. /\ HomeOf(ip) > Main /\ Count(ip).tries = 0 /\ Raises(Runs(callstack))
      /\ After = Function(HomeOf(ip)).finally
  BY <1>1, <1>2, InstructionFacts
<1>4. callstack \in 2 .. callstack
  BY <1>2, <1>3 DEF ExactInv, Main
<1>5. except[callstack] = <<>>
  <2>1. except[callstack] \in Seq(HandlersIn(bytecode, Runs(callstack)))
    BY <1>4 DEF ExactInv, HandlersExact
  <2>2. Len(except[callstack]) = 0
    BY <1>3, <1>4 DEF ExactInv, TopExact
  <2> QED
    BY <2>1, <2>2
<1>6. ip' = After /\ unwinding' = TRUE
  BY <1>5 DEF RaiseException
<1>7. /\ ip' = CurrentFunction.finally /\ ip' \in Nat
      /\ Count(ip') = AtStart /\ HomeOf(ip') = HomeOf(ip)
  BY <1>2, <1>3, <1>6, FunctionFacts DEF CurrentFunction, Runs
<1>8. TopExact'
  <2>1. (callstack > 1 => Len(except[callstack]) = Count(ip).tries)'
    BY <1>1, <1>5, <1>7 DEF Count, AtStart
  <2>2. (unwinding => /\ callstack > 0
                      /\ Raises(Runs(callstack))
                      /\ ip >= CurrentFunction.finally)'
    BY <1>1, <1>2, <1>3, <1>7 DEF Raises, Runs, CurrentFunction, Function
  <2> QED
    BY <1>1, <1>6, <2>1, <2>2 DEF TopExact
<1>9. except'[callstack] \in Seq(HandlersIn(bytecode, Runs(callstack)))
  BY <1>1, HandlersOfTop
<1>10. unwinding' \in BOOLEAN
  BY <1>6
<1> QED
  BY <1>1, <1>7, <1>8, <1>9, <1>10, SameCallers

LEMMA TryExact ==
  ASSUME ExactInv, StackInv', RP!TypeOK, PushTry \/ PopTry, ~Asserts, callstack > 0,
         status = "running", bytecode' = bytecode
  PROVE  ExactInv'
<1> DEFINE s == except[callstack]
           handlers == HandlersIn(bytecode, Runs(callstack))
<1>1. /\ Op \in {"PushTry", "PopTry"} /\ UNCHANGED <<callstack, indices, frames, ptr, baseptr>>
      /\ UNCHANGED <<unwinding, status>> /\ ip' = After
  BY DEF PushTry, PopTry, KeepRegions, KeepStack, regionVars, stackVars, Continue
<1>2. Count(ip') = MovedNow /\ HomeOf(ip') = HomeOf(ip) /\ ~unwinding
  BY <1>1, InstructionFacts, UnwindingLeaves DEF Leaving
<1>3. /\ HomeOf(ip) = Runs(callstack) /\ callstack \in Frame /\ ip \in Address
      /\ except \in [Frame -> Seq(Handler)]
  BY VirtualMachineAssumption DEF ExactInv, StackInv, CodeInv, Frame
<1>4. s \in Seq(handlers)
  BY HandlersOfTop
<1>5. /\ Count(ip).operands \in Nat /\ Count(ip).regions \in Nat /\ Count(ip).tries \in Nat
      /\ ptr \in Nat /\ baseptr \in Nat
  BY <1>3, InstructionFacts DEF Counts, ExactInv, StackInv
<1>6. Needed = 0 /\ Left = 0
  BY <1>1, PopCounts, PushCounts, NeedsPops DEF PopNone
<1>7. /\ MovedNow.operands = Count(ip).operands
      /\ MovedNow.regions = Count(ip).regions
  BY <1>1, <1>5, <1>6, MovedFields
<1>8. /\ ptr = baseptr + Count(ip).operands
      /\ Len(indices[callstack]) = Count(ip).regions
  BY <1>2 DEF ExactInv, TopExact
<1>9. ASSUME callstack > 1
      PROVE  HomeOf(ip) # Main /\ Len(s) = Count(ip).tries
  <2>1. callstack \in 2 .. callstack
    BY <1>3, <1>9, VirtualMachineAssumption DEF Frame
  <2> QED
    BY <1>3, <1>9, <2>1 DEF ExactInv, ReturnsExact, TopExact
<1>10. \E t \in Seq(handlers) :
         /\ except' = [except EXCEPT ![callstack] = t]
         /\ callstack > 1 => Len(t) = MovedNow.tries
  <2>1. CASE PushTry
    <3>1. Op = "PushTry" /\ except' = [except EXCEPT ![callstack] = Append(s, Arg)]
      BY <2>1 DEF PushTry
    <3>2. Arg \in handlers
      BY <1>3, <3>1 DEF HandlersIn, HomeOf, Op, Arg, Code, Address
    <3>3. Append(s, Arg) \in Seq(handlers) /\ Len(Append(s, Arg)) = Len(s) + 1
      BY <1>4, <3>2
    <3>4. callstack > 1 => MovedNow.tries = Count(ip).tries + 1
      BY <1>5, <1>9, <3>1, MovedFields
    <3> HIDE DEF s, handlers
    <3> QED
      BY <1>9, <3>1, <3>3, <3>4
  <2>2. CASE PopTry
    <3> DEFINE t == SubSeq(s, 1, Len(s) - 1)
    <3>1. /\ Op = "PopTry" /\ except' = [except EXCEPT ![callstack] = t]
          /\ s # <<>>
      BY <2>2 DEF PopTry, Asserts
    <3>2. t \in Seq(handlers) /\ Len(t) = Len(s) - 1
      BY <1>4, <3>1
    <3>3. callstack > 1 => MovedNow.tries = Count(ip).tries - 1
      BY <1>5, <1>9, <3>1, MovedFields
    <3> HIDE DEF s, t, handlers
    <3> QED
      BY <1>9, <3>1, <3>2, <3>3
  <2> QED
    BY <2>1, <2>2
<1>11. PICK t \in Seq(handlers) :
         /\ except' = [except EXCEPT ![callstack] = t]
         /\ callstack > 1 => Len(t) = MovedNow.tries
  BY <1>10
<1>12. except'[callstack] = t /\ \A f \in Frame : f # callstack => except'[f] = except[f]
  BY <1>3, <1>11
<1>13. TopExact'
  BY <1>1, <1>2, <1>7, <1>8, <1>11, <1>12 DEF ExactInv, TopExact, Count
<1> QED
  BY <1>1, <1>2, <1>12, <1>13, SameCallers DEF ExactInv

------------------------------------------------------------------------------
(* Calls and returns. *)

(* The frame a call pushes. *)
LEMMA CallFacts ==
  ASSUME ExactInv, StackInv', RP!TypeOK, RP!TypeOK', CallFunction, bytecode' = bytecode,
         NEW new, new = callstack + 1
  PROVE  /\ new \in Frame /\ callstack' = new /\ callstack \in Nat
         /\ frames'[new].function = Arg /\ frames'[new].return_address = After
         /\ frames'[new].ptr = ptr /\ frames'[new].baseptr = baseptr
         /\ \A f \in Frame : f # new => frames'[f] = frames[f] /\ indices'[f] = indices[f]
         /\ Len(indices'[new]) = 1
         /\ ip' = Function(Arg).address /\ ptr' = baseptr'
         /\ UNCHANGED <<except, unwinding, status>>
         /\ Op = "CallFunction" /\ Arg \in Nat
         /\ Arg + 1 \in DOMAIN bytecode.functions
<1> DEFINE frame == [function |-> Arg, return_address |-> After,
                     baseptr |-> baseptr, ptr |-> ptr]
<1>1. /\ indices \in [Frame -> Seq(Nat)] /\ indices' \in [Frame -> Seq(Nat)]
      /\ callstack \in 0 .. MaxFrames /\ MaxFrames \in Nat
  BY DepthsOfRegions, VirtualMachineAssumption DEF RP!TypeOK, RP!Frame, Frame
<1>2. /\ callstack < MaxFrames /\ callstack' = new
      /\ indices' = [indices EXCEPT ![callstack'] = Append(@, R!Index(callstack'))]
      /\ frames' = [frames EXCEPT ![new] = frame]
      /\ ip' = Function(Arg).address /\ ptr' = baseptr'
      /\ UNCHANGED <<except, unwinding, status>> /\ Op = "CallFunction"
  BY DEF CallFunction, R!Call, KeepExcept, exceptVars
<1>3. new \in Frame /\ callstack \in Nat /\ new > callstack
  BY <1>1, <1>2 DEF Frame
<1>4. DOMAIN frames = Frame /\ indices[new] = <<>>
  BY <1>3 DEF ExactInv, StackInv, CodeInv, FramesInCode
<1>5. frames'[new] = frame /\ \A f \in Frame : f # new => frames'[f] = frames[f]
  BY <1>2, <1>3, <1>4
<1>6. indices'[new] = Append(<<>>, R!Index(new)) /\ \A f \in Frame : f # new => indices'[f] = indices[f]
  BY <1>1, <1>2, <1>3, <1>4
<1>7. Len(indices'[new]) = 1
  BY <1>1, <1>3, <1>6
<1>8. Arg \in Nat
  BY <1>2, InstructionFacts
<1>9. Arg + 1 \in DOMAIN bytecode.functions
  BY <1>2 DEF ExactInv, StackInv, CodeInv, WellFormed, Op, Arg, Code, Address
<1> QED
  BY <1>2, <1>3, <1>5, <1>6, <1>7, <1>8, <1>9

(* A call, as its caller sees it, is one instruction. *)
LEMMA CallReturns ==
  ASSUME ExactInv, StackInv', RP!TypeOK, RP!TypeOK', CallFunction, status = "running",
         bytecode' = bytecode, callstack > 0, NEW new, new = callstack + 1
  PROVE  ReturnsExact(new)' /\ ~unwinding
<1>0. PICK top : top = callstack
  OBVIOUS
<1>1. /\ new \in Frame /\ callstack' = new /\ callstack \in Nat
      /\ frames'[new].function = Arg /\ frames'[new].return_address = After
      /\ frames'[new].ptr = ptr /\ frames'[new].baseptr = baseptr
      /\ \A f \in Frame : f # new => frames'[f] = frames[f] /\ indices'[f] = indices[f]
      /\ except' = except /\ Op = "CallFunction" /\ Arg \in Nat
      /\ Arg + 1 \in DOMAIN bytecode.functions
  BY CallFacts
<1>2. ~unwinding
  BY <1>1, UnwindingLeaves DEF Leaving
<1>3. /\ callstack \in Frame /\ callstack \in 1 .. callstack /\ callstack # new
      /\ Runs(callstack) \in Nat /\ HomeOf(ip) = Runs(callstack)
      /\ ip \in Address /\ ptr \in Nat /\ baseptr \in Nat
  BY <1>1, VirtualMachineAssumption DEF Frame, ExactInv, StackInv, CodeInv
<1>4. /\ Count(ip).operands \in Nat /\ Count(ip).regions \in Nat /\ Count(ip).tries \in Nat
  BY <1>3, InstructionFacts DEF Counts
<1>5. /\ ptr = baseptr + Count(ip).operands
      /\ Len(indices[callstack]) = Count(ip).regions
      /\ callstack > 1 => Len(except[callstack]) = Count(ip).tries
  BY <1>2 DEF ExactInv, TopExact
<1>6. /\ Count(After) = MovedNow
      /\ Arg # Main
      /\ Raises(Arg) =>
           /\ Raises(HomeOf(ip))
           /\ HomeOf(ip) = Main => \A h \in MainHandlers : Count(h) = MovedNow
           /\ HomeOf(ip) # Main => Count(ip).tries = 0
  BY <1>1, <1>3, InstructionFacts
<1>7. /\ Needed = Function(Arg).parameters
      /\ Left = IF Function(Arg).returns THEN 1 ELSE 0
      /\ Function(Arg).parameters \in Nat
  BY <1>1, EntryFacts DEF Needed, Left, Needs, Leaves, Op, Arg, Function, ExactInv
<1>8. ParametersOf(new)' = Needed /\ ResultsOf(new)' = Left
  BY <1>1, <1>7 DEF ParametersOf, ResultsOf, Function
<1>9. /\ MovedNow.operands = Count(ip).operands - Needed + Left
      /\ MovedNow.regions = Count(ip).regions
      /\ MovedNow.tries = Count(ip).tries
  BY <1>1, <1>4, MovedFields
<1>10. ptr - Needed + Left = baseptr + MovedNow.operands
  <2>1. Needed \in Nat /\ Left \in Nat
    BY <1>7
  <2>2. \A p, b, c, n, l \in Nat : p = b + c => p - n + l = b + (c - n + l)
    OBVIOUS
  <2> QED
    BY <1>3, <1>4, <1>5, <1>9, <2>1, <2>2
<1>11. ASSUME callstack > 1
       PROVE  Runs(callstack) # Main
  <2>1. callstack \in 2 .. callstack
    BY <1>1, <1>11
  <2> QED
    BY <2>1 DEF ExactInv, ReturnsExact
<1>12. ASSUME Raises(Arg), callstack > 1
       PROVE  except[callstack] = <<>>
  <2>1. Len(except[callstack]) = 0
    BY <1>3, <1>5, <1>6, <1>11, <1>12
  <2>2. except[callstack] \in Seq(HandlersIn(bytecode, Runs(callstack)))
    BY HandlersOfTop
  <2> QED
    BY <2>1, <2>2
<1>13. ASSUME Raises(Arg), callstack = 1
       PROVE  \A h \in MainHandlers : Count(h) = MovedNow
  BY <1>3, <1>6, <1>13 DEF ExactInv
<1>14. /\ new - 1 = callstack /\ new > 1
       /\ new > 2 => callstack > 1
       /\ new = 2 => callstack = 1
  BY <1>1
<1>15. /\ Runs(top)' = Runs(callstack) /\ Runs(new)' = Arg
       /\ MainHandlers' = MainHandlers /\ indices'[callstack] = indices[callstack]
       /\ Count(frames[new].return_address)' = MovedNow
  BY <1>0, <1>1, <1>3, <1>6, <1>14 DEF Count, Runs, MainHandlers
<1>16. ReturnsExact(new)'
  <2>1. Runs(new)' # Main
    BY <1>6, <1>15
  <2>2. (frames[new].ptr - ParametersOf(new) + ResultsOf(new)
           = frames[new].baseptr + Count(frames[new].return_address).operands)'
    BY <1>1, <1>8, <1>10, <1>15
  <2>3. Len(indices'[new - 1]) = Count(frames[new].return_address)'.regions
    BY <1>5, <1>9, <1>14, <1>15
  <2>4. new > 2 => Len(except'[new - 1]) = Count(frames[new].return_address)'.tries
    BY <1>1, <1>5, <1>9, <1>14, <1>15
  <2>5. ASSUME Raises(Arg)
        PROVE  /\ Raises(Runs(callstack))
               /\ new = 2 => \A h \in MainHandlers : Count(h) = MovedNow
               /\ new > 2 => except[callstack] = <<>>
    BY <1>3, <1>6, <1>12, <1>13, <1>14, <2>5
  <2>6. ASSUME Raises(Runs(new))'
        PROVE  /\ Raises(Runs(new - 1))'
               /\ new = 2 => \A h \in MainHandlers' : Count(h)' = Count(frames[new].return_address)'
               /\ new > 2 => except'[new - 1] = <<>>
    <3>1. Raises(Arg)
      BY <1>15, <2>6 DEF Raises
    <3>2. Runs(new - 1)' = Runs(callstack)
      BY <1>0, <1>14, <1>15
    <3> QED
      BY <1>1, <1>14, <1>15, <2>5, <3>1, <3>2 DEF Raises, Count
  <2> QED
    BY <2>1, <2>2, <2>3, <2>4, <2>6 DEF ReturnsExact
<1> QED
  BY <1>2, <1>16

LEMMA CallExact ==
  ASSUME ExactInv, StackInv', RP!TypeOK, RP!TypeOK', CallFunction, status = "running",
         bytecode' = bytecode
  PROVE  ExactInv'
<1>0. PICK new : new = callstack + 1
  OBVIOUS
<1>1. /\ new \in Frame /\ callstack' = new /\ callstack \in Nat
      /\ frames'[new].function = Arg /\ frames'[new].return_address = After
      /\ \A f \in Frame : f # new => frames'[f] = frames[f] /\ indices'[f] = indices[f]
      /\ Len(indices'[new]) = 1
      /\ ip' = Function(Arg).address /\ ptr' = baseptr'
      /\ UNCHANGED <<except, unwinding, status>> /\ Op = "CallFunction" /\ Arg \in Nat
      /\ Arg + 1 \in DOMAIN bytecode.functions
  BY <1>0, CallFacts
<1>2. callstack > 0 => ReturnsExact(new)' /\ ~unwinding
  BY <1>0, CallReturns
<1>3. ~unwinding
  BY <1>2 DEF ExactInv, TopExact
<1>4. Count(ip') = AtStart /\ HomeOf(ip') = Arg
  BY <1>0, <1>1, FunctionFacts
<1>5. /\ HomeOf(ip) = Runs(callstack) /\ HomeOf(After) = HomeOf(ip)
      /\ Arg = Main <=> HomeOf(ip) = -1
  BY <1>0, <1>1, InstructionFacts DEF ExactInv
<1>6. \A f \in 0 .. callstack : Runs(f)' = Runs(f)
  BY <1>0, <1>1, VirtualMachineAssumption DEF Runs, Frame
<1>7. (\A f \in 1 .. callstack : Runs(f) \in Nat)'
  <2> SUFFICES ASSUME NEW f \in 1 .. callstack' PROVE Runs(f)' \in Nat
    OBVIOUS
  <2>1. CASE f = new
    BY <1>0, <1>1, <2>1 DEF Runs, Frame
  <2>2. CASE f # new
    <3>1. f \in 1 .. callstack /\ f \in 0 .. callstack
      BY <1>0, <1>1, <2>2
    <3> QED
      BY <1>6, <3>1 DEF ExactInv
  <2> QED
    BY <2>1, <2>2
<1>8. Runs(1)' = Main
  <2>1. CASE callstack = 0
    <3>1. new = 1 /\ Arg = Main
      BY <1>0, <1>5, <2>1 DEF Runs
    <3> QED
      BY <1>1, <3>1 DEF Runs
  <2>2. CASE callstack # 0
    <3>1. 1 \in 0 .. callstack /\ callstack > 0
      BY <1>0, <1>1, <2>2
    <3> QED
      BY <1>6, <3>1 DEF ExactInv
  <2> QED
    BY <2>1, <2>2
<1>9. (\A f \in 1 .. callstack : HomeOf(frames[f].return_address) = Runs(f - 1))'
  <2> SUFFICES ASSUME NEW f \in 1 .. callstack'
               PROVE  HomeOf(frames'[f].return_address) = Runs(f - 1)'
    BY DEF HomeOf
  <2>1. f - 1 \in 0 .. callstack
    BY <1>0, <1>1
  <2>2. CASE f = new
    <3>1. f - 1 = callstack
      BY <1>0, <1>1, <2>2
    <3>2. Runs(f - 1)' = Runs(f - 1)
      BY <1>6, <2>1
    <3> QED
      BY <1>1, <1>5, <2>2, <3>1, <3>2
  <2>3. CASE f # new
    <3>1. f \in 1 .. callstack /\ f \in Frame
      BY <1>0, <1>1, <2>3, VirtualMachineAssumption DEF Frame
    <3>2. Runs(f - 1)' = Runs(f - 1)
      BY <1>6, <2>1
    <3> QED
      BY <1>1, <2>3, <3>1, <3>2 DEF ExactInv
  <2> QED
    BY <2>2, <2>3
<1>10. ASSUME NEW f \in 2 .. callstack'
       PROVE  ReturnsExact(f)'
  <2>1. CASE f = new
    <3>1. callstack > 0
      BY <1>0, <1>1, <2>1
    <3> QED
      BY <1>2, <2>1, <3>1
  <2>2. CASE f # new
    <3>1. /\ f \in 2 .. callstack /\ f \in Frame /\ f - 1 \in Frame /\ f - 1 # new
          /\ f \in 0 .. callstack /\ f - 1 \in 0 .. callstack
      BY <1>0, <1>1, <2>2, VirtualMachineAssumption DEF Frame
    <3>2. ReturnsExact(f)
      BY <3>1 DEF ExactInv
    <3>3. /\ frames'[f] = frames[f] /\ indices'[f - 1] = indices[f - 1]
          /\ Runs(f)' = Runs(f) /\ Runs(f - 1)' = Runs(f - 1) /\ except' = except
      BY <1>0, <1>1, <1>6, <2>2, <3>1
    <3> QED
      BY <3>2, <3>3 DEF ReturnsExact, ParametersOf, ResultsOf, Function, Count, Raises,
        MainHandlers
  <2> QED
    BY <2>1, <2>2
<1>11. ASSUME NEW f \in Frame, f > callstack'
       PROVE  indices'[f] = <<>> /\ (f # 1 => except'[f] = <<>>)
  <2>1. f > callstack /\ f # new
    BY <1>0, <1>1, <1>11 DEF Frame
  <2> QED
    BY <1>0, <1>1, <2>1 DEF ExactInv, HandlersExact
<1>12. callstack > 0 => except[new] = <<>>
  <2>1. callstack > 0 => new # 1 /\ new > callstack
    BY <1>0, <1>1
  <2> QED
    BY <1>0, <1>1, <2>1 DEF ExactInv, HandlersExact
<1>13. HandlersExact'
  <2>1. ASSUME NEW f \in 2 .. callstack'
        PROVE  except'[f] \in Seq(HandlersIn(bytecode, Runs(f)'))
    <3>1. CASE f = new
      <4>1. callstack > 0
        BY <1>0, <1>1, <3>1
      <4>2. except'[f] = <<>>
        BY <1>1, <1>12, <3>1, <4>1
      <4> QED
        BY <4>2
    <3>2. CASE f # new
      <4>1. f \in 2 .. callstack /\ f \in 0 .. callstack
        BY <1>0, <1>1, <3>2
      <4> QED
        BY <1>0, <1>1, <1>6, <4>1 DEF ExactInv, HandlersExact
    <3> QED
      BY <3>1, <3>2
  <2> QED
    BY <1>0, <1>1, <1>11, <2>1 DEF ExactInv, HandlersExact, MainHandlers
<1>14. TopExact'
  <2>1. callstack' > 1 => except'[callstack'] = <<>>
    BY <1>0, <1>1, <1>12
  <2>2. baseptr' \in Nat
    BY DEF StackInv
  <2>3. Count(ip)' = [operands |-> 0, regions |-> 1, tries |-> 0]
    BY <1>4 DEF Count, AtStart
  <2>4. ptr' = baseptr' + Count(ip)'.operands /\ Len(indices'[callstack']) = Count(ip)'.regions
    <3>1. Count(ip)'.operands = 0 /\ Count(ip)'.regions = 1
      BY <2>3
    <3>2. Len(indices'[callstack']) = 1
      BY <1>1
    <3>3. \A b \in Nat : b + 0 = b
      OBVIOUS
    <3> QED
      BY <1>1, <2>2, <3>1, <3>2, <3>3
  <2>5. ~unwinding' /\ status' = "running"
    BY <1>1, <1>3
  <2> QED
    BY <2>1, <2>3, <2>4, <2>5 DEF TopExact
<1>15. HomeOf(ip)' = Runs(callstack)'
  BY <1>1, <1>4 DEF HomeOf, Runs, Frame
<1>16. Disciplined(bytecode)' /\ unwinding' \in BOOLEAN
  BY <1>1 DEF ExactInv
<1> QED
  BY <1>7, <1>8, <1>9, <1>10, <1>11, <1>13, <1>14, <1>15, <1>16 DEF ExactInv

(* What the three ways to return have in common. *)
LEMMA ReturnFacts ==
  ASSUME ExactInv, StackInv', RP!TypeOK, Op = "Return", ReturnRegions, ReturnStack,
         except' = except, bytecode' = bytecode, callstack > 0, NEW top, top = callstack
  PROVE  /\ top \in 1 .. callstack /\ top \in Frame /\ callstack' = top - 1
         /\ callstack \in Nat
         /\ UNCHANGED <<frames, except>>
         /\ \A f \in 1 .. top - 1 : indices'[f] = indices[f]
         /\ \A f \in Frame : f > top - 1 => indices'[f] = <<>>
         /\ ptr' = frames[top].ptr - ParametersOf(top) + ResultsOf(top)
         /\ baseptr' = frames[top].baseptr
         /\ top > 1 => except[top] = <<>> /\ ReturnsExact(top)
<1>1. /\ callstack \in 0 .. MaxFrames /\ MaxFrames \in Nat
      /\ indices \in [Frame -> Seq(Nat)]
  BY DepthsOfRegions, VirtualMachineAssumption
<1>2. top \in 1 .. callstack /\ top \in Frame
  BY <1>1 DEF Frame
<1>3. /\ callstack' = top - 1 /\ indices' = [indices EXCEPT ![top] = <<>>]
      /\ frames' = frames /\ baseptr' = frames[top].baseptr
  BY DEF ReturnRegions, R!Return, ReturnStack
<1>4. /\ \A f \in 1 .. top - 1 : indices'[f] = indices[f]
      /\ \A f \in Frame : f > top - 1 => indices'[f] = <<>>
  <2>1. \A f \in Frame : indices'[f] = IF f = top THEN <<>> ELSE indices[f]
    BY <1>1, <1>3
  <2>2. \A f \in 1 .. top - 1 : f \in Frame /\ f # top
    BY <1>1, <1>2 DEF Frame
  <2>3. \A f \in Frame : f > top - 1 => f = top \/ f > callstack
    BY <1>1, <1>2 DEF Frame
  <2> QED
    BY <2>1, <2>2, <2>3 DEF ExactInv
<1>5. ptr' = frames[top].ptr - ParametersOf(top) + ResultsOf(top)
  <2>1. /\ FrameNests(top) /\ frames[top].function + 1 \in DOMAIN bytecode.functions
    BY <1>2 DEF ExactInv, StackInv, CodeInv, FramesInCode
  <2>2. ParametersOf(top) \in Nat /\ frames[top].ptr \in Nat
    BY <2>1, EntryFacts DEF ParametersOf, FrameNests, ExactInv
  <2> QED
    BY <2>2 DEF ReturnStack, ReturnPtr, CurrentFunction, ParametersOf, ResultsOf
<1>6. ASSUME top > 1
      PROVE  except[top] = <<>> /\ ReturnsExact(top)
  <2>1. top \in 2 .. callstack /\ top \in 1 .. callstack
    BY <1>2, <1>6
  <2>2. Runs(top) # Main /\ HomeOf(ip) = Runs(top) /\ ReturnsExact(top)
    BY <2>1 DEF ExactInv, ReturnsExact
  <2>3. Count(ip).tries = 0
    BY <2>2, InstructionFacts
  <2>4. Len(except[top]) = 0
    BY <1>6, <2>3 DEF ExactInv, TopExact
  <2>5. except[top] \in Seq(HandlersIn(bytecode, Runs(callstack)))
    BY HandlersOfTop
  <2> QED
    BY <2>2, <2>4, <2>5
<1> QED
  BY <1>1, <1>2, <1>3, <1>4, <1>5, <1>6

(* Where the caller goes on. *)
LEMMA LandsExact ==
  ASSUME ExactInv, StackInv', RP!TypeOK, RP!TypeOK', ~Asserts, status = "running",
         bytecode' = bytecode, callstack > 0,
         Return \/ ReturnToHandler \/ ReturnUnwinding, NEW top, top = callstack,
         callstack' = top - 1, top \in 1 .. callstack, callstack \in Nat,
         UNCHANGED <<frames, except>>,
         \A f \in 1 .. top - 1 : indices'[f] = indices[f],
         ptr' = frames[top].ptr - ParametersOf(top) + ResultsOf(top),
         baseptr' = frames[top].baseptr,
         top > 1 => ReturnsExact(top)
  PROVE  /\ HomeOf(ip') = Runs(top - 1) /\ TopExact' /\ unwinding' \in BOOLEAN
<1>1. Op = "Return" /\ status' = "running"
  BY DEF Return, ReturnToHandler, ReturnUnwinding
<1>2. unwinding => top > 1 /\ Raises(Runs(top))
  BY <1>1 DEF Asserts, Outlives, ExactInv, TopExact
<1>3. ASSUME top > 1
      PROVE  /\ top - 1 \in 1 .. callstack /\ top - 1 > 0
             /\ Runs(top - 1) \in Nat
             /\ Runs(top - 1) = frames[top - 1].function
             /\ Runs(top - 1) + 1 \in DOMAIN bytecode.functions
             /\ Runs(1) = Main
             /\ top \in 2 .. callstack
             /\ indices'[top - 1] = indices[top - 1]
  <2>1. top - 1 \in 1 .. callstack /\ top - 1 > 0 /\ top - 1 \in 1 .. top - 1 /\ top \in 2 .. callstack
    BY <1>3
  <2>2. Runs(top - 1) = frames[top - 1].function
    BY <2>1 DEF Runs
  <2> QED
    BY <2>1, <2>2 DEF ExactInv, StackInv, CodeInv, FramesInCode
<1>4. CASE Return
  <2>1. ip' = frames[top].return_address /\ ~unwinding /\ ~unwinding'
    BY <1>4 DEF Return, KeepExcept, exceptVars
  <2>2. HomeOf(ip') = Runs(top - 1)
    BY <2>1 DEF ExactInv
  <2>3. ASSUME top > 1
        PROVE  /\ ptr' = baseptr' + Count(ip').operands
               /\ Len(indices'[top - 1]) = Count(ip').regions
               /\ top - 1 > 1 => Len(except[top - 1]) = Count(ip').tries
    BY <1>3, <2>1, <2>3 DEF ReturnsExact
  <2>4. Count(ip)' = Count(ip') /\ (callstack' > 0 => top > 1)
    BY DEF Count
  <2>5. unwinding' \in BOOLEAN
    BY <1>4 DEF Return, KeepExcept, exceptVars, ExactInv
  <2>6. TopExact'
    BY <1>1, <2>1, <2>3, <2>4 DEF TopExact
  <2> QED
    BY <2>2, <2>5, <2>6
<1>5. CASE ReturnToHandler
  <2>1. /\ unwinding /\ unwinding' = FALSE /\ except[top - 1] # <<>>
        /\ ip' = CurrentTry(top - 1)
    BY <1>5 DEF ReturnToHandler
  <2>2. top = 2
    <3>1. ReturnsExact(top) /\ Raises(Runs(top)) /\ top > 1
      BY <1>2, <2>1
    <3> QED
      BY <2>1, <3>1 DEF ReturnsExact
  <2>3. except[1] \in Seq(MainHandlers) /\ except[1] # <<>> /\ ip' = CurrentTry(1)
    BY <2>1, <2>2 DEF ExactInv, HandlersExact
  <2>4. ip' \in MainHandlers
    BY <2>3 DEF CurrentTry
  <2>5. Count(ip') = Count(frames[top].return_address)
    BY <1>2, <2>1, <2>2, <2>4 DEF ReturnsExact
  <2>6. HomeOf(ip') = Main
    BY <1>3, <2>2, <2>4, FunctionFacts DEF MainHandlers
  <2>7. /\ ptr' = baseptr' + Count(ip').operands
        /\ Len(indices'[top - 1]) = Count(ip').regions
    BY <1>3, <2>2, <2>5 DEF ReturnsExact
  <2>8. Count(ip)' = Count(ip') /\ callstack' = 1
    BY <2>2 DEF Count
  <2>9. TopExact'
    <3>1. /\ ptr' = baseptr' + Count(ip)'.operands
          /\ Len(indices'[callstack']) = Count(ip)'.regions
      BY <2>2, <2>7, <2>8
    <3>2. ~unwinding' /\ ~(callstack' > 1) /\ status' # "failed"
      BY <1>1, <2>1, <2>8
    <3> QED
      BY <3>1, <3>2 DEF TopExact
  <2>10. Runs(top - 1) = Main
    BY <1>3, <2>2
  <2> QED
    BY <2>1, <2>6, <2>9, <2>10
<1>6. CASE ReturnUnwinding
  <2>1. /\ unwinding /\ unwinding' = unwinding
        /\ ip' = Function(frames[top - 1].function).finally
        /\ except[top - 1] = <<>>
    BY <1>6 DEF ReturnUnwinding, KeepExcept, exceptVars
  <2>2. top > 1 /\ Raises(Runs(top)) /\ ReturnsExact(top)
    BY <1>2, <2>1
  <2>3. Raises(Runs(top - 1))
    BY <2>2 DEF ReturnsExact
  <2>4. ip' \in Nat /\ Count(ip') = AtStart /\ HomeOf(ip') = Runs(top - 1)
    BY <1>3, <2>1, <2>2, FunctionFacts
  <2>5. Count(ip)'.tries = 0
    BY <2>4 DEF Count, AtStart
  <2>6. CurrentFunction'.finally = ip'
    BY <2>1 DEF CurrentFunction, Function
  <2>7. Raises(Runs(callstack))' /\ callstack' > 0
    BY <1>3, <2>2, <2>3 DEF Raises, Runs
  <2>8. Len(except'[callstack']) = 0
    BY <2>1
  <2>9. (ip >= CurrentFunction.finally)'
    BY <2>4, <2>6
  <2>10. unwinding' \in BOOLEAN
    BY <2>1 DEF ExactInv
  <2> QED
    BY <1>1, <2>1, <2>4, <2>5, <2>7, <2>8, <2>9, <2>10 DEF TopExact
<1> QED
  BY <1>4, <1>5, <1>6

LEMMA ReturnsAreExact ==
  ASSUME ExactInv, StackInv', RP!TypeOK, RP!TypeOK', ~Asserts, status = "running",
         bytecode' = bytecode, callstack > 0,
         Return \/ ReturnToHandler \/ ReturnUnwinding
  PROVE  ExactInv'
<1>0. PICK top : top = callstack
  OBVIOUS
<1>1. /\ Op = "Return" /\ ReturnRegions /\ ReturnStack /\ except' = except
  BY DEF Return, ReturnToHandler, ReturnUnwinding, KeepExcept, exceptVars
<1>2. /\ top \in 1 .. callstack /\ top \in Frame /\ callstack' = top - 1
      /\ callstack \in Nat
      /\ UNCHANGED <<frames, except>>
      /\ \A f \in 1 .. top - 1 : indices'[f] = indices[f]
      /\ \A f \in Frame : f > top - 1 => indices'[f] = <<>>
      /\ ptr' = frames[top].ptr - ParametersOf(top) + ResultsOf(top)
      /\ baseptr' = frames[top].baseptr
      /\ top > 1 => except[top] = <<>> /\ ReturnsExact(top)
  BY <1>0, <1>1, ReturnFacts
<1>3. HomeOf(ip') = Runs(top - 1) /\ TopExact' /\ unwinding' \in BOOLEAN
  BY <1>0, <1>2, LandsExact
<1>4. \A f : Runs(f)' = Runs(f)
  BY <1>2 DEF Runs
<1>5. \A f \in 1 .. callstack' : f \in 1 .. callstack
  BY <1>0, <1>2
<1>6. ASSUME NEW f \in 2 .. callstack'
      PROVE  ReturnsExact(f)'
  <2>1. f \in 2 .. callstack /\ f - 1 \in 1 .. top - 1
    BY <1>0, <1>2
  <2>2. ReturnsExact(f)
    BY <2>1 DEF ExactInv
  <2>3. indices'[f - 1] = indices[f - 1]
    BY <1>2, <2>1
  <2> QED
    BY <1>2, <1>4, <2>2, <2>3 DEF ReturnsExact, ParametersOf, ResultsOf, Function, Count,
      Raises, MainHandlers
<1>7. HandlersExact'
  <2>1. ASSUME NEW f \in 2 .. callstack'
        PROVE  except'[f] \in Seq(HandlersIn(bytecode, Runs(f)'))
    <3>1. f \in 2 .. callstack
      BY <1>0, <1>2
    <3> QED
      BY <1>2, <1>4, <3>1 DEF ExactInv, HandlersExact
  <2>2. ASSUME NEW f \in Frame \ {1}, f > callstack'
        PROVE  except'[f] = <<>>
    <3>1. f = top \/ f > callstack
      BY <1>0, <1>2, <2>2 DEF Frame
    <3>2. CASE f = top
      BY <1>2, <2>2, <3>2
    <3>3. CASE f > callstack
      BY <1>2, <3>3 DEF ExactInv, HandlersExact
    <3> QED
      BY <3>1, <3>2, <3>3
  <2>3. except'[1] \in Seq(MainHandlers)
    BY <1>2 DEF ExactInv, HandlersExact
  <2> QED
    BY <2>1, <2>2, <2>3 DEF HandlersExact, MainHandlers
<1>8. HomeOf(ip)' = Runs(callstack)'
  BY <1>2, <1>3 DEF HomeOf, Runs
<1>9. (\A f \in 1 .. callstack : HomeOf(frames[f].return_address) = Runs(f - 1))'
  BY <1>2, <1>4, <1>5 DEF ExactInv, HomeOf
<1>10. (\A f \in 1 .. callstack : Runs(f) \in Nat)'
  BY <1>4, <1>5 DEF ExactInv
<1>11. (\A f \in Frame : f > callstack => indices[f] = <<>>)'
  BY <1>2
<1>12. Disciplined(bytecode)' /\ Runs(1)' = Main
  BY <1>4 DEF ExactInv
<1> QED
  BY <1>3, <1>6, <1>7, <1>8, <1>9, <1>10, <1>11, <1>12 DEF ExactInv

------------------------------------------------------------------------------
LEMMA StraightCalls ==
  ASSUME Straight
  PROVE  Op \notin {"CallFunction", "Halt"}
<1>1. Op # "Halt"
  BY StraightSteps
<1>2. ASSUME Op = "CallFunction"
      PROVE  ~(Tracks \/ Keeps \/ Floats) /\ Op \notin Relations \union Prints
  BY <1>2 DEF Op, Tracks, Keeps, Floats, TracksOf, KeepsOf, FloatsOf, ConvertsTo,
    IntegerResults, StringResults, Keeping, RationalResults, FloatResults, Relations, Prints
<1>3. ASSUME Op = "CallFunction"
      PROVE  FALSE
  BY <1>2, <1>3 DEF Straight, Skip, Assert, PushRegion, PopRegion, StoreValue,
    StoreInteger, FreeInteger, LoadValue, LoadArgument, LoadVariablePointer,
    UnTrack, Logic, Create, CreateFloat, Compare, PrintValue, Casting
<1> QED
  BY <1>1, <1>3

LEMMA NextExact ==
  ASSUME ExactInv, RP!TypeOK, RP!TypeOK', [Next]_vars
  PROVE  ExactInv'
<1>1. StackInv'
  BY NextStack DEF ExactInv
<1>2. CASE UNCHANGED vars
  BY <1>1, <1>2, StaysExact DEF vars, stackVars, regionVars, exceptVars
<1>3. CASE Stopped
  BY <1>2, <1>3 DEF Stopped
<1>4. CASE status = "running" /\ Stop
  <2>1. /\ UNCHANGED <<bytecode, callstack, indices, frames, ptr, baseptr, except,
                       unwinding, ip>>
        /\ status' # "failed"
    BY <1>4 DEF Stop, stackVars, regionVars, exceptVars
  <2> QED
    BY <1>1, <1>4, <2>1, StaysExact
<1>5. CASE status = "running" /\ Proceeds /\ Step /\ UNCHANGED bytecode
  <2>1. ~Asserts
    BY <1>5 DEF Proceeds
  <2>2. CASE Halt
    <3>1. /\ UNCHANGED <<callstack, indices, frames, ptr, baseptr, except,
                         unwinding, ip>>
          /\ status' # "failed"
      BY <2>2 DEF Halt, KeepRegions, KeepStack, KeepExcept, stackVars, regionVars,
        exceptVars
    <3> QED
      BY <1>1, <1>5, <3>1, StaysExact
  <2>3. CASE CallFunction
    BY <1>1, <1>5, <2>3, CallExact
  <2>4. CASE ~Halt /\ ~CallFunction
    <3>1. Op \notin {"CallFunction", "Halt"}
      <4>1. (\/ Goto \/ GotoIfFalse \/ RaiseException \/ PushTry \/ PopTry
             \/ Return \/ ReturnToHandler \/ ReturnUnwinding)
            => Op \notin {"CallFunction", "Halt"}
        BY DEF Goto, GotoIfFalse, RaiseException, PushTry, PopTry, Return,
          ReturnToHandler, ReturnUnwinding
      <4>2. Straight => Op \notin {"CallFunction", "Halt"}
        BY StraightCalls
      <4> QED
        BY <1>5, <2>4, <4>1, <4>2 DEF Step, Straight
    <3>2. callstack > 0
      BY <2>1, <3>1 DEF Asserts, ExactInv, StackInv, CodeInv
    <3>3. CASE Straight
      BY <1>1, <1>5, <3>2, <3>3, StraightExact
    <3>4. CASE Goto \/ GotoIfFalse
      BY <1>1, <1>5, <3>2, <3>4, JumpsExact
    <3>5. CASE RaiseException
      BY <1>1, <1>5, <3>2, <3>5, RaiseExact
    <3>6. CASE PushTry \/ PopTry
      BY <1>1, <1>5, <2>1, <3>2, <3>6, TryExact
    <3>7. CASE Return \/ ReturnToHandler \/ ReturnUnwinding
      BY <1>1, <1>5, <2>1, <3>2, <3>7, ReturnsAreExact
    <3> QED
      BY <1>5, <2>4, <3>3, <3>4, <3>5, <3>6, <3>7 DEF Step, Straight
  <2> QED
    BY <2>2, <2>3, <2>4
<1> QED
  BY <1>2, <1>3, <1>4, <1>5 DEF Next, Execute

(* Whatever the disciplined images are, the machine keeps the invariant. *)
LEMMA ExactAlways ==
  ASSUME \A i \in 1 .. Len(Images) : Disciplined(Images[i])
  PROVE  Spec => []ExactInv
<1>1. Init => ExactInv
  BY InitExact
<1>2. RP!Spec => []RP!TypeOK
  BY RP!TypeCorrect, RegionsAssumed
<1>3. Init => RP!Init
  BY InitRegions, SameInit
<1>4. [Next]_vars => [RP!Next]_(RP!regionVars)
  BY StepRegions, SameSteps DEF RP!regionVars, regionVars
<1>5. ExactInv /\ RP!TypeOK /\ RP!TypeOK' /\ [Next]_vars => ExactInv'
  BY NextExact
<1> QED
  BY <1>1, <1>2, <1>3, <1>4, <1>5, PTL DEF Spec, RP!Spec

(* A function of a disciplined image that ends without a result has used   *)
(* up its operands and closed its regions, whatever it called and whatever *)
(* exceptions were caught on the way.                                      *)
THEOREM FunctionsEndBalanced ==
  ASSUME \A i \in 1 .. Len(Images) : Disciplined(Images[i])
  PROVE  Spec => []EndsBalanced
<1>1. ExactInv => EndsBalanced
  <2> SUFFICES ASSUME ExactInv, Op = "Return", Arg = "Void", ~unwinding
               PROVE  ptr = baseptr /\ R!Depth(callstack) = 1
    BY DEF EndsBalanced
  <2>1. /\ TopExact /\ callstack \in Nat /\ ip \in Address /\ baseptr \in Nat
        /\ HomeOf(ip) = Runs(callstack)
    BY DEF ExactInv, StackInv, CodeInv
  <2>2. Count(ip).operands = 0 /\ Count(ip).regions = 1
    BY InstructionFacts
  <2>3. callstack > 0
    BY <2>1, InstructionFacts DEF Runs
  <2>4. ptr = baseptr + Count(ip).operands /\ Len(indices[callstack]) = Count(ip).regions
    BY <2>1, <2>3 DEF TopExact
  <2> QED
    BY <2>1, <2>2, <2>4 DEF R!Depth
<1>2. Spec => []ExactInv
  BY ExactAlways
<1> QED
  BY <1>1, <1>2, PTL

(* A frame of a disciplined image never has a handler of another function: *)
(* neither one that an earlier call left behind in the frame nor one that  *)
(* a function opened and did not close.                                    *)
THEOREM HandlersStayHome ==
  ASSUME \A i \in 1 .. Len(Images) : Disciplined(Images[i])
  PROVE  Spec => []HandlersOfFunction
<1>1. ExactInv => HandlersOfFunction
  <2> SUFFICES ASSUME ExactInv, NEW f \in 1 .. callstack, NEW i \in 1 .. Len(except[f])
               PROVE  except[f][i] \in Function(frames[f].function).address
                                         .. Function(frames[f].function).finally
    BY DEF HandlersOfFunction
  <2>1. /\ callstack \in Nat /\ f \in Nat /\ f # 0
        /\ frames[f].function + 1 \in DOMAIN bytecode.functions
        /\ Runs(f) = frames[f].function /\ Runs(f) \in Nat
    BY DEF ExactInv, StackInv, CodeInv, FramesInCode, Runs
  <2>2. except[f] \in Seq(HandlersIn(bytecode, Runs(f)))
    <3>1. CASE f = 1
      BY <2>1, <3>1 DEF ExactInv, HandlersExact, MainHandlers
    <3>2. CASE f # 1
      <4>1. f \in 2 .. callstack
        BY <2>1, <3>2
      <4> QED
        BY <4>1 DEF ExactInv, HandlersExact
    <3> QED
      BY <3>1, <3>2
  <2>3. except[f][i] \in HandlersIn(bytecode, Runs(f))
    BY <2>2
  <2> QED
    BY <2>1, <2>3, FunctionFacts
<1>2. Spec => []ExactInv
  BY ExactAlways
<1> QED
  BY <1>1, <1>2, PTL

(* Between a raise in a disciplined image and its handler nothing is       *)
(* printed: the functions in between do nothing but free their variables.  *)
THEOREM SilentAfterRaise ==
  ASSUME \A i \in 1 .. Len(Images) : Disciplined(Images[i])
  PROVE  Spec => NoStatementAfterRaise
<1>1. ASSUME ExactInv, [Next]_vars
      PROVE  [unwinding => output' = output]_vars
  <2> SUFFICES ASSUME unwinding PROVE output' = output
    OBVIOUS
  <2>1. Op \in Leaving
    BY <1>1, UnwindingLeaves
  <2>2. ~PrintValue
    BY <2>1 DEF PrintValue, Prints, Leaving
  <2>3. CASE UNCHANGED vars
    BY <2>3 DEF vars, historyVars
  <2>4. CASE Stopped \/ Stop
    BY <2>4 DEF Stopped, Stop, vars, historyVars
  <2>5. CASE Step
    BY <2>2, <2>5 DEF Step, Skip, Halt, Assert, PushTry, PopTry, RaiseException,
      PushRegion, PopRegion, StoreValue, StoreInteger, FreeInteger, LoadValue,
      LoadArgument, LoadVariablePointer, UnTrack, CallFunction, Return,
      ReturnToHandler, ReturnUnwinding, Goto, GotoIfFalse, Logic, Create,
      CreateFloat, Compare, KeepHistory, historyVars
  <2> QED
    BY <1>1, <2>3, <2>4, <2>5 DEF Next, Execute
<1>2. Spec => []ExactInv
  BY ExactAlways
<1> QED
  BY <1>1, <1>2, PTL DEF Spec, NoStatementAfterRaise

------------------------------------------------------------------------------
(* Given an image that also accounts for the blocks its variables own, the *)
(* machine knows of each block that no region frees: it is the result on   *)
(* top of the stack or in a variable, of the running function or of one    *)
(* that waits, which has yet to free it.                                   *)

PointedAt(a) == Pointed(bytecode)[a]
PendingAt(a) == Pending(bytecode)[a]
Carries(a) == a \in Carried(bytecode)
OwnedBy(f) == Owned(bytecode, Runs(f))

In(k, b) == k \in 1 .. Len(stack) /\ stack[k] = Ref(b)

(* Where the result is: below a pointer, when there is one. *)
CarriedIndex == IF Op \in Uses THEN ptr - 1 ELSE ptr

CarriedHere(b) == Carries(ip) /\ In(CarriedIndex, b)
OwnedHere(b) == callstack > 0 /\ \E i \in PendingAt(ip) : In(baseptr - i, b)
OwnedBelow(b) ==
  \E f \in 2 .. callstack : \E i \in OwnedBy(f - 1) : In(frames[f].baseptr - i, b)

HasOwner == \A b \in held : CarriedHere(b) \/ OwnedHere(b) \/ OwnedBelow(b)

(* A pointer on top of the stack is one to the variable the code says. *)
PointsTo ==
  status = "running" /\ callstack > 0 /\ PointedAt(ip) # None
    => Top(1)[2] = VariableSlot(PointedAt(ip))

(* The frames lie above each other, the first one at the bottom. *)
FramesRise ==
  /\ \A f \in 1 .. callstack : \A g \in f .. callstack :
       frames[f].baseptr <= frames[g].baseptr
  /\ callstack > 0 =>
       /\ frames[1].baseptr = 0
       /\ frames[1].ptr - ParametersOf(1) + ResultsOf(1)
            = Count(frames[1].return_address).operands
  /\ callstack = 0 => baseptr = 0 /\ ptr = Count(ip).operands

(* A caller's variables own what they may own when it goes on. *)
CallersOwn ==
  \A f \in 1 .. callstack :
    LET to == frames[f].return_address
    IN  PointedAt(to) = None /\ PendingAt(to) = OwnedBy(f - 1)

OwnInv ==
  /\ ExactInv
  /\ Accounted(bytecode)
  /\ \E S : stack \in Seq(S)
  /\ HasOwner
  /\ PointsTo
  /\ FramesRise
  /\ CallersOwn
  /\ traces = IF unwinding THEN 1 ELSE 0

(* Only an exception leads where the image says that nothing else does. *)
Reaches(a) == a \in Reached(bytecode)

ReachInv ==
  /\ ~unwinding => Reaches(ip)
  /\ \A f \in 1 .. callstack : Reaches(frames[f].return_address)

(* What the account says of the instruction that is executed. *)
LEMMA AccountFacts ==
  ASSUME OwnInv
  PROVE  /\ \A a \in Address : PendingAt(a) \in SUBSET Nat /\ PointedAt(a) \in Nat \union {None}
         /\ PendingAt(ip) \subseteq Owned(bytecode, HomeOf(ip))
         /\ Op \in Uses => /\ HomeOf(ip) >= 0
                           /\ PointedAt(ip) \in 0 .. Function(HomeOf(ip)).variables - 1
         /\ Op \in BoxStores => PointedAt(ip) \in PendingAt(After)
         /\ Op = "StoreValue" => PointedAt(ip) \notin Owned(bytecode, HomeOf(ip))
         /\ Op \notin {"Goto", "Return", "Halt"} =>
              /\ PointedAt(After) \in {None, CASE Op = "LoadVariablePointer" -> Arg
                                               [] Op = "NoOperation" -> PointedAt(ip)
                                               [] OTHER -> None}
              /\ PendingAt(ip) \ (CASE Op \in BoxFrees -> {PointedAt(ip)}
                                    [] Op = "LoadValue" /\ Carries(After) -> {Arg}
                                    [] OTHER -> {})
                   \subseteq PendingAt(After)
         /\ Op \notin {"Goto", "Return", "Halt"} /\ ~Freeing(Carried(bytecode), After, Code[ip])
              => PendingAt(After) = Owned(bytecode, HomeOf(ip))
         /\ Op = "CallFunction" => PendingAt(After) = Owned(bytecode, HomeOf(ip))
         /\ Op = "UnTrack" \/ Keeps => Carries(After)
         /\ Carries(ip) =>
              /\ Op \in {"LoadVariablePointer", "Return"} \union BoxFrees
              /\ Op = "LoadVariablePointer" => Code[After].op \in BoxFrees
              /\ Op # "Return" => Carries(After)
         /\ Op = "Return" => PendingAt(ip) = {} /\ (Arg \in Boxed <=> Carries(ip))
<1>1. Accounts(Pointed(bytecode), Pending(bytecode), Carried(bytecode), bytecode)
  BY DEF OwnInv, Accounted
<1>2. ip \in Address
  BY DEF OwnInv, ExactInv, StackInv, CodeInv
<1>3. \A a \in Address : PendingAt(a) \in SUBSET Nat /\ PointedAt(a) \in Nat \union {None}
  BY <1>1 DEF Accounts, Address, Code, PendingAt, PointedAt
<1>4. Op \notin {"Goto", "Return", "Halt"} /\ ~Freeing(Carried(bytecode), After, Code[ip])
        => PendingAt(After) = Owned(bytecode, HomeOf(ip))
  BY <1>1, <1>2 DEF Accounts, Address, Code, Op, After, HomeOf, PendingAt
<1>5. Op = "CallFunction" => ~Freeing(Carried(bytecode), After, Code[ip])
  BY DEF Freeing, Op, BoxFrees
<1> QED
  BY <1>1, <1>2, <1>3, <1>4, <1>5 DEF Accounts, Address, Code, Op, Arg, After, HomeOf, PendingAt,
    PointedAt, Carries, Keeps, Function

(* Of the places that are reached from elsewhere. *)
LEMMA EntriesOwn ==
  ASSUME OwnInv, NEW a \in Entries(bytecode)
  PROVE  PointedAt(a) = None /\ ~Carries(a) /\ PendingAt(a) = Owned(bytecode, HomeOf(a))
BY DEF OwnInv, Accounted, Accounts, PointedAt, Carries, PendingAt, HomeOf

(* An instruction that takes a pointer is where there is one. *)
LEMMA UsesPointed ==
  ASSUME OwnInv, NEW a \in Address, Code[a].op \in Uses
  PROVE  PointedAt(a) # None
BY DEF OwnInv, Accounted, Accounts, PointedAt, Address, Code, None

LEMMA OwnedRange ==
  ASSUME OwnInv, NEW g, NEW i \in Owned(bytecode, g)
  PROVE  i \in 0 .. Function(g).variables - 1
<1>1. PICK a \in DOMAIN bytecode.code :
        /\ bytecode.code[a].op \in BoxStores \union BoxFrees /\ Home(bytecode, a) = g
        /\ i = Pointed(bytecode)[a]
  BY DEF Owned
<1>2. bytecode.code[a].op \in Uses
  BY <1>1 DEF Uses
<1> QED
  BY <1>1, <1>2 DEF OwnInv, Accounted, Accounts, Function

(* Slots of the stack up to the m-th stay as they are. *)
Same(m) ==
  \A k \in 1 .. Len(stack) : k <= m => k \in 1 .. Len(stack') /\ stack'[k] = stack[k]

LEMMA PopFacts ==
  ASSUME NEW S, stack \in Seq(S), ptr \in Nat, NEW n \in Nat, Pop(n)
  PROVE  (\E T : stack' \in Seq(T)) /\ Same(ptr - n)
<1>1. stack' = Popped(n)
  BY DEF Pop
<1>2. stack' \in Seq(S \union {Null}) /\ Len(stack') = Len(stack)
  BY <1>1, PoppedFacts
<1>3. Same(ptr - n)
  BY <1>1, <1>2, PoppedFacts DEF Same
<1> QED
  BY <1>2, <1>3

LEMMA ReplaceFacts ==
  ASSUME NEW S, stack \in Seq(S), ptr \in Nat, NEW n \in Nat, n <= ptr, NEW v,
         Replace(n, v), Room(stack, ptr - n)
  PROVE  /\ \E T : stack' \in Seq(T)
         /\ Same(ptr - n)
         /\ ptr - n + 1 \in 1 .. Len(stack') /\ stack'[ptr - n + 1] = v
<1> DEFINE p == ptr - n
           s == Popped(n)
<1>1. p \in Nat
  OBVIOUS
<1>2. /\ s \in Seq(S \union {Null}) /\ Len(s) = Len(stack)
      /\ \A k \in 1 .. Len(stack) : k <= p => s[k] = stack[k]
  BY PoppedFacts
<1>3. stack' = [Grown(s, p) EXCEPT ![p + 1] = v]
  BY DEF Replace
<1>4. Room(s, p)
  BY <1>2 DEF Room
<1> HIDE DEF s, p
<1>5. /\ Grown(s, p) \in Seq((S \union {Null}) \union {Null})
      /\ p + 1 \in 1 .. Len(Grown(s, p))
      /\ \A k \in 1 .. Len(s) : k \in 1 .. Len(Grown(s, p)) /\ Grown(s, p)[k] = s[k]
  BY <1>1, <1>2, <1>4, GrownFacts
<1>6. PICK t : t = Grown(s, p)
  OBVIOUS
<1>7. PICK T : T = S \union {Null, v}
  OBVIOUS
<1>8. t \in Seq(T) /\ v \in T
  BY <1>5, <1>6, <1>7
<1>9. stack' = [t EXCEPT ![p + 1] = v] /\ p + 1 \in 1 .. Len(t)
  BY <1>3, <1>5, <1>6
<1>10. /\ stack' \in Seq(T) /\ Len(stack') = Len(t) /\ stack'[p + 1] = v
       /\ \A k \in 1 .. Len(t) : k # p + 1 => stack'[k] = t[k]
  BY <1>8, <1>9
<1>11. Same(p)
  BY <1>1, <1>2, <1>5, <1>6, <1>10 DEF Same
<1> QED
  BY <1>9, <1>10, <1>11 DEF p

(* The variables of the frames lie one above the other. *)
LEMMA FrameBounds ==
  ASSUME OwnInv, callstack > 0
  PROVE  /\ callstack \in Nat /\ ptr \in Nat /\ baseptr \in Nat
         /\ Runs(callstack) = frames[callstack].function
         /\ frames[callstack].ptr \in Nat /\ frames[callstack].baseptr \in Nat
         /\ ParametersOf(callstack) \in Nat /\ CurrentFunction.variables \in Nat
         /\ frames[callstack].baseptr <= frames[callstack].ptr - ParametersOf(callstack)
         /\ baseptr = frames[callstack].ptr + CurrentFunction.variables
         /\ \A f \in 1 .. callstack :
              frames[f].baseptr \in Nat /\ frames[f].baseptr <= frames[callstack].baseptr
<1> USE DEF OwnInv, ExactInv, StackInv
<1>1. callstack \in Nat /\ ptr \in Nat /\ baseptr \in Nat
  BY DEF CodeInv
<1>2. callstack \in 1 .. callstack
  BY <1>1
<1>3. FrameNests(callstack)
  BY <1>2
<1>4. frames[callstack].function + 1 \in DOMAIN bytecode.functions
  BY <1>2 DEF CodeInv, FramesInCode
<1>5. ParametersOf(callstack) \in Nat /\ CurrentFunction.variables \in Nat
  <2>1. /\ ParametersOf(callstack) \in 0 .. 15
        /\ CurrentFunction.variables \in 0 .. 127
    BY <1>4 DEF CodeInv, WellFormed, MaxVariables, ParametersOf, CurrentFunction, Function
  <2>2. 0 .. 15 \subseteq Nat /\ 0 .. 127 \subseteq Nat
    OBVIOUS
  <2> QED
    BY <2>1, <2>2, Zenon
<1>6. baseptr = frames[callstack].ptr + CurrentFunction.variables
  BY DEF CodeInv, FramesLinked
<1>7. ASSUME NEW f \in 1 .. callstack
      PROVE  frames[f].baseptr \in Nat /\ frames[f].baseptr <= frames[callstack].baseptr
  <2>1. callstack \in f .. callstack
    BY <1>1
  <2>2. FrameNests(f)
    OBVIOUS
  <2> QED
    BY <2>1, <2>2 DEF FramesRise, FrameNests
<1>8. Runs(callstack) = frames[callstack].function
  BY <1>1 DEF Runs
<1> QED
  BY <1>1, <1>3, <1>5, <1>6, <1>7, <1>8 DEF FrameNests

(* What a step that stays in its function leaves to the callers. *)
LEMMA BelowKept ==
  ASSUME OwnInv, callstack > 0, UNCHANGED <<bytecode, callstack, frames>>,
         Same(frames[callstack].baseptr), NEW b, OwnedBelow(b)
  PROVE  OwnedBelow(b)'
<1>1. PICK f \in 2 .. callstack : \E i \in OwnedBy(f - 1) : In(frames[f].baseptr - i, b)
  BY DEF OwnedBelow
<1>2. PICK i \in OwnedBy(f - 1) : In(frames[f].baseptr - i, b)
  BY <1>1
<1>3. i \in Nat
  BY OwnedRange DEF OwnedBy
<1>4. frames[f].baseptr \in Nat /\ frames[f].baseptr <= frames[callstack].baseptr
      /\ frames[callstack].baseptr \in Nat
  BY FrameBounds
<1>5. In(frames[f].baseptr - i, b)'
  <2>1. PICK k : k = frames[f].baseptr - i
    OBVIOUS
  <2>2. k <= frames[callstack].baseptr
    BY <1>3, <1>4, <2>1
  <2>3. k \in 1 .. Len(stack) /\ stack[k] = Ref(b)
    BY <1>2, <2>1 DEF In
  <2>4. k \in 1 .. Len(stack') /\ stack'[k] = Ref(b)
    BY <2>2, <2>3 DEF Same
  <2> QED
    BY <2>1, <2>4 DEF In, Ref
<1>6. OwnedBy(f - 1)' = OwnedBy(f - 1)
  BY DEF OwnedBy, Runs
<1> QED
  BY <1>2, <1>5, <1>6 DEF OwnedBelow

(* What it leaves to the function itself. *)
LEMMA HereKept ==
  ASSUME OwnInv, callstack > 0, UNCHANGED <<bytecode, callstack, baseptr>>,
         Same(baseptr), PendingAt(ip) \subseteq PendingAt(ip'), NEW b, OwnedHere(b)
  PROVE  OwnedHere(b)'
<1>1. PICK i \in PendingAt(ip) : In(baseptr - i, b)
  BY DEF OwnedHere
<1>2. i \in Nat /\ baseptr \in Nat
  BY AccountFacts, FrameBounds DEF OwnInv, ExactInv, StackInv, CodeInv
<1>3. In(baseptr - i, b)'
  BY <1>1, <1>2 DEF In, Same, Ref
<1>4. PendingAt(ip') = PendingAt(ip)'
  BY DEF PendingAt
<1> QED
  BY <1>1, <1>3, <1>4 DEF OwnedHere

(* Most instructions touch nothing but their operands. *)
LEMMA OwnersKept ==
  ASSUME OwnInv, callstack > 0, UNCHANGED <<bytecode, callstack, frames, baseptr>>,
         held' \subseteq held, Same(baseptr), PendingAt(ip) \subseteq PendingAt(ip'),
         Carries(ip) => /\ Carries(ip') /\ Same(CarriedIndex)
                        /\ CarriedIndex' = CarriedIndex
  PROVE  HasOwner'
<1> SUFFICES ASSUME NEW b \in held'
             PROVE  (CarriedHere(b) \/ OwnedHere(b) \/ OwnedBelow(b))'
  BY DEF HasOwner
<1>1. CarriedHere(b) \/ OwnedHere(b) \/ OwnedBelow(b)
  BY DEF OwnInv, HasOwner
<1>2. Same(frames[callstack].baseptr)
  BY FrameBounds DEF Same
<1>3. CASE CarriedHere(b)
  <2>1. Carries(ip)' /\ In(CarriedIndex, b) /\ Same(CarriedIndex) /\ CarriedIndex' = CarriedIndex
    BY <1>3 DEF CarriedHere, Carries
  <2>2. PICK k : k = CarriedIndex
    OBVIOUS
  <2>3. k \in 1 .. Len(stack) /\ k \in Int
    BY <2>1, <2>2 DEF In
  <2>4. k \in 1 .. Len(stack') /\ stack'[k] = Ref(b)
    BY <2>1, <2>2, <2>3 DEF Same, In
  <2>5. In(CarriedIndex, b)'
    BY <2>1, <2>2, <2>4 DEF In, Ref
  <2> QED
    BY <2>1, <2>5 DEF CarriedHere
<1>4. CASE OwnedHere(b)
  BY <1>4, HereKept
<1>5. CASE OwnedBelow(b)
  BY <1>2, <1>5, BelowKept
<1> QED
  BY <1>1, <1>3, <1>4, <1>5

(* What else the invariant says, of a step that stays in its function. *)
LEMMA SameFunction ==
  ASSUME OwnInv, ExactInv', callstack > 0, UNCHANGED <<bytecode, callstack, frames, baseptr>>,
         \E T : stack' \in Seq(T),
         HasOwner', PointsTo', traces' = IF unwinding' THEN 1 ELSE 0
  PROVE  OwnInv'
<1>1. FramesRise'
  BY DEF OwnInv, FramesRise, Count, ParametersOf, ResultsOf, Function
<1>2. CallersOwn'
  BY DEF OwnInv, CallersOwn, PointedAt, PendingAt, OwnedBy, Runs
<1> QED
  BY <1>1, <1>2 DEF OwnInv

(* An instruction that loads no pointer is followed by none that takes it. *)
LEMMA NothingPointed ==
  ASSUME OwnInv, bytecode' = bytecode, PointedAt(ip') = None
  PROVE  PointsTo'
BY DEF PointsTo, PointedAt

(* The instructions that touch their operands alone, and blocks that a     *)
(* region tracks.                                                          *)
Plain ==
  \/ Skip \/ Assert \/ PushRegion \/ PopRegion \/ LoadArgument \/ Logic
  \/ CreateFloat \/ Compare \/ PrintValue \/ (Create /\ Tracks)

LEMMA PlainOps ==
  ASSUME Plain
  PROVE  Op \notin Uses \union {"LoadVariablePointer", "LoadValue", "UnTrack"}
<1>1. ASSUME Op \in Uses \union {"LoadVariablePointer", "LoadValue", "UnTrack"}
      PROVE  ~(Tracks \/ Floats) /\ Op \notin Relations \union Prints
  BY <1>1 DEF Op, Tracks, Floats, TracksOf, FloatsOf, ConvertsTo, IntegerResults,
    StringResults, FloatResults, Relations, Prints, Uses, BoxStores, BoxFrees
<1>2. Op \in Uses \union {"LoadVariablePointer", "LoadValue", "UnTrack"} => FALSE
  BY <1>1 DEF Plain, Skip, Assert, PushRegion, PopRegion, LoadArgument, Logic,
    CreateFloat, Compare, PrintValue, Create, Casting, Uses, BoxStores, BoxFrees
<1> QED
  BY <1>2

LEMMA PlainSteps ==
  ASSUME Plain, RP!TypeOK
  PROVE  /\ Op \notin {"Goto", "Return", "Halt"}
         /\ UNCHANGED <<callstack, frames, baseptr, unwinding, traces>>
         /\ held' \subseteq held
         /\ ip' = After \/ (ip' = ip /\ status' = "failed" /\ Op = "Assert")
         /\ status' # "failed" => ip' = After
<1>1. Straight
  BY DEF Plain, Straight
<1>2. Op \notin {"Goto", "Return", "Halt"} /\ UNCHANGED <<callstack, frames, baseptr>>
  BY <1>1, StraightSteps
<1>3. UNCHANGED <<unwinding, traces>>
  BY DEF Plain, Skip, Assert, PushRegion, PopRegion, LoadArgument, Logic, CreateFloat,
    Compare, PrintValue, Create, KeepExcept, exceptVars
<1>4. held' = held
  BY DEF Plain, Skip, Assert, PushRegion, PopRegion, LoadArgument, Logic, CreateFloat,
    Compare, PrintValue, Create, KeepRegions, regionVars, R!PushRegion, R!PopRegion,
    R!Allocate, R!AllocateUntracked, Tracks, Keeps, TracksOf, KeepsOf, ConvertsTo,
    IntegerResults, StringResults, Keeping, RationalResults
<1>5. ip' = After \/ (ip' = ip /\ status' = "failed" /\ Op = "Assert")
  BY DEF Plain, Skip, Assert, PushRegion, PopRegion, LoadArgument, Logic, CreateFloat,
    Compare, PrintValue, Create, Continue
<1> QED
  BY <1>2, <1>3, <1>4, <1>5

(* Nothing below the operands of the running function is touched. *)
LEMMA OperandsOnly ==
  ASSUME OwnInv, status = "running", Defined,
         Straight, ~StoreValue, ~StoreInteger
  PROVE  (\E T : stack' \in Seq(T)) /\ Same(ptr - Needed)
<1>1. PICK S : stack \in Seq(S)
  BY DEF OwnInv
<1>2. ptr \in Nat /\ baseptr \in Nat /\ ptr >= baseptr + Depth(ip)
  BY DEF OwnInv, ExactInv, StackInv
<1>3. Needed \in Nat /\ Needed <= Depth(ip) /\ Depth(ip) \in Nat
  BY DepthFacts DEF OwnInv, ExactInv, StackInv, CodeInv
<1>4. CASE stack' = stack
  BY <1>1, <1>4 DEF Same
<1>5. ASSUME NEW n \in Nat, NEW v, n = Needed, Replace(n, v), Pushes, n = Len(Pops)
      PROVE  (\E T : stack' \in Seq(T)) /\ Same(ptr - Needed)
  <2>1. n <= ptr
    BY <1>2, <1>3, <1>5
  <2>2. Room(stack, ptr - n)
    BY <1>5 DEF Defined
  <2> QED
    BY <1>1, <1>2, <1>5, <2>1, <2>2, ReplaceFacts
<1>6. CASE Op \in PopOne /\ Pop(1)
  <2>1. Needed = 1
    BY <1>6, PopCounts, NeedsPops DEF PopOne, Prints
  <2> QED
    BY <1>1, <1>2, <1>6, <2>1, PopFacts
<1>7. CASE LoadValue \/ LoadArgument \/ LoadVariablePointer
  <2>1. Op \in PopNone /\ Op \notin {"CallFunction", "UnTrack", "Return"} /\ Pushes
    BY <1>7, PushCounts DEF LoadValue, LoadArgument, LoadVariablePointer, PopNone
  <2>2. Needed = 0 /\ Len(Pops) = 0
    BY <2>1, PopCounts, NeedsPops
  <2>3. \E v : Replace(0, v)
    BY <1>7 DEF LoadValue, LoadArgument, LoadVariablePointer
  <2> QED
    BY <1>5, <2>1, <2>2, <2>3
<1>8. CASE Logic
  <2>1. CASE Op \in {"PushTrue", "PushFalse"}
    <3>1. Op \in PopNone /\ Pushes /\ \E v : Replace(0, v)
      BY <1>8, <2>1, PushCounts DEF Logic, PopNone
    <3>2. Needed = 0 /\ Len(Pops) = 0
      BY <2>1, <3>1, PopCounts, NeedsPops
    <3> QED
      BY <1>5, <3>1, <3>2
  <2>2. CASE Op \in {"LogicalAnd", "LogicalOr"}
    <3>1. Op \in PopTwo /\ Pushes /\ \E v : Replace(2, v)
      BY <1>8, <2>2, PushCounts DEF Logic, PopTwo
    <3>2. Needed = 2 /\ Len(Pops) = 2
      BY <2>2, <3>1, PopCounts, NeedsPops
    <3> QED
      BY <1>5, <3>1, <3>2
  <2>3. CASE Op = "LogicalNot"
    <3>1. Op \in PopOne /\ Pushes /\ \E v : Replace(1, v)
      BY <1>8, <2>3, PushCounts DEF Logic, PopOne
    <3>2. Needed = 1 /\ Len(Pops) = 1
      BY <2>3, <3>1, PopCounts, NeedsPops
    <3> QED
      BY <1>5, <3>1, <3>2
  <2> QED
    BY <1>8, <2>1, <2>2, <2>3 DEF Logic
<1>9. CASE Create \/ CreateFloat
  <2>1. (\E v : Replace(Len(Pops), v)) /\ (Tracks \/ Keeps \/ Floats)
    BY <1>9 DEF Create, CreateFloat
  <2>2. Pushes
    BY <2>1 DEF Pushes, PushesOf, Tracks, Keeps, Floats
  <2>3. Op \notin {"CallFunction", "UnTrack", "Return"}
    BY <2>1 DEF Op, Tracks, Keeps, Floats, TracksOf, KeepsOf, FloatsOf,
      ConvertsTo, IntegerResults, StringResults, Keeping, RationalResults,
      FloatResults
  <2>4. Needed = Len(Pops)
    BY <2>3, NeedsPops
  <2> QED
    BY <1>3, <1>5, <2>1, <2>2, <2>4
<1>10. CASE Compare
  <2>1. (\E v : Replace(2, v)) /\ Op \in Relations
    BY <1>10 DEF Compare
  <2>2. Op \in PopTwo /\ Op \notin {"CallFunction", "UnTrack", "Return"} /\ Pushes
    BY <2>1, PushCounts DEF PopTwo, Relations
  <2>3. Needed = 2 /\ Len(Pops) = 2
    BY <2>2, PopCounts, NeedsPops
  <2> QED
    BY <1>5, <2>1, <2>2, <2>3
<1>11. CASE Assert \/ FreeInteger \/ PrintValue
  <2>1. Op \in PopOne /\ Pop(1)
    BY <1>11 DEF Assert, FreeInteger, PrintValue, PopOne
  <2> QED
    BY <1>6, <2>1
<1>12. CASE Skip \/ PushRegion \/ PopRegion \/ UnTrack
  <2>1. stack' = stack
    BY <1>12 DEF Skip, PushRegion, PopRegion, UnTrack, KeepStack, stackVars
  <2> QED
    BY <1>4, <2>1
<1> QED
  BY <1>7, <1>8, <1>9, <1>10, <1>11, <1>12 DEF Straight

LEMMA BaseStays ==
  ASSUME OwnInv, status = "running", Same(ptr - Needed)
  PROVE  Same(baseptr)
<1>1. ptr \in Nat /\ baseptr \in Nat /\ ptr >= baseptr + Depth(ip)
  BY DEF OwnInv, ExactInv, StackInv
<1>2. Needed \in Nat /\ Needed <= Depth(ip) /\ Depth(ip) \in Nat
  BY DepthFacts DEF OwnInv, ExactInv, StackInv, CodeInv
<1>3. baseptr <= ptr - Needed
  BY <1>1, <1>2
<1> QED
  BY <1>1, <1>2, <1>3 DEF Same

(* Those instructions, and jumps within the function. *)
LEMMA KeepsOwners ==
  ASSUME OwnInv, ExactInv', status = "running", callstack > 0,
         UNCHANGED <<bytecode, callstack, frames, baseptr, unwinding, traces>>,
         held' \subseteq held, Same(ptr - Needed), \E T : stack' \in Seq(T),
         PendingAt(ip) \subseteq PendingAt(ip'), ~Carries(ip), PointsTo'
  PROVE  OwnInv'
<1>1. HasOwner'
  BY BaseStays, OwnersKept
<1>2. traces' = IF unwinding' THEN 1 ELSE 0
  BY DEF OwnInv
<1> QED
  BY <1>1, <1>2, SameFunction

LEMMA PlainOwn ==
  ASSUME OwnInv, ExactInv', RP!TypeOK, status = "running", Defined, callstack > 0,
         bytecode' = bytecode, Plain
  PROVE  OwnInv'
<1>1. /\ Op \notin {"Goto", "Return", "Halt"}
      /\ UNCHANGED <<callstack, frames, baseptr, unwinding, traces>>
      /\ held' \subseteq held
      /\ ip' = After \/ (ip' = ip /\ status' = "failed" /\ Op = "Assert")
  BY PlainSteps
<1>2. Op \notin Uses \union {"LoadVariablePointer", "LoadValue", "UnTrack"}
  BY PlainOps
<1>3. Straight /\ ~StoreValue /\ ~StoreInteger
  BY <1>2 DEF Plain, Straight, StoreValue, StoreInteger, Uses, BoxStores
<1>4. Same(ptr - Needed) /\ \E T : stack' \in Seq(T)
  BY <1>3, OperandsOnly
<1>5. ~Carries(ip)
  BY <1>1, <1>2, AccountFacts DEF Uses
<1>6. CASE ip' = ip /\ status' = "failed"
  <2>1. PointsTo'
    BY <1>6 DEF PointsTo
  <2> QED
    BY <1>1, <1>4, <1>5, <1>6, <2>1, KeepsOwners
<1>7. CASE ip' = After
  <2>1. PendingAt(ip) \subseteq PendingAt(After)
    BY <1>1, <1>2, AccountFacts DEF Uses
  <2>2. PointsTo'
    <3>1. CASE Op = "NoOperation"
      <4>1. Skip
        <5>1. ~(Tracks \/ Floats) /\ Op \notin Relations \union Prints
          BY <3>1 DEF Op, Tracks, Floats, TracksOf, FloatsOf, ConvertsTo, IntegerResults,
            StringResults, FloatResults, Relations, Prints
        <5> QED
          BY <3>1, <5>1 DEF Plain, Assert, PushRegion, PopRegion, LoadArgument, Logic,
            CreateFloat, Compare, PrintValue, Create
      <4>2. UNCHANGED <<stack, ptr>>
        BY <4>1 DEF Skip, KeepStack, stackVars
      <4>3. PointedAt(After) \in {None, PointedAt(ip)}
        BY <1>1, <3>1, AccountFacts
      <4>4. PointedAt(ip)' = PointedAt(After)
        BY <1>7 DEF PointedAt
      <4> QED
        BY <1>1, <4>2, <4>3, <4>4 DEF OwnInv, PointsTo, Top, VariableSlot
    <3>2. CASE Op # "NoOperation"
      <4>1. PointedAt(After) = None
        BY <1>1, <1>2, <3>2, AccountFacts
      <4> QED
        BY <1>7, <4>1, NothingPointed
    <3> QED
      BY <3>1, <3>2
  <2> QED
    BY <1>1, <1>4, <1>5, <1>7, <2>1, <2>2, KeepsOwners
<1> QED
  BY <1>1, <1>6, <1>7

LEMMA JumpsOwn ==
  ASSUME OwnInv, ExactInv', status = "running", Defined, callstack > 0,
         bytecode' = bytecode, Goto \/ GotoIfFalse
  PROVE  OwnInv'
<1>1. PICK S : stack \in Seq(S)
  BY DEF OwnInv
<1>2. ptr \in Nat
  BY DEF OwnInv, ExactInv, StackInv
<1>3. /\ UNCHANGED <<callstack, frames, baseptr, unwinding, traces, held>>
      /\ Op \in {"Goto", "GotoIfFalse"}
      /\ ip' \in {Arg, After} /\ (Op = "Goto" => ip' = Arg)
  BY DEF Goto, GotoIfFalse, Pop, KeepStack, KeepRegions, KeepExcept, stackVars,
    regionVars, exceptVars
<1>4. Same(ptr - Needed) /\ \E T : stack' \in Seq(T)
  <2>1. CASE Goto
    <3>1. stack' = stack
      BY <2>1 DEF Goto, KeepStack, stackVars
    <3> QED
      BY <1>1, <3>1 DEF Same
  <2>2. CASE GotoIfFalse
    <3>1. Op \in PopOne /\ Pop(1)
      BY <2>2 DEF GotoIfFalse, PopOne
    <3>2. Needed = 1
      BY <3>1, PopCounts, NeedsPops DEF PopOne, Prints
    <3> QED
      BY <1>1, <1>2, <3>1, <3>2, PopFacts
  <2> QED
    BY <2>1, <2>2
<1>5. ~Carries(ip)
  BY <1>3, AccountFacts DEF BoxFrees
<1>6. ip \in Address
  BY DEF OwnInv, ExactInv, StackInv, CodeInv
<1>7. CASE ip' = Arg
  <2>1. Arg \in Entries(bytecode)
    BY <1>3, <1>6 DEF Entries, Op, Arg, Address, Code
  <2>2. PointedAt(Arg) = None /\ PendingAt(Arg) = Owned(bytecode, HomeOf(Arg))
    BY <2>1, EntriesOwn
  <2>3. HomeOf(Arg) = HomeOf(ip)
    BY <1>3, InstructionFacts DEF OwnInv
  <2>4. PendingAt(ip) \subseteq PendingAt(ip')
    BY <1>7, <2>2, <2>3, AccountFacts
  <2>5. PointsTo'
    BY <1>7, <2>2, NothingPointed
  <2> QED
    BY <1>3, <1>4, <1>5, <2>4, <2>5, KeepsOwners
<1>8. CASE ip' = After /\ Op = "GotoIfFalse"
  <2>1. PointedAt(After) = None /\ PendingAt(ip) \subseteq PendingAt(After)
    BY <1>8, AccountFacts DEF BoxFrees
  <2>2. PointsTo'
    BY <1>8, <2>1, NothingPointed
  <2> QED
    BY <1>3, <1>4, <1>5, <1>8, <2>1, <2>2, KeepsOwners
<1> QED
  BY <1>3, <1>7, <1>8

(* A value that leaves its region, or was never in one, is what the function *)
(* is about to return.                                                       *)
LEMMA UsedNot ==
  ASSUME OwnInv, bytecode' = bytecode, ip' \in Address, PointedAt(ip') = None
  PROVE  CarriedIndex' = ptr'
<1>1. Code[ip'].op \notin Uses
  BY UsesPointed
<1> QED
  BY <1>1 DEF CarriedIndex, Op, Code

LEMMA UnTrackOwn ==
  ASSUME OwnInv, ExactInv', status = "running", Defined, callstack > 0,
         bytecode' = bytecode, UnTrack
  PROVE  OwnInv'
<1>1. /\ Op = "UnTrack" /\ ip' = After
      /\ UNCHANGED <<callstack, frames, baseptr, unwinding, traces, stack, ptr>>
  BY DEF UnTrack, KeepStack, KeepExcept, stackVars, exceptVars, R!Untrack, Continue
<1>2. PICK b \in Block : Top(1) = Ref(b) /\ held' = held \union {b}
  BY DEF UnTrack, R!Untrack
<1>3. /\ PointedAt(After) = None /\ PendingAt(ip) \subseteq PendingAt(After)
      /\ Carries(After) /\ ~Carries(ip)
  BY <1>1, AccountFacts DEF BoxFrees
<1>4. After \in Address /\ ptr \in Nat
  BY <1>1, NextInCode DEF OwnInv, ExactInv, StackInv
<1>5. CarriedIndex' = ptr
  BY <1>1, <1>3, <1>4, UsedNot
<1>6. In(ptr, b)
  <2>1. ptr \in 1 .. Len(stack)
    <3>1. Len(stack) \in Nat
      BY DEF OwnInv
    <3> QED
      BY <1>1, <1>4, <3>1 DEF Defined, Readable
  <2>2. ptr - 1 + 1 = ptr
    BY <1>4
  <2> QED
    BY <1>2, <2>1, <2>2 DEF In, Top
<1>7. CarriedHere(b)'
  <2>1. Carries(ip)'
    BY <1>1, <1>3 DEF Carries
  <2> QED
    BY <1>1, <1>5, <1>6, <2>1 DEF CarriedHere, In, Ref
<1>8. ASSUME NEW c \in held
      PROVE  (OwnedHere(c) \/ OwnedBelow(c))'
  <2>1. OwnedHere(c) \/ OwnedBelow(c)
    BY <1>3 DEF OwnInv, HasOwner, CarriedHere
  <2>2. CASE OwnedHere(c)
    <3>1. PendingAt(ip)' = PendingAt(After)
      BY <1>1 DEF PendingAt
    <3> QED
      BY <1>1, <1>3, <2>2, <3>1 DEF OwnedHere, In, Ref
  <2>3. CASE OwnedBelow(c)
    BY <1>1, <2>3, BelowKept DEF Same
  <2> QED
    BY <2>1, <2>2, <2>3
<1>9. HasOwner'
  BY <1>2, <1>7, <1>8 DEF HasOwner
<1>10. PointsTo'
  BY <1>1, <1>3, NothingPointed
<1>11. \E T : stack' \in Seq(T)
  BY <1>1 DEF OwnInv
<1>12. traces' = IF unwinding' THEN 1 ELSE 0
  BY <1>1 DEF OwnInv
<1> QED
  BY <1>1, <1>9, <1>10, <1>11, <1>12, SameFunction

LEMMA CreateOwn ==
  ASSUME OwnInv, ExactInv', status = "running", Defined, callstack > 0,
         bytecode' = bytecode, Create, ~Tracks
  PROVE  OwnInv'
<1>1. Keeps
  BY DEF Create
<1>2. Op \notin Uses \union {"LoadVariablePointer", "LoadValue", "NoOperation",
                             "Goto", "Return", "Halt", "UnTrack", "CallFunction"}
  BY <1>1 DEF Op, Keeps, KeepsOf, ConvertsTo, Keeping, RationalResults, Uses,
    BoxStores, BoxFrees
<1>3. /\ ip' = After
      /\ UNCHANGED <<callstack, frames, baseptr, unwinding, traces>>
  BY DEF Create, Continue, Replace, KeepExcept, exceptVars, R!Allocate, R!AllocateUntracked
<1>4. PICK b \in Block : held' = held \union {b} /\ Replace(Len(Pops), Ref(b))
  <2>1. Fresh \subseteq Block
    BY DEF Fresh
  <2> QED
    BY <2>1 DEF Create, R!AllocateUntracked
<1>5. Straight /\ ~StoreValue /\ ~StoreInteger
  BY <1>2 DEF Straight, StoreValue, StoreInteger, Uses, BoxStores
<1>6. Same(ptr - Needed) /\ \E T : stack' \in Seq(T)
  BY <1>5, OperandsOnly
<1>7. Same(baseptr)
  BY <1>6, BaseStays
<1>8. /\ PointedAt(After) = None /\ PendingAt(ip) \subseteq PendingAt(After)
      /\ Carries(After) /\ ~Carries(ip)
  BY <1>1, <1>2, AccountFacts DEF Uses
<1>9. After \in Address /\ ptr \in Nat /\ ptr >= baseptr + Depth(ip) /\ baseptr \in Nat
  BY <1>2, NextInCode DEF OwnInv, ExactInv, StackInv
<1>10. Needed = Len(Pops) /\ Needed \in Nat /\ Needed <= Depth(ip) /\ Depth(ip) \in Nat
  BY <1>2, NeedsPops, DepthFacts DEF OwnInv, ExactInv, StackInv, CodeInv
<1>11. ptr' = ptr - Len(Pops) + 1
  BY <1>4 DEF Replace
<1>12. In(ptr, b)'
  <2>1. PICK S : stack \in Seq(S)
    BY DEF OwnInv
  <2>2. Pushes
    BY <1>1 DEF Pushes, PushesOf, Keeps
  <2>3. Room(stack, ptr - Len(Pops))
    BY <2>2 DEF Defined
  <2>4. Len(Pops) \in Nat /\ Len(Pops) <= ptr
    BY <1>9, <1>10
  <2>5. ptr - Len(Pops) + 1 \in 1 .. Len(stack') /\ stack'[ptr - Len(Pops) + 1] = Ref(b)
    BY <1>4, <1>9, <2>1, <2>3, <2>4, ReplaceFacts
  <2> QED
    BY <1>11, <2>5 DEF In, Ref
<1>13. CarriedIndex' = ptr'
  BY <1>3, <1>8, <1>9, UsedNot
<1>14. CarriedHere(b)'
  <2>1. Carries(ip)'
    BY <1>3, <1>8 DEF Carries
  <2> QED
    BY <1>12, <1>13, <2>1 DEF CarriedHere, In
<1>15. ASSUME NEW c \in held
       PROVE  (OwnedHere(c) \/ OwnedBelow(c))'
  <2>1. OwnedHere(c) \/ OwnedBelow(c)
    BY <1>8 DEF OwnInv, HasOwner, CarriedHere
  <2>2. CASE OwnedHere(c)
    BY <1>3, <1>7, <1>8, <2>2, HereKept
  <2>3. CASE OwnedBelow(c)
    <3>1. Same(frames[callstack].baseptr)
      BY <1>7, FrameBounds DEF Same
    <3> QED
      BY <1>3, <2>3, <3>1, BelowKept
  <2> QED
    BY <2>1, <2>2, <2>3
<1>16. HasOwner'
  BY <1>4, <1>14, <1>15 DEF HasOwner
<1>17. PointsTo'
  BY <1>3, <1>8, NothingPointed
<1>18. traces' = IF unwinding' THEN 1 ELSE 0
  BY <1>3 DEF OwnInv
<1> QED
  BY <1>3, <1>6, <1>16, <1>17, <1>18, SameFunction

(* The value of a variable that is loaded to be returned is what the        *)
(* function returns, and the variable is spared.                            *)
LEMMA LoadValueOwn ==
  ASSUME OwnInv, ExactInv', status = "running", Defined, callstack > 0,
         bytecode' = bytecode, LoadValue
  PROVE  OwnInv'
<1>1. Op = "LoadValue" /\ ip' = After /\ Replace(0, Slot(VariableSlot(Arg)))
  BY DEF LoadValue, Continue
<1>2. UNCHANGED <<callstack, frames, baseptr, unwinding, traces, held>>
  BY DEF LoadValue, Replace, KeepRegions, KeepExcept, regionVars, exceptVars
<1>3. Same(ptr - Needed) /\ \E T : stack' \in Seq(T)
  BY OperandsOnly DEF Straight, LoadValue, StoreValue, StoreInteger
<1>4. PointedAt(After) = None /\ ~Carries(ip)
  BY <1>1, AccountFacts DEF BoxFrees
<1>5. PointsTo'
  BY <1>1, <1>4, NothingPointed
<1>6. CASE ~Carries(After)
  <2>1. PendingAt(ip) \subseteq PendingAt(After)
    BY <1>1, <1>6, AccountFacts DEF BoxFrees
  <2> QED
    BY <1>1, <1>2, <1>3, <1>4, <1>5, <2>1, KeepsOwners
<1>7. CASE Carries(After)
  <2>1. PendingAt(ip) \ {Arg} \subseteq PendingAt(After)
    BY <1>1, <1>7, AccountFacts DEF BoxFrees
  <2>2. Same(baseptr)
    BY <1>3, BaseStays
  <2>3. ptr \in Nat /\ baseptr \in Nat /\ After \in Address
    BY <1>1, NextInCode DEF OwnInv, ExactInv, StackInv
  <2>4. CarriedIndex' = ptr'
    BY <1>1, <1>4, <2>3, UsedNot
  <2>5. /\ ptr' = ptr + 1 /\ ptr + 1 \in 1 .. Len(stack')
        /\ stack'[ptr + 1] = Slot(VariableSlot(Arg))
    <3>1. PICK S : stack \in Seq(S)
      BY DEF OwnInv
    <3>2. Op \in PopNone /\ Pushes
      BY <1>1, PushCounts DEF PopNone
    <3>3. Room(stack, ptr - 0)
      BY <2>3, <3>2, PopCounts DEF Defined
    <3>4. ptr - 0 + 1 \in 1 .. Len(stack') /\ stack'[ptr - 0 + 1] = Slot(VariableSlot(Arg))
      BY <1>1, <2>3, <3>1, <3>3, ReplaceFacts
    <3>5. ptr - 0 + 1 = ptr + 1
      BY <2>3
    <3> QED
      BY <1>1, <3>4, <3>5 DEF Replace
  <2>6. ASSUME NEW c \in held
        PROVE  (CarriedHere(c) \/ OwnedHere(c) \/ OwnedBelow(c))'
    <3>1. OwnedHere(c) \/ OwnedBelow(c)
      BY <1>4 DEF OwnInv, HasOwner, CarriedHere
    <3>2. CASE OwnedBelow(c)
      <4>1. Same(frames[callstack].baseptr)
        BY <2>2, FrameBounds DEF Same
      <4> QED
        BY <1>2, <3>2, <4>1, BelowKept
    <3>3. CASE OwnedHere(c)
      <4>1. PICK i \in PendingAt(ip) : In(baseptr - i, c)
        BY <3>3 DEF OwnedHere
      <4>2. ip \in Address
        BY DEF OwnInv, ExactInv, StackInv, CodeInv
      <4>3. i \in Nat
        BY <4>1, <4>2, AccountFacts
      <4>4. CASE i = Arg
        <5>1. VariableSlot(Arg) + 1 = baseptr - i
          BY <2>3, <4>3, <4>4 DEF VariableSlot
        <5>2. Slot(VariableSlot(Arg)) = Ref(c)
          BY <4>1, <5>1 DEF Slot, In
        <5>3. In(ptr, c)'
          BY <2>5, <5>2 DEF In, Ref
        <5>4. Carries(ip)'
          BY <1>1, <1>7 DEF Carries
        <5> QED
          BY <2>4, <5>3, <5>4 DEF CarriedHere, In
      <4>5. CASE i # Arg
        <5>1. In(baseptr - i, c)'
          BY <1>2, <2>2, <2>3, <4>1, <4>3 DEF In, Same, Ref
        <5>2. i \in PendingAt(ip)'
          BY <1>1, <2>1, <4>1, <4>5 DEF PendingAt
        <5> QED
          BY <1>2, <5>1, <5>2 DEF OwnedHere
      <4> QED
        BY <4>4, <4>5
    <3> QED
      BY <3>1, <3>2, <3>3
  <2>7. HasOwner'
    BY <1>2, <2>6 DEF HasOwner
  <2>8. traces' = IF unwinding' THEN 1 ELSE 0
    BY <1>2 DEF OwnInv
  <2> QED
    BY <1>2, <1>3, <1>5, <2>7, <2>8, SameFunction
<1> QED
  BY <1>6, <1>7

LEMMA LoadPointerOwn ==
  ASSUME OwnInv, ExactInv', status = "running", Defined, callstack > 0,
         bytecode' = bytecode, LoadVariablePointer
  PROVE  OwnInv'
<1>1. /\ Op = "LoadVariablePointer" /\ ip' = After
      /\ Replace(0, Pointer(VariableSlot(Arg)))
  BY DEF LoadVariablePointer, Continue
<1>2. UNCHANGED <<callstack, frames, baseptr, unwinding, traces, held>>
  BY DEF LoadVariablePointer, Replace, KeepRegions, KeepExcept, regionVars, exceptVars
<1>3. Same(ptr - Needed) /\ \E T : stack' \in Seq(T)
  BY OperandsOnly DEF Straight, LoadVariablePointer, StoreValue, StoreInteger
<1>4. ptr \in Nat /\ baseptr \in Nat /\ After \in Address
  BY <1>1, NextInCode DEF OwnInv, ExactInv, StackInv
<1>5. Op \in PopNone /\ Pushes
  BY <1>1, PushCounts DEF PopNone
<1>6. /\ ptr' = ptr + 1 /\ ptr + 1 \in 1 .. Len(stack')
      /\ stack'[ptr + 1] = Pointer(VariableSlot(Arg))
  <2>1. PICK S : stack \in Seq(S)
    BY DEF OwnInv
  <2>2. Room(stack, ptr - 0)
    BY <1>4, <1>5, PopCounts DEF Defined
  <2>3. /\ ptr - 0 + 1 \in 1 .. Len(stack')
        /\ stack'[ptr - 0 + 1] = Pointer(VariableSlot(Arg))
    BY <1>1, <1>4, <2>1, <2>2, ReplaceFacts
  <2>4. ptr - 0 + 1 = ptr + 1
    BY <1>4
  <2> QED
    BY <1>1, <2>3, <2>4 DEF Replace
<1>7. PointedAt(After) \in {None, Arg} /\ PendingAt(ip) \subseteq PendingAt(After)
  BY <1>1, AccountFacts DEF BoxFrees
<1>8. PointsTo'
  <2>1. CASE PointedAt(After) = None
    BY <1>1, <2>1, NothingPointed
  <2>2. CASE PointedAt(After) = Arg
    <3>1. stack'[ptr' - 1 + 1][2] = VariableSlot(Arg)
      BY <1>4, <1>6 DEF Pointer
    <3>2. PointedAt(ip)' = Arg
      BY <1>1, <2>2 DEF PointedAt
    <3>3. VariableSlot(Arg) = baseptr - Arg - 1 /\ baseptr' = baseptr
      BY <1>2 DEF VariableSlot
    <3> QED
      BY <3>1, <3>2, <3>3 DEF PointsTo, Top, VariableSlot
  <2> QED
    BY <1>7, <2>1, <2>2
<1>9. ASSUME Carries(ip)
      PROVE  Carries(ip') /\ Same(CarriedIndex) /\ CarriedIndex' = CarriedIndex
  <2>1. Carries(After) /\ Code[After].op \in BoxFrees
    BY <1>1, <1>9, AccountFacts
  <2>2. CarriedIndex = ptr
    BY <1>1 DEF CarriedIndex, Uses, BoxStores, BoxFrees
  <2>3. CarriedIndex' = ptr' - 1
    BY <1>1, <2>1 DEF CarriedIndex, Op, Code, Uses
  <2>4. Needed = 0
    BY <1>1, <1>5, PopCounts, NeedsPops
  <2> QED
    BY <1>1, <1>3, <1>4, <1>6, <2>1, <2>2, <2>3, <2>4
<1>10. HasOwner'
  <2>1. Same(baseptr)
    BY <1>3, BaseStays
  <2> QED
    BY <1>1, <1>2, <1>7, <1>9, <2>1, OwnersKept
<1>11. traces' = IF unwinding' THEN 1 ELSE 0
  BY <1>2 DEF OwnInv
<1> QED
  BY <1>2, <1>3, <1>8, <1>10, <1>11, SameFunction

(* The variable an instruction takes the pointer to. *)
LEMMA PointedSlot ==
  ASSUME OwnInv, status = "running", Defined, callstack > 0, Op \in Uses
  PROVE  /\ PointedAt(ip) \in Nat
         /\ Top(1)[2] + 1 = baseptr - PointedAt(ip)
         /\ baseptr - PointedAt(ip) \in 1 .. Len(stack)
         /\ baseptr - PointedAt(ip) > frames[callstack].baseptr
<1>1. PointedAt(ip) \in 0 .. Function(HomeOf(ip)).variables - 1
  BY AccountFacts
<1>2. HomeOf(ip) = Runs(callstack)
  BY DEF OwnInv, ExactInv
<1>3. /\ Runs(callstack) = frames[callstack].function
      /\ baseptr \in Nat /\ frames[callstack].ptr \in Nat /\ frames[callstack].baseptr \in Nat
      /\ CurrentFunction.variables \in Nat /\ ParametersOf(callstack) \in Nat
      /\ frames[callstack].baseptr <= frames[callstack].ptr - ParametersOf(callstack)
      /\ baseptr = frames[callstack].ptr + CurrentFunction.variables
  BY FrameBounds
<1>4. PointedAt(ip) \in 0 .. CurrentFunction.variables - 1
  BY <1>1, <1>2, <1>3 DEF CurrentFunction
<1>5. PICK x : x = PointedAt(ip)
  OBVIOUS
<1>6. x \in Nat /\ x # None /\ baseptr - x > frames[callstack].baseptr
  BY <1>3, <1>4, <1>5 DEF None
<1>7. Top(1)[2] = baseptr - x - 1
  BY <1>5, <1>6 DEF OwnInv, PointsTo, VariableSlot
<1>8. Len(Pops) \in {1, 2} /\ Pops[1] = "slot"
  <2> USE DEF Pops, PopsOf, Op, FloatPairs, BlockPairs, BlockSingles, Copies, Relations,
        Additions, Subtractions, Casting
  <2>1. CASE Op \in {"StoreValue", "StoreInteger", "StoreString"}
    <3>1. Pops = <<"slot", "any">>
      BY <2>1
    <3> HIDE DEF Pops
    <3> QED
      BY <3>1
  <2>2. CASE Op \in {"FreeInteger", "FreeString"}
    <3>1. Pops = <<"slot">>
      BY <2>2
    <3> HIDE DEF Pops
    <3> QED
      BY <3>1
  <2> QED
    BY <2>1, <2>2 DEF Uses, BoxStores, BoxFrees
<1>9. Fits(Top(1), "slot")
  BY <1>8 DEF Defined
<1>10. Top(1)[2] \in 0 .. Len(stack) - 1
  BY <1>9 DEF Fits, IsSlot
<1>11. Len(stack) \in Nat
  BY DEF OwnInv
<1> QED
  BY <1>3, <1>5, <1>6, <1>7, <1>10, <1>11

LEMMA FreeOwn ==
  ASSUME OwnInv, ExactInv', status = "running", Defined, callstack > 0,
         bytecode' = bytecode, FreeInteger
  PROVE  OwnInv'
<1>1. Op \in BoxFrees /\ ip' = After /\ Pop(1) /\ ptr' = ptr - 1
  BY DEF FreeInteger, Continue, BoxFrees, Pop
<1>2. UNCHANGED <<callstack, frames, baseptr, unwinding, traces>>
  BY DEF FreeInteger, Pop, KeepRegions, KeepExcept, regionVars, exceptVars, R!Release
<1>3. Same(ptr - Needed) /\ \E T : stack' \in Seq(T)
  BY <1>1, OperandsOnly DEF Straight, FreeInteger, StoreValue, StoreInteger, BoxFrees
<1>4. Same(baseptr)
  BY <1>3, BaseStays
<1>5. /\ PointedAt(After) = None
      /\ PendingAt(ip) \ {PointedAt(ip)} \subseteq PendingAt(After)
      /\ Carries(ip) => Carries(After)
  BY <1>1, AccountFacts DEF BoxFrees
<1>6. Op \in Uses
  BY <1>1 DEF Uses
<1>7. /\ PointedAt(ip) \in Nat /\ baseptr - PointedAt(ip) \in 1 .. Len(stack)
      /\ Top(1)[2] + 1 = baseptr - PointedAt(ip)
  BY <1>6, PointedSlot
<1>8. held' \subseteq held /\ \A c \in held' : stack[baseptr - PointedAt(ip)] # Ref(c)
  <2>1. OldValue(Top(1)) = stack[baseptr - PointedAt(ip)]
    BY <1>7 DEF OldValue
  <2>2. CASE OldValue(Top(1)) = Null /\ KeepRegions
    BY <2>1, <2>2 DEF KeepRegions, regionVars, Null, Ref
  <2>3. CASE \E b \in Block : OldValue(Top(1)) = Ref(b) /\ R!Release(b)
    <3>1. PICK b \in Block : OldValue(Top(1)) = Ref(b) /\ held' = held \ {b}
      BY <2>3 DEF R!Release
    <3> QED
      BY <2>1, <3>1 DEF Ref
  <2> QED
    BY <2>2, <2>3 DEF FreeInteger
<1>9. After \in Address /\ ptr \in Nat
  BY <1>1, NextInCode DEF OwnInv, ExactInv, StackInv, BoxFrees
<1>10. CarriedIndex = ptr - 1 /\ CarriedIndex' = ptr - 1
  <2>1. CarriedIndex' = ptr'
    BY <1>1, <1>5, <1>9, UsedNot
  <2> QED
    BY <1>1, <1>6, <2>1 DEF CarriedIndex
<1>11. Needed = 1
  <2>1. Op \in PopOne
    BY <1>1 DEF BoxFrees, PopOne
  <2> QED
    BY <1>1, <2>1, PopCounts, NeedsPops DEF BoxFrees
<1>12. ASSUME NEW c \in held'
       PROVE  (CarriedHere(c) \/ OwnedHere(c) \/ OwnedBelow(c))'
  <2>1. CarriedHere(c) \/ OwnedHere(c) \/ OwnedBelow(c)
    BY <1>8 DEF OwnInv, HasOwner
  <2>2. CASE CarriedHere(c)
    <3>1. Carries(ip)'
      BY <1>1, <1>5, <2>2 DEF Carries, CarriedHere
    <3>2. In(ptr - 1, c)
      BY <1>10, <2>2 DEF CarriedHere
    <3>3. ptr - 1 \in 1 .. Len(stack') /\ stack'[ptr - 1] = Ref(c)
      BY <1>3, <1>9, <1>11, <3>2 DEF Same, In
    <3> QED
      BY <1>10, <3>1, <3>3 DEF CarriedHere, In, Ref
  <2>3. CASE OwnedHere(c)
    <3>1. PICK i \in PendingAt(ip) : In(baseptr - i, c)
      BY <2>3 DEF OwnedHere
    <3>2. i # PointedAt(ip)
      BY <1>8, <3>1 DEF In
    <3>3. i \in PendingAt(ip)'
      BY <1>1, <1>5, <3>1, <3>2 DEF PendingAt
    <3>4. i \in Nat /\ baseptr \in Nat
      BY <3>1, AccountFacts, FrameBounds DEF OwnInv, ExactInv, StackInv, CodeInv
    <3>5. In(baseptr - i, c)'
      BY <1>2, <1>4, <3>1, <3>4 DEF In, Same, Ref
    <3> QED
      BY <1>2, <3>3, <3>5 DEF OwnedHere
  <2>4. CASE OwnedBelow(c)
    <3>1. Same(frames[callstack].baseptr)
      BY <1>4, FrameBounds DEF Same
    <3> QED
      BY <1>2, <2>4, <3>1, BelowKept
  <2> QED
    BY <2>1, <2>2, <2>3, <2>4
<1>13. HasOwner'
  BY <1>12 DEF HasOwner
<1>14. PointsTo'
  BY <1>1, <1>5, NothingPointed
<1>15. traces' = IF unwinding' THEN 1 ELSE 0
  BY <1>2 DEF OwnInv
<1> QED
  BY <1>2, <1>3, <1>13, <1>14, <1>15, SameFunction

(* A store goes to the variable alone. *)
LEMMA StoredSlot ==
  ASSUME OwnInv, status = "running", Defined, callstack > 0,
         Op \in {"StoreValue"} \union BoxStores,
         stack' = [Popped(2) EXCEPT ![Top(1)[2] + 1] = Top(2)],
         NEW k, k = baseptr - PointedAt(ip)
  PROVE  /\ \E T : stack' \in Seq(T)
         /\ k \in 1 .. Len(stack') /\ stack'[k] = Top(2)
         /\ \A j \in 1 .. Len(stack) : j <= baseptr /\ j # k =>
              j \in 1 .. Len(stack') /\ stack'[j] = stack[j]
<1>1. PICK S : stack \in Seq(S)
  BY DEF OwnInv
<1>2. Op \in Uses /\ Op \in PopTwo /\ Op \notin {"CallFunction", "UnTrack", "Return"}
  BY DEF Uses, BoxStores, PopTwo
<1>3. k \in 1 .. Len(stack) /\ Top(1)[2] + 1 = k
  BY <1>2, PointedSlot
<1>4. Needed = 2
  BY <1>2, PopCounts, NeedsPops
<1>5. ptr \in Nat /\ baseptr \in Nat /\ ptr >= baseptr + Depth(ip)
  BY DEF OwnInv, ExactInv, StackInv
<1>6. Needed <= Depth(ip) /\ Depth(ip) \in Nat
  BY DepthFacts DEF OwnInv, ExactInv, StackInv, CodeInv
<1>7. baseptr <= ptr - 2
  BY <1>4, <1>5, <1>6
<1>8. /\ Popped(2) \in Seq(S \union {Null}) /\ Len(Popped(2)) = Len(stack)
      /\ \A j \in 1 .. Len(stack) : j <= ptr - 2 => Popped(2)[j] = stack[j]
  BY <1>1, <1>5, PoppedFacts
<1>9. PICK t : t = Popped(2)
  OBVIOUS
<1>10. PICK v : v = Top(2)
  OBVIOUS
<1>11. PICK T : T = S \union {Null, v}
  OBVIOUS
<1>12. t \in Seq(T) /\ v \in T
  BY <1>8, <1>9, <1>11
<1>13. stack' = [t EXCEPT ![k] = v]
  BY <1>3, <1>9, <1>10
<1>14. /\ stack' \in Seq(T) /\ Len(stack') = Len(t) /\ stack'[k] = v
       /\ \A j \in 1 .. Len(t) : j # k => stack'[j] = t[j]
  BY <1>3, <1>8, <1>9, <1>12, <1>13
<1> QED
  BY <1>3, <1>5, <1>7, <1>8, <1>9, <1>10, <1>14

(* A variable that owns blocks owns the one that is stored in it, the one  *)
(* it owned before is freed; the others get no block they would own.       *)
LEMMA StoresOwn ==
  ASSUME OwnInv, ExactInv', status = "running", Defined, callstack > 0,
         bytecode' = bytecode, StoreValue \/ StoreInteger
  PROVE  OwnInv'
<1>0. PICK k : k = baseptr - PointedAt(ip)
  OBVIOUS
<1>1. /\ Op \in {"StoreValue"} \union BoxStores /\ ip' = After /\ ptr' = ptr - 2
      /\ stack' = [Popped(2) EXCEPT ![Top(1)[2] + 1] = Top(2)]
      /\ UNCHANGED <<callstack, frames, baseptr, unwinding, traces>>
  BY DEF StoreValue, StoreInteger, Continue, BoxStores, KeepRegions, KeepExcept,
    regionVars, exceptVars, R!Store
<1>2. Op \in Uses /\ Op \notin BoxFrees \union {"LoadValue", "LoadVariablePointer",
        "NoOperation", "Goto", "Return", "Halt"}
  BY <1>1 DEF Uses, BoxStores, BoxFrees
<1>3. /\ PointedAt(ip) \in Nat /\ k \in 1 .. Len(stack) /\ Top(1)[2] + 1 = k
      /\ k > frames[callstack].baseptr
  BY <1>0, <1>1, <1>2, PointedSlot
<1>4. /\ \E T : stack' \in Seq(T)
      /\ k \in 1 .. Len(stack') /\ stack'[k] = Top(2)
      /\ \A j \in 1 .. Len(stack) : j <= baseptr /\ j # k =>
           j \in 1 .. Len(stack') /\ stack'[j] = stack[j]
  BY <1>0, <1>1, StoredSlot
<1>5. /\ PointedAt(After) = None /\ PendingAt(ip) \subseteq PendingAt(After)
      /\ ~Carries(ip)
  BY <1>1, <1>2, AccountFacts
<1>6. /\ frames[callstack].baseptr \in Nat /\ baseptr \in Nat
      /\ frames[callstack].baseptr <= baseptr
  BY FrameBounds
<1>7. ip \in Address
  BY DEF OwnInv, ExactInv, StackInv, CodeInv
<1>8. ASSUME NEW c \in held'
      PROVE  \/ Op \in BoxStores /\ Top(2) = Ref(c)
             \/ c \in held /\ (Op = "StoreValue" \/ stack[k] # Ref(c))
  <2>1. CASE StoreValue
    BY <2>1 DEF StoreValue, KeepRegions, regionVars
  <2>2. CASE StoreInteger
    <3>1. PICK b \in Block, old \in Block \union {NoBlock} :
            /\ Top(2) = Ref(b)
            /\ OldValue(Top(1)) = IF old = NoBlock THEN Null ELSE Ref(old)
            /\ held' = (held \ {old}) \union {b}
      BY <2>2 DEF StoreInteger, R!Store
    <3>2. Op \in BoxStores
      BY <2>2 DEF StoreInteger, BoxStores
    <3>3. OldValue(Top(1)) = stack[k]
      BY <1>3 DEF OldValue
    <3>4. ASSUME c # b, stack[k] = Ref(c)
          PROVE  FALSE
      <4>1. c \in held /\ c # old
        BY <3>1, <3>4
      <4> QED
        BY <3>1, <3>3, <3>4, <4>1 DEF Null, Ref
    <3> QED
      BY <3>1, <3>2, <3>4
  <2> QED
    BY <2>1, <2>2
<1>9. ASSUME NEW c \in held'
      PROVE  (OwnedHere(c) \/ OwnedBelow(c))'
  <2>1. CASE Op \in BoxStores /\ Top(2) = Ref(c)
    <3>1. PointedAt(ip) \in PendingAt(After)
      BY <2>1, AccountFacts
    <3>2. PICK x : x = PointedAt(ip)
      OBVIOUS
    <3>3. x \in PendingAt(ip)'
      BY <1>1, <3>1, <3>2 DEF PendingAt
    <3>4. In(baseptr - x, c)'
      BY <1>0, <1>1, <1>4, <2>1, <3>2 DEF In, Ref
    <3> QED
      BY <1>1, <3>3, <3>4 DEF OwnedHere
  <2>2. CASE c \in held /\ (Op = "StoreValue" \/ stack[k] # Ref(c))
    <3>1. OwnedHere(c) \/ OwnedBelow(c)
      BY <1>5, <2>2 DEF OwnInv, HasOwner, CarriedHere
    <3>2. CASE OwnedHere(c)
      <4>1. PICK i \in PendingAt(ip) : In(baseptr - i, c)
        BY <3>2 DEF OwnedHere
      <4>2. i \in Nat
        BY <1>7, <4>1, AccountFacts
      <4>3. i # PointedAt(ip)
        <5>1. CASE Op = "StoreValue"
          BY <4>1, <5>1, AccountFacts
        <5>2. CASE stack[k] # Ref(c)
          BY <1>0, <4>1, <5>2 DEF In
        <5> QED
          BY <2>2, <5>1, <5>2
      <4>4. baseptr - i <= baseptr /\ baseptr - i # k
        BY <1>0, <1>3, <1>6, <4>2, <4>3
      <4>5. In(baseptr - i, c)'
        BY <1>1, <1>4, <4>1, <4>4 DEF In, Ref
      <4>6. i \in PendingAt(ip)'
        BY <1>1, <1>5, <4>1 DEF PendingAt
      <4> QED
        BY <1>1, <4>5, <4>6 DEF OwnedHere
    <3>3. CASE OwnedBelow(c)
      <4>1. Same(frames[callstack].baseptr)
        BY <1>3, <1>4, <1>6 DEF Same
      <4> QED
        BY <1>1, <3>3, <4>1, BelowKept
    <3> QED
      BY <3>1, <3>2, <3>3
  <2> QED
    BY <1>8, <2>1, <2>2
<1>10. HasOwner'
  BY <1>9 DEF HasOwner
<1>11. PointsTo'
  BY <1>1, <1>5, NothingPointed
<1>12. traces' = IF unwinding' THEN 1 ELSE 0
  BY <1>1 DEF OwnInv
<1> QED
  BY <1>1, <1>4, <1>10, <1>11, <1>12, SameFunction

LEMMA TriesOwn ==
  ASSUME OwnInv, ExactInv', status = "running", Defined, callstack > 0,
         bytecode' = bytecode, PushTry \/ PopTry
  PROVE  OwnInv'
<1>1. /\ Op \in {"PushTry", "PopTry"} /\ ip' = After
      /\ UNCHANGED <<callstack, frames, baseptr, unwinding, traces, held, stack, ptr>>
  BY DEF PushTry, PopTry, Continue, KeepRegions, KeepStack, regionVars, stackVars
<1>2. Same(ptr - Needed) /\ \E T : stack' \in Seq(T)
  BY <1>1 DEF OwnInv, Same
<1>3. /\ PointedAt(After) = None /\ PendingAt(ip) \subseteq PendingAt(After)
      /\ ~Carries(ip)
  BY <1>1, AccountFacts DEF BoxFrees
<1>4. PointsTo'
  BY <1>1, <1>3, NothingPointed
<1> QED
  BY <1>1, <1>2, <1>3, <1>4, KeepsOwners

(* An exception in a function goes on where it frees its variables, or at  *)
(* a handler; they own what they own wherever code goes on.                *)
LEMMA RaiseOwn ==
  ASSUME OwnInv, ExactInv', status = "running", Defined, callstack > 0,
         bytecode' = bytecode, RaiseException
  PROVE  OwnInv'
<1>1. /\ Op = "RaiseException" /\ Replace(0, Uid(Arg))
      /\ UNCHANGED <<callstack, frames, baseptr, held, except>>
      /\ \/ /\ except[callstack] # <<>> /\ ip' = CurrentTry(callstack)
            /\ UNCHANGED <<unwinding, traces>>
         \/ ip' = After /\ unwinding' = TRUE /\ traces' = traces + 1
  BY DEF RaiseException, Replace, KeepRegions, regionVars
<1>2. Same(ptr - Needed) /\ \E T : stack' \in Seq(T)
  <2>1. PICK S : stack \in Seq(S)
    BY DEF OwnInv
  <2>2. ptr \in Nat
    BY DEF OwnInv, ExactInv, StackInv
  <2>3. Op \in PopNone /\ Pushes
    BY <1>1, PushCounts DEF PopNone
  <2>4. Needed = 0 /\ Room(stack, ptr - 0)
    BY <1>1, <2>3, PopCounts, NeedsPops DEF Defined
  <2> QED
    BY <1>1, <2>1, <2>2, <2>4, ReplaceFacts
<1>3. ~Carries(ip)
  BY <1>1, AccountFacts DEF BoxFrees
<1>4. ip' \in Entries(bytecode) /\ HomeOf(ip') = HomeOf(ip)
  <2>1. /\ HomeOf(ip) = Runs(callstack) /\ callstack \in 1 .. callstack
        /\ Runs(callstack) \in Nat /\ Runs(callstack) + 1 \in DOMAIN bytecode.functions
    BY DEF OwnInv, ExactInv, StackInv, CodeInv, FramesInCode, Runs
  <2>2. ExactInv
    BY DEF OwnInv
  <2>3. CASE ip' = After
    <3>1. After = Function(HomeOf(ip)).finally
      BY <1>1, <2>2, InstructionFacts
    <3>2. HomeOf(After) = HomeOf(ip)
      BY <2>1, <2>2, <3>1, FunctionFacts
    <3>3. Function(HomeOf(ip)).finally \in Entries(bytecode)
      BY <2>1 DEF Entries, Function
    <3> QED
      BY <2>3, <3>1, <3>2, <3>3
  <2>4. CASE except[callstack] # <<>> /\ ip' = CurrentTry(callstack)
    <3>1. except[callstack] \in Seq(HandlersIn(bytecode, Runs(callstack)))
      BY <2>2, HandlersOfTop
    <3>2. ip' \in HandlersIn(bytecode, Runs(callstack))
      BY <2>4, <3>1 DEF CurrentTry
    <3>3. HomeOf(ip') = Runs(callstack)
      BY <2>1, <2>2, <3>2, FunctionFacts
    <3>4. ip' \in Entries(bytecode)
      BY <3>2 DEF Entries, HandlersIn
    <3> QED
      BY <2>1, <3>3, <3>4
  <2> QED
    BY <1>1, <2>3, <2>4
<1>5. PointedAt(ip') = None /\ PendingAt(ip') = Owned(bytecode, HomeOf(ip))
  BY <1>4, EntriesOwn
<1>6. PendingAt(ip) \subseteq PendingAt(ip')
  BY <1>5, AccountFacts
<1>7. PointsTo'
  BY <1>5, NothingPointed
<1>8. HasOwner'
  BY <1>1, <1>2, <1>3, <1>6, BaseStays, OwnersKept
<1>9. traces' = IF unwinding' THEN 1 ELSE 0
  <2>1. ~unwinding
    BY <1>1, UnwindingLeaves DEF OwnInv, Leaving
  <2>2. traces = 0
    BY <2>1 DEF OwnInv
  <2> QED
    BY <1>1, <2>1, <2>2
<1> QED
  BY <1>1, <1>2, <1>7, <1>8, <1>9, SameFunction

(* A call leaves the variables of its caller to the time when it goes on,   *)
(* and owns nothing of its own yet.                                        *)
LEMMA CallOwn ==
  ASSUME OwnInv, ExactInv', RP!TypeOK, RP!TypeOK', CallFunction, status = "running",
         Defined, bytecode' = bytecode
  PROVE  OwnInv'
<1>0. PICK new : new = callstack + 1
  OBVIOUS
<1>00. PICK old : old = baseptr
  OBVIOUS
<1>1. /\ new \in Frame /\ callstack' = new /\ callstack \in Nat
      /\ frames'[new].function = Arg /\ frames'[new].return_address = After
      /\ frames'[new].ptr = ptr /\ frames'[new].baseptr = baseptr
      /\ \A f \in Frame : f # new => frames'[f] = frames[f]
      /\ ip' = Function(Arg).address
      /\ UNCHANGED unwinding /\ Op = "CallFunction"
      /\ Arg + 1 \in DOMAIN bytecode.functions
  BY <1>0, CallFacts DEF OwnInv, ExactInv
<1>2. UNCHANGED <<stack, held, traces>>
  BY DEF CallFunction, R!Call, KeepExcept, exceptVars
<1>3. /\ 1 .. new = 1 .. callstack \union {new} /\ new \notin 1 .. callstack
      /\ new # 0 /\ new - 1 = callstack
      /\ \A f \in 1 .. callstack : f \in Frame /\ f # new /\ f - 1 \in 0 .. callstack
  BY <1>0, <1>1, VirtualMachineAssumption DEF Frame
<1>4. \A f \in 0 .. callstack : Runs(f)' = Runs(f)
  BY <1>0, <1>1, VirtualMachineAssumption DEF Runs, Frame
<1>5. \A f \in 0 .. callstack : OwnedBy(f)' = OwnedBy(f)
  BY <1>4 DEF OwnedBy
<1>6. /\ PendingAt(ip) \subseteq OwnedBy(callstack) /\ ~Carries(ip)
      /\ PendingAt(After) = OwnedBy(callstack) /\ PointedAt(After) = None
  BY <1>1, AccountFacts DEF OwnedBy, OwnInv, ExactInv, BoxFrees
<1>7. PointedAt(ip') = None
  <2>1. ip' \in Entries(bytecode)
    BY <1>1 DEF Entries, Function
  <2> QED
    BY <2>1, EntriesOwn
<1>8. PointsTo'
  BY <1>7, NothingPointed
<1>9. ASSUME NEW c \in held
      PROVE  OwnedBelow(c)'
  <2>1. OwnedHere(c) \/ OwnedBelow(c)
    BY <1>6 DEF OwnInv, HasOwner, CarriedHere
  <2>2. CASE OwnedHere(c)
    <3>1. PICK i \in PendingAt(ip) : In(old - i, c)
      BY <1>00, <2>2 DEF OwnedHere
    <3>2. PICK g : g = new - 1
      OBVIOUS
    <3>3. i \in OwnedBy(g)'
      BY <1>3, <1>5, <1>6, <3>1, <3>2
    <3>4. In(frames[new].baseptr - i, c)'
      BY <1>00, <1>1, <1>2, <3>1 DEF In, Ref
    <3>5. new \in 2 .. callstack'
      BY <1>0, <1>1, <2>2 DEF OwnedHere
    <3> QED
      BY <3>2, <3>3, <3>4, <3>5 DEF OwnedBelow
  <2>3. CASE OwnedBelow(c)
    <3>1. PICK f \in 2 .. callstack : \E i \in OwnedBy(f - 1) : In(frames[f].baseptr - i, c)
      BY <2>3 DEF OwnedBelow
    <3>2. PICK i \in OwnedBy(f - 1) : In(frames[f].baseptr - i, c)
      BY <3>1
    <3>3. f \in 2 .. callstack' /\ f \in Frame /\ f # new /\ f - 1 \in 0 .. callstack
      BY <1>0, <1>1, <1>3
    <3>4. In(frames[f].baseptr - i, c)' /\ i \in OwnedBy(f - 1)'
      BY <1>1, <1>2, <1>5, <3>2, <3>3 DEF In, Ref
    <3> QED
      BY <3>3, <3>4 DEF OwnedBelow
  <2> QED
    BY <2>1, <2>2, <2>3
<1>10. HasOwner'
  BY <1>2, <1>9 DEF HasOwner
<1>11. CallersOwn'
  <2> SUFFICES ASSUME NEW f \in 1 .. new
               PROVE  /\ PointedAt(frames'[f].return_address) = None
                      /\ PendingAt(frames'[f].return_address) = OwnedBy(f - 1)'
    BY <1>1 DEF CallersOwn, PointedAt, PendingAt
  <2>1. CASE f = new
    <3>1. OwnedBy(f - 1)' = OwnedBy(callstack)
      <4>1. f - 1 \in 0 .. callstack /\ f - 1 = callstack
        BY <1>1, <1>3, <2>1
      <4> QED
        BY <1>5, <4>1
    <3> QED
      BY <1>1, <1>6, <2>1, <3>1
  <2>2. CASE f # new
    <3>1. f \in 1 .. callstack /\ frames'[f] = frames[f] /\ OwnedBy(f - 1)' = OwnedBy(f - 1)
      BY <1>1, <1>3, <1>5, <2>2
    <3> QED
      BY <3>1 DEF OwnInv, CallersOwn
  <2> QED
    BY <2>1, <2>2
<1>12. FramesRise'
  <2>1. ASSUME NEW f \in 1 .. new, NEW g \in f .. new
        PROVE  frames'[f].baseptr <= frames'[g].baseptr
    <3>1. baseptr \in Nat
      BY DEF OwnInv, ExactInv, StackInv
    <3>2. CASE f = new
      <4>1. g = new
        BY <1>0, <1>1, <3>2
      <4> QED
        BY <1>1, <3>1, <3>2, <4>1
    <3>3. CASE f # new /\ g = new
      <4>1. f \in 1 .. callstack /\ callstack > 0 /\ frames'[f] = frames[f]
        BY <1>1, <1>3, <3>3
      <4>2. /\ frames[f].baseptr <= frames[callstack].baseptr
            /\ frames[f].baseptr \in Nat /\ frames[callstack].baseptr \in Nat
            /\ frames[callstack].baseptr <= baseptr
        BY <4>1, FrameBounds
      <4> QED
        BY <1>1, <3>1, <3>3, <4>1, <4>2
    <3>4. CASE f # new /\ g # new
      <4>1. f \in 1 .. callstack /\ g \in f .. callstack /\ g \in 1 .. callstack
        BY <1>0, <1>1, <1>3, <3>4
      <4> QED
        BY <1>1, <1>3, <4>1 DEF OwnInv, FramesRise
    <3> QED
      BY <3>2, <3>3, <3>4
  <2>2. /\ frames'[1].baseptr = 0
        /\ (frames[1].ptr - ParametersOf(1) + ResultsOf(1)
              = Count(frames[1].return_address).operands)'
    <3>1. CASE callstack > 0
      <4>1. frames'[1] = frames[1]
        BY <1>1, <1>3, <3>1
      <4> QED
        BY <3>1, <4>1 DEF OwnInv, FramesRise, ParametersOf, ResultsOf, Count, Function
    <3>2. CASE callstack = 0
      <4>1. new = 1 /\ frames'[1].function = Arg /\ frames'[1].return_address = After
            /\ frames'[1].ptr = ptr /\ frames'[1].baseptr = baseptr
        BY <1>0, <1>1, <3>2
      <4>2. baseptr = 0 /\ ptr = Count(ip).operands
        BY <3>2 DEF OwnInv, FramesRise
      <4>3. /\ Needed = Function(Arg).parameters
            /\ Left = IF Function(Arg).returns THEN 1 ELSE 0
        BY <1>1 DEF Needed, Left, Needs, Leaves, Op, Arg, Function
      <4>4. Count(After) = MovedNow
        BY <1>1, InstructionFacts DEF OwnInv
      <4>5. /\ Count(ip).operands \in Nat /\ Count(ip).regions \in Nat /\ Count(ip).tries \in Nat
        BY InstructionFacts DEF OwnInv, ExactInv, StackInv, CodeInv, Counts
      <4>6. MovedNow.operands = Count(ip).operands - Needed + Left
        BY <1>1, <4>5, MovedFields DEF OwnInv
      <4>7. ParametersOf(1)' = Needed /\ ResultsOf(1)' = Left
        BY <4>1, <4>3 DEF ParametersOf, ResultsOf, Function
      <4>8. Count(frames[1].return_address)' = Count(After)
        BY <4>1 DEF Count
      <4> QED
        BY <4>1, <4>2, <4>4, <4>6, <4>7, <4>8
    <3> QED
      BY <1>1, <3>1, <3>2
  <2> QED
    BY <1>0, <1>1, <2>1, <2>2 DEF FramesRise
<1>13. traces' = IF unwinding' THEN 1 ELSE 0
  BY <1>1, <1>2 DEF OwnInv
<1>14. \E T : stack' \in Seq(T)
  BY <1>2 DEF OwnInv
<1> QED
  BY <1>8, <1>10, <1>11, <1>12, <1>13, <1>14 DEF OwnInv

(* A function with a result has it when it returns.                        *)
LEMMA HasResult ==
  ASSUME OwnInv, ReachInv, callstack > 0, Op = "Return", CurrentFunction.returns
  PROVE  Arg # "Void"
<1>1. /\ HomeOf(ip) = Runs(callstack) /\ callstack \in 1 .. callstack
      /\ ip \in Address /\ Runs(callstack) = frames[callstack].function
  BY DEF OwnInv, ExactInv, StackInv, CodeInv, Runs
<1>2. Delivers(Reached(bytecode), Raising(bytecode), bytecode)
  BY DEF OwnInv, Accounted
<1>3. frames[callstack].function + 1 \in DOMAIN bytecode.functions
  BY <1>1 DEF OwnInv, ExactInv, StackInv, CodeInv, FramesInCode
<1>4. frames[callstack].function \in Nat
  BY <1>1 DEF OwnInv, ExactInv
<1>5. ~Raises(Runs(callstack))
  <2>1. PICK g \in Nat : g = frames[callstack].function
    BY <1>4
  <2>2. g + 1 \in DOMAIN bytecode.functions /\ bytecode.functions[g + 1].returns
    BY <1>3, <2>1 DEF CurrentFunction, Function
  <2>3. g + 1 - 1 = g
    OBVIOUS
  <2>4. g \notin Raising(bytecode)
    BY <1>2, <2>2, <2>3 DEF Delivers
  <2> QED
    BY <1>1, <2>1, <2>4 DEF Raises
<1>6. Reaches(ip)
  BY <1>5 DEF ReachInv, OwnInv, ExactInv, TopExact
<1> QED
  BY <1>1, <1>2, <1>6 DEF Delivers, Reaches, CurrentFunction, Function, HomeOf, Op, Arg,
    Code, Address

(* A return writes nothing below the arguments that were passed.           *)
LEMMA ReturnKeeps ==
  ASSUME OwnInv, ReachInv, status = "running", Defined, callstack > 0, Op = "Return",
         ReturnStack
  PROVE  (\E T : stack' \in Seq(T)) /\ Same(frames[callstack].baseptr)
<1>1. PICK S : stack \in Seq(S)
  BY DEF OwnInv
<1>2. PICK low : low = frames[callstack].baseptr
  OBVIOUS
<1>3. /\ ptr \in Nat /\ baseptr \in Nat /\ low \in Nat
      /\ frames[callstack].ptr \in Nat /\ ParametersOf(callstack) \in Nat
      /\ CurrentFunction.variables \in Nat
      /\ low <= frames[callstack].ptr - ParametersOf(callstack)
      /\ baseptr = frames[callstack].ptr + CurrentFunction.variables
      /\ Runs(callstack) = frames[callstack].function
  BY <1>2, FrameBounds
<1>4. PICK p : p = ReturnPtr
  OBVIOUS
<1>5. p \in Nat /\ low <= p /\ low <= baseptr
  <2>1. p = frames[callstack].ptr - ParametersOf(callstack)
    BY <1>4 DEF ReturnPtr, ParametersOf, CurrentFunction
  <2> QED
    BY <1>3, <2>1
<1>6. CASE ~CurrentFunction.returns
  BY <1>1, <1>6 DEF ReturnStack, Same
<1>7. CASE CurrentFunction.returns
  <2>1. low < ptr
    <3>1. Arg # "Void"
      BY <1>7, HasResult
    <3>2. Needed = 1
      BY <3>1 DEF Needed, Needs, Op, Arg
    <3>3. Needed <= Depth(ip) /\ Depth(ip) \in Nat /\ ptr >= baseptr + Depth(ip)
      BY DepthFacts DEF OwnInv, ExactInv, StackInv, CodeInv
    <3> QED
      BY <1>3, <1>5, <3>2, <3>3
  <2>2. PICK s : s = Popped(1)
    OBVIOUS
  <2>3. /\ s \in Seq(S \union {Null}) /\ Len(s) = Len(stack)
        /\ \A k \in 1 .. Len(stack) : k <= ptr - 1 => s[k] = stack[k]
    BY <1>1, <1>3, <2>2, PoppedFacts
  <2>4. Room(s, p)
    BY <1>4, <1>7, <2>3 DEF Defined, Room
  <2>5. PICK t : t = Grown(s, p)
    OBVIOUS
  <2>6. PICK R0 : R0 = S \union {Null}
    OBVIOUS
  <2>7. s \in Seq(R0)
    BY <2>3, <2>6
  <2>8. /\ t \in Seq(R0 \union {Null}) /\ p + 1 \in 1 .. Len(t)
        /\ \A k \in 1 .. Len(s) : k \in 1 .. Len(t) /\ t[k] = s[k]
    BY <1>5, <2>4, <2>5, <2>7, GrownFacts
  <2>9. PICK v : v = Top(1)
    OBVIOUS
  <2>10. stack' = [t EXCEPT ![p + 1] = v]
    BY <1>4, <1>7, <2>2, <2>5, <2>9 DEF ReturnStack
  <2>11. PICK T : T = R0 \union {Null, v}
    OBVIOUS
  <2>12. t \in Seq(T) /\ v \in T
    BY <2>8, <2>11
  <2>13. /\ stack' \in Seq(T) /\ Len(stack') = Len(t)
         /\ \A k \in 1 .. Len(t) : k # p + 1 => stack'[k] = t[k]
    BY <2>8, <2>10, <2>12
  <2>14. Same(low)
    <3> SUFFICES ASSUME NEW k \in 1 .. Len(stack), k <= low
                 PROVE  k \in 1 .. Len(stack') /\ stack'[k] = stack[k]
      BY DEF Same
    <3>1. k <= ptr - 1 /\ k # p + 1
      BY <1>3, <1>5, <2>1
    <3>2. k \in 1 .. Len(t) /\ t[k] = s[k] /\ s[k] = stack[k]
      BY <2>3, <2>8, <3>1
    <3> QED
      BY <2>13, <3>1, <3>2
  <2> QED
    BY <1>2, <2>13, <2>14
<1> QED
  BY <1>6, <1>7

(* The handler of a frame is one of the function that runs in it. *)
LEMMA TryInCode ==
  ASSUME ExactInv, NEW f \in 1 .. callstack, except[f] # <<>>
  PROVE  CurrentTry(f) \in HandlersIn(bytecode, Runs(f))
<1>1. except[f] \in Seq(HandlersIn(bytecode, Runs(f)))
  <2>1. CASE f = 1
    <3>1. callstack > 0
      BY DEF ExactInv, StackInv, CodeInv
    <3> QED
      BY <2>1, <3>1 DEF ExactInv, HandlersExact, MainHandlers
  <2>2. CASE f # 1
    <3>1. f \in 2 .. callstack
      BY <2>2 DEF ExactInv, StackInv, CodeInv
    <3> QED
      BY <3>1 DEF ExactInv, HandlersExact
  <2> QED
    BY <2>1, <2>2
<1> QED
  BY <1>1 DEF CurrentTry

(* Wherever the caller goes on, its variables own what they own.           *)
LEMMA LandsOwn ==
  ASSUME OwnInv, ExactInv', ~Asserts, status = "running", bytecode' = bytecode,
         callstack > 0, Return \/ ReturnToHandler \/ ReturnUnwinding,
         NEW top, top = callstack, callstack' = top - 1, callstack \in Nat,
         frames' = frames
  PROVE  /\ PointedAt(ip') = None /\ PendingAt(ip') = OwnedBy(top - 1)
         /\ top = 1 => ip' = frames[top].return_address
<1>1. Op = "Return" /\ (unwinding => top > 1)
  BY DEF Return, ReturnToHandler, ReturnUnwinding, Asserts, Outlives
<1>2. top \in 1 .. callstack
  OBVIOUS
<1>3. CASE Return
  <2>1. ip' = frames[top].return_address
    BY <1>3 DEF Return
  <2> QED
    BY <1>2, <2>1 DEF OwnInv, CallersOwn
<1>4. CASE ReturnToHandler \/ ReturnUnwinding
  <2>1. unwinding /\ top > 1
    BY <1>1, <1>4 DEF ReturnToHandler, ReturnUnwinding
  <2>2. top - 1 \in 1 .. callstack /\ top - 1 # 0
    BY <2>1
  <2>3. HomeOf(ip') = Runs(top - 1)
    BY DEF ExactInv, HomeOf, Runs
  <2>4. ip' \in Entries(bytecode)
    <3>1. CASE ReturnToHandler
      <4>1. except[top - 1] # <<>> /\ ip' = CurrentTry(top - 1)
        BY <3>1 DEF ReturnToHandler
      <4>2. ip' \in HandlersIn(bytecode, Runs(top - 1))
        BY <2>2, <4>1, TryInCode DEF OwnInv
      <4> QED
        BY <4>2 DEF Entries, HandlersIn
    <3>2. CASE ReturnUnwinding
      <4>1. ip' = Function(frames[top - 1].function).finally
        BY <3>2 DEF ReturnUnwinding
      <4>2. frames[top - 1].function + 1 \in DOMAIN bytecode.functions
        BY <2>2 DEF OwnInv, ExactInv, StackInv, CodeInv, FramesInCode
      <4> QED
        BY <4>1, <4>2 DEF Entries, Function
    <3> QED
      BY <1>4, <3>1, <3>2
  <2>5. PointedAt(ip') = None /\ PendingAt(ip') = Owned(bytecode, HomeOf(ip'))
    BY <2>4, EntriesOwn
  <2> QED
    BY <2>1, <2>3, <2>5 DEF OwnedBy
<1> QED
  BY <1>3, <1>4

(* A function returns when its variables own nothing any more; its result  *)
(* goes to a region of the caller, whose variables own what they owned.    *)
LEMMA ReturnsOwn ==
  ASSUME OwnInv, ReachInv, ExactInv', RP!TypeOK, Defined, ~Asserts, status = "running",
         bytecode' = bytecode, callstack > 0,
         Return \/ ReturnToHandler \/ ReturnUnwinding
  PROVE  OwnInv'
<1>0. PICK top : top = callstack
  OBVIOUS
<1>00. PICK low : low = frames[top].baseptr
  OBVIOUS
<1>1. /\ Op = "Return" /\ ReturnRegions /\ ReturnStack /\ except' = except
  BY DEF Return, ReturnToHandler, ReturnUnwinding, KeepExcept, exceptVars
<1>2. /\ top \in 1 .. callstack /\ callstack' = top - 1
      /\ callstack \in Nat /\ frames' = frames
      /\ ptr' = frames[top].ptr - ParametersOf(top) + ResultsOf(top)
      /\ baseptr' = low
  <2>1. ExactInv /\ StackInv'
    BY DEF OwnInv, ExactInv
  <2> QED
    BY <1>0, <1>00, <1>1, <2>1, ReturnFacts
<1>3. /\ PointedAt(ip') = None /\ PendingAt(ip') = OwnedBy(top - 1)
      /\ top = 1 => ip' = frames[top].return_address
  BY <1>0, <1>2, LandsOwn
<1>4. (\E T : stack' \in Seq(T)) /\ Same(low)
  BY <1>0, <1>00, <1>1, ReturnKeeps
<1>5. /\ PendingAt(ip) = {} /\ (Arg \in Boxed <=> Carries(ip))
      /\ CarriedIndex = ptr
  BY <1>1, AccountFacts DEF CarriedIndex, Uses, BoxStores, BoxFrees
<1>6. ptr \in Nat
  BY DEF OwnInv, ExactInv, StackInv
<1>7. ASSUME NEW c \in held'
      PROVE  OwnedBelow(c)
  <2>1. c \in held
    BY <1>1 DEF ReturnRegions, R!Return
  <2>2. CarriedHere(c) \/ OwnedHere(c) \/ OwnedBelow(c)
    BY <2>1 DEF OwnInv, HasOwner
  <2>3. ~OwnedHere(c)
    BY <1>5 DEF OwnedHere
  <2>4. ASSUME CarriedHere(c)
        PROVE  FALSE
    <3>1. Arg \in Boxed /\ stack[ptr] = Ref(c)
      BY <1>5, <2>4 DEF CarriedHere, In
    <3>2. PICK b \in Block : Top(1) = Ref(b) /\ R!Return(b)
      BY <1>1, <3>1 DEF ReturnRegions
    <3>3. held' = held \ {b}
      BY <3>2, VirtualMachineAssumption DEF R!Return
    <3>4. ptr - 1 + 1 = ptr
      BY <1>6
    <3>5. Ref(b) = Ref(c)
      BY <3>1, <3>2, <3>4 DEF Top
    <3> QED
      BY <1>7, <3>3, <3>5 DEF Ref
  <2> QED
    BY <2>2, <2>3, <2>4
<1>8. \A f : OwnedBy(f)' = OwnedBy(f)
  BY <1>2 DEF OwnedBy, Runs
<1>9. ASSUME NEW c \in held'
      PROVE  (OwnedHere(c) \/ OwnedBelow(c))'
  <2>1. PICK f \in 2 .. callstack : \E i \in OwnedBy(f - 1) : In(frames[f].baseptr - i, c)
    BY <1>7, <1>9 DEF OwnedBelow
  <2>2. PICK i \in OwnedBy(f - 1) : In(frames[f].baseptr - i, c)
    BY <2>1
  <2>3. i \in Nat
    BY OwnedRange DEF OwnedBy
  <2>4. frames[f].baseptr \in Nat /\ low \in Nat /\ frames[f].baseptr <= low
    BY <1>0, <1>00, FrameBounds
  <2>5. PICK k : k = frames[f].baseptr - i
    OBVIOUS
  <2>6. In(k, c)'
    BY <1>4, <2>2, <2>3, <2>4, <2>5 DEF In, Same, Ref
  <2>7. CASE f = top
    <3>1. i \in PendingAt(ip)' /\ k = low - i /\ callstack' > 0
      BY <1>0, <1>00, <1>2, <1>3, <2>1, <2>2, <2>5, <2>7 DEF PendingAt
    <3> QED
      BY <1>2, <2>6, <3>1 DEF OwnedHere
  <2>8. CASE f # top
    <3>1. f \in 2 .. callstack'
      BY <1>0, <1>2, <2>1, <2>8
    <3>2. i \in OwnedBy(f - 1)' /\ k = frames'[f].baseptr - i
      BY <1>2, <1>8, <2>2, <2>5
    <3> QED
      BY <2>6, <3>1, <3>2 DEF OwnedBelow
  <2> QED
    BY <2>7, <2>8
<1>10. HasOwner'
  BY <1>9 DEF HasOwner
<1>11. PointsTo'
  BY <1>3, NothingPointed
<1>12. CallersOwn'
  <2>1. \A f \in 1 .. callstack' : f \in 1 .. callstack
    BY <1>0, <1>2
  <2> QED
    BY <1>2, <1>8, <2>1 DEF OwnInv, CallersOwn, PointedAt, PendingAt
<1>13. FramesRise'
  <2>1. /\ \A f \in 1 .. top - 1 : f \in 1 .. callstack
        /\ \A f, g \in Nat : f >= 1 /\ g \in f .. top - 1 => g \in f .. callstack
    BY <1>0, <1>2
  <2>2. \A f \in 1 .. top - 1 : \A g \in f .. top - 1 :
          frames[f].baseptr <= frames[g].baseptr
    BY <1>0, <1>2 DEF OwnInv, FramesRise
  <2>3. /\ frames[1].baseptr = 0
        /\ frames[1].ptr - ParametersOf(1) + ResultsOf(1)
             = Count(frames[1].return_address).operands
    BY DEF OwnInv, FramesRise
  <2>4. /\ ParametersOf(1)' = ParametersOf(1) /\ ResultsOf(1)' = ResultsOf(1)
        /\ Count(frames[1].return_address)' = Count(frames[1].return_address)
    BY <1>2 DEF ParametersOf, ResultsOf, Function, Count
  <2>5. ASSUME top = 1
        PROVE  baseptr' = 0 /\ ptr' = Count(ip)'.operands
    <3>1. Count(ip)' = Count(frames[1].return_address)
      BY <1>3, <2>5 DEF Count
    <3> QED
      BY <1>00, <1>2, <2>3, <2>5, <3>1
  <2>6. callstack' = 0 => top = 1
    BY <1>0, <1>2
  <2> QED
    BY <1>2, <2>2, <2>3, <2>4, <2>5, <2>6 DEF FramesRise
<1>14. traces' = IF unwinding' THEN 1 ELSE 0
  BY DEF Return, ReturnToHandler, ReturnUnwinding, KeepExcept, exceptVars, OwnInv
<1> QED
  BY <1>4, <1>10, <1>11, <1>12, <1>13, <1>14 DEF OwnInv

LEMMA InitOwn ==
  ASSUME Init, \A i \in 1 .. Len(Images) : Disciplined(Images[i]) /\ Accounted(Images[i])
  PROVE  OwnInv
<1>1. ExactInv
  BY InitExact
<1>2. PICK i \in 1 .. Len(Images) : bytecode = Images[i]
  BY DEF Init
<1>3. Accounted(bytecode)
  BY <1>2
<1>4. /\ stack = <<>> /\ callstack = 0 /\ held = {} /\ ip = 0 /\ ptr = 0 /\ baseptr = 0
      /\ unwinding = FALSE /\ traces = 0
  BY DEF Init, R!Init
<1>5. stack \in Seq({})
  BY <1>4
<1>6. HasOwner /\ PointsTo
  BY <1>4 DEF HasOwner, PointsTo
<1>7. Count(ip).operands = 0
  BY <1>1, <1>4 DEF ExactInv, Disciplined, Agrees, Count, AtStart
<1>8. 1 .. callstack = {} /\ ~(callstack > 0)
  BY <1>4
<1>9. FramesRise /\ CallersOwn
  BY <1>4, <1>7, <1>8 DEF FramesRise, CallersOwn
<1> QED
  BY <1>1, <1>3, <1>4, <1>5, <1>6, <1>9 DEF OwnInv

(* Steps that change none of what the invariant is about. *)
LEMMA StaysOwn ==
  ASSUME OwnInv, ExactInv',
         UNCHANGED <<bytecode, callstack, frames, ptr, baseptr, stack, held, unwinding,
                     traces, ip>>,
         status' = "running" => status = "running"
  PROVE  OwnInv'
<1>1. HasOwner'
  BY DEF OwnInv, HasOwner, CarriedHere, OwnedHere, OwnedBelow, OwnedBy, PendingAt, Carries,
    CarriedIndex, In, Ref, Runs, Op, Code
<1>2. PointsTo'
  BY DEF OwnInv, PointsTo, PointedAt, Top, VariableSlot
<1>3. FramesRise'
  BY DEF OwnInv, FramesRise, Count, ParametersOf, ResultsOf, Function
<1>4. CallersOwn'
  BY DEF OwnInv, CallersOwn, PointedAt, PendingAt, OwnedBy, Runs
<1> QED
  BY <1>1, <1>2, <1>3, <1>4 DEF OwnInv

LEMMA StraightOwn ==
  ASSUME OwnInv, ExactInv', RP!TypeOK, status = "running", Defined, callstack > 0,
         bytecode' = bytecode, Straight
  PROVE  OwnInv'
<1>1. CASE Plain
  BY <1>1, PlainOwn
<1>2. CASE StoreValue \/ StoreInteger
  BY <1>2, StoresOwn
<1>3. CASE FreeInteger
  BY <1>3, FreeOwn
<1>4. CASE LoadValue
  BY <1>4, LoadValueOwn
<1>5. CASE LoadVariablePointer
  BY <1>5, LoadPointerOwn
<1>6. CASE UnTrack
  BY <1>6, UnTrackOwn
<1>7. CASE Create /\ ~Tracks
  BY <1>7, CreateOwn
<1> QED
  BY <1>1, <1>2, <1>3, <1>4, <1>5, <1>6, <1>7 DEF Straight, Plain

LEMMA NextOwn ==
  ASSUME OwnInv, ReachInv, RP!TypeOK, RP!TypeOK', [Next]_vars
  PROVE  OwnInv'
<1>1. ExactInv'
  BY NextExact DEF OwnInv
<1>2. CASE UNCHANGED vars
  BY <1>1, <1>2, StaysOwn DEF vars, stackVars, regionVars, exceptVars
<1>3. CASE Stopped
  BY <1>2, <1>3 DEF Stopped
<1>4. CASE status = "running" /\ Stop
  <2>1. UNCHANGED <<bytecode, callstack, frames, ptr, baseptr, stack, held, unwinding,
                    traces, ip>>
    BY <1>4 DEF Stop, stackVars, regionVars, exceptVars
  <2> QED
    BY <1>1, <1>4, <2>1, StaysOwn
<1>5. CASE status = "running" /\ Proceeds /\ Step /\ UNCHANGED bytecode
  <2>1. ~Asserts /\ Defined
    BY <1>5 DEF Proceeds
  <2>2. CASE Halt
    <3>1. UNCHANGED <<callstack, frames, ptr, baseptr, stack, held, unwinding, traces, ip>>
      BY <2>2 DEF Halt, KeepRegions, KeepStack, KeepExcept, stackVars, regionVars,
        exceptVars
    <3> QED
      BY <1>1, <1>5, <3>1, StaysOwn
  <2>3. CASE CallFunction
    BY <1>1, <1>5, <2>1, <2>3, CallOwn
  <2>4. CASE ~Halt /\ ~CallFunction
    <3>1. Op \notin {"CallFunction", "Halt"}
      <4>1. (\/ Goto \/ GotoIfFalse \/ RaiseException \/ PushTry \/ PopTry
             \/ Return \/ ReturnToHandler \/ ReturnUnwinding)
            => Op \notin {"CallFunction", "Halt"}
        BY DEF Goto, GotoIfFalse, RaiseException, PushTry, PopTry, Return,
          ReturnToHandler, ReturnUnwinding
      <4>2. Straight => Op \notin {"CallFunction", "Halt"}
        BY StraightCalls
      <4> QED
        BY <1>5, <2>4, <4>1, <4>2 DEF Step, Straight
    <3>2. callstack > 0
      BY <2>1, <3>1 DEF Asserts, OwnInv, ExactInv, StackInv, CodeInv
    <3>3. CASE Straight
      BY <1>1, <1>5, <2>1, <3>2, <3>3, StraightOwn
    <3>4. CASE Goto \/ GotoIfFalse
      BY <1>1, <1>5, <2>1, <3>2, <3>4, JumpsOwn
    <3>5. CASE RaiseException
      BY <1>1, <1>5, <2>1, <3>2, <3>5, RaiseOwn
    <3>6. CASE PushTry \/ PopTry
      BY <1>1, <1>5, <2>1, <3>2, <3>6, TriesOwn
    <3>7. CASE Return \/ ReturnToHandler \/ ReturnUnwinding
      BY <1>1, <1>5, <2>1, <3>2, <3>7, ReturnsOwn
    <3> QED
      BY <1>5, <2>4, <3>3, <3>4, <3>5, <3>6, <3>7 DEF Step, Straight
  <2> QED
    BY <2>2, <2>3, <2>4
<1> QED
  BY <1>2, <1>3, <1>4, <1>5 DEF Next, Execute

(* The ways through the code. *)
LEMMA ReachFacts ==
  ASSUME OwnInv
  PROVE  /\ Reaches(0)
         /\ \A f \in DOMAIN bytecode.functions : Reaches(bytecode.functions[f].address)
         /\ Op \in {"Goto", "GotoIfFalse"} => Reaches(Arg)
         /\ Reaches(ip) /\ Op \notin {"Goto", "Return", "Halt"} => Reaches(After)
         /\ \A g : \A h \in HandlersIn(bytecode, g) : Reaches(h)
<1>1. Delivers(Reached(bytecode), Raising(bytecode), bytecode)
  BY DEF OwnInv, Accounted
<1>2. ip \in DOMAIN bytecode.code
  BY DEF OwnInv, ExactInv, StackInv, CodeInv, Address, Code
<1>3. \A g : \A h \in HandlersIn(bytecode, g) : Reaches(h)
  BY <1>1 DEF Delivers, HandlersIn, Reaches
<1> QED
  BY <1>1, <1>2, <1>3 DEF Delivers, Reaches, Op, Arg, After, Code

LEMMA NextReach ==
  ASSUME OwnInv, ReachInv, RP!TypeOK, RP!TypeOK', [Next]_vars
  PROVE  ReachInv'
<1>1. ASSUME UNCHANGED <<bytecode, callstack, frames>>,
             ~unwinding' => ~unwinding /\ (Reaches(ip) => Reaches(ip'))
      PROVE  ReachInv'
  BY <1>1 DEF ReachInv, Reaches
<1>2. ASSUME UNCHANGED <<bytecode, callstack, frames, unwinding, ip>>
      PROVE  ReachInv'
  BY <1>1, <1>2
<1>3. CASE UNCHANGED vars \/ Stopped \/ Stop
  BY <1>2, <1>3 DEF vars, Stopped, Stop, stackVars, regionVars, exceptVars
<1>4. CASE status = "running" /\ Proceeds /\ Step /\ UNCHANGED bytecode
  <2> USE <1>4
  <2>1. ~Asserts
    BY DEF Proceeds
  <2>2. CASE Halt
    BY <1>2, <2>2 DEF Halt, KeepRegions, KeepStack, KeepExcept, stackVars, regionVars,
      exceptVars
  <2>3. CASE Straight
    <3>1. /\ Op \notin {"Goto", "Return", "Halt"} /\ UNCHANGED <<callstack, frames>>
          /\ UNCHANGED unwinding
      <4>1. UNCHANGED unwinding
        BY <2>3 DEF Straight, Skip, Assert, PushRegion, PopRegion, StoreValue,
          StoreInteger, FreeInteger, LoadValue, LoadArgument, LoadVariablePointer,
          UnTrack, Logic, Create, CreateFloat, Compare, PrintValue, KeepExcept,
          exceptVars
      <4> QED
        BY <2>3, <4>1, StraightSteps
    <3>2. ip' = After \/ ip' = ip
      BY <2>3 DEF Straight, Skip, Assert, PushRegion, PopRegion, StoreValue,
        StoreInteger, FreeInteger, LoadValue, LoadArgument, LoadVariablePointer,
        UnTrack, Logic, Create, CreateFloat, Compare, PrintValue, Continue
    <3> QED
      BY <1>1, <3>1, <3>2, ReachFacts
  <2>4. CASE Goto \/ GotoIfFalse \/ PushTry \/ PopTry
    <3>1. /\ Op \in {"Goto", "GotoIfFalse", "PushTry", "PopTry"}
          /\ UNCHANGED <<callstack, frames, unwinding>>
          /\ \/ ip' = After /\ Op # "Goto"
             \/ ip' = Arg /\ Op \in {"Goto", "GotoIfFalse"}
      BY <2>4 DEF Goto, GotoIfFalse, PushTry, PopTry, Continue, Pop, KeepRegions,
        KeepStack, KeepExcept, regionVars, stackVars, exceptVars
    <3> QED
      BY <1>1, <3>1, ReachFacts
  <2>5. CASE RaiseException
    <3>1. /\ Op = "RaiseException" /\ UNCHANGED <<callstack, frames>>
          /\ \/ except[callstack] # <<>> /\ ip' = CurrentTry(callstack) /\ unwinding' = unwinding
             \/ unwinding' = TRUE
      BY <2>5 DEF RaiseException, Replace, KeepRegions, regionVars
    <3>2. CASE unwinding' = TRUE
      BY <1>1, <3>1, <3>2
    <3>3. CASE except[callstack] # <<>> /\ ip' = CurrentTry(callstack) /\ unwinding' = unwinding
      <4>1. callstack \in 1 .. callstack
        BY <2>1, <3>1 DEF Asserts, OwnInv, ExactInv, StackInv, CodeInv
      <4>2. Reaches(ip')
        BY <3>3, <4>1, TryInCode, ReachFacts DEF OwnInv
      <4> QED
        BY <1>1, <3>1, <3>3, <4>2
    <3> QED
      BY <3>1, <3>2, <3>3
  <2>6. CASE CallFunction
    <3>0. PICK new : new = callstack + 1
      OBVIOUS
    <3>1. ExactInv /\ ExactInv' /\ StackInv'
      BY NextExact DEF OwnInv, ExactInv
    <3>2. /\ new \in Frame /\ callstack' = new /\ callstack \in Nat
          /\ frames'[new].return_address = After
          /\ \A f \in Frame : f # new => frames'[f] = frames[f]
          /\ ip' = Function(Arg).address
          /\ UNCHANGED unwinding /\ Op = "CallFunction"
          /\ Arg + 1 \in DOMAIN bytecode.functions
      BY <2>6, <3>0, <3>1, CallFacts
    <3>3. Reaches(ip') /\ Reaches(After)
      <4>1. ~unwinding
        BY <3>1, <3>2, UnwindingLeaves DEF Leaving
      <4> QED
        BY <3>2, <4>1, ReachFacts DEF ReachInv, Function
    <3>4. ASSUME NEW f \in 1 .. new
          PROVE  Reaches(frames'[f].return_address)
      <4>1. f # new => f \in 1 .. callstack /\ f \in Frame
        BY <3>0, <3>2, VirtualMachineAssumption DEF Frame
      <4> QED
        BY <3>2, <3>3, <4>1 DEF ReachInv
    <3> QED
      BY <3>2, <3>3, <3>4 DEF ReachInv, Reaches
  <2>7. CASE Return \/ ReturnToHandler \/ ReturnUnwinding
    <3>0. PICK top : top = callstack
      OBVIOUS
    <3>1. callstack' = top - 1 /\ frames' = frames /\ Op = "Return"
      BY <2>7, <3>0 DEF Return, ReturnToHandler, ReturnUnwinding, ReturnRegions, R!Return,
        ReturnStack
    <3>2. callstack > 0 /\ callstack \in Nat /\ (unwinding => top > 1)
      BY <2>1, <3>0, <3>1 DEF Asserts, Outlives, OwnInv, ExactInv, StackInv, CodeInv
    <3>3. ~unwinding' => Reaches(ip')
      <4>1. CASE Return
        <5>1. ip' = frames[top].return_address /\ top \in 1 .. callstack
          BY <3>0, <3>2, <4>1 DEF Return
        <5> QED
          BY <5>1 DEF ReachInv
      <4>2. CASE ReturnToHandler
        <5>1. unwinding /\ except[top - 1] # <<>> /\ ip' = CurrentTry(top - 1)
          BY <3>0, <4>2 DEF ReturnToHandler
        <5>2. top - 1 \in 1 .. callstack
          BY <3>0, <3>2, <5>1
        <5> QED
          BY <5>1, <5>2, TryInCode, ReachFacts DEF OwnInv
      <4>3. CASE ReturnUnwinding
        BY <4>3 DEF ReturnUnwinding, KeepExcept, exceptVars
      <4> QED
        BY <2>7, <4>1, <4>2, <4>3
    <3>4. \A f \in 1 .. callstack' : f \in 1 .. callstack
      BY <3>0, <3>1, <3>2
    <3> QED
      BY <3>1, <3>3, <3>4 DEF ReachInv, Reaches
  <2> QED
    BY <2>2, <2>3, <2>4, <2>5, <2>6, <2>7 DEF Step, Straight
<1> QED
  BY <1>3, <1>4 DEF Next, Execute

(* Only OP_Halt halts. *)
LEMMA NextHalted ==
  ASSUME status = "halted" => Op = "Halt", [Next]_vars
  PROVE  status' = "halted" => Op' = "Halt"
<1>1. CASE UNCHANGED vars \/ Stopped
  BY <1>1 DEF Stopped, vars, Op, Code
<1>2. CASE Stop
  BY <1>2 DEF Stop
<1>3. CASE status = "running" /\ Step /\ UNCHANGED bytecode
  <2>1. CASE Halt
    BY <1>3, <2>1 DEF Halt, Op, Code
  <2>2. CASE ~Halt
    BY <1>3, <2>2 DEF Step, Skip, Assert, PushTry, PopTry, RaiseException,
      PushRegion, PopRegion, StoreValue, StoreInteger, FreeInteger, LoadValue,
      LoadArgument, LoadVariablePointer, UnTrack, CallFunction, Return,
      ReturnToHandler, ReturnUnwinding, Goto, GotoIfFalse, Logic, Create,
      CreateFloat, Compare, PrintValue, Continue
  <2> QED
    BY <2>1, <2>2
<1> QED
  BY <1>1, <1>2, <1>3 DEF Next, Execute

(* Where nothing is left to do, every block that was allocated has been     *)
(* freed: by the region it was in, or with the variable that owned it,      *)
(* whatever was assigned, returned, raised and caught before.              *)
THEOREM EverythingIsFreed ==
  ASSUME \A i \in 1 .. Len(Images) : Disciplined(Images[i]) /\ Accounted(Images[i])
  PROVE  Spec => []NothingLeaks
<1>1. ASSUME OwnInv, RP!SingleOwner, RP!CleanFrames, status = "halted" => Op = "Halt"
      PROVE  NothingLeaks
  <2> SUFFICES ASSUME status = "halted"
               PROVE  live = {} /\ callstack = 0 /\ traces = 0 /\ ptr = 0
    BY DEF NothingLeaks
  <2> USE <1>1
  <2>1. ip \in Address /\ callstack \in Nat
    BY DEF OwnInv, ExactInv, StackInv, CodeInv
  <2>2. HomeOf(ip) = -1 /\ Count(ip).operands = 0
    BY <2>1 DEF OwnInv, ExactInv, Disciplined, Agrees, Count, HomeOf, Op, Code, Address
  <2>3. callstack = 0
    <3> SUFFICES ASSUME callstack # 0 PROVE FALSE
      OBVIOUS
    <3>1. callstack \in 1 .. callstack
      BY <2>1
    <3>2. Runs(callstack) \in Nat /\ HomeOf(ip) = Runs(callstack)
      BY <3>1 DEF OwnInv, ExactInv
    <3> QED
      BY <2>2, <3>2
  <2>4. ptr = 0
    BY <2>2, <2>3 DEF OwnInv, FramesRise
  <2>5. traces = 0
    BY <2>3 DEF OwnInv, ExactInv, TopExact
  <2>6. held = {}
    <3> SUFFICES ASSUME NEW b \in held PROVE FALSE
      OBVIOUS
    <3>1. ~Carries(ip)
      BY AccountFacts DEF BoxFrees
    <3>2. 2 .. callstack = {} /\ ~(callstack > 0)
      BY <2>3
    <3> QED
      BY <3>1, <3>2 DEF OwnInv, HasOwner, CarriedHere, OwnedHere, OwnedBelow
  <2>7. \A f \in RP!Frame : RP!Tracked(f) = {}
    <3> SUFFICES ASSUME NEW f \in RP!Frame PROVE RP!Tracked(f) = {}
      OBVIOUS
    <3>1. f > callstack
      BY <2>3 DEF RP!Frame
    <3>2. region[f] = <<>>
      BY <3>1 DEF RP!CleanFrames
    <3> QED
      BY <3>2 DEF RP!Tracked, RP!Elements
  <2>8. live = {}
    BY <2>6, <2>7 DEF RP!SingleOwner
  <2> QED
    BY <2>3, <2>4, <2>5, <2>8
<1>2. Init => OwnInv /\ ReachInv
  <2>1. ASSUME Init
        PROVE  ReachInv
    <3>1. OwnInv /\ ip = 0 /\ callstack = 0
      BY <2>1, InitOwn DEF Init, R!Init
    <3> QED
      BY <3>1, ReachFacts DEF ReachInv
  <2> QED
    BY <2>1, InitOwn
<1>3. OwnInv /\ ReachInv /\ RP!TypeOK /\ RP!TypeOK' /\ [Next]_vars => OwnInv' /\ ReachInv'
  BY NextOwn, NextReach
<1>4. RP!Spec => []RP!TypeOK /\ []RP!SingleOwner /\ []RP!CleanFrames
  BY RP!TypeCorrect, RP!OneOwner, RP!FramesReusable, RegionsAssumed
<1>5. Init => RP!Init
  BY InitRegions, SameInit
<1>6. [Next]_vars => [RP!Next]_(RP!regionVars)
  BY StepRegions, SameSteps DEF RP!regionVars, regionVars
<1>7. DEFINE Halts == status = "halted" => Op = "Halt"
<1>8. Init => Halts
  BY DEF Init
<1>9. Halts /\ [Next]_vars => Halts'
  BY NextHalted
<1>10. OwnInv /\ RP!SingleOwner /\ RP!CleanFrames /\ Halts => NothingLeaks
  BY <1>1
<1> HIDE DEF Halts
<1> QED
  BY <1>2, <1>3, <1>4, <1>5, <1>6, <1>8, <1>9, <1>10, PTL DEF Spec, RP!Spec

------------------------------------------------------------------------------
(* What is left behind in a frame.  A variable that is no longer pending   *)
(* has no block, unless it has the one that is returned.                   *)

Freed(i) ==
  LET k == baseptr - i
  IN  /\ k \in 1 .. Len(stack)
      /\ stack[k][1] = "block" /\ stack[k][2] \in held =>
           /\ Carries(ip) /\ CarriedIndex \in 1 .. Len(stack)
           /\ stack[CarriedIndex] = stack[k]

FreedInv ==
  status = "running" /\ callstack > 0 => \A i \in OwnedBy(callstack) \ PendingAt(ip) : Freed(i)

(* Where all variables are pending there is nothing to say. *)
LEMMA AllPending ==
  ASSUME ExactInv', bytecode' = bytecode, PendingAt(ip') = Owned(bytecode, HomeOf(ip'))
  PROVE  FreedInv'
<1>1. HomeOf(ip)' = Runs(callstack)'
  BY DEF ExactInv
<1>2. OwnedBy(callstack)' = PendingAt(ip)'
  BY <1>1 DEF OwnedBy, PendingAt, HomeOf
<1> QED
  BY <1>2 DEF FreedInv

(* What a step does not touch it does not bring back. *)
LEMMA FreedStays ==
  ASSUME OwnInv, callstack > 0, UNCHANGED <<bytecode, callstack, frames, baseptr>>,
         held' \subseteq held, Same(baseptr),
         Carries(ip) => /\ Carries(ip') /\ Same(CarriedIndex)
                        /\ CarriedIndex' = CarriedIndex,
         NEW i \in OwnedBy(callstack), Freed(i)
  PROVE  Freed(i)'
<1>1. i \in Nat /\ baseptr \in Nat
  BY OwnedRange, FrameBounds DEF OwnedBy
<1>2. PICK k : k = baseptr - i
  OBVIOUS
<1>3. /\ k \in 1 .. Len(stack) /\ k <= baseptr
      /\ stack[k][1] = "block" /\ stack[k][2] \in held =>
           /\ Carries(ip) /\ CarriedIndex \in 1 .. Len(stack)
           /\ stack[CarriedIndex] = stack[k]
  BY <1>1, <1>2 DEF Freed
<1>4. k \in 1 .. Len(stack') /\ stack'[k] = stack[k]
  BY <1>3 DEF Same
<1>5. ASSUME stack[k][1] = "block", stack[k][2] \in held'
      PROVE  /\ Carries(ip)' /\ CarriedIndex' \in 1 .. Len(stack')
             /\ stack'[CarriedIndex'] = stack'[k]
  <2>1. PICK c : c = CarriedIndex
    OBVIOUS
  <2>2. Carries(ip) /\ c \in 1 .. Len(stack) /\ stack[c] = stack[k]
    BY <1>3, <1>5, <2>1
  <2>3. Carries(ip)' /\ CarriedIndex' = c /\ Same(c)
    BY <2>1, <2>2 DEF Carries
  <2>4. c \in 1 .. Len(stack') /\ stack'[c] = stack[c]
    BY <2>2, <2>3 DEF Same
  <2> QED
    BY <1>4, <2>2, <2>3, <2>4
<1>6. baseptr' - i = k
  BY <1>2
<1> QED
  BY <1>4, <1>5, <1>6 DEF Freed

LEMMA FreedKept ==
  ASSUME OwnInv, FreedInv, status = "running", callstack > 0,
         UNCHANGED <<bytecode, callstack, frames, baseptr>>,
         held' \subseteq held, Same(baseptr), PendingAt(ip) \subseteq PendingAt(ip'),
         Carries(ip) => /\ Carries(ip') /\ Same(CarriedIndex)
                        /\ CarriedIndex' = CarriedIndex
  PROVE  FreedInv'
<1>1. OwnedBy(callstack)' = OwnedBy(callstack)
  BY DEF OwnedBy, Runs
<1>2. PendingAt(ip') = PendingAt(ip)'
  BY DEF PendingAt
<1>3. ASSUME NEW i \in OwnedBy(callstack)' \ PendingAt(ip)'
      PROVE  Freed(i)'
  <2>1. i \in OwnedBy(callstack) /\ i \notin PendingAt(ip)
    BY <1>1, <1>2
  <2>2. Freed(i)
    BY <2>1 DEF FreedInv
  <2> QED
    BY <2>1, <2>2, FreedStays
<1> QED
  BY <1>3 DEF FreedInv

LEMMA InitFreed ==
  ASSUME Init
  PROVE  FreedInv
BY DEF Init, R!Init, FreedInv

LEMMA PointerFreed ==
  ASSUME OwnInv, FreedInv, status = "running", Defined, callstack > 0,
         bytecode' = bytecode, LoadVariablePointer
  PROVE  FreedInv'
<1>1. Op = "LoadVariablePointer" /\ ip' = After /\ ptr' = ptr - 0 + 1
  BY DEF LoadVariablePointer, Continue, Replace
<1>2. UNCHANGED <<callstack, frames, baseptr, held>>
  BY DEF LoadVariablePointer, Replace, KeepRegions, regionVars
<1>3. Same(ptr - Needed)
  BY OperandsOnly DEF Straight, LoadVariablePointer, StoreValue, StoreInteger
<1>4. ptr \in Nat
  BY DEF OwnInv, ExactInv, StackInv
<1>5. PendingAt(ip) \subseteq PendingAt(ip')
  BY <1>1, AccountFacts DEF BoxFrees
<1>6. ASSUME Carries(ip)
      PROVE  Carries(ip') /\ Same(CarriedIndex) /\ CarriedIndex' = CarriedIndex
  <2>1. Carries(After) /\ Code[After].op \in BoxFrees
    BY <1>1, <1>6, AccountFacts
  <2>2. CarriedIndex = ptr
    BY <1>1 DEF CarriedIndex, Uses, BoxStores, BoxFrees
  <2>3. CarriedIndex' = ptr' - 1
    BY <1>1, <2>1 DEF CarriedIndex, Op, Code, Uses
  <2>4. Needed = 0
    <3>1. Op \in PopNone
      BY <1>1, PushCounts DEF PopNone
    <3> QED
      BY <1>1, <3>1, PopCounts, NeedsPops
  <2> QED
    BY <1>1, <1>3, <1>4, <2>1, <2>2, <2>3, <2>4
<1> QED
  BY <1>2, <1>3, <1>5, <1>6, BaseStays, FreedKept

(* The free itself. *)
LEMMA ReleaseFreed ==
  ASSUME OwnInv, FreedInv, status = "running", Defined, callstack > 0,
         bytecode' = bytecode, FreeInteger
  PROVE  FreedInv'
<1>1. Op \in BoxFrees /\ ip' = After /\ ptr' = ptr - 1
  BY DEF FreeInteger, Continue, BoxFrees, Pop
<1>2. UNCHANGED <<callstack, frames, baseptr>>
  BY DEF FreeInteger, Pop, KeepRegions, regionVars, R!Release
<1>3. Same(ptr - Needed)
  BY <1>1, OperandsOnly DEF Straight, FreeInteger, StoreValue, StoreInteger, BoxFrees
<1>4. Same(baseptr)
  BY <1>3, BaseStays
<1>5. /\ PointedAt(After) = None
      /\ PendingAt(ip) \ {PointedAt(ip)} \subseteq PendingAt(After)
      /\ Carries(ip) => Carries(After)
  BY <1>1, AccountFacts DEF BoxFrees
<1>6. Op \in Uses
  BY <1>1 DEF Uses
<1>7. PICK k : k = baseptr - PointedAt(ip)
  OBVIOUS
<1>8. /\ PointedAt(ip) \in Nat /\ k \in 1 .. Len(stack)
      /\ Top(1)[2] + 1 = k
  BY <1>6, <1>7, PointedSlot
<1>9. held' \subseteq held /\ ~(stack[k][1] = "block" /\ stack[k][2] \in held')
  <2>1. OldValue(Top(1)) = stack[k]
    BY <1>8 DEF OldValue
  <2>2. CASE OldValue(Top(1)) = Null /\ KeepRegions
    <3>1. stack[k][1] = "null"
      BY <2>1, <2>2 DEF Null
    <3> QED
      BY <2>2, <3>1 DEF KeepRegions, regionVars
  <2>3. CASE \E b \in Block : OldValue(Top(1)) = Ref(b) /\ R!Release(b)
    <3>1. PICK b \in Block : OldValue(Top(1)) = Ref(b) /\ held' = held \ {b}
      BY <2>3 DEF R!Release
    <3>2. stack[k][2] = b
      BY <2>1, <3>1 DEF Ref
    <3> QED
      BY <3>1, <3>2
  <2> QED
    BY <2>2, <2>3 DEF FreeInteger
<1>10. ptr \in Nat /\ baseptr \in Nat /\ After \in Address
  BY <1>1, NextInCode DEF OwnInv, ExactInv, StackInv, BoxFrees
<1>11. CarriedIndex = ptr - 1 /\ CarriedIndex' = ptr - 1
  <2>1. CarriedIndex' = ptr'
    BY <1>1, <1>5, <1>10, UsedNot
  <2> QED
    BY <1>1, <1>6, <2>1 DEF CarriedIndex
<1>12. Needed = 1
  <2>1. Op \in PopOne
    BY <1>1 DEF BoxFrees, PopOne
  <2> QED
    BY <1>1, <2>1, PopCounts, NeedsPops DEF BoxFrees
<1>13. Carries(ip) => Carries(ip') /\ Same(CarriedIndex) /\ CarriedIndex' = CarriedIndex
  BY <1>1, <1>3, <1>5, <1>11, <1>12
<1>14. OwnedBy(callstack)' = OwnedBy(callstack)
  BY <1>2 DEF OwnedBy, Runs
<1>15. ASSUME NEW i \in OwnedBy(callstack) \ PendingAt(After)
       PROVE  Freed(i)'
  <2>1. CASE i \notin PendingAt(ip)
    <3>1. Freed(i)
      BY <2>1 DEF FreedInv
    <3> QED
      BY <1>2, <1>4, <1>9, <1>13, <3>1, FreedStays
  <2>2. CASE i = PointedAt(ip)
    <3>1. k \in 1 .. Len(stack') /\ stack'[k] = stack[k]
      BY <1>4, <1>7, <1>8, <1>10 DEF Same
    <3>2. baseptr' - i = k
      BY <1>2, <1>7, <2>2
    <3> QED
      BY <1>9, <3>1, <3>2 DEF Freed
  <2> QED
    BY <1>5, <2>1, <2>2
<1>16. PendingAt(ip)' = PendingAt(After)
  BY <1>1 DEF PendingAt
<1> QED
  BY <1>14, <1>15, <1>16 DEF FreedInv

(* The variable that is returned. *)
LEMMA SparedFreed ==
  ASSUME OwnInv, FreedInv, status = "running", Defined, callstack > 0,
         bytecode' = bytecode, LoadValue, Carries(After)
  PROVE  FreedInv'
<1>1. Op = "LoadValue" /\ ip' = After /\ Replace(0, Slot(VariableSlot(Arg)))
  BY DEF LoadValue, Continue
<1>2. UNCHANGED <<callstack, frames, baseptr, held>>
  BY DEF LoadValue, Replace, KeepRegions, regionVars
<1>3. Same(ptr - Needed)
  BY OperandsOnly DEF Straight, LoadValue, StoreValue, StoreInteger
<1>4. Same(baseptr)
  BY <1>3, BaseStays
<1>5. PointedAt(After) = None /\ ~Carries(ip) /\ PendingAt(ip) \ {Arg} \subseteq PendingAt(After)
  BY <1>1, AccountFacts DEF BoxFrees
<1>6. ptr \in Nat /\ baseptr \in Nat /\ After \in Address /\ Len(stack) \in Nat
  BY <1>1, NextInCode DEF OwnInv, ExactInv, StackInv
<1>7. /\ ptr' = ptr + 1 /\ ptr + 1 \in 1 .. Len(stack')
      /\ stack'[ptr + 1] = Slot(VariableSlot(Arg))
  <2>1. PICK S : stack \in Seq(S)
    BY DEF OwnInv
  <2>2. Op \in PopNone /\ Pushes
    BY <1>1, PushCounts DEF PopNone
  <2>3. Room(stack, ptr - 0)
    BY <1>6, <2>2, PopCounts DEF Defined
  <2>4. ptr - 0 + 1 \in 1 .. Len(stack') /\ stack'[ptr - 0 + 1] = Slot(VariableSlot(Arg))
    BY <1>1, <1>6, <2>1, <2>3, ReplaceFacts
  <2>5. ptr - 0 + 1 = ptr + 1
    BY <1>6
  <2> QED
    BY <1>1, <2>4, <2>5 DEF Replace
<1>8. CarriedIndex' = ptr + 1
  BY <1>1, <1>5, <1>6, <1>7, UsedNot
<1>9. ASSUME NEW i \in OwnedBy(callstack) \ PendingAt(After)
      PROVE  Freed(i)'
  <2>1. i \in Nat
    BY OwnedRange DEF OwnedBy
  <2>2. CASE i \notin PendingAt(ip)
    <3>1. Freed(i)
      BY <2>2 DEF FreedInv
    <3> QED
      BY <1>2, <1>4, <1>5, <3>1, FreedStays
  <2>3. CASE i = Arg
    <3>1. PICK k : k = baseptr - i
      OBVIOUS
    <3>2. VariableSlot(Arg) \in 0 .. Len(stack) - 1
      BY <1>1 DEF Defined, InStack
    <3>3. k \in 1 .. Len(stack) /\ k <= baseptr /\ VariableSlot(Arg) + 1 = k
      BY <1>6, <2>1, <2>3, <3>1, <3>2 DEF VariableSlot
    <3>4. k \in 1 .. Len(stack') /\ stack'[k] = stack[k] /\ stack'[ptr + 1] = stack[k]
      BY <1>4, <1>7, <3>3 DEF Same, Slot
    <3>5. Carries(ip)' /\ baseptr' - i = k
      BY <1>1, <1>2, <3>1 DEF Carries
    <3> QED
      BY <1>7, <1>8, <3>4, <3>5 DEF Freed
  <2> QED
    BY <1>5, <2>2, <2>3
<1>10. PendingAt(ip)' = PendingAt(After) /\ OwnedBy(callstack)' = OwnedBy(callstack)
  BY <1>1, <1>2 DEF PendingAt, OwnedBy, Runs
<1> QED
  BY <1>9, <1>10 DEF FreedInv

LEMMA StraightFreed ==
  ASSUME OwnInv, ExactInv', FreedInv, RP!TypeOK, status = "running", Defined, callstack > 0,
         bytecode' = bytecode, Straight
  PROVE  FreedInv'
<1>1. CASE FreeInteger
  BY <1>1, ReleaseFreed
<1>2. CASE LoadVariablePointer
  BY <1>2, PointerFreed
<1>3. CASE LoadValue /\ Carries(After)
  BY <1>3, SparedFreed
<1>4. CASE Skip /\ Op = "FreeRational"
  <2>1. UNCHANGED <<callstack, frames, baseptr, held, stack>> /\ ip' = After
    BY <1>4 DEF Skip, Continue, KeepRegions, KeepStack, regionVars, stackVars
  <2>2. ~Carries(ip) /\ PendingAt(ip) \subseteq PendingAt(ip')
    BY <1>4, <2>1, AccountFacts DEF BoxFrees
  <2>3. Same(baseptr)
    BY <2>1 DEF Same
  <2> QED
    BY <2>1, <2>2, <2>3, FreedKept
<1>5. ASSUME Op \notin {"LoadVariablePointer", "FreeRational"} \union BoxFrees,
             Op = "LoadValue" => ~Carries(After),
             ip' = After \/ status' # "running"
      PROVE  FreedInv'
  <2>1. CASE status' # "running"
    BY <2>1 DEF FreedInv
  <2>2. CASE ip' = After
    <3>1. Op \notin {"Goto", "Return", "Halt"}
      BY StraightSteps
    <3>2. ~Freeing(Carried(bytecode), After, Code[ip])
      BY <1>5 DEF Freeing, Carries, Op
    <3>3. PendingAt(After) = Owned(bytecode, HomeOf(ip))
      BY <3>1, <3>2, AccountFacts
    <3>4. HomeOf(After) = HomeOf(ip)
      <4>1. Op # "RaiseException"
        BY DEF Straight, Skip, Assert, PushRegion, PopRegion, StoreValue, StoreInteger,
          FreeInteger, LoadValue, LoadArgument, LoadVariablePointer, UnTrack, Logic,
          Create, CreateFloat, Compare, PrintValue, Tracks, Keeps, Floats, TracksOf,
          KeepsOf, FloatsOf, ConvertsTo, Op, IntegerResults, StringResults, Keeping,
          RationalResults, FloatResults, Relations, Prints, Casting
      <4> QED
        BY <3>1, <4>1, InstructionFacts DEF OwnInv
    <3> QED
      BY <2>2, <3>3, <3>4, AllPending
  <2> QED
    BY <1>5, <2>1, <2>2
<1>6. CASE Plain /\ ~(Skip /\ Op = "FreeRational")
  <2>1. Op \notin Uses \union {"LoadVariablePointer", "LoadValue"}
    BY <1>6, PlainOps
  <2>2. Op # "FreeRational"
    BY <1>6, <2>1 DEF Plain, Skip, Assert, PushRegion, PopRegion, LoadArgument, Logic,
      CreateFloat, Compare, PrintValue, Create, Tracks, Floats, TracksOf, FloatsOf,
      ConvertsTo, Op, IntegerResults, StringResults, FloatResults, Relations, Prints
  <2>3. ip' = After \/ status' # "running"
    BY <1>6, PlainSteps
  <2> QED
    BY <1>5, <2>1, <2>2, <2>3 DEF Uses
<1>7. CASE StoreValue \/ StoreInteger \/ UnTrack \/ (LoadValue /\ ~Carries(After))
  BY <1>5, <1>7 DEF StoreValue, StoreInteger, UnTrack, LoadValue, Continue, BoxFrees
<1>8. CASE Create /\ ~Tracks
  <2>1. Keeps /\ ip' = After
    BY <1>8 DEF Create, Continue
  <2>2. Op \notin {"LoadVariablePointer", "FreeRational", "LoadValue"} \union BoxFrees
    BY <2>1 DEF Keeps, KeepsOf, ConvertsTo, Op, Keeping, RationalResults, BoxFrees
  <2> QED
    BY <1>5, <2>1, <2>2
<1> QED
  BY <1>1, <1>2, <1>3, <1>4, <1>6, <1>7, <1>8 DEF Straight, Plain

(* The other instructions lead to where all variables are pending. *)
LEMMA JumpsFreed ==
  ASSUME OwnInv, ExactInv', FreedInv, status = "running", Defined, callstack > 0,
         bytecode' = bytecode,
         Goto \/ GotoIfFalse \/ RaiseException \/ PushTry \/ PopTry
  PROVE  FreedInv'
<1>1. /\ Op \in {"Goto", "GotoIfFalse", "RaiseException", "PushTry", "PopTry"}
      /\ \/ ip' = After /\ Op # "Goto"
         \/ ip' = Arg /\ Op \in {"Goto", "GotoIfFalse"}
         \/ ip' = CurrentTry(callstack) /\ except[callstack] # <<>>
  BY DEF Goto, GotoIfFalse, RaiseException, PushTry, PopTry, Continue
<1>2. ip \in Address /\ callstack \in 1 .. callstack
  BY DEF OwnInv, ExactInv, StackInv, CodeInv
<1>3. CASE ip' = After /\ Op # "Goto"
  <2>1. PendingAt(After) = Owned(bytecode, HomeOf(ip))
    BY <1>1, <1>3, AccountFacts DEF Freeing, Op, BoxFrees
  <2>2. HomeOf(After) = HomeOf(ip)
    <3>1. CASE Op # "RaiseException"
      BY <1>1, <1>3, <3>1, InstructionFacts DEF OwnInv
    <3>2. CASE Op = "RaiseException"
      <4>1. HomeOf(ip) = Runs(callstack) /\ Runs(callstack) \in Nat
            /\ Runs(callstack) + 1 \in DOMAIN bytecode.functions
        BY <1>2 DEF OwnInv, ExactInv, StackInv, CodeInv, FramesInCode, Runs
      <4>2. ExactInv
        BY DEF OwnInv
      <4>3. After = Function(HomeOf(ip)).finally
        BY <3>2, <4>2, InstructionFacts
      <4> QED
        BY <4>1, <4>2, <4>3, FunctionFacts
    <3> QED
      BY <3>1, <3>2
  <2> QED
    BY <1>3, <2>1, <2>2, AllPending
<1>4. ASSUME ip' \in Entries(bytecode)
      PROVE  FreedInv'
  BY <1>4, EntriesOwn, AllPending
<1>5. CASE ip' = Arg /\ Op \in {"Goto", "GotoIfFalse"}
  <2>1. Arg \in Entries(bytecode)
    BY <1>2, <1>5 DEF Entries, Op, Arg, Address, Code
  <2> QED
    BY <1>4, <1>5, <2>1
<1>6. CASE ip' = CurrentTry(callstack) /\ except[callstack] # <<>>
  <2>1. ip' \in HandlersIn(bytecode, Runs(callstack))
    BY <1>2, <1>6, TryInCode DEF OwnInv
  <2> QED
    BY <1>4, <2>1 DEF Entries, HandlersIn
<1> QED
  BY <1>1, <1>3, <1>5, <1>6

LEMMA CallFreed ==
  ASSUME OwnInv, ExactInv', RP!TypeOK, CallFunction, bytecode' = bytecode
  PROVE  FreedInv'
<1>1. ip' = Function(Arg).address /\ Op = "CallFunction"
  BY DEF CallFunction
<1>2. ip \in DOMAIN bytecode.code /\ WellFormed(bytecode)
  BY DEF OwnInv, ExactInv, StackInv, CodeInv, Address, Code
<1>3. Arg + 1 \in DOMAIN bytecode.functions
  BY <1>1, <1>2 DEF WellFormed, Op, Arg, Code
<1>4. ip' \in Entries(bytecode)
  BY <1>1, <1>3 DEF Entries, Function
<1> QED
  BY <1>4, EntriesOwn, AllPending

LEMMA ReturnFreed ==
  ASSUME OwnInv, ExactInv', ~Asserts, status = "running", bytecode' = bytecode,
         callstack > 0, Return \/ ReturnToHandler \/ ReturnUnwinding
  PROVE  FreedInv'
<1>1. PICK top : top = callstack
  OBVIOUS
<1>2. ReturnRegions /\ ReturnStack
  BY DEF Return, ReturnToHandler, ReturnUnwinding
<1>3. callstack' = top - 1 /\ callstack \in Nat /\ frames' = frames
  BY <1>1, <1>2 DEF ReturnRegions, ReturnStack, R!Return, OwnInv, ExactInv, StackInv, CodeInv
<1>4. PendingAt(ip') = OwnedBy(top - 1)
  BY <1>1, <1>3, LandsOwn
<1>5. OwnedBy(callstack)' = OwnedBy(top - 1)
  BY <1>3 DEF OwnedBy, Runs
<1>6. PendingAt(ip)' = PendingAt(ip')
  BY DEF PendingAt
<1> QED
  BY <1>4, <1>5, <1>6 DEF FreedInv

LEMMA NextFreed ==
  ASSUME OwnInv, OwnInv', FreedInv, RP!TypeOK, [Next]_vars
  PROVE  FreedInv'
<1>1. ExactInv'
  BY DEF OwnInv
<1>2. ASSUME UNCHANGED <<bytecode, callstack, frames, ptr, baseptr, stack, held, ip>>,
             status' = "running" => status = "running"
      PROVE  FreedInv'
  BY <1>2 DEF FreedInv, Freed, OwnedBy, Runs, PendingAt, Carries, CarriedIndex, Op, Code
<1>3. CASE UNCHANGED vars \/ Stopped
  BY <1>2, <1>3 DEF Stopped, vars, stackVars, regionVars
<1>4. CASE status = "running" /\ Stop
  BY <1>2, <1>4 DEF Stop, stackVars, regionVars
<1>5. CASE status = "running" /\ Proceeds /\ Step /\ UNCHANGED bytecode
  <2>1. ~Asserts /\ Defined
    BY <1>5 DEF Proceeds
  <2>2. CASE Halt
    BY <1>2, <1>5, <2>2 DEF Halt, KeepRegions, KeepStack, stackVars, regionVars
  <2>3. CASE CallFunction
    BY <1>1, <1>5, <2>3, CallFreed
  <2>4. CASE ~Halt /\ ~CallFunction
    <3>1. Op \notin {"CallFunction", "Halt"}
      <4>1. (\/ Goto \/ GotoIfFalse \/ RaiseException \/ PushTry \/ PopTry
             \/ Return \/ ReturnToHandler \/ ReturnUnwinding)
            => Op \notin {"CallFunction", "Halt"}
        BY DEF Goto, GotoIfFalse, RaiseException, PushTry, PopTry, Return,
          ReturnToHandler, ReturnUnwinding
      <4>2. Straight => Op \notin {"CallFunction", "Halt"}
        BY StraightCalls
      <4> QED
        BY <1>5, <2>4, <4>1, <4>2 DEF Step, Straight
    <3>2. callstack > 0
      BY <2>1, <3>1 DEF Asserts, OwnInv, ExactInv, StackInv, CodeInv
    <3>3. CASE Straight
      BY <1>1, <1>5, <2>1, <3>2, <3>3, StraightFreed
    <3>4. CASE Goto \/ GotoIfFalse \/ RaiseException \/ PushTry \/ PopTry
      BY <1>1, <1>5, <2>1, <3>2, <3>4, JumpsFreed
    <3>5. CASE Return \/ ReturnToHandler \/ ReturnUnwinding
      BY <1>1, <1>5, <2>1, <3>2, <3>5, ReturnFreed
    <3> QED
      BY <1>5, <2>4, <3>3, <3>4, <3>5 DEF Step, Straight
  <2> QED
    BY <2>2, <2>3, <2>4
<1> QED
  BY <1>3, <1>4, <1>5 DEF Next, Execute

(* Only OP_Return leaves a frame. *)
LEMMA LeavesByReturn ==
  ASSUME OwnInv, RP!TypeOK, [Next]_vars, callstack' < callstack
  PROVE  /\ status = "running" /\ Op = "Return" /\ ReturnRegions
         /\ callstack > 0
<1>1. callstack \in Nat
  BY DEF OwnInv, ExactInv, StackInv, CodeInv
<1>2. callstack' # callstack
  BY <1>1
<1>3. status = "running" /\ Step
  BY <1>2 DEF Next, Execute, Stopped, Stop, vars, regionVars
<1>4. ~Straight
  BY <1>2, StraightSteps
<1>5. ~CallFunction
  BY <1>1 DEF CallFunction, R!Call
<1>6. Return \/ ReturnToHandler \/ ReturnUnwinding
  BY <1>2, <1>3, <1>4, <1>5 DEF Step, Straight, Halt, Goto, GotoIfFalse, RaiseException,
    PushTry, PopTry, KeepRegions, regionVars
<1>7. Op = "Return" /\ ReturnRegions
  BY <1>6 DEF Return, ReturnToHandler, ReturnUnwinding
<1>8. callstack > 0
  BY <1>1, <1>7 DEF ReturnRegions, R!Return, R!InRegion, OwnInv, ExactInv, StackInv, CodeInv
<1> QED
  BY <1>3, <1>7, <1>8

(* What the return does to the blocks of the frame's own variables. *)
LEMMA LeavesNothing ==
  ASSUME OwnInv, FreedInv, RP!TypeOK, [Next]_vars, callstack' < callstack,
         NEW i \in 0 .. CurrentFunction.variables - 1,
         VariableTypes[i + 1] \in {"Integer", "String"},
         NEW v, v = Slot(VariableSlot(i)), v[1] = "block"
  PROVE  v[2] \notin held'
<1>1. status = "running" /\ Op = "Return" /\ ReturnRegions /\ callstack > 0
  BY LeavesByReturn
<1>2. PICK f : f = frames[callstack].function + 1
  OBVIOUS
<1>3. /\ Runs(callstack) = frames[callstack].function /\ Runs(callstack) \in Nat
      /\ f \in DOMAIN bytecode.functions
  BY <1>1, <1>2, FrameBounds DEF OwnInv, ExactInv, StackInv, CodeInv, FramesInCode, Runs
<1>4. f - 1 = Runs(callstack)
  BY <1>2, <1>3
<1>5. i \in OwnedBy(callstack)
  <2>1. /\ i \in 0 .. bytecode.functions[f].variables - 1
        /\ bytecode.source[f].variables[i + 1] \in {"Integer", "String"}
    BY <1>2 DEF CurrentFunction, Function, VariableTypes
  <2>2. Declares(bytecode)
    BY DEF OwnInv, Accounted
  <2>3. i \in Owned(bytecode, f - 1)
    BY <1>3, <2>1, <2>2 DEF Declares
  <2> QED
    BY <1>4, <2>3 DEF OwnedBy
<1>6. /\ PendingAt(ip) = {} /\ (Arg \in Boxed <=> Carries(ip)) /\ CarriedIndex = ptr
  BY <1>1, AccountFacts DEF CarriedIndex, Uses, BoxStores, BoxFrees
<1>7. Freed(i)
  BY <1>1, <1>5, <1>6 DEF FreedInv
<1>8. i \in Nat /\ baseptr \in Nat /\ ptr \in Nat
  BY <1>1, <1>5, OwnedRange, FrameBounds DEF OwnedBy
<1>9. v = stack[baseptr - i]
  <2>1. VariableSlot(i) + 1 = baseptr - i
    BY <1>8 DEF VariableSlot
  <2> QED
    BY <2>1 DEF Slot
<1>10. held' \subseteq held
  BY <1>1 DEF ReturnRegions, R!Return
<1>11. SUFFICES ASSUME v[2] \in held'
                PROVE  FALSE
  OBVIOUS
<1>12. Carries(ip) /\ stack[ptr] = v
  BY <1>6, <1>7, <1>9, <1>10, <1>11 DEF Freed
<1>13. PICK b \in Block : Top(1) = Ref(b) /\ R!Return(b)
  BY <1>1, <1>6, <1>12 DEF ReturnRegions
<1>14. held' = held \ {b}
  BY <1>13, VirtualMachineAssumption DEF R!Return
<1>15. v[2] = b
  <2>1. ptr - 1 + 1 = ptr
    BY <1>8
  <2> QED
    BY <1>12, <1>13, <2>1 DEF Top, Ref
<1> QED
  BY <1>11, <1>14, <1>15

(* However a frame is left, its variables of Integers and Strings have been *)
(* freed, at the end of the function or before a return, and nothing has   *)
(* been stored or allocated since; or they hold the result, which a region *)
(* of the caller gets.                                                     *)
THEOREM FramesLeaveNothing ==
  ASSUME \A i \in 1 .. Len(Images) : Disciplined(Images[i]) /\ Accounted(Images[i])
  PROVE  Spec => LocalsFreed
<1>1. Init => OwnInv /\ ReachInv /\ FreedInv
  <2>1. ASSUME Init
        PROVE  ReachInv
    <3>1. OwnInv /\ ip = 0 /\ callstack = 0
      BY <2>1, InitOwn DEF Init, R!Init
    <3> QED
      BY <3>1, ReachFacts DEF ReachInv
  <2> QED
    BY <2>1, InitOwn, InitFreed
<1>2. OwnInv /\ ReachInv /\ FreedInv /\ RP!TypeOK /\ RP!TypeOK' /\ [Next]_vars
        => OwnInv' /\ ReachInv' /\ FreedInv'
  BY NextOwn, NextReach, NextFreed
<1>3. OwnInv /\ FreedInv /\ RP!TypeOK /\ [Next]_vars
        => [callstack' < callstack =>
              \A i \in 0 .. CurrentFunction.variables - 1 :
                LET v == Slot(VariableSlot(i))
                IN  v[1] = "block" /\ VariableTypes[i + 1] \in {"Integer", "String"}
                      => v[2] \notin held']_vars
  BY LeavesNothing
<1>4. RP!Spec => []RP!TypeOK
  BY RP!TypeCorrect, RegionsAssumed
<1>5. Init => RP!Init
  BY InitRegions, SameInit
<1>6. [Next]_vars => [RP!Next]_(RP!regionVars)
  BY StepRegions, SameSteps DEF RP!regionVars, regionVars
<1> QED
  BY <1>1, <1>2, <1>3, <1>4, <1>5, <1>6, PTL DEF Spec, RP!Spec, LocalsFreed

=============================================================================
