---------------------------- MODULE VirtualMachine ----------------------------
(***************************************************************************)
(* The interpreter loop of bytecode/vm.c for one thread, with the operand  *)
(* stack, the call stack and the exception stacks of bytecode/thread.c.    *)
(*                                                                         *)
(* Every step executes one instruction.  The operations on the heap and on *)
(* the regions are the actions of Regions.tla; this module adds what the   *)
(* instruction does with the stacks and where it continues.  Boxed values  *)
(* (Integer, Rational, String) are blocks with a content, unboxed ones     *)
(* (Boolean, Float) are in the slot itself; contents are small numbers,    *)
(* and a comparison of contents may go either way.                         *)
(*                                                                         *)
(* status tells how far the run got:                                       *)
(*   running                                                               *)
(*   halted     OP_Halt                                                    *)
(*   failed     the program's own assert failed                            *)
(*   aborted    an assertion of the C code failed                          *)
(*   fault      memory is read, written or freed that may not be, or a     *)
(*              block got a second owner that will free it again           *)
(*   exhausted  a bound of the model is reached                            *)
(***************************************************************************)
EXTENDS Depths, FiniteSets

CONSTANTS
  Block, MaxFrames, IndexSlots, IndexRange, MaxTracked, NoBlock,
  Images,        \* sequence of the images the machine may be started on
  TrySlots,      \* lengthof(except.frames), 16 in the code
  Growth,        \* the stack grows from n to Growth + 2n slots; 16 in the code
  StackLimit,    \* bound on the size of the operand stack
  MaxDecisions,  \* bound on comparisons that come out true
  Modulus        \* contents of blocks are numbers below Modulus

VARIABLES
  live, held, callstack, region, indices, level,  \* see Regions
  bytecode,    \* vm->bytecode, the image that was loaded
  ip,          \* instruction pointer, as an offset into the code
  stack,       \* stack.base, the whole of it: slot i is stack[i + 1]
  ptr,         \* stack.ptr: slots in use
  baseptr,     \* stack.baseptr: end of the current function's variables
  frames,      \* frames[f]: what push_frame and tarot_call save
  except,      \* except[f]: the open handlers of frame f, innermost last
  unwinding,   \* thread->except: an exception is looking for its handler
  traces,      \* stack traces created and not freed
  status,      \* see above
  content,     \* history: what the block holds
  decisions,   \* history: outcomes of the comparisons so far
  output       \* history: what was printed

R == INSTANCE Regions

Frame == 1 .. MaxFrames
regionVars == <<live, held, callstack, region, indices, level>>
stackVars == <<stack, ptr, baseptr, frames>>
exceptVars == <<except, unwinding, traces>>
historyVars == <<content, decisions, output>>
vars == <<regionVars, bytecode, ip, stackVars, exceptVars, status, historyVars>>

ASSUME VirtualMachineAssumption ==
  /\ MaxFrames \in Nat \ {0}
  /\ IndexSlots \in Nat \ {0, 1}
  /\ IndexRange \in Nat
  /\ MaxTracked \in 0 .. IndexRange - 1
  /\ NoBlock \notin Block
  /\ TrySlots \in Nat \ {0}
  /\ Growth \in Nat \ {0}
  /\ StackLimit \in Nat
  /\ MaxDecisions \in Nat
  /\ Modulus \in Nat \ {0, 1}

MaxVariables == 127  \* a function's variables are counted in 7 bits

(* What the interpreter trusts of an image: every jump, handler and call   *)
(* names an instruction or a function, nothing but OP_Goto, OP_Return and  *)
(* OP_Halt is the last instruction, slots, uids and literals are numbers,  *)
(* and those of parameters and variables fit into their 4 and 7 bits.      *)
WellFormed(image) ==
  LET at == DOMAIN image.code
  IN  /\ 0 \in at /\ at \subseteq Nat
      /\ \A i \in at :
           LET op == image.code[i].op
               arg == image.code[i].arg
           IN  /\ op \notin {"Goto", "Return", "Halt"} => i + Width(op) \in at
               /\ op \in {"Goto", "GotoIfFalse", "PushTry"} => arg \in at
               /\ op = "CallFunction" => arg + 1 \in DOMAIN image.functions
               /\ op \in {"LoadVariablePointer", "RaiseException"} => arg \in Nat
               /\ op \in Literals => arg \in 0 .. Modulus - 1
      /\ \A i \in DOMAIN image.functions :
           LET f == image.functions[i]
           IN  /\ f.address \in at /\ f.finally \in at
               /\ f.parameters \in 0 .. 15 /\ f.variables \in 0 .. MaxVariables

(* It also trusts that instructions find their operands: see Depths. *)
ASSUME ImagesAssumption ==
  \A i \in 1 .. Len(Images) : WellFormed(Images[i]) /\ Balanced(Images[i])

------------------------------------------------------------------------------
(* Values (union tarot_value). *)

Null == <<"null">>                 \* a zeroed slot
Ref(b) == <<"block", b>>
Boolean(v) == <<"bool", v>>
Float(n) == <<"float", n>>
Uid(u) == <<"uid", u>>             \* an exception's uid
Pointer(i) == <<"slot", i, Len(stack)>>   \* to slot i of the present stack

IsBlock(v) == v[1] = "block" /\ v[2] \in live
IsHeld(v) == v[1] = "block" /\ v[2] \in held

(* Growing reallocates the stack, so an older pointer into it is stale. *)
IsSlot(v) == v[1] = "slot" /\ v[3] = Len(stack) /\ v[2] \in 0 .. Len(stack) - 1

Fits(v, kind) ==
  \/ kind = "any"
  \/ kind = "block" /\ IsBlock(v)
  \/ kind \in {"bool", "float"} /\ v[1] \in {kind, "null"}
  \/ kind = "slot" /\ IsSlot(v)

Truth(v) == v[1] = "bool" /\ v[2]

Value ==
  {Null} \union ({"block"} \X Block) \union ({"bool"} \X BOOLEAN)
    \union ({"float"} \X (0 .. Modulus - 1)) \union ({"uid"} \X Nat)
    \union ({"slot"} \X Int \X Nat)

------------------------------------------------------------------------------
(* Instructions. *)

Code == bytecode.code
Op == Code[ip].op
Arg == Code[ip].arg
Function(i) == bytecode.functions[i + 1]
CurrentFunction == Function(frames[callstack].function)

(* Mutant: the argument of the instruction is not skipped. *)
AfterOpcode == ip + 1

After == ip + Width(Op)

(* What the instruction pushes. *)
Tracks == TracksOf(Code[ip])
Keeps == KeepsOf(Code[ip])
Floats == FloatsOf(Code[ip])
Pushes == PushesOf(Code[ip])

Converts(cast) == ConvertsTo(Code[ip], cast)

(* What it pops, the top of the stack first. *)
Pops == PopsOf(Code[ip])

------------------------------------------------------------------------------
(* The operand stack. *)

Top(k) == stack[ptr - k + 1]   \* the k-th value from the top

(* stack_pop zeroes what it pops. *)
Popped(n) ==
  [i \in 1 .. Len(stack) |-> IF i \in ptr - n + 1 .. ptr THEN Null ELSE stack[i]]

Grown(s, p) ==
  IF p < Len(s) THEN s ELSE s \o [i \in 1 .. Growth + Len(s) |-> Null]

(* n values are popped, then v is pushed. *)
Replace(n, v) ==
  /\ stack' = [Grown(Popped(n), ptr - n) EXCEPT ![ptr - n + 1] = v]
  /\ ptr' = ptr - n + 1
  /\ UNCHANGED <<baseptr, frames>>

Pop(n) ==
  /\ stack' = Popped(n)
  /\ ptr' = ptr - n
  /\ UNCHANGED <<baseptr, frames>>

Fresh ==
  Block \ (live \union {stack[i][2] :
                          i \in {j \in 1 .. Len(stack) : stack[j][1] = "block"}})

VariableSlot(i) == baseptr - i - 1

(* Mutant: off by one, argument 0 is below the topmost one. *)
ArgumentSlotBelow(i) == baseptr - CurrentFunction.variables - i - 2

ArgumentSlot(i) == baseptr - CurrentFunction.variables - i - 1
InStack(slot) == slot \in 0 .. Len(stack) - 1
Slot(i) == stack[i + 1]

------------------------------------------------------------------------------
(* Where the interpreter stops. *)

Readable(n) == n > 0 => n <= ptr /\ ptr <= Len(stack)
Tracked(v) == callstack > 0 /\ \E b \in R!Tracked(callstack) : v = Ref(b)
Outlives(f) == f > 1                 \* a frame is left after f is popped
Room(s, p) == p < Len(s) \/ p < Growth + 2 * Len(s)
OldValue(slot) == stack[slot[2] + 1]
MayFree(v) == v = Null \/ IsHeld(v)

(* Where Return leaves the stack: the arguments are discarded. *)
ReturnPtr == frames[callstack].ptr - CurrentFunction.parameters

(* A bound of the model. *)
Exhausts ==
  \/ (Tracks \/ Keeps) /\ Fresh = {}
  \/ Tracks /\ R!InRegion(callstack) /\ ~R!CanTrack(callstack)
  \/ Op = "CallFunction" /\ callstack = MaxFrames
  \/ /\ Op = "Return" /\ Arg \in Boxed /\ Outlives(callstack)
     /\ R!InRegion(callstack - 1) /\ ~R!CanTrack(callstack - 1)
  \/ /\ Pushes /\ ptr - Len(Pops) >= Len(stack)
     /\ Growth + 2 * Len(stack) > StackLimit
  \/ /\ Op = "Return" /\ callstack > 0 /\ CurrentFunction.returns
     /\ ReturnPtr >= Len(stack) /\ Growth + 2 * Len(stack) > StackLimit

(* An assertion of the code.  Outside of all functions there are only the *)
(* call of main and OP_Halt, which do not ask for the current frame.      *)
Asserts ==
  \/ callstack = 0 /\ Op \notin {"CallFunction", "Halt"}
  \/ Op = "PushRegion" /\ ~R!CanPush(callstack)
  \/ Op = "CallFunction" /\ callstack < MaxFrames /\ ~R!CanPush(callstack + 1)
  \/ Op = "PopRegion" /\ ~R!InRegion(callstack)
  \/ Op = "PushTry" /\ Len(except[callstack]) = TrySlots
  \/ Op = "PopTry" /\ except[callstack] = <<>>
  \/ Op = "UnTrack" /\ Readable(1) /\ ~Tracked(Top(1))
  \/ Op \in {"StoreInteger", "StoreString"} /\ Readable(2) /\ ~Tracked(Top(2))
  \/ Op = "StoreRational"     \* looks for a rational in a region
  \/ /\ Op = "Return"
     /\ \/ ~R!InRegion(callstack)
        \/ ~Outlives(callstack) /\ (unwinding \/ Arg \in Boxed)

(* What the instruction needs to stay within its memory. *)
Defined ==
  /\ Readable(Len(Pops))
  /\ \A k \in 1 .. Len(Pops) : Fits(Top(k), Pops[k])
  /\ Pushes => Room(stack, ptr - Len(Pops))
  /\ Tracks => R!InRegion(callstack)
  /\ ~(Op = "CastToInteger" /\ Arg = "Integer")   \* would track it again
  /\ Op \in {"StoreInteger", "StoreString", "FreeInteger", "FreeString"} => MayFree(OldValue(Top(1)))
  /\ Op = "LoadValue" => InStack(VariableSlot(Arg))
  /\ Op = "LoadArgument" => InStack(ArgumentSlot(Arg))
  /\ Op = "UnTrack" => Readable(1)
  /\ Op = "Return" =>                             \* looks at the top, result or not
       /\ Readable(1)
       /\ ReturnPtr >= 0
       /\ CurrentFunction.returns => Room(stack, ReturnPtr)
       /\ Arg \in Boxed => CurrentFunction.returns /\ IsHeld(Top(1))

InCode == ip \in DOMAIN Code
Proceeds == InCode /\ ~Exhausts /\ ~Asserts /\ Defined

Stop ==
  /\ ~Proceeds
  /\ status' = IF ~InCode THEN "fault"
               ELSE IF Exhausts THEN "exhausted"
               ELSE IF Asserts THEN "aborted"
               ELSE "fault"
  /\ UNCHANGED <<regionVars, bytecode, ip, stackVars, exceptVars, historyVars>>

------------------------------------------------------------------------------
(* The instructions. *)

KeepRegions == UNCHANGED regionVars
KeepStack == UNCHANGED stackVars
KeepExcept == UNCHANGED exceptVars
KeepHistory == UNCHANGED historyVars
Continue == ip' = After /\ UNCHANGED status

(* OP_NoOperation, OP_Debug, a cast that has nothing to do, and            *)
(* OP_FreeRational, which the interpreter has no case for.                 *)
Skip ==
  /\ \/ Op \in {"NoOperation", "Debug", "FreeRational"}
     \/ Op \in DOMAIN Casting /\ ~Converts(Op)
  /\ Continue
  /\ KeepRegions /\ KeepStack /\ KeepExcept /\ KeepHistory

(* OP_Halt frees the thread; OP_Assert does too when it fails. *)
Halt ==
  /\ Op = "Halt"
  /\ status' = "halted"
  /\ UNCHANGED ip
  /\ KeepRegions /\ KeepStack /\ KeepExcept /\ KeepHistory

Assert ==
  /\ Op = "Assert"
  /\ IF Truth(Top(1)) THEN Continue ELSE status' = "failed" /\ UNCHANGED ip
  /\ Pop(1)
  /\ KeepRegions /\ KeepExcept /\ KeepHistory

(* OP_PushTry, push_try *)
PushTry ==
  /\ Op = "PushTry"
  /\ except' = [except EXCEPT ![callstack] = Append(@, Arg)]
  /\ Continue
  /\ KeepRegions /\ KeepStack /\ KeepHistory /\ UNCHANGED <<unwinding, traces>>

(* OP_PopTry, pop_try *)
PopTry ==
  /\ Op = "PopTry"
  /\ except' = [except EXCEPT ![callstack] = SubSeq(@, 1, Len(@) - 1)]
  /\ Continue
  /\ KeepRegions /\ KeepStack /\ KeepHistory /\ UNCHANGED <<unwinding, traces>>

CurrentTry(f) == except[f][Len(except[f])]

(* Mutant: no stack trace is created. *)
RaiseUntraced ==
  /\ Op = "RaiseException"
  /\ Replace(0, Uid(Arg))
  /\ \/ except[callstack] # <<>> /\ ip' = CurrentTry(callstack) /\ UNCHANGED unwinding
     \/ except[callstack] = <<>> /\ ip' = After /\ unwinding' = TRUE
  /\ KeepRegions /\ KeepHistory /\ UNCHANGED <<except, traces, status>>

(* OP_RaiseException: on to the innermost handler of this frame, which     *)
(* stays open, or to the next instruction with the except flag set.        *)
RaiseException ==
  /\ Op = "RaiseException"
  /\ Replace(0, Uid(Arg))
  /\ \/ /\ except[callstack] # <<>>
        /\ ip' = CurrentTry(callstack)
        /\ UNCHANGED <<unwinding, traces>>
     \/ /\ except[callstack] = <<>>
        /\ ip' = After
        /\ unwinding' = TRUE
        /\ traces' = traces + 1
  /\ KeepRegions /\ KeepHistory /\ UNCHANGED <<except, status>>

PushRegion ==
  /\ Op = "PushRegion"
  /\ R!PushRegion
  /\ Continue
  /\ KeepStack /\ KeepExcept /\ KeepHistory

PopRegion ==
  /\ Op = "PopRegion"
  /\ R!PopRegion
  /\ Continue
  /\ KeepStack /\ KeepExcept /\ KeepHistory

(* OP_StoreValue: *b.Value = z *)
StoreValue ==
  /\ Op = "StoreValue"
  /\ stack' = [Popped(2) EXCEPT ![Top(1)[2] + 1] = Top(2)]
  /\ ptr' = ptr - 2
  /\ Continue
  /\ KeepRegions /\ KeepExcept /\ KeepHistory /\ UNCHANGED <<baseptr, frames>>

(* Mutant: the value is not removed from its region. *)
StoreTracked ==
  /\ Op \in {"StoreInteger", "StoreString"}
  /\ LET old == {c \in held : OldValue(Top(1)) = Ref(c)}
     IN  /\ live' = live \ old
         /\ held' = (held \ old) \union {b \in Block : Top(2) = Ref(b)}
  /\ stack' = [Popped(2) EXCEPT ![Top(1)[2] + 1] = Top(2)]
  /\ ptr' = ptr - 2
  /\ Continue
  /\ KeepExcept /\ KeepHistory
  /\ UNCHANGED <<callstack, region, indices, level, baseptr, frames>>

(* OP_StoreInteger, OP_StoreString: the value leaves its region and *)
(* replaces the old one, which is freed.                            *)
StoreInteger ==
  /\ Op \in {"StoreInteger", "StoreString"}
  /\ \E b \in Block, old \in Block \union {NoBlock} :
       /\ Top(2) = Ref(b)
       /\ OldValue(Top(1)) = IF old = NoBlock THEN Null ELSE Ref(old)
       /\ R!Store(b, old)
  /\ stack' = [Popped(2) EXCEPT ![Top(1)[2] + 1] = Top(2)]
  /\ ptr' = ptr - 2
  /\ Continue
  /\ KeepExcept /\ KeepHistory /\ UNCHANGED <<baseptr, frames>>

(* OP_FreeInteger, OP_FreeString: the slot keeps its pointer. *)
FreeInteger ==
  /\ Op \in {"FreeInteger", "FreeString"}
  /\ \/ OldValue(Top(1)) = Null /\ KeepRegions
     \/ \E b \in Block : OldValue(Top(1)) = Ref(b) /\ R!Release(b)
  /\ Pop(1)
  /\ Continue
  /\ KeepExcept /\ KeepHistory

LoadValue ==
  /\ Op = "LoadValue"
  /\ Replace(0, Slot(VariableSlot(Arg)))
  /\ Continue
  /\ KeepRegions /\ KeepExcept /\ KeepHistory

LoadArgument ==
  /\ Op = "LoadArgument"
  /\ Replace(0, Slot(ArgumentSlot(Arg)))
  /\ Continue
  /\ KeepRegions /\ KeepExcept /\ KeepHistory

(* The pointer is taken before the push that may move the stack. *)
LoadVariablePointer ==
  /\ Op = "LoadVariablePointer"
  /\ Replace(0, Pointer(VariableSlot(Arg)))
  /\ Continue
  /\ KeepRegions /\ KeepExcept /\ KeepHistory

UnTrack ==
  /\ Op = "UnTrack"
  /\ \E b \in Block : Top(1) = Ref(b) /\ R!Untrack(b)
  /\ Continue
  /\ KeepStack /\ KeepExcept /\ KeepHistory

(* OP_CallFunction: push_frame and tarot_call, then tarot_push_region. The *)
(* frame keeps the handlers its last call left open, and the variables the *)
(* values that were in their slots.                                        *)
CallFunction ==
  /\ Op = "CallFunction"
  /\ R!Call
  /\ frames' = [frames EXCEPT ![callstack + 1] =
                  [function |-> Arg, return_address |-> After,
                   baseptr |-> baseptr, ptr |-> ptr]]
  /\ ptr' = ptr + Function(Arg).variables
  /\ baseptr' = ptr'
  /\ ip' = Function(Arg).address
  /\ KeepExcept /\ KeepHistory /\ UNCHANGED <<stack, status>>

(* Mutant: the caller's base pointer is not restored. *)
ReturnStackKeeping ==
  /\ IF CurrentFunction.returns
     THEN /\ stack' = [Grown(Popped(1), ReturnPtr) EXCEPT ![ReturnPtr + 1] = Top(1)]
          /\ ptr' = ReturnPtr + 1
     ELSE stack' = stack /\ ptr' = ReturnPtr
  /\ UNCHANGED <<baseptr, frames>>

(* tarot_return: the frame's regions are popped, the arguments discarded, *)
(* the result, if the function has one, is moved to where they were.      *)
ReturnStack ==
  /\ IF CurrentFunction.returns
     THEN /\ stack' = [Grown(Popped(1), ReturnPtr) EXCEPT ![ReturnPtr + 1] = Top(1)]
          /\ ptr' = ReturnPtr + 1
     ELSE stack' = stack /\ ptr' = ReturnPtr
  /\ baseptr' = frames[callstack].baseptr
  /\ UNCHANGED frames

ReturnRegions ==
  \/ Arg \notin Boxed /\ R!Return(NoBlock)
  \/ Arg \in Boxed /\ \E b \in Block : Top(1) = Ref(b) /\ R!Return(b)

(* OP_Return without an exception on its way. *)
Return ==
  /\ Op = "Return"
  /\ ~unwinding
  /\ ReturnRegions
  /\ ReturnStack
  /\ ip' = frames[callstack].return_address
  /\ KeepExcept /\ KeepHistory /\ UNCHANGED status

(* OP_Return into a frame with a handler for the exception on its way. *)
ReturnToHandler ==
  /\ Op = "Return"
  /\ unwinding
  /\ except[callstack - 1] # <<>>
  /\ ReturnRegions
  /\ ReturnStack
  /\ ip' = CurrentTry(callstack - 1)
  /\ unwinding' = FALSE
  /\ traces' = traces - 1
  /\ KeepHistory /\ UNCHANGED <<except, status>>

(* Mutant: the caller goes on after the call. *)
ReturnOn ==
  /\ Op = "Return"
  /\ unwinding
  /\ except[callstack - 1] = <<>>
  /\ ReturnRegions
  /\ ReturnStack
  /\ ip' = frames[callstack].return_address
  /\ KeepExcept /\ KeepHistory /\ UNCHANGED status

(* OP_Return into a frame without one: it is left through its own end. *)
ReturnUnwinding ==
  /\ Op = "Return"
  /\ unwinding
  /\ except[callstack - 1] = <<>>
  /\ ReturnRegions
  /\ ReturnStack
  /\ ip' = Function(frames[callstack - 1].function).finally
  /\ KeepExcept /\ KeepHistory /\ UNCHANGED status

Goto ==
  /\ Op = "Goto"
  /\ ip' = Arg
  /\ KeepRegions /\ KeepStack /\ KeepExcept /\ KeepHistory /\ UNCHANGED status

GotoIfFalse ==
  /\ Op = "GotoIfFalse"
  /\ Pop(1)
  /\ ip' = IF Truth(Top(1)) THEN After ELSE Arg
  /\ KeepRegions /\ KeepExcept /\ KeepHistory /\ UNCHANGED status

(* The logical instructions. *)
Logic ==
  /\ \/ Op = "PushTrue"   /\ Replace(0, Boolean(TRUE))
     \/ Op = "PushFalse"  /\ Replace(0, Boolean(FALSE))
     \/ Op = "LogicalAnd" /\ Replace(2, Boolean(Truth(Top(2)) /\ Truth(Top(1))))
     \/ Op = "LogicalOr"  /\ Replace(2, Boolean(Truth(Top(2)) \/ Truth(Top(1))))
     \/ Op = "LogicalNot" /\ Replace(1, Boolean(~Truth(Top(1))))
  /\ Continue
  /\ KeepRegions /\ KeepExcept /\ KeepHistory

(* The number, or what stands for the text, that the k-th value stands for. *)
Held(k) == LET v == Top(k)
           IN  CASE v[1] = "float" -> v[2]
                 [] v[1] = "block" -> content[v[2]]
                 [] v[1] = "bool"  -> IF v[2] THEN 1 ELSE 0
                 [] v[1] = "null"  -> 0

(* The content of what an instruction creates. *)
Result ==
  CASE Op \in Literals -> Arg
    [] Op \in Copies \union DOMAIN Casting -> Held(1)
    [] Op \in Negations -> (-Held(1)) % Modulus
    [] Op \in Additions -> (Held(2) + Held(1)) % Modulus
    [] Op \in Subtractions -> (Held(2) - Held(1)) % Modulus
    [] Op = "IntegerPower" -> (Held(2) ^ Held(1)) % Modulus
    [] Op = "StringConcat" -> (2 * Held(2) + Held(1)) % Modulus

(* Literals, copies and results: a new block, tracked or not. *)
Create ==
  /\ Tracks \/ Keeps
  /\ \E b \in Fresh :
       /\ \A c \in Fresh : b <= c
       /\ \/ Tracks /\ R!Allocate(b)
          \/ Keeps /\ R!AllocateUntracked(b)
       /\ Replace(Len(Pops), Ref(b))
       /\ content' = [content EXCEPT ![b] = Result]
  /\ Continue
  /\ KeepExcept /\ UNCHANGED <<decisions, output>>

CreateFloat ==
  /\ Floats
  /\ Replace(Len(Pops), Float(Result))
  /\ Continue
  /\ KeepRegions /\ KeepExcept /\ KeepHistory

Trues == {i \in 1 .. Len(decisions) : decisions[i]}

(* Contents are numbers modulo Modulus, so either outcome is possible; at *)
(* most MaxDecisions comparisons of a run come out true.                  *)
Compare ==
  /\ Op \in Relations
  /\ \E outcome \in BOOLEAN :
       /\ outcome => Cardinality(Trues) < MaxDecisions
       /\ Replace(2, Boolean(outcome))
       /\ decisions' = Append(decisions, outcome)
  /\ Continue
  /\ KeepRegions /\ KeepExcept /\ UNCHANGED <<content, output>>

Printed ==
  CASE Op = "PrintBoolean"  -> <<"Boolean", Truth(Top(1))>>
    [] Op = "PrintFloat"    -> <<"Float", Held(1)>>
    [] Op = "PrintInteger"  -> <<"Integer", Held(1)>>
    [] Op = "PrintRational" -> <<"Rational", Held(1)>>
    [] Op = "PrintString"   -> <<"String", Held(1)>>

(* OP_PrintInteger and its siblings *)
PrintValue ==
  /\ Op \in Prints
  /\ output' = Append(output, Printed)
  /\ Pop(1)
  /\ Continue
  /\ KeepRegions /\ KeepExcept /\ UNCHANGED <<content, decisions>>

Step ==
  \/ Skip \/ Halt \/ Assert \/ PushTry \/ PopTry \/ RaiseException
  \/ PushRegion \/ PopRegion \/ StoreValue \/ StoreInteger \/ FreeInteger
  \/ LoadValue \/ LoadArgument \/ LoadVariablePointer \/ UnTrack
  \/ CallFunction \/ Return \/ ReturnToHandler \/ ReturnUnwinding
  \/ Goto \/ GotoIfFalse \/ Logic \/ Create \/ CreateFloat \/ Compare \/ PrintValue

Init ==
  /\ R!Init
  /\ \E i \in 1 .. Len(Images) : bytecode = Images[i]
  /\ ip = 0
  /\ stack = <<>>
  /\ ptr = 0
  /\ baseptr = 0
  /\ frames = [f \in Frame |-> [function |-> 0, return_address |-> 0,
                                baseptr |-> 0, ptr |-> 0]]
  /\ except = [f \in Frame |-> <<>>]
  /\ unwinding = FALSE
  /\ traces = 0
  /\ status = "running"
  /\ content = [b \in Block |-> 0]
  /\ decisions = <<>>
  /\ output = <<>>

Execute ==
  /\ status = "running"
  /\ \/ Stop
     \/ Proceeds /\ Step /\ UNCHANGED bytecode

(* The process is gone. *)
Stopped == status # "running" /\ UNCHANGED vars

Next == Execute \/ Stopped

Spec == Init /\ [][Next]_vars /\ WF_vars(Execute)

------------------------------------------------------------------------------
(* Properties of every run, whatever the program does. *)

(* The types and bounds of the machine's state. *)
TypeOK ==
  /\ ip \in Nat
  /\ stack \in Seq(Value) /\ Len(stack) <= StackLimit
  /\ ptr \in 0 .. Len(stack) + MaxFrames * MaxVariables
  /\ baseptr \in Nat
  /\ \A f \in Frame : frames[f].ptr \in Nat /\ Len(except[f]) <= TrySlots
  /\ unwinding \in BOOLEAN
  /\ traces \in Nat
  /\ status \in {"running", "halted", "failed", "aborted", "fault", "exhausted"}
  /\ content \in [Block -> 0 .. Modulus - 1]
  /\ decisions \in Seq(BOOLEAN) /\ Cardinality(Trues) <= MaxDecisions

(* The machine executes what the code generator wrote as instructions: no  *)
(* jump, call, handler or return address leads in between.                 *)
OnInstruction == InCode

(* The stack of a caller starts where the frame above it says, and the     *)
(* running function's where its own frame does, after every call, return   *)
(* and exception.                                                          *)
FramesLinked ==
  callstack > 0 =>
    /\ \A f \in 2 .. callstack :
         frames[f].baseptr = frames[f - 1].ptr
                              + Function(frames[f - 1].function).variables
    /\ baseptr = frames[callstack].ptr + CurrentFunction.variables

(* The frames on the stack do not overlap: the arguments and variables of a *)
(* function lie above the variables of its caller, and nothing an           *)
(* instruction takes, an operand, an argument or a result, lies below the   *)
(* operands of the function it runs in, whatever calls, returns and         *)
(* exceptions came before.                                                  *)
FramesNest ==
  /\ FramesLinked
  /\ \A f \in 1 .. callstack :
       frames[f].ptr - Function(frames[f].function).parameters >= frames[f].baseptr
  /\ status = "running" /\ InCode => ptr - Needs(bytecode, Code[ip]) >= baseptr

VariableTypes == bytecode.source[frames[callstack].function + 1].variables

(* A frame that is left, through a return or for a handler further out,    *)
(* leaves no block behind in its variables of Integers and Strings.  (The  *)
(* interpreter does not implement OP_FreeRational, and variables of other  *)
(* types have no blocks of their own, but any value until they are set.)   *)
LocalsFreed ==
  [][callstack' < callstack =>
       \A i \in 0 .. CurrentFunction.variables - 1 :
         LET v == Slot(VariableSlot(i))
         IN  v[1] = "block" /\ VariableTypes[i + 1] \in {"Integer", "String"}
               => v[2] \notin held']_vars

(* The regions are used as Regions.tla says they may be; so every block    *)
(* has one owner.                                                          *)
RegionSpec == R!Spec
RegionsOwn == R!SingleOwner

------------------------------------------------------------------------------
(* Properties of the programs the generated code is right for. *)

Halted == status \in {"halted", "failed"}

(* No run frees or uses freed memory, fails an assertion of the C code or *)
(* needs more than the instance has.                                      *)
NoFault == status \notin {"fault", "aborted", "exhausted"}

(* At OP_Halt everything that was allocated has been freed. *)
NothingLeaks ==
  status = "halted" => live = {} /\ callstack = 0 /\ traces = 0 /\ ptr = 0

(* A function that ends without a result has consumed all its operands and *)
(* closed all regions but its own.                                         *)
EndsBalanced ==
  InCode /\ Op = "Return" /\ Arg = "Void" /\ ~unwinding
    => ptr = baseptr /\ R!Depth(callstack) = 1

(* The handlers open in a frame are those of the function that runs in it. *)
HandlersOfFunction ==
  \A f \in 1 .. callstack : \A i \in 1 .. Len(except[f]) :
    LET function == Function(frames[f].function)
    IN  except[f][i] \in function.address .. function.finally

(* Once an exception is on its way nothing is printed before its handler. *)
NoStatementAfterRaise == [][unwinding => output' = output]_vars

(* Every run of a sound program comes to its end. *)
Ends == <>Halted

------------------------------------------------------------------------------
(* What the sources say of every run, and the code does not do. *)

(* The assertions of the C code hold. *)
AssertionsHold == status # "aborted"

(* Memory is used while it is allocated, and freed once. *)
MemorySafe == status # "fault"

(* tarot_argument "returns the function argument at the specified index". *)
ArgumentAtIndex ==
  [][status = "running" /\ Proceeds /\ Op = "LoadArgument" =>
       stack'[ptr'] =
         Slot(frames[callstack].ptr - CurrentFunction.parameters + Arg)]_vars
==============================================================================
