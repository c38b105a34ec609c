------------------------------- MODULE Regions -------------------------------
(***************************************************************************)
(* Region-based memory of the virtual machine (bytecode/region.c) and the  *)
(* part of the call stack it lives in (bytecode/thread.c).                 *)
(*                                                                         *)
(* Each frame keeps ONE list of pointers, region[f], and a stack of        *)
(* indices into it, indices[f]: pushing a region records the list's        *)
(* length, popping it frees the tail of the list beyond the recorded       *)
(* length.  A pointer removed from the middle of the list shifts the rest  *)
(* down, past the recorded indices, so a region is not a fixed slice.  The *)
(* indices are bytes; MaxTracked bounds the lists below what they can say. *)
(*                                                                         *)
(* The actions are the operations as the opcodes of vm.c combine them,     *)
(* under the conditions the code asserts or relies on; VirtualMachine.tla  *)
(* composes them into the interpreter and stops where one is not met.      *)
(***************************************************************************)
EXTENDS Integers, Sequences

CONSTANTS
  Block,       \* heap blocks: what tarot_malloc hands out
  MaxFrames,   \* bound on the depth of the call stack
  IndexSlots,  \* lengthof(scope.indices), 10 in the code
  IndexRange,  \* values of scope.indices[i], a uint8_t: 256 in the code
  MaxTracked,  \* bound on the pointers one frame tracks at a time
  NoBlock      \* the NULL pointer

ASSUME RegionsAssumption ==
  /\ MaxFrames \in Nat \ {0}
  /\ IndexSlots \in Nat \ {0, 1}
  /\ IndexRange \in Nat
  /\ MaxTracked \in 0 .. IndexRange - 1
  /\ NoBlock \notin Block

VARIABLES
  live,       \* blocks allocated and not freed
  held,       \* live blocks no region tracks: variables, results in flight
  callstack,  \* callstack.index: number of active frames
  region,     \* region[f]: scope.region, the tracked pointers of frame f
  indices,    \* indices[f]: the used part of scope.indices
  level       \* history: depth of the region that b was last tracked in

regionVars == <<live, held, callstack, region, indices, level>>

Frame == 1 .. MaxFrames

------------------------------------------------------------------------------
(* Lists of pointers, as region.c uses datatypes/list.c. *)

Elements(s) == {s[i] : i \in 1 .. Len(s)}

(* tarot_list_lookup: the first position that holds b. *)
Lookup(s, b) ==
  CHOOSE i \in 1 .. Len(s) : s[i] = b /\ \A j \in 1 .. (i - 1) : s[j] # b

(* tarot_list_remove moves every later element one place down. *)
ListRemove(s, p) ==
  [i \in 1 .. (Len(s) - 1) |-> IF i < p THEN s[i] ELSE s[i + 1]]

(* The list after its last elements were popped down to length n, which *)
(* is no pop at all when the list is shorter than that already.         *)
PopTo(s, n) == [i \in 1 .. (IF n < Len(s) THEN n ELSE Len(s)) |-> s[i]]

------------------------------------------------------------------------------
(* region.c *)

Tracked(f) == Elements(region[f])
Depth(f) == Len(indices[f])
CurrentIndex(f) == indices[f][Depth(f)]

InRegion(f) == f > 0 /\ Depth(f) > 0
CanPush(f) == f > 0 /\ Depth(f) + 1 < IndexSlots
CanTrack(f) == InRegion(f) /\ Len(region[f]) < MaxTracked

(* The length of the list, as it fits in an index. *)
Index(f) == Len(region[f]) % IndexRange

AddToRegion(f, b) ==
  /\ region' = [region EXCEPT ![f] = Append(@, b)]
  /\ level' = [level EXCEPT ![b] = Depth(f)]

(* Mutant: the pointer stays in the list. *)
KeepInRegion(f, b) == f \in Frame /\ b \in Block /\ UNCHANGED region

RemoveFromRegion(f, b) ==
  region' = [region EXCEPT ![f] = ListRemove(@, Lookup(@, b))]

(* Mutant: the block just below the index goes too. *)
LeavingOneMore(f) ==
  {region[f][i] : i \in {j \in 1 .. Len(region[f]) : j >= CurrentIndex(f)}}

(* The pointers the innermost region of f still holds when it is popped. *)
Leaving(f) ==
  {region[f][i] : i \in {j \in 1 .. Len(region[f]) : j > CurrentIndex(f)}}

------------------------------------------------------------------------------
(* The operations. *)

Init ==
  /\ live = {}
  /\ held = {}
  /\ callstack = 0
  /\ region = [f \in Frame |-> <<>>]
  /\ indices = [f \in Frame |-> <<>>]
  /\ level = [b \in Block |-> 0]

(* A literal, copy or result is created and tracked. *)
Allocate(b) ==
  /\ CanTrack(callstack)
  /\ b \notin live
  /\ live' = live \union {b}
  /\ AddToRegion(callstack, b)
  /\ UNCHANGED <<held, callstack, indices>>

(* An object, a rational or a power is created and never tracked. *)
AllocateUntracked(b) ==
  /\ callstack > 0
  /\ b \notin live
  /\ live' = live \union {b}
  /\ held' = held \union {b}
  /\ UNCHANGED <<callstack, region, indices, level>>

(* OP_Store*: the value leaves its region, the old value of the variable *)
(* is freed, the variable holds the new one.                             *)
Store(b, old) ==
  /\ callstack > 0
  /\ b \in Tracked(callstack)
  /\ old \in held \union {NoBlock}
  /\ RemoveFromRegion(callstack, b)
  /\ live' = live \ {old}
  /\ held' = (held \ {old}) \union {b}
  /\ UNCHANGED <<callstack, indices, level>>

(* OP_UnTrack: the value on top of the stack leaves its region. *)
Untrack(b) ==
  /\ callstack > 0
  /\ b \in Tracked(callstack)
  /\ RemoveFromRegion(callstack, b)
  /\ held' = held \union {b}
  /\ UNCHANGED <<live, callstack, indices, level>>

(* OP_Free*: the value of a variable is freed. *)
Release(b) ==
  /\ callstack > 0
  /\ b \in held
  /\ live' = live \ {b}
  /\ held' = held \ {b}
  /\ UNCHANGED <<callstack, region, indices, level>>

(* Mutant: the enclosing region's index is recorded again. *)
PushRegionSameIndex ==
  /\ CanPush(callstack)
  /\ indices' = [indices EXCEPT ![callstack] =
                   Append(@, IF Depth(callstack) = 0 THEN 0
                             ELSE CurrentIndex(callstack))]
  /\ UNCHANGED <<live, held, callstack, region, level>>

PushRegion ==
  /\ CanPush(callstack)
  /\ indices' = [indices EXCEPT ![callstack] = Append(@, Index(callstack))]
  /\ UNCHANGED <<live, held, callstack, region, level>>

PopRegion ==
  /\ InRegion(callstack)
  /\ live' = live \ Leaving(callstack)
  /\ region' = [region EXCEPT ![callstack] =
                  PopTo(@, CurrentIndex(callstack))]
  /\ indices' = [indices EXCEPT ![callstack] = PopTo(@, Len(@) - 1)]
  /\ level' = [b \in Block |->
                 IF /\ b \in Tracked(callstack) \ Leaving(callstack)
                    /\ level[b] = Depth(callstack)
                 THEN level[b] - 1
                 ELSE level[b]]
  /\ UNCHANGED <<held, callstack>>

(* OP_CallFunction: push_frame, which leaves the frame's scope as the last *)
(* call left it, then tarot_push_region.                                   *)
Call ==
  /\ callstack < MaxFrames
  /\ callstack' = callstack + 1
  /\ CanPush(callstack')
  /\ indices' = [indices EXCEPT ![callstack'] = Append(@, Index(callstack'))]
  /\ UNCHANGED <<live, held, region, level>>

(* Mutant: the regions are not cleared on the way out. *)
ReturnUncleared(b) ==
  /\ InRegion(callstack)
  /\ b = NoBlock
  /\ callstack' = callstack - 1
  /\ UNCHANGED <<live, held, region, indices, level>>

(* Mutant: a function that returns nothing adds to its caller's region. *)
ReturnAlways(b) ==
  /\ InRegion(callstack)
  /\ callstack' = callstack - 1
  /\ CanTrack(callstack')
  /\ live' = live \ Tracked(callstack)
  /\ indices' = [indices EXCEPT ![callstack] = <<>>]
  /\ region' = [region EXCEPT ![callstack] = <<>>,
                              ![callstack'] = Append(@, b)]
  /\ held' = held \ {b}
  /\ UNCHANGED level

(* OP_Return: tarot_pop_region, tarot_return with tarot_clear_regions and  *)
(* pop_frame, then tarot_add_to_region of the result in the caller.  The   *)
(* regions are popped from the innermost to the outermost, whose index is  *)
(* that of the empty list, so together they free all the frame tracks.     *)
Return(b) ==
  /\ InRegion(callstack)
  /\ callstack' = callstack - 1
  /\ live' = live \ Tracked(callstack)
  /\ indices' = [indices EXCEPT ![callstack] = <<>>]
  /\ \/ /\ b = NoBlock
        /\ region' = [region EXCEPT ![callstack] = <<>>]
        /\ UNCHANGED <<held, level>>
     \/ /\ b \in held
        /\ CanTrack(callstack')
        /\ region' = [region EXCEPT ![callstack] = <<>>,
                                    ![callstack'] = Append(@, b)]
        /\ level' = [level EXCEPT ![b] = Depth(callstack')]
        /\ held' = held \ {b}

Next ==
  \/ \E b \in Block : \/ Allocate(b) \/ AllocateUntracked(b)
                      \/ Untrack(b) \/ Release(b)
  \/ \E b \in Block, old \in Block \union {NoBlock} : Store(b, old)
  \/ PushRegion
  \/ PopRegion
  \/ Call
  \/ \E b \in Block \union {NoBlock} : Return(b)

Spec == Init /\ [][Next]_regionVars

------------------------------------------------------------------------------
(* Properties. *)

TypeOK ==
  /\ live \subseteq Block
  /\ held \subseteq Block
  /\ callstack \in 0 .. MaxFrames
  /\ region \in [Frame -> Seq(Block)]
  /\ \A f \in Frame : Len(region[f]) <= MaxTracked
  /\ indices \in [Frame -> Seq(Nat)]
  /\ level \in [Block -> Nat]

(* Every live block has exactly one owner: one position of one frame's     *)
(* list, or a holder outside the regions; nothing dead is owned.  Without  *)
(* it a pop frees a block twice, or one that is still in use, or never.    *)
SingleOwner ==
  /\ \A f \in Frame : \A i, j \in 1 .. Len(region[f]) :
       region[f][i] = region[f][j] => i = j
  /\ \A f, g \in Frame : f # g => Tracked(f) \intersect Tracked(g) = {}
  /\ \A f \in Frame : Tracked(f) \intersect held = {}
  /\ live = held \union UNION {Tracked(f) : f \in Frame}

(* A block tracked in an outer region lies below the index of every inner  *)
(* one, whatever was removed from the list since: popping the inner region *)
(* cannot reach it.                                                        *)
OuterBelowInner ==
  \A f \in Frame : \A i \in 1 .. Len(region[f]) :
    /\ level[region[f][i]] \in 1 .. Depth(f)
    /\ \A k \in 1 .. Depth(f) :
         level[region[f][i]] < k => i <= indices[f][k]

(* A frame that is not active, or has no region open, tracks nothing: the  *)
(* outermost index is always that of the empty list, and push_frame may    *)
(* reuse a frame without clearing it.                                      *)
CleanFrames ==
  \A f \in Frame :
    /\ f > callstack => indices[f] = <<>>
    /\ indices[f] = <<>> => region[f] = <<>>
    /\ indices[f] # <<>> => indices[f][1] = 0
    /\ Depth(f) < IndexSlots

(* The regions implement single ownership with nested lifetimes. *)
OwnerOf(b) ==
  IF b \in held THEN <<0, 0>>
  ELSE IF \E f \in Frame : b \in Tracked(f)
       THEN <<CHOOSE f \in Frame : b \in Tracked(f), level[b]>>
       ELSE <<0, 1>>

Own == INSTANCE Ownership WITH
  MaxDepth <- IndexSlots - 1,
  owner <- [b \in Block |-> OwnerOf(b)],
  frame <- callstack,
  depth <- [f \in Frame |-> Depth(f)]

OwnershipSpec == Own!Spec
==============================================================================
