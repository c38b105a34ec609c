------------------------------ MODULE Ownership ------------------------------
(***************************************************************************)
(* What the memory regions of the Tarot virtual machine promise, free of   *)
(* lists and indices: every live heap block has one owner.  An owner is a  *)
(* region, named by its frame and its nesting depth in that frame, or Held *)
(* (a variable slot, an attribute, or a value in flight to one).           *)
(*                                                                         *)
(* Leaving a region frees blocks of that region only.  A block it leaves   *)
(* behind passes to the enclosing region, so the outermost region of a     *)
(* frame leaves none behind.  Regions.tla implements this specification.   *)
(***************************************************************************)
EXTENDS Naturals

CONSTANTS
  Block,      \* heap blocks
  MaxFrames,  \* frames the call stack may hold
  MaxDepth,   \* regions that may be nested in a frame
  NoBlock     \* the NULL pointer

VARIABLES
  live,       \* the allocated blocks
  owner,      \* owner[b] of every live block
  frame,      \* number of the current frame, 0 when no function runs
  depth       \* depth[f]: regions open in frame f

vars == <<live, owner, frame, depth>>

Frame == 1 .. MaxFrames
Held == <<0, 0>>
Nobody == <<0, 1>>

OwnedBy(o) == {b \in live : owner[b] = o}
OwnedIn(f) == {b \in live : owner[b][1] = f}
Innermost(f) == <<f, depth[f]>>

Init ==
  /\ live = {}
  /\ owner = [b \in Block |-> Nobody]
  /\ frame = 0
  /\ depth = [f \in Frame |-> 0]

(* A fresh block starts in the innermost region of the current frame. *)
Track(b) ==
  /\ frame > 0
  /\ depth[frame] > 0
  /\ b \notin live
  /\ live' = live \union {b}
  /\ owner' = [owner EXCEPT ![b] = Innermost(frame)]
  /\ UNCHANGED <<frame, depth>>

(* A fresh block that no region knows. *)
Keep(b) ==
  /\ frame > 0
  /\ b \notin live
  /\ live' = live \union {b}
  /\ owner' = [owner EXCEPT ![b] = Held]
  /\ UNCHANGED <<frame, depth>>

(* A block of the current frame is taken out of its region, whichever of *)
(* the nested ones that is; the block it replaces, if any, is freed.     *)
Take(b, old) ==
  /\ frame > 0
  /\ b \in OwnedIn(frame)
  /\ old \in OwnedBy(Held) \union {NoBlock}
  /\ live' = live \ {old}
  /\ owner' = [c \in Block |-> CASE c = b   -> Held
                                 [] c = old -> Nobody
                                 [] OTHER   -> owner[c]]
  /\ UNCHANGED <<frame, depth>>

Drop(b) ==
  /\ frame > 0
  /\ b \in OwnedBy(Held)
  /\ live' = live \ {b}
  /\ owner' = [owner EXCEPT ![b] = Nobody]
  /\ UNCHANGED <<frame, depth>>

Enter ==
  /\ frame > 0
  /\ depth[frame] < MaxDepth
  /\ depth' = [depth EXCEPT ![frame] = @ + 1]
  /\ UNCHANGED <<live, owner, frame>>

(* The innermost region is left: the blocks in gone die, the others of *)
(* that region pass to the enclosing one.                              *)
Leave(gone) ==
  /\ frame > 0
  /\ depth[frame] > 0
  /\ gone \subseteq OwnedBy(Innermost(frame))
  /\ depth[frame] = 1 => gone = OwnedIn(frame)
  /\ live' = live \ gone
  /\ owner' = [b \in Block |->
                 CASE b \in gone -> Nobody
                   [] b \in OwnedBy(Innermost(frame)) \ gone
                        -> <<frame, depth[frame] - 1>>
                   [] OTHER -> owner[b]]
  /\ depth' = [depth EXCEPT ![frame] = @ - 1]
  /\ UNCHANGED frame

Call ==
  /\ frame < MaxFrames
  /\ frame' = frame + 1
  /\ depth' = [depth EXCEPT ![frame'] = 1]
  /\ UNCHANGED <<live, owner>>

(* All regions of the frame die; the result, if it is a block, moves from *)
(* the returning function to the innermost region of its caller.          *)
Return(b) ==
  /\ frame > 0
  /\ depth[frame] > 0
  /\ \/ b = NoBlock
     \/ b \in OwnedBy(Held) /\ frame > 1 /\ depth[frame - 1] > 0
  /\ live' = live \ OwnedIn(frame)
  /\ owner' = [c \in Block |-> CASE c = b -> Innermost(frame - 1)
                                 [] c \in OwnedIn(frame) -> Nobody
                                 [] OTHER -> owner[c]]
  /\ depth' = [depth EXCEPT ![frame] = 0]
  /\ frame' = frame - 1

Next ==
  \/ \E b \in Block : Track(b) \/ Keep(b) \/ Drop(b)
  \/ \E b \in Block, old \in Block \union {NoBlock} : Take(b, old)
  \/ Enter
  \/ \E gone \in SUBSET live : Leave(gone)
  \/ Call
  \/ \E b \in Block \union {NoBlock} : Return(b)

Spec == Init /\ [][Next]_vars
==============================================================================
