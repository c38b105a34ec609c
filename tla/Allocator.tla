------------------------------ MODULE Allocator ------------------------------
(***************************************************************************)
(* The allocator, system/malloc.c: blocks with a header, on top of the     *)
(* platform's malloc, realloc and free, with the two counters that its     *)
(* assertion and the warning about leaked memory compare.  The counters of *)
(* bytes and of resized blocks are only printed, and are left out.         *)
(*                                                                         *)
(* The platform never hands out a block that is in use, and may move one   *)
(* that is resized.  That it runs out of memory is not modelled:           *)
(* tarot_malloc asserts that it does not; tarot_realloc does not look, and *)
(* would write the header through NULL (malloc.c:79-80).                   *)
(***************************************************************************)
EXTENDS Integers, FiniteSets

CONSTANTS
  Block,          \* addresses of blocks
  NoBlock,        \* NULL
  Tag,            \* what the type in a header may say
  NoTag,          \* it says nothing: the header is not initialized
  MaxAllocations  \* bound of the instance

ASSUME AllocatorAssumption ==
  /\ NoBlock \notin Block
  /\ NoTag \in Tag
  /\ MaxAllocations \in Nat

VARIABLES
  live,             \* blocks handed out and not freed
  size,             \* header.size of every block
  type,             \* header.type of every block
  num_allocations,
  num_frees

heapVars == <<live, size, type, num_allocations, num_frees>>

Even(n) == n + (n % 2)

HeapInit ==
  /\ live = {}
  /\ size = [b \in Block |-> 0]
  /\ type = [b \in Block |-> NoTag]
  /\ num_allocations = 0
  /\ num_frees = 0

(* tarot_malloc(n) returns b, which its owner tags with t, if at all. *)
Malloc(b, n, t) ==
  /\ n > 0
  /\ num_allocations < MaxAllocations
  /\ b \in Block \ live
  /\ live' = live \union {b}
  /\ size' = [size EXCEPT ![b] = Even(n)]
  /\ type' = [type EXCEPT ![b] = t]
  /\ num_allocations' = num_allocations + 1
  /\ UNCHANGED num_frees

(* The platform's realloc: the same block, or another one that has its *)
(* contents and its header.                                            *)
Resized(old, b, n) ==
  /\ old \in live
  /\ b \in (Block \ live) \union {old}
  /\ live' = (live \ {old}) \union {b}
  /\ size' = [size EXCEPT ![b] = Even(n)]
  /\ type' = [type EXCEPT ![b] = type[old]]
  /\ UNCHANGED <<num_allocations, num_frees>>

(* Mutant: a block that is made of nothing counts as one that is resized. *)
ReallocUncounted(old, b, n) ==
  \/ /\ old = NoBlock
     /\ b \in Block \ live
     /\ live' = live \union {b}
     /\ size' = [size EXCEPT ![b] = Even(n)]
     /\ type' = [type EXCEPT ![b] = NoTag]
     /\ UNCHANGED <<num_allocations, num_frees>>
  \/ Resized(old, b, n)

(* tarot_realloc(old, n) returns b.  Of NULL it makes a new block. *)
Realloc(old, b, n) ==
  \/ old = NoBlock /\ Malloc(b, n, NoTag)
  \/ Resized(old, b, n)

(* tarot_free, of a block its owner has: see CountsBlocks. *)
Free(b) ==
  /\ b \in live
  /\ live' = live \ {b}
  /\ num_frees' = num_frees + 1
  /\ UNCHANGED <<size, type, num_allocations>>

------------------------------------------------------------------------------

HeapTypeOK ==
  /\ live \subseteq Block
  /\ size \in [Block -> Nat]
  /\ type \in [Block -> Tag]
  /\ num_allocations \in Nat
  /\ num_frees \in Nat

(* The counters agree with the heap: as many allocations are open as blocks *)
(* are in use.  So the assertion of tarot_free (malloc.c:97) holds for any  *)
(* block in use, and tarot_exit (platform.c:55) warns of leaked memory when *)
(* there is some, and only then.                                            *)
CountsBlocks ==
  /\ IsFiniteSet(live)
  /\ num_allocations - num_frees = Cardinality(live)
==============================================================================
