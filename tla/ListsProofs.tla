----------------------------- MODULE ListsProofs -----------------------------
(***************************************************************************)
(* Proofs about Allocator.tla, Lists.tla and ListContents.tla, for any     *)
(* memory, any lists and any sizes of header and element.                  *)
(*                                                                         *)
(* The inductive invariant is Inv: the types, that every list fits into a  *)
(* block of its own, that no capacity is beyond the cells the model looks  *)
(* at, that the block of the stack is in use, and that the counters agree  *)
(* with the heap.                                                          *)
(***************************************************************************)
EXTENDS Lists, FiniteSetTheorems, WellFoundedInduction, TLAPS

------------------------------------------------------------------------------
(* Sizes. *)

(* Rounding up keeps what fits. *)
LEMMA EvenFacts ==
  ASSUME NEW n \in Nat
  PROVE  Even(n) \in Nat /\ n <= Even(n)
BY DEF Even

(* A list with more room takes more bytes. *)
LEMMA BytesFacts ==
  ASSUME NEW n \in Nat
  PROVE  /\ Bytes(n) \in Nat \ {0}
         /\ \A m \in Nat : m <= n => Bytes(m) <= Bytes(n)
<1>1. n * ObjSize \in Nat /\ Header \in Nat \ {0} /\ ObjSize \in Nat
  BY ListsAssumption
<1>2. ASSUME NEW m \in Nat, m <= n PROVE Bytes(m) <= Bytes(n)
  <2>1. /\ n - m \in Nat /\ (n - m) * ObjSize \in Nat /\ m * ObjSize \in Nat
    BY <1>2, ListsAssumption
  <2>2. n * ObjSize = m * ObjSize + (n - m) * ObjSize
    BY <1>1
  <2> QED
    BY <1>1, <2>1, <2>2 DEF Bytes
<1> QED
  BY <1>1, <1>2 DEF Bytes

------------------------------------------------------------------------------
(* The heap. *)

(* A block that is new adds one to the blocks in use. *)
LEMMA MallocCounts ==
  ASSUME HeapTypeOK, CountsBlocks,
         NEW b, NEW n \in Nat, NEW t \in Tag, Malloc(b, n, t)
  PROVE  HeapTypeOK' /\ CountsBlocks'
<1>1. IsFiniteSet(live')
      /\ Cardinality(live') = Cardinality(live) + 1
      /\ Cardinality(live) \in Nat
  BY FS_AddElement, FS_CardinalityType DEF Malloc, CountsBlocks
<1>2. HeapTypeOK'
  BY EvenFacts DEF Malloc, HeapTypeOK
<1> QED
  BY <1>1, <1>2 DEF Malloc, CountsBlocks, HeapTypeOK

(* A block that moves leaves the number of blocks as it is. *)
LEMMA ResizedCounts ==
  ASSUME HeapTypeOK, CountsBlocks,
         NEW old, NEW b, NEW n \in Nat, Resized(old, b, n)
  PROVE  HeapTypeOK' /\ CountsBlocks'
<1> DEFINE rest == live \ {old}
<1>1. IsFiniteSet(rest) /\ Cardinality(rest) = Cardinality(live) - 1
  BY FS_RemoveElement DEF Resized, CountsBlocks
<1>2. b \notin rest /\ live' = rest \union {b}
  BY DEF Resized
<1>3. IsFiniteSet(live') /\ Cardinality(live') = Cardinality(rest) + 1
  <2> HIDE DEF rest
  <2> QED
    BY <1>1, <1>2, FS_AddElement
<1>4. Cardinality(live) \in Nat
  BY FS_CardinalityType DEF CountsBlocks
<1>5. HeapTypeOK'
  BY EvenFacts DEF Resized, HeapTypeOK
<1> QED
  BY <1>1, <1>3, <1>4, <1>5 DEF Resized, CountsBlocks, HeapTypeOK

(* Realloc counts the block it makes of nothing, and no other. *)
LEMMA ReallocCounts ==
  ASSUME HeapTypeOK, CountsBlocks,
         NEW old, NEW b, NEW n \in Nat, Realloc(old, b, n)
  PROVE  HeapTypeOK' /\ CountsBlocks'
BY MallocCounts, ResizedCounts, AllocatorAssumption DEF Realloc

(* A block that is freed takes one from the blocks in use, and the assertion *)
(* of tarot_free holds before it.                                            *)
LEMMA FreeCounts ==
  ASSUME HeapTypeOK, CountsBlocks, NEW b, Free(b)
  PROVE  HeapTypeOK' /\ CountsBlocks' /\ num_frees < num_allocations
<1>1. IsFiniteSet(live') /\ Cardinality(live') = Cardinality(live) - 1
      /\ Cardinality(live') \in Nat
  BY FS_RemoveElement, FS_CardinalityType DEF Free, CountsBlocks
<1>2. Cardinality(live) \in Nat
  BY FS_CardinalityType DEF CountsBlocks
<1>3. HeapTypeOK'
  BY DEF Free, HeapTypeOK
<1> QED
  BY <1>1, <1>2, <1>3 DEF Free, CountsBlocks, HeapTypeOK

------------------------------------------------------------------------------
(* The invariant. *)

CapacityInCells == \A l \in List : capacity[l] <= Cells

EmptyWithoutBlock == \A l \in List : ~Held(l) => length[l] = 0

StackInUse == base # NoBlock => base \in live

Inv ==
  /\ TypeOK
  /\ StaysInBlock
  /\ CountsBlocks
  /\ CapacityInCells
  /\ EmptyWithoutBlock
  /\ StackInUse

(* What the allocator does to blocks that are in use. *)
LEMMA MallocKeeps ==
  ASSUME HeapTypeOK, NEW b, NEW n \in Nat, NEW t \in Tag, Malloc(b, n, t)
  PROVE  /\ b \in Block \ live /\ b \in live' /\ n <= size'[b] /\ type'[b] = t
         /\ \A c \in live : c \in live' /\ c # b /\ size'[c] = size[c]
                             /\ type'[c] = type[c]
BY EvenFacts DEF Malloc, HeapTypeOK

LEMMA ReallocKeeps ==
  ASSUME HeapTypeOK, NEW old, NEW b, NEW n \in Nat, Realloc(old, b, n)
  PROVE  /\ b \in Block /\ b \in live' /\ n <= size'[b]
         /\ old # NoBlock => type'[b] = type[old]
         /\ \A c \in live \ {old} : c \in live' /\ c # b /\ size'[c] = size[c]
                                     /\ type'[c] = type[c]
<1>1. CASE old = NoBlock /\ Malloc(b, n, NoTag)
  BY <1>1, MallocKeeps, AllocatorAssumption
<1>2. CASE Resized(old, b, n)
  BY <1>2, EvenFacts DEF Resized, HeapTypeOK
<1> QED
  BY <1>1, <1>2 DEF Realloc

LEMMA FreeKeeps ==
  ASSUME NEW b, Free(b)
  PROVE  \A c \in live \ {b} : c \in live' /\ size'[c] = size[c] /\ type'[c] = type[c]
BY DEF Free

(* The cells a list keeps when its block is resized. *)
LEMMA KeptFacts ==
  ASSUME TypeOK, StaysInBlock, NEW l \in List, Held(l),
         NEW n \in Nat, length[l] <= n
  PROVE  /\ Kept(l, n) \in [Cell -> Element \union {Zero}]
         /\ \A i \in Cell : i < length[l] => Kept(l, n)[i] = cells[l][i]
<1>1. /\ cells[l] \in [Cell -> Element \union {Zero}] /\ length[l] \in Nat
      /\ capacity[l] \in Nat /\ at[l] \in Block /\ size[at[l]] \in Nat
  BY DEF TypeOK, HeapTypeOK, Held
<1>2. ASSUME NEW i \in Cell, i < length[l]
      PROVE  Bytes(i + 1) <= Even(Bytes(n)) /\ Bytes(i + 1) <= size[at[l]]
  <2>1. i + 1 \in Nat /\ i + 1 <= n /\ i + 1 <= capacity[l]
    BY <1>1, <1>2, ListsAssumption DEF Cell, StaysInBlock
  <2>2. Bytes(i + 1) <= Bytes(n) /\ Bytes(n) <= Even(Bytes(n)) /\ Even(Bytes(n)) \in Nat
        /\ Bytes(n) \in Nat /\ Bytes(i + 1) \in Nat
    BY <2>1, BytesFacts, EvenFacts
  <2>3. Bytes(i + 1) <= Bytes(capacity[l]) /\ Bytes(capacity[l]) \in Nat
    BY <1>1, <2>1, BytesFacts
  <2>4. Bytes(capacity[l]) <= size[at[l]]
    BY DEF StaysInBlock
  <2> QED
    BY <1>1, <2>2, <2>3, <2>4
<1> QED
  BY <1>1, <1>2 DEF Kept

------------------------------------------------------------------------------
(* Every operation keeps the invariant. *)

LEMMA CreateKeeps ==
  ASSUME Inv, UNCHANGED <<base, slots>>,
         NEW l \in List, NEW b \in Block, NEW n \in Capacities,
         NEW t \in {"list", "dict"}, Create(l, b, n, t)
  PROVE  Inv'
<1>1. n \in Nat /\ n <= Cells /\ t \in Tag /\ Bytes(n) \in Nat
  BY ListsAssumption, BytesFacts
<1>2. HeapTypeOK' /\ CountsBlocks'
  BY <1>1, MallocCounts DEF Create, Inv, TypeOK
<1>3. /\ b \in Block \ live /\ b \in live' /\ Bytes(n) <= size'[b] /\ type'[b] = t
      /\ \A c \in live : c \in live' /\ c # b /\ size'[c] = size[c]
                          /\ type'[c] = type[c]
  BY <1>1, MallocKeeps DEF Create, Inv, TypeOK
<1>4. TypeOK'
  BY <1>1, <1>2, <1>3 DEF Create, Inv, TypeOK
<1>5. StaysInBlock'
  BY <1>1, <1>3, <1>4, AllocatorAssumption
  DEF Create, Inv, TypeOK, StaysInBlock, StackInUse, Held, Bytes
<1>6. CapacityInCells' /\ EmptyWithoutBlock' /\ StackInUse'
  BY <1>1, <1>3
  DEF Create, Inv, TypeOK, CapacityInCells, EmptyWithoutBlock, StackInUse, Held
<1> QED
  BY <1>2, <1>4, <1>5, <1>6 DEF Inv

LEMMA CopyKeeps ==
  ASSUME Inv, UNCHANGED <<base, slots>>,
         NEW l \in List, NEW from \in List, NEW b \in Block, Copy(l, from, b)
  PROVE  Inv'
<1> DEFINE n == capacity[from]
<1>1. n \in Nat /\ n <= Cells /\ "list" \in Tag /\ Bytes(n) \in Nat
      /\ length[from] \in Nat /\ length[from] <= n
      /\ cells[from] \in [Cell -> Element \union {Zero}]
  BY ListsAssumption, BytesFacts DEF Inv, TypeOK, CapacityInCells, Copy, StaysInBlock
<1>2. HeapTypeOK' /\ CountsBlocks'
  BY <1>1, MallocCounts DEF Copy, Inv, TypeOK
<1>3. /\ b \in Block \ live /\ b \in live' /\ Bytes(n) <= size'[b] /\ type'[b] = "list"
      /\ \A c \in live : c \in live' /\ c # b /\ size'[c] = size[c]
                          /\ type'[c] = type[c]
  BY <1>1, MallocKeeps DEF Copy, Inv, TypeOK
<1>4. TypeOK'
  BY <1>1, <1>2, <1>3 DEF Copy, Inv, TypeOK
<1>5. StaysInBlock'
  BY <1>1, <1>3, <1>4, AllocatorAssumption
  DEF Copy, Inv, TypeOK, StaysInBlock, StackInUse, Held, Bytes
<1>6. CapacityInCells' /\ EmptyWithoutBlock' /\ StackInUse'
  BY <1>1, <1>3, AllocatorAssumption
  DEF Copy, Inv, TypeOK, CapacityInCells, EmptyWithoutBlock, StackInUse, Held
<1> QED
  BY <1>2, <1>4, <1>5, <1>6 DEF Inv

LEMMA FreeListKeeps ==
  ASSUME Inv, UNCHANGED <<base, slots>>, NEW l \in List, FreeList(l)
  PROVE  Inv'
<1>1. HeapTypeOK' /\ CountsBlocks'
  BY FreeCounts DEF FreeList, Inv, TypeOK
<1>2. \A c \in live \ {at[l]} : c \in live' /\ size'[c] = size[c] /\ type'[c] = type[c]
  BY FreeKeeps DEF FreeList
<1>3. TypeOK'
  BY <1>1 DEF FreeList, Inv, TypeOK
<1>4. StaysInBlock'
  BY <1>2 DEF FreeList, Inv, TypeOK, StaysInBlock, Held, Bytes
<1>5. CapacityInCells' /\ EmptyWithoutBlock'
  BY ListsAssumption DEF FreeList, Inv, TypeOK, CapacityInCells, EmptyWithoutBlock, Held
<1>6. StackInUse'
  BY <1>2 DEF FreeList, Inv, StaysInBlock, StackInUse
<1> QED
  BY <1>1, <1>3, <1>4, <1>5, <1>6 DEF Inv

(* A list that moves into a block for n elements, no fewer than it has. *)
LEMMA ResizeKeeps ==
  ASSUME Inv, UNCHANGED <<base, slots>>,
         NEW l \in List, NEW b \in Block, Held(l), NEW n \in Nat,
         n <= Cells, Resize(l, b, n),
         length' \in [List -> Nat], length'[l] <= n,
         \A m \in List \ {l} : length'[m] = length[m],
         cells' \in [List -> [Cell -> Element \union {Zero}]]
  PROVE  Inv'
<1>1. Bytes(n) \in Nat
  BY BytesFacts
<1>2. HeapTypeOK' /\ CountsBlocks'
  BY <1>1, ReallocCounts DEF Resize, Inv, TypeOK
<1>3. /\ b \in live' /\ Bytes(n) <= size'[b] /\ type'[b] = type[at[l]]
      /\ \A c \in live \ {at[l]} : c \in live' /\ c # b /\ size'[c] = size[c]
                                  /\ type'[c] = type[c]
  BY <1>1, ReallocKeeps DEF Resize, Inv, TypeOK, Held
<1>4. TypeOK' /\ at[l] # base
  BY <1>2 DEF Resize, Inv, TypeOK, StaysInBlock
<1>5. StaysInBlock'
  BY <1>3, <1>4, AllocatorAssumption
  DEF Resize, Inv, TypeOK, StaysInBlock, StackInUse, Held, Bytes
<1>6. CapacityInCells' /\ EmptyWithoutBlock' /\ StackInUse'
  BY <1>3, <1>4, AllocatorAssumption
  DEF Resize, Inv, TypeOK, CapacityInCells, EmptyWithoutBlock, StackInUse, Held
<1> QED
  BY <1>2, <1>4, <1>5, <1>6 DEF Inv

LEMMA AppendKeeps ==
  ASSUME Inv, UNCHANGED <<base, slots>>,
         NEW l \in List, NEW b \in Block, NEW e \in Element, ListAppend(l, b, e)
  PROVE  Inv'
<1>1. /\ length[l] \in Nat /\ capacity[l] \in Nat /\ Held(l)
      /\ length[l] <= capacity[l] /\ length[l] < MaxLength
      /\ cells[l] \in [Cell -> Element \union {Zero}]
  BY DEF ListAppend, Inv, TypeOK, StaysInBlock
<1>2. /\ length' \in [List -> Nat] /\ length'[l] = length[l] + 1
      /\ \A m \in List \ {l} : length'[m] = length[m]
  BY DEF ListAppend, Inv, TypeOK
<1>3. CASE Full(l)
  <2> DEFINE n == Grown(l)
  <2>1. n \in Nat /\ n <= Cells /\ length[l] + 1 <= n
    BY <1>1, <1>3, ListsAssumption DEF Full, Grown
  <2>2. Kept(l, n) \in [Cell -> Element \union {Zero}]
    <3> HIDE DEF n
    <3> QED BY <1>1, <2>1, KeptFacts DEF Inv
  <2>3. cells' \in [List -> [Cell -> Element \union {Zero}]] /\ Resize(l, b, n)
    BY <1>3, <2>2 DEF ListAppend, Inv, TypeOK
  <2> HIDE DEF n
  <2> QED
    BY <1>1, <1>2, <2>1, <2>3, ResizeKeeps
<1>4. CASE ~Full(l)
  <2>1. TypeOK'
    <3>1. HeapTypeOK'
      BY <1>4 DEF ListAppend, Inv, TypeOK, HeapTypeOK, heapVars
    <3>2. cells' = [cells EXCEPT ![l] = [cells[l] EXCEPT ![length[l]] = e]]
      BY <1>4 DEF ListAppend
    <3>3. cells' \in [List -> [Cell -> Element \union {Zero}]]
      BY <1>1, <3>2 DEF Inv, TypeOK
    <3>4. at' = at /\ capacity' = capacity
      BY <1>4 DEF ListAppend
    <3> QED
      BY <1>2, <3>1, <3>3, <3>4 DEF Inv, TypeOK
  <2>2. StaysInBlock'
    BY <1>1, <1>4, <2>1
    DEF ListAppend, Full, Inv, TypeOK, StaysInBlock, Held, Bytes, heapVars
  <2>3. CountsBlocks' /\ CapacityInCells' /\ EmptyWithoutBlock' /\ StackInUse'
    BY <1>1, <1>2, <1>4
    DEF ListAppend, Inv, CountsBlocks, CapacityInCells, EmptyWithoutBlock, StackInUse,
        Held, heapVars
  <2> QED
    BY <2>1, <2>2, <2>3 DEF Inv
<1> QED
  BY <1>3, <1>4

LEMMA TrimKeeps ==
  ASSUME Inv, UNCHANGED <<base, slots>>, NEW l \in List, NEW b \in Block, Trim(l, b)
  PROVE  Inv'
<1>1. /\ length[l] \in Nat /\ Held(l) /\ length' = length
      /\ capacity[l] \in Nat /\ length[l] <= capacity[l] /\ capacity[l] <= Cells
  BY DEF Trim, Inv, TypeOK, CapacityInCells
<1>2. cells' \in [List -> [Cell -> Element \union {Zero}]]
  BY <1>1, KeptFacts DEF Trim, Inv, TypeOK
<1>3. length[l] <= Cells /\ Resize(l, b, length[l])
  BY <1>1, ListsAssumption DEF Trim
<1> QED
  BY <1>1, <1>2, <1>3, ResizeKeeps DEF Inv, TypeOK

(* Operations that leave the heap alone. *)
LEMMA InPlaceKeeps ==
  ASSUME Inv, UNCHANGED <<base, slots>>,
         NEW l \in List, Held(l), UNCHANGED <<heapVars, at>>,
         length' \in [List -> Nat], capacity' \in [List -> Nat],
         length'[l] <= capacity'[l], capacity'[l] <= capacity[l],
         \A m \in List \ {l} : length'[m] = length[m] /\ capacity'[m] = capacity[m],
         cells' \in [List -> [Cell -> Element \union {Zero}]]
  PROVE  Inv'
<1>1. HeapTypeOK' /\ CountsBlocks'
  BY DEF Inv, TypeOK, HeapTypeOK, CountsBlocks, heapVars
<1>2. TypeOK'
  BY <1>1 DEF Inv, TypeOK
<1>3. capacity[l] \in Nat /\ capacity'[l] \in Nat
  BY DEF Inv, TypeOK
<1>4. Bytes(capacity'[l]) <= Bytes(capacity[l])
      /\ Bytes(capacity[l]) \in Nat /\ Bytes(capacity'[l]) \in Nat
  BY <1>3, BytesFacts
<1>5. Bytes(capacity[l]) <= size[at[l]] /\ size[at[l]] \in Nat
  BY DEF Inv, StaysInBlock, TypeOK, HeapTypeOK, Held
<1>6. Bytes(capacity'[l]) <= size[at[l]]
  BY <1>4, <1>5
<1>7. StaysInBlock'
  BY <1>6 DEF Inv, StaysInBlock, Held, heapVars, Bytes
<1>8. CapacityInCells' /\ EmptyWithoutBlock' /\ StackInUse'
  BY <1>3, ListsAssumption
  DEF Inv, TypeOK, CapacityInCells, EmptyWithoutBlock, StackInUse, Held, heapVars
<1> QED
  BY <1>1, <1>2, <1>7, <1>8 DEF Inv

LEMMA PopKeeps ==
  ASSUME Inv, UNCHANGED <<base, slots>>, NEW l \in List, Pop(l) PROVE Inv'
<1>1. length[l] \in Nat /\ capacity[l] \in Nat /\ length[l] <= capacity[l]
  BY DEF Inv, TypeOK, StaysInBlock, Pop
<1> QED
  BY <1>1, InPlaceKeeps DEF Pop, Inv, TypeOK

LEMMA RemoveKeeps ==
  ASSUME Inv, UNCHANGED <<base, slots>>,
         NEW l \in List, NEW index \in Int, Remove(l, index) PROVE Inv'
<1>1. /\ length[l] \in Nat /\ capacity[l] \in Nat /\ length[l] <= capacity[l]
      /\ capacity[l] <= Cells /\ cells[l] \in [Cell -> Element \union {Zero}]
  BY DEF Inv, TypeOK, StaysInBlock, CapacityInCells, Remove
<1>2. Shifted(l, index) \in [Cell -> Element \union {Zero}]
  <2>1. ASSUME NEW i \in Cell, i \in index .. length[l] - 2 PROVE i + 1 \in Cell
    BY <1>1, <2>1, ListsAssumption DEF Cell
  <2> QED
    BY <1>1, <2>1 DEF Shifted
<1> QED
  BY <1>1, <1>2, InPlaceKeeps DEF Remove, Inv, TypeOK

LEMMA ClearKeeps ==
  ASSUME Inv, UNCHANGED <<base, slots>>, NEW l \in List, Clear(l) PROVE Inv'
BY InPlaceKeeps DEF Clear, Inv, TypeOK

LEMMA ToArrayKeeps ==
  ASSUME Inv, UNCHANGED <<base, slots>>,
         NEW l \in List, NEW b \in Block, ToArray(l, b) PROVE Inv'
<1>1. length[l] \in Nat /\ length[l] * ObjSize \in Nat /\ NoTag \in Tag
  BY ListsAssumption, AllocatorAssumption DEF Inv, TypeOK
<1>2. HeapTypeOK' /\ CountsBlocks'
  BY <1>1, MallocCounts DEF ToArray, Inv, TypeOK
<1>3. \A c \in live : c \in live' /\ size'[c] = size[c] /\ type'[c] = type[c]
  BY <1>1, MallocKeeps DEF ToArray, Inv, TypeOK
<1>4. TypeOK' /\ CapacityInCells' /\ EmptyWithoutBlock' /\ StackInUse'
  BY <1>2, <1>3
  DEF ToArray, Inv, TypeOK, CapacityInCells, EmptyWithoutBlock, StackInUse, Held
<1>5. StaysInBlock'
  BY <1>3 DEF ToArray, Inv, StaysInBlock, Held, Bytes
<1> QED
  BY <1>2, <1>4, <1>5 DEF Inv

LEMMA FreeArrayKeeps ==
  ASSUME Inv, UNCHANGED <<base, slots>>, NEW b \in Block, FreeArray(b) PROVE Inv'
<1>1. HeapTypeOK' /\ CountsBlocks'
  BY FreeCounts DEF FreeArray, Inv, TypeOK
<1>2. \A c \in live \ {b} : c \in live' /\ size'[c] = size[c] /\ type'[c] = type[c]
  BY FreeKeeps DEF FreeArray
<1>3. TypeOK' /\ CapacityInCells' /\ EmptyWithoutBlock' /\ StackInUse'
  BY <1>1, <1>2
  DEF FreeArray, Inv, TypeOK, CapacityInCells, EmptyWithoutBlock, StackInUse, Held
<1>4. StaysInBlock'
  BY <1>2 DEF FreeArray, Inv, StaysInBlock, Held, Bytes
<1> QED
  BY <1>1, <1>3, <1>4 DEF Inv

(* A stack that grows gets a block that is no list's. *)
LEMMA GrowStackKeeps ==
  ASSUME Inv, NEW b \in Block, GrowStack(b) PROVE Inv'
<1> DEFINE n == SlotSize * slots'
<1>1. slots' \in Nat /\ n \in Nat
  BY ListsAssumption DEF GrowStack, Inv, TypeOK
<1>2. HeapTypeOK' /\ CountsBlocks'
  <2> HIDE DEF n
  <2> QED
    BY <1>1, ReallocCounts DEF GrowStack, Inv, TypeOK, n
<1>3. /\ b \in live'
      /\ \A c \in live \ {base} : c \in live' /\ c # b /\ size'[c] = size[c]
                                  /\ type'[c] = type[c]
  <2> HIDE DEF n
  <2> QED
    BY <1>1, ReallocKeeps DEF GrowStack, Inv, TypeOK, n
<1>4. TypeOK'
  BY <1>1, <1>2 DEF GrowStack, Inv, TypeOK
<1>5. StaysInBlock'
  BY <1>3 DEF GrowStack, Inv, StaysInBlock, Held, Bytes
<1>6. CapacityInCells' /\ EmptyWithoutBlock' /\ StackInUse'
  BY <1>3
  DEF GrowStack, Inv, CapacityInCells, EmptyWithoutBlock, StackInUse, Held
<1> QED
  BY <1>2, <1>4, <1>5, <1>6 DEF Inv

LEMMA ClearStackKeeps ==
  ASSUME Inv, ClearStack PROVE Inv'
<1>1. CASE base = NoBlock
  BY <1>1, AllocatorAssumption
  DEF ClearStack, Inv, TypeOK, HeapTypeOK, StaysInBlock, CountsBlocks, CapacityInCells,
      EmptyWithoutBlock, StackInUse, Held, Bytes, heapVars
<1>2. CASE base # NoBlock
  <2>1. HeapTypeOK' /\ CountsBlocks'
    BY <1>2, FreeCounts DEF ClearStack, Inv, TypeOK
  <2>2. \A c \in live \ {base} : c \in live' /\ size'[c] = size[c] /\ type'[c] = type[c]
    BY <1>2, FreeKeeps DEF ClearStack
  <2>3. TypeOK' /\ CapacityInCells' /\ EmptyWithoutBlock' /\ StackInUse'
    BY <2>1
    DEF ClearStack, Inv, TypeOK, CapacityInCells, EmptyWithoutBlock, StackInUse, Held
  <2>4. StaysInBlock'
    BY <2>2 DEF ClearStack, Inv, StaysInBlock, Held, Bytes
  <2> QED
    BY <2>1, <2>3, <2>4 DEF Inv
<1> QED
  BY <1>1, <1>2

LEMMA UnchangedKeeps ==
  ASSUME Inv, UNCHANGED <<heapVars, at, length, capacity, cells, base, slots>>
  PROVE  Inv'
BY DEF Inv, TypeOK, HeapTypeOK, StaysInBlock, CountsBlocks, CapacityInCells,
       EmptyWithoutBlock, StackInUse, Held, Bytes, heapVars

LEMMA InitInv == Init => Inv
<1> SUFFICES ASSUME Init PROVE Inv
  OBVIOUS
<1>1. Cardinality(live) = 0 /\ IsFiniteSet(live)
  BY FS_EmptySet DEF Init, HeapInit
<1>2. TypeOK
  BY AllocatorAssumption DEF Init, HeapInit, TypeOK, HeapTypeOK
<1> QED
  BY <1>1, <1>2, ListsAssumption
  DEF Init, HeapInit, Inv, StaysInBlock, CountsBlocks, CapacityInCells,
      EmptyWithoutBlock, StackInUse, Held

LEMMA OnListInv ==
  ASSUME Inv, NEW l \in List, OnList(l), UNCHANGED <<base, slots>>
  PROVE  Inv'
<1>1. CASE FreeList(l)
  BY <1>1, FreeListKeeps
<1>2. CASE Pop(l)
  BY <1>2, PopKeeps
<1>3. CASE Clear(l)
  BY <1>3, ClearKeeps
<1>4. ASSUME NEW index \in 0 .. MaxLength - 1, Remove(l, index) PROVE Inv'
  BY <1>4, RemoveKeeps, ListsAssumption
<1>5. ASSUME NEW o \in Objects, Ask(l, o) \/ Lookup(l, o) PROVE Inv'
  BY <1>5, UnchangedKeeps DEF Ask, Lookup
<1>6. ASSUME NEW b \in Block, NEW n \in Capacities, NEW t \in {"list", "dict"},
             Create(l, b, n, t)
      PROVE  Inv'
  BY <1>6, CreateKeeps
<1>7. ASSUME NEW b \in Block, NEW from \in List, Copy(l, from, b) PROVE Inv'
  BY <1>7, CopyKeeps
<1>8. ASSUME NEW b \in Block, NEW e \in Element, ListAppend(l, b, e) PROVE Inv'
  BY <1>8, AppendKeeps
<1>9. ASSUME NEW b \in Block, Trim(l, b) PROVE Inv'
  BY <1>9, TrimKeeps
<1>10. ASSUME NEW b \in Block, ToArray(l, b) PROVE Inv'
  BY <1>10, ToArrayKeeps
<1> QED
  BY <1>1, <1>2, <1>3, <1>4, <1>5, <1>6, <1>7, <1>8, <1>9, <1>10 DEF OnList

LEMMA NextInv == Inv /\ [Next]_vars => Inv'
<1> SUFFICES ASSUME Inv, [Next]_vars PROVE Inv'
  OBVIOUS
<1>1. ASSUME NEW l \in List, OnList(l), UNCHANGED stackVars PROVE Inv'
  BY <1>1, OnListInv DEF stackVars
<1>2. ASSUME NEW b \in Block, FreeArray(b), UNCHANGED stackVars PROVE Inv'
  BY <1>2, FreeArrayKeeps DEF stackVars
<1>3. ASSUME NEW b \in Block, GrowStack(b) PROVE Inv'
  BY <1>3, GrowStackKeeps
<1>4. CASE ClearStack
  BY <1>4, ClearStackKeeps
<1>5. CASE UNCHANGED vars
  BY <1>5, UnchangedKeeps DEF vars, listVars, stackVars
<1> QED
  BY <1>1, <1>2, <1>3, <1>4, <1>5 DEF Next

THEOREM Invariance == Spec => []Inv
BY InitInv, NextInv, PTL DEF Spec

(* The lists, their blocks and the counters have their types and bounds. *)
THEOREM TypeCorrect == Spec => []TypeOK
BY Invariance, PTL DEF Inv

(* No operation on a list reaches beyond the block the list has to itself. *)
THEOREM InBounds == Spec => []StaysInBlock
BY Invariance, PTL DEF Inv

(* The counters behind the warning about leaked memory count the blocks in *)
(* use, so tarot_free's assertion holds whenever a block is freed.         *)
THEOREM CountersRight == Spec => []CountsBlocks
BY Invariance, PTL DEF Inv

------------------------------------------------------------------------------
(* Lists are sequences: every operation does to the contents what the        *)
(* operation of ListContents does, under the mapping of C.                   *)

(* A list whose length and elements stay has the contents it had. *)
LEMMA SameContents ==
  ASSUME TypeOK, NEW l \in List, length'[l] = length[l],
         \A i \in 0 .. length[l] - 1 : cells'[l][i] = cells[l][i]
  PROVE  Elements(l)' = Elements(l)
<1>1. length[l] \in Nat
  BY DEF TypeOK
<1>2. \A i \in 1 .. length[l] : i - 1 \in 0 .. length[l] - 1
  BY <1>1
<1> QED
  BY <1>1, <1>2 DEF Elements

(* An operation on one list, which becomes the sequence s. *)
LEMMA OneBecomes ==
  ASSUME TypeOK, NEW l \in List, NEW s, Elements(l)' = s,
         \A m \in List \ {l} : length'[m] = length[m] /\ cells'[m] = cells[m]
  PROVE  C!Becomes(l, s)
<1>1. \A m \in List \ {l} : Elements(m)' = Elements(m)
  BY SameContents
<1> QED
  BY <1>1 DEF C!Becomes

(* An operation that changes the contents of no list. *)
LEMMA NoneChange ==
  ASSUME TypeOK,
         \A m \in List : /\ length'[m] = length[m]
                         /\ \A i \in 0 .. length[m] - 1 : cells'[m][i] = cells[m][i]
  PROVE  UNCHANGED [l \in List |-> Elements(l)]
<1>1. \A m \in List : Elements(m)' = Elements(m)
  BY SameContents
<1> QED
  BY <1>1

(* A list of length zero is the empty sequence. *)
LEMMA EmptyContents ==
  ASSUME NEW l \in List, length[l] = 0
  PROVE  Elements(l) = << >>
BY DEF Elements

LEMMA CreateRefines ==
  ASSUME Inv, NEW l \in List, NEW b \in Block, NEW n \in Capacities,
         NEW t \in {"list", "dict"}, Create(l, b, n, t)
  PROVE  C!Create(l)
<1>1. b # NoBlock /\ length[l] = 0 /\ length' = length
  BY AllocatorAssumption DEF Create, Inv, EmptyWithoutBlock, TypeOK
<1>2. \A m \in List : /\ length'[m] = length[m]
                      /\ \A i \in 0 .. length[m] - 1 : cells'[m][i] = cells[m][i]
  BY <1>1 DEF Create, Inv, TypeOK
<1>3. UNCHANGED [m \in List |-> Elements(m)]
  BY <1>2, NoneChange DEF Inv
<1>4. {m \in List : Held(m)}' = {m \in List : Held(m)} \union {l}
  BY <1>1 DEF Create, Inv, TypeOK, Held
<1> QED
  BY <1>3, <1>4 DEF Create, C!Create, C!None, None

LEMMA CopyRefines ==
  ASSUME Inv, NEW l \in List, NEW from \in List, NEW b \in Block, Copy(l, from, b)
  PROVE  C!Copy(l, from)
<1>1. b # NoBlock /\ l # from /\ length[from] \in Nat /\ length'[l] = length[from]
      /\ length[from] <= Cells
  BY AllocatorAssumption, ListsAssumption
  DEF Copy, Inv, TypeOK, StaysInBlock, CapacityInCells
<1>2. \A m \in List \ {l} : length'[m] = length[m] /\ cells'[m] = cells[m]
  BY DEF Copy, Inv, TypeOK
<1>3. \A i \in 1 .. length[from] : cells'[l][i - 1] = cells[from][i - 1]
  BY <1>1, ListsAssumption DEF Copy, Inv, TypeOK, Cell
<1>4. Elements(l)' = Elements(from)
  BY <1>1, <1>3 DEF Elements
<1>5. C!Becomes(l, Elements(from))
  BY <1>2, <1>4, OneBecomes DEF Inv
<1>6. {m \in List : Held(m)}' = {m \in List : Held(m)} \union {l}
  BY <1>1 DEF Copy, Inv, TypeOK, Held
<1> QED
  BY <1>5, <1>6 DEF Copy, C!Copy, C!None, None

LEMMA FreeListRefines ==
  ASSUME Inv, NEW l \in List, FreeList(l)
  PROVE  C!Destroy(l)
<1>1. length'[l] = 0
      /\ \A m \in List \ {l} : length'[m] = length[m] /\ cells'[m] = cells[m]
  BY DEF FreeList, Inv, TypeOK
<1>2. Elements(l)' = << >>
  BY <1>1 DEF Elements
<1>3. C!Becomes(l, << >>)
  BY <1>1, <1>2, OneBecomes DEF Inv
<1>4. {m \in List : Held(m)}' = {m \in List : Held(m)} \ {l}
  BY DEF FreeList, Inv, TypeOK, Held
<1> QED
  BY <1>3, <1>4 DEF FreeList, C!Destroy, C!None, None

(* The elements before the end, and the one that is appended. *)
LEMMA AppendRefines ==
  ASSUME Inv, NEW l \in List, NEW b \in Block, NEW e \in Element, ListAppend(l, b, e)
  PROVE  C!Push(l, e)
<1> DEFINE n == length[l]
<1>1. /\ n \in Nat /\ capacity[l] \in Nat /\ Held(l)
      /\ n <= capacity[l] /\ n < MaxLength /\ n < Cells
      /\ cells[l] \in [Cell -> Element \union {Zero}]
      /\ cells \in [List -> [Cell -> Element \union {Zero}]]
      /\ n \in Cell
      /\ \A i \in 0 .. n - 1 : i \in Cell /\ i # n /\ i < n
  BY ListsAssumption DEF ListAppend, Inv, TypeOK, StaysInBlock, CapacityInCells, Cell
<1>2. length'[l] = n + 1 /\ \A m \in List \ {l} : length'[m] = length[m]
  BY DEF ListAppend, Inv, TypeOK
<1>3. /\ cells'[l][n] = e
      /\ \A i \in 0 .. n - 1 : cells'[l][i] = cells[l][i]
      /\ \A m \in List \ {l} : cells'[m] = cells[m]
  <2>1. CASE Full(l)
    <3> DEFINE g == Grown(l)
               k == Kept(l, g)
    <3>1. g \in Nat /\ n <= g
      BY <1>1 DEF Grown
    <3>2. /\ k \in [Cell -> Element \union {Zero}]
          /\ \A i \in Cell : i < n => k[i] = cells[l][i]
      <4> HIDE DEF g
      <4> QED BY <1>1, <3>1, KeptFacts DEF Inv
    <3>3. cells' = [cells EXCEPT ![l] = [k EXCEPT ![n] = e]]
      BY <2>1 DEF ListAppend
    <3> HIDE DEF g, k
    <3> QED
      BY <1>1, <3>2, <3>3
  <2>2. CASE ~Full(l)
    <3>1. cells' = [cells EXCEPT ![l] = [cells[l] EXCEPT ![n] = e]]
      BY <2>2 DEF ListAppend
    <3> QED
      BY <1>1, <3>1
  <2> QED
    BY <2>1, <2>2
<1>4. Elements(l)' = Append(Elements(l), e)
  <2>1. Elements(l)' = [i \in 1 .. n + 1 |-> cells'[l][i - 1]]
    BY <1>2 DEF Elements
  <2>2. Elements(l) = [i \in 1 .. n |-> cells[l][i - 1]]
    BY DEF Elements
  <2>3. \A i \in 1 .. n : cells'[l][i - 1] = cells[l][i - 1]
    BY <1>1, <1>3
  <2>4. Append([i \in 1 .. n |-> cells[l][i - 1]], e)
        = [i \in 1 .. n + 1 |-> IF i = n + 1 THEN e ELSE cells[l][i - 1]]
    BY <1>1
  <2> QED
    BY <1>1, <1>3, <2>1, <2>2, <2>3, <2>4
<1>5. C!Becomes(l, Append(Elements(l), e))
  BY <1>2, <1>3, <1>4, OneBecomes DEF Inv
<1>6. UNCHANGED {m \in List : Held(m)}
  <2>1. CASE Full(l)
    BY <2>1, AllocatorAssumption DEF ListAppend, Resize, Inv, TypeOK, Held
  <2>2. CASE ~Full(l)
    BY <2>2 DEF ListAppend, Held
  <2> QED
    BY <2>1, <2>2
<1> QED
  BY <1>1, <1>5, <1>6 DEF ListAppend, C!Push, C!None, None

(* A list that moves into a block of another size, with what it has. *)
LEMMA TrimRefines ==
  ASSUME Inv, NEW l \in List, NEW b \in Block, Trim(l, b)
  PROVE  C!Forget
<1>1. /\ Held(l) /\ length' = length /\ length[l] \in Nat
      /\ length[l] <= capacity[l] /\ capacity[l] <= Cells /\ capacity[l] \in Nat
  BY DEF Trim, Inv, TypeOK, StaysInBlock, CapacityInCells
<1>2. \A i \in Cell : i < length[l] => Kept(l, length[l])[i] = cells[l][i]
  BY <1>1, KeptFacts DEF Inv
<1>3. \A i \in 0 .. length[l] - 1 : i \in Cell /\ i < length[l]
  BY <1>1, ListsAssumption DEF Cell
<1>4. \A m \in List : /\ length'[m] = length[m]
                      /\ \A i \in 0 .. length[m] - 1 : cells'[m][i] = cells[m][i]
  BY <1>1, <1>2, <1>3 DEF Trim, Inv, TypeOK
<1>5. UNCHANGED [m \in List |-> Elements(m)]
  BY <1>4, NoneChange DEF Inv
<1>6. UNCHANGED {m \in List : Held(m)}
  BY AllocatorAssumption DEF Trim, Resize, Inv, TypeOK, Held
<1> QED
  BY <1>5, <1>6 DEF Trim, C!Forget, C!None, None

LEMMA PopRefines ==
  ASSUME Inv, NEW l \in List, Pop(l)
  PROVE  C!Pop(l)
<1> DEFINE n == length[l]
           s == Elements(l)
<1>1. n \in Nat /\ n > 0 /\ length'[l] = n - 1
      /\ \A m \in List \ {l} : length'[m] = length[m] /\ cells'[m] = cells[m]
  BY DEF Pop, Inv, TypeOK
<1>2. s = [i \in 1 .. n |-> cells[l][i - 1]] /\ Len(s) = n /\ s # << >>
      /\ s[n] = cells[l][n - 1]
  BY <1>1 DEF Elements
<1>3. Elements(l)' = [i \in 1 .. n - 1 |-> s[i]]
  <2>1. Elements(l)' = [i \in 1 .. n - 1 |-> cells[l][i - 1]]
    BY <1>1 DEF Elements, Pop
  <2>2. \A i \in 1 .. n - 1 : s[i] = cells[l][i - 1]
    BY <1>1, <1>2
  <2> HIDE DEF s
  <2> QED
    BY <2>1, <2>2
<1>4. C!Becomes(l, [i \in 1 .. Len(s) - 1 |-> s[i]])
  BY <1>1, <1>2, <1>3, OneBecomes DEF Inv
<1>5. result' = [kind |-> "element", element |-> s[Len(s)]]
  BY <1>2 DEF Pop, Popped, ElementAt
<1>6. Held(l) /\ UNCHANGED {m \in List : Held(m)}
  BY DEF Pop, Held
<1> QED
  BY <1>2, <1>4, <1>5, <1>6 DEF C!Pop

LEMMA RemoveRefines ==
  ASSUME Inv, NEW l \in List, NEW index \in 0 .. MaxLength - 1, Remove(l, index)
  PROVE  /\ index \in 0 .. Len(Elements(l)) - 1
         /\ C!Remove(l, index)
<1> DEFINE n == length[l]
           s == Elements(l)
<1>1. /\ n \in Nat /\ index \in 0 .. n - 1 /\ length'[l] = n - 1
      /\ n <= Cells /\ Cells \in Nat
      /\ \A m \in List \ {l} : length'[m] = length[m] /\ cells'[m] = cells[m]
  BY ListsAssumption
  DEF Remove, Inv, TypeOK, StaysInBlock, CapacityInCells
<1>2. s = [i \in 1 .. n |-> cells[l][i - 1]] /\ Len(s) = n
  BY <1>1 DEF Elements
<1>3. cells'[l] = Shifted(l, index)
  BY DEF Remove, Inv, TypeOK
<1>4. ASSUME NEW i \in 1 .. n - 1
      PROVE  cells'[l][i - 1] = IF i <= index THEN s[i] ELSE s[i + 1]
  <2>1. i - 1 \in Cell /\ (i - 1) + 1 = i /\ i \in 1 .. n /\ i + 1 \in 1 .. n
        /\ (i - 1 \in index .. n - 2) = (i > index)
    BY <1>1, <1>4 DEF Cell
  <2>2. s[i] = cells[l][i - 1] /\ s[i + 1] = cells[l][i]
    BY <1>1, <1>2, <2>1
  <2>3. Shifted(l, index)[i - 1] = IF i > index THEN cells[l][i] ELSE cells[l][i - 1]
    BY <2>1 DEF Shifted
  <2> QED
    BY <1>1, <1>3, <1>4, <2>2, <2>3
<1>5. Elements(l)' = [i \in 1 .. n - 1 |-> IF i <= index THEN s[i] ELSE s[i + 1]]
  <2>1. Elements(l)' = [i \in 1 .. n - 1 |-> cells'[l][i - 1]]
    BY <1>1 DEF Elements
  <2> HIDE DEF s
  <2> QED
    BY <1>4, <2>1
<1>6. C!Becomes(l, [i \in 1 .. Len(s) - 1 |->
                      IF i <= index THEN s[i] ELSE s[i + 1]])
  BY <1>1, <1>2, <1>5, OneBecomes DEF Inv
<1>7. Held(l) /\ UNCHANGED {m \in List : Held(m)}
  BY DEF Remove, Held
<1> QED
  BY <1>1, <1>2, <1>6, <1>7 DEF Remove, C!Remove, C!None, None

LEMMA ClearRefines ==
  ASSUME Inv, NEW l \in List, Clear(l)
  PROVE  C!Clear(l)
<1>1. length'[l] = 0
      /\ \A m \in List \ {l} : length'[m] = length[m] /\ cells'[m] = cells[m]
  BY DEF Clear, Inv, TypeOK
<1>2. Elements(l)' = << >>
  BY <1>1 DEF Elements
<1>3. C!Becomes(l, << >>)
  BY <1>1, <1>2, OneBecomes DEF Inv
<1> QED
  BY <1>3 DEF Clear, Held, C!Clear, C!None, None

(* Operations that leave the lists as they are. *)
LEMMA LeftAlone ==
  ASSUME UNCHANGED <<at, length, cells>>
  PROVE  UNCHANGED <<{l \in List : Held(l)}, [l \in List |-> Elements(l)]>>
BY DEF Held, Elements

LEMMA ToArrayRefines ==
  ASSUME NEW l \in List, NEW b \in Block, ToArray(l, b)
  PROVE  C!Read(l)
BY LeftAlone DEF ToArray, C!Read, Copied

LEMMA FreeArrayRefines ==
  ASSUME NEW b \in Block, FreeArray(b)
  PROVE  C!Forget
BY LeftAlone DEF FreeArray, C!Forget, C!None, None

(* Looking for an element of the list is looking for one of the sequence. *)
LEMMA MatchFacts ==
  ASSUME Inv, NEW l \in List, NEW o
  PROVE  Contains(l, o) =
           \E i \in 1 .. Len(Elements(l)) : Matches(Elements(l)[i], o)
<1> DEFINE n == length[l]
<1>1. n \in Nat /\ Len(Elements(l)) = n
      /\ \A i \in 1 .. n : Elements(l)[i] = cells[l][i - 1]
  BY DEF Elements, Inv, TypeOK
<1>2. ASSUME NEW i \in 0 .. n - 1
      PROVE  i + 1 \in 1 .. n /\ Elements(l)[i + 1] = cells[l][i]
  BY <1>1, <1>2
<1>3. ASSUME NEW i \in 1 .. n
      PROVE  i - 1 \in 0 .. n - 1 /\ Elements(l)[i] = cells[l][i - 1]
  BY <1>1, <1>3
<1> QED
  BY <1>1, <1>2, <1>3 DEF Contains, ElementAt

LEMMA AskRefines ==
  ASSUME Inv, NEW l \in List, NEW o \in Objects, Ask(l, o)
  PROVE  C!Ask(l, o)
BY LeftAlone, MatchFacts DEF Ask, Answer, C!Ask

(* There is a first match when there is one. *)
LEMMA FirstMatch ==
  ASSUME Inv, NEW l \in List, NEW o, Contains(l, o)
  PROVE  /\ Place(l, o) \in 0 .. length[l] - 1
         /\ Matches(ElementAt(l, Place(l, o)), o)
         /\ \A j \in 0 .. Place(l, o) - 1 : ~Matches(ElementAt(l, j), o)
<1> DEFINE match == {i \in 0 .. length[l] - 1 : Matches(ElementAt(l, i), o)}
           less == OpToRel(<, Nat)
<1>1. length[l] \in Nat /\ match \subseteq Nat /\ match # {}
  BY DEF Inv, TypeOK, Contains
<1>2. IsWellFoundedOn(less, Nat)
  BY NatLessThanWellFounded, Zenon
<1>3. \A i, j \in Nat : j < i => <<j, i>> \in less
  BY Zenon DEF OpToRel
<1> HIDE DEF less
<1>4. PICK i \in match : \A j \in match : <<j, i>> \notin less
  BY <1>1, <1>2, WFMin
<1>5. \A j \in match : ~(j < i)
  BY <1>1, <1>3, <1>4
<1>6. /\ i \in 0 .. length[l] - 1 /\ Matches(ElementAt(l, i), o)
      /\ \A j \in 0 .. i - 1 : ~Matches(ElementAt(l, j), o)
  BY <1>1, <1>5
<1> QED
  BY <1>6 DEF Place

LEMMA LookupRefines ==
  ASSUME Inv, NEW l \in List, NEW o \in Objects, Lookup(l, o)
  PROVE  C!Find(l, o)
<1> DEFINE n == length[l]
           p == Place(l, o)
<1>1. n \in Nat /\ Len(Elements(l)) = n
      /\ \A i \in 1 .. n : Elements(l)[i] = cells[l][i - 1]
  BY DEF Elements, Inv, TypeOK
<1>2. /\ p \in 0 .. n - 1 /\ Matches(cells[l][p], o)
      /\ \A j \in 0 .. p - 1 : ~Matches(cells[l][j], o)
  BY FirstMatch DEF Lookup, ElementAt
<1>3. result' = [kind |-> "index", index |-> p] /\ Held(l)
  BY DEF Lookup, Found
<1> HIDE DEF p
<1>4. /\ p + 1 \in 1 .. n /\ (p + 1) - 1 = p /\ Elements(l)[p + 1] = cells[l][p]
      /\ \A j \in 1 .. p : j - 1 \in 0 .. p - 1 /\ Elements(l)[j] = cells[l][j - 1]
  BY <1>1, <1>2
<1>5. \E i \in 1 .. Len(Elements(l)) :
        /\ Matches(Elements(l)[i], o)
        /\ \A j \in 1 .. i - 1 : ~Matches(Elements(l)[j], o)
        /\ result' = [kind |-> "index", index |-> i - 1]
  <2>1. p + 1 \in 1 .. Len(Elements(l)) /\ Matches(Elements(l)[p + 1], o)
    BY <1>1, <1>2, <1>4
  <2>2. \A j \in 1 .. (p + 1) - 1 : ~Matches(Elements(l)[j], o)
    BY <1>2, <1>4
  <2> QED
    BY <1>3, <1>4, <2>1, <2>2
<1> QED
  BY <1>3, <1>5, LeftAlone DEF Lookup, C!Find

(* The stack is none of the lists' business. *)
LEMMA StackRefines ==
  ASSUME ClearStack \/ \E b \in Block : GrowStack(b)
  PROVE  C!Forget
BY LeftAlone DEF ClearStack, GrowStack, C!Forget, C!None, None

LEMMA InitRefines == Init => C!Init
<1> SUFFICES ASSUME Init PROVE C!Init
  OBVIOUS
<1>1. {l \in List : Held(l)} = {}
  BY DEF Init, Held
<1>2. \A l \in List : Elements(l) = << >>
  BY EmptyContents DEF Init
<1> QED
  BY <1>1, <1>2 DEF Init, C!Init, C!None, None

LEMMA OnListRefines ==
  ASSUME Inv, NEW l \in List, OnList(l)
  PROVE  C!Next
<1>1. CASE FreeList(l)
  BY <1>1, FreeListRefines DEF C!Next
<1>2. CASE Pop(l)
  BY <1>2, PopRefines DEF C!Next
<1>3. CASE Clear(l)
  BY <1>3, ClearRefines DEF C!Next
<1>4. ASSUME NEW index \in 0 .. MaxLength - 1, Remove(l, index) PROVE C!Next
  <2>1. C!Remove(l, index) /\ index \in 0 .. Len(Elements(l)) - 1
    BY <1>4, RemoveRefines
  <2> QED
    BY <2>1 DEF C!Next
<1>5. ASSUME NEW o \in Objects, Ask(l, o) \/ Lookup(l, o) PROVE C!Next
  BY <1>5, AskRefines, LookupRefines DEF C!Next
<1>6. ASSUME NEW b \in Block, NEW n \in Capacities, NEW t \in {"list", "dict"},
             Create(l, b, n, t)
      PROVE  C!Next
  BY <1>6, CreateRefines DEF C!Next
<1>7. ASSUME NEW b \in Block, NEW from \in List, Copy(l, from, b) PROVE C!Next
  BY <1>7, CopyRefines DEF C!Next
<1>8. ASSUME NEW b \in Block, NEW e \in Element, ListAppend(l, b, e) PROVE C!Next
  BY <1>8, AppendRefines DEF C!Next
<1>9. ASSUME NEW b \in Block, Trim(l, b) PROVE C!Next
  BY <1>9, TrimRefines DEF C!Next
<1>10. ASSUME NEW b \in Block, ToArray(l, b) PROVE C!Next
  BY <1>10, ToArrayRefines DEF C!Next
<1> QED
  BY <1>1, <1>2, <1>3, <1>4, <1>5, <1>6, <1>7, <1>8, <1>9, <1>10 DEF OnList

(* Every step is a step on the sequences, or leaves them alone. *)
LEMMA NextRefines == Inv /\ [Next]_vars => [C!Next]_(C!vars)
<1> SUFFICES ASSUME Inv, [Next]_vars PROVE C!Next \/ UNCHANGED C!vars
  OBVIOUS
<1>1. ASSUME NEW l \in List, OnList(l) PROVE C!Next
  BY <1>1, OnListRefines
<1>2. ASSUME NEW b \in Block, FreeArray(b) PROVE C!Next
  BY <1>2, FreeArrayRefines DEF C!Next
<1>3. ASSUME ClearStack \/ \E b \in Block : GrowStack(b) PROVE C!Next
  BY <1>3, StackRefines DEF C!Next
<1>4. ASSUME UNCHANGED vars PROVE UNCHANGED C!vars
  BY <1>4, LeftAlone DEF vars, listVars, C!vars
<1> QED
  BY <1>1, <1>2, <1>3, <1>4 DEF Next

(* Lists implement sequences: whatever sequence of operations moves, grows,  *)
(* trims, copies and frees the blocks, what a caller can see of the lists is *)
(* what it would see of sequences.                                           *)
THEOREM ListsAreSequences == Spec => ContentsSpec
<1>1. Spec => C!Spec
  BY InitRefines, NextRefines, Invariance, PTL DEF Spec, C!Spec
<1> QED
  BY <1>1 DEF ContentsSpec
==============================================================================
