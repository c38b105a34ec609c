-------------------------------- MODULE Lists --------------------------------
(***************************************************************************)
(* Lists, datatypes/list.c: a header and room for `capacity' elements in   *)
(* one block, which moves when it grows.  The callers keep a list in one   *)
(* variable, and pass its address to whatever may move it.                 *)
(*                                                                         *)
(* cells[l] is the memory behind the header, as far as the instance looks: *)
(* what lies in the block is zeroed when it is allocated and keeps what    *)
(* was last written, whatever the length says.                             *)
(*                                                                         *)
(* Elements are plain, as those of the lists that the program itself keeps *)
(* (element_type is not set).  Left out are the elements that a list of a  *)
(* type frees and copies with itself (list.c:47-59, 65-84): those of the   *)
(* language's lists, which never have any (OP_ListAppend does nothing,     *)
(* vm.c:915), and the pairs of its dictionaries, which are tagged as       *)
(* strings, so that their keys are freed with them (bytecode.c:1339,       *)
(* vm.c:947).                                                              *)
(*                                                                         *)
(* Beside the lists there is a stack of a thread, as far as the allocator  *)
(* sees it: a block that is made, and grows, through realloc alone.  What  *)
(* is on it is the matter of VirtualMachine.tla.                           *)
(***************************************************************************)
EXTENDS Allocator, Sequences

CONSTANTS
  List,         \* variables that hold a list
  Element,      \* what a list may hold
  Zero,         \* the element of zeroed memory
  Matches(_, _),\* list->match, or memcmp: does this element match this object
  Objects,      \* what elements are looked up by
  Header,       \* sizeof(struct tarot_list)
  ObjSize,      \* objsize, the same for all lists of the instance
  Capacities,   \* the capacities lists are created with
  Cells,        \* elements the largest block has room for
  MaxLength,    \* bound on the length
  SlotSize,     \* size of an entry of the stack
  Growth,       \* the stack grows from n to Growth + 2n entries
  MaxSlots      \* bound: a stack with as many does not grow

ASSUME ListsAssumption ==
  /\ Header \in Nat \ {0}
  /\ ObjSize \in Nat \ {0}
  /\ MaxLength \in Nat
  /\ Cells \in Nat
  /\ Cells >= 3 * MaxLength - 2    \* what a list of MaxLength grows to
  /\ Capacities \subseteq 0 .. Cells
  /\ {"list", "dict"} \subseteq Tag
  /\ SlotSize \in Nat \ {0}
  /\ Growth \in Nat \ {0}
  /\ MaxSlots \in Nat

VARIABLES
  at,        \* the block a variable points to
  length,
  capacity,
  cells,
  result,    \* what the last operation returned
  base,      \* stack->base
  slots      \* stack->size

listVars == <<at, length, capacity, cells, result>>
stackVars == <<base, slots>>
vars == <<heapVars, listVars, stackVars>>

Cell == 0 .. Cells - 1
None == [kind |-> "none"]
Found(i) == [kind |-> "index", index |-> i]
Popped(e) == [kind |-> "element", element |-> e]
Copied(s) == [kind |-> "array", array |-> s]
Answer(b) == [kind |-> "answer", answer |-> b]

Held(l) == at[l] # NoBlock
Bytes(n) == Header + n * ObjSize

(* tarot_list_element *)
ElementAt(l, i) == cells[l][i]

(* What the length lets a caller see. *)
Elements(l) == [i \in 1 .. length[l] |-> cells[l][i - 1]]

------------------------------------------------------------------------------

Init ==
  /\ HeapInit
  /\ at = [l \in List |-> NoBlock]
  /\ length = [l \in List |-> 0]
  /\ capacity = [l \in List |-> 0]
  /\ cells = [l \in List |-> [i \in Cell |-> Zero]]
  /\ result = None
  /\ base = NoBlock
  /\ slots = 0

(* tarot_create_list *)
Create(l, b, n, t) ==
  /\ ~Held(l)
  /\ Malloc(b, Bytes(n), t)
  /\ at' = [at EXCEPT ![l] = b]
  /\ length' = [length EXCEPT ![l] = 0]
  /\ capacity' = [capacity EXCEPT ![l] = n]
  /\ cells' = [cells EXCEPT ![l] = [i \in Cell |-> Zero]]
  /\ result' = None

(* tarot_copy_list: as much room as the other has. *)
Copy(l, from, b) ==
  /\ ~Held(l)
  /\ Held(from)
  /\ Malloc(b, Bytes(capacity[from]), "list")
  /\ at' = [at EXCEPT ![l] = b]
  /\ length' = [length EXCEPT ![l] = length[from]]
  /\ capacity' = [capacity EXCEPT ![l] = capacity[from]]
  /\ cells' = [cells EXCEPT ![l] =
                 [i \in Cell |-> IF i < length[from] THEN cells[from][i] ELSE Zero]]
  /\ result' = None

(* tarot_free_list *)
FreeList(l) ==
  /\ Held(l)
  /\ Free(at[l])
  /\ at' = [at EXCEPT ![l] = NoBlock]
  /\ length' = [length EXCEPT ![l] = 0]
  /\ capacity' = [capacity EXCEPT ![l] = 0]
  /\ result' = None
  /\ UNCHANGED cells

(* extend_list, shrink_list: a block for n elements, with the contents of the *)
(* old one as far as both reach.                                              *)
Resize(l, b, n) ==
  /\ Realloc(at[l], b, Bytes(n))
  /\ at' = [at EXCEPT ![l] = b]
  /\ capacity' = [capacity EXCEPT ![l] = n]

(* Memory beyond the end of a block that was resized from a to n bytes is *)
(* zeroed, or not the list's any more.                                    *)
Kept(l, n) ==
  [i \in Cell |->
     IF Bytes(i + 1) <= Even(Bytes(n)) /\ Bytes(i + 1) <= size[at[l]]
     THEN cells[l][i] ELSE Zero]

Full(l) == length[l] >= capacity[l]
Grown(l) == capacity[l] + 2 * length[l] + 1

(* Mutant: a list grows when it is beyond its capacity. *)
AppendLate(l, b, e) ==
  /\ Held(l)
  /\ length[l] < MaxLength
  /\ IF length[l] > capacity[l]
     THEN /\ Resize(l, b, Grown(l))
          /\ cells' = [cells EXCEPT ![l] = [Kept(l, Grown(l)) EXCEPT ![length[l]] = e]]
     ELSE /\ b = at[l]
          /\ cells' = [cells EXCEPT ![l][length[l]] = e]
          /\ UNCHANGED <<heapVars, at, capacity>>
  /\ length' = [length EXCEPT ![l] = @ + 1]
  /\ result' = None

(* tarot_list_append *)
ListAppend(l, b, e) ==
  /\ Held(l)
  /\ length[l] < MaxLength
  /\ IF Full(l)
     THEN /\ Resize(l, b, Grown(l))
          /\ cells' = [cells EXCEPT ![l] = [Kept(l, Grown(l)) EXCEPT ![length[l]] = e]]
     ELSE /\ b = at[l]
          /\ cells' = [cells EXCEPT ![l][length[l]] = e]
          /\ UNCHANGED <<heapVars, at, capacity>>
  /\ length' = [length EXCEPT ![l] = @ + 1]
  /\ result' = None

(* tarot_list_pop *)
Pop(l) ==
  /\ Held(l)
  /\ length[l] > 0
  /\ length' = [length EXCEPT ![l] = @ - 1]
  /\ result' = Popped(ElementAt(l, length[l] - 1))
  /\ UNCHANGED <<heapVars, at, capacity, cells>>

(* The elements after the index, moved over it. *)
Shifted(l, index) ==
  [i \in Cell |->
     IF i \in index .. length[l] - 2 THEN cells[l][i + 1] ELSE cells[l][i]]

(* Mutant: any index is taken. *)
RemoveAnywhere(l, index) ==
  /\ Held(l)
  /\ index \in Cell
  /\ length' = [length EXCEPT ![l] = @ - 1]
  /\ cells' = [cells EXCEPT ![l] = Shifted(l, index)]
  /\ result' = None
  /\ UNCHANGED <<heapVars, at, capacity>>

(* tarot_list_remove *)
Remove(l, index) ==
  /\ Held(l)
  /\ index \in 0 .. length[l] - 1
  /\ length' = [length EXCEPT ![l] = @ - 1]
  /\ cells' = [cells EXCEPT ![l] = Shifted(l, index)]
  /\ result' = None
  /\ UNCHANGED <<heapVars, at, capacity>>

(* tarot_clear_list: the block stays as large as it is. *)
Clear(l) ==
  /\ Held(l)
  /\ length' = [length EXCEPT ![l] = 0]
  /\ capacity' = [capacity EXCEPT ![l] = 0]
  /\ result' = None
  /\ UNCHANGED <<heapVars, at, cells>>

(* tarot_trim_list: nothing, for a list that is empty or full. *)
Trim(l, b) ==
  /\ Held(l)
  /\ 0 < length[l]
  /\ length[l] < capacity[l]
  /\ Resize(l, b, length[l])
  /\ cells' = [cells EXCEPT ![l] = Kept(l, length[l])]
  /\ result' = None
  /\ UNCHANGED length

(* tarot_list_to_array, and how its caller frees the array later. *)
ToArray(l, b) ==
  /\ Held(l)
  /\ Malloc(b, length[l] * ObjSize, NoTag)
  /\ result' = Copied(Elements(l))
  /\ UNCHANGED <<at, length, capacity, cells>>

FreeArray(b) ==
  /\ b # base
  /\ \A l \in List : at[l] # b
  /\ Free(b)
  /\ result' = None
  /\ UNCHANGED <<at, length, capacity, cells>>

(* stack_push of a stack that is full, and push_frame likewise. *)
GrowStack(b) ==
  /\ slots < MaxSlots
  /\ slots' = Growth + 2 * slots
  /\ Realloc(base, b, SlotSize * slots')
  /\ base' = b
  /\ result' = None
  /\ UNCHANGED <<at, length, capacity, cells>>

(* clear_stack and clear_callstack, of one that never grew too. *)
ClearStack ==
  /\ IF base = NoBlock THEN UNCHANGED heapVars ELSE Free(base)
  /\ base' = NoBlock
  /\ slots' = 0
  /\ result' = None
  /\ UNCHANGED <<at, length, capacity, cells>>

(* The loops of tarot_list_contains and tarot_list_find. *)
Contains(l, o) == \E i \in 0 .. length[l] - 1 : Matches(ElementAt(l, i), o)

(* Mutant: the last match counts. *)
PlaceLast(l, o) ==
  CHOOSE i \in 0 .. length[l] - 1 :
    /\ Matches(ElementAt(l, i), o)
    /\ \A j \in i + 1 .. length[l] - 1 : ~Matches(ElementAt(l, j), o)

Place(l, o) ==
  CHOOSE i \in 0 .. length[l] - 1 :
    /\ Matches(ElementAt(l, i), o)
    /\ \A j \in 0 .. i - 1 : ~Matches(ElementAt(l, j), o)

(* tarot_list_contains *)
Ask(l, o) ==
  /\ Held(l)
  /\ result' = Answer(Contains(l, o))
  /\ UNCHANGED <<heapVars, at, length, capacity, cells>>

(* tarot_list_lookup, which asserts that there is a match *)
Lookup(l, o) ==
  /\ Held(l)
  /\ Contains(l, o)
  /\ result' = Found(Place(l, o))
  /\ UNCHANGED <<heapVars, at, length, capacity, cells>>

------------------------------------------------------------------------------

OnList(l) ==
  \/ FreeList(l) \/ Pop(l) \/ Clear(l)
  \/ \E index \in 0 .. MaxLength - 1 : Remove(l, index)
  \/ \E o \in Objects : Ask(l, o) \/ Lookup(l, o)
  \/ \E b \in Block :
       \/ \E n \in Capacities, t \in {"list", "dict"} : Create(l, b, n, t)
       \/ \E from \in List : Copy(l, from, b)
       \/ \E e \in Element : ListAppend(l, b, e)
       \/ Trim(l, b) \/ ToArray(l, b)

Next ==
  \/ /\ \/ \E l \in List : OnList(l)
        \/ \E b \in Block : FreeArray(b)
     /\ UNCHANGED stackVars
  \/ \E b \in Block : GrowStack(b)
  \/ ClearStack

Spec == Init /\ [][Next]_vars

------------------------------------------------------------------------------

TypeOK ==
  /\ HeapTypeOK
  /\ at \in [List -> Block \union {NoBlock}]
  /\ length \in [List -> Nat]
  /\ capacity \in [List -> Nat]
  /\ cells \in [List -> [Cell -> Element \union {Zero}]]
  /\ base \in Block \union {NoBlock}
  /\ slots \in Nat

(* Whatever is done to the lists, each has a block of its own, no other      *)
(* list's and not the stack's, which its header calls a list, since a region *)
(* frees what it tracks by the header (region.c:32); its elements lie within *)
(* its capacity and its capacity within the block: also after a clear has    *)
(* set the capacity to nothing, a trim, or a copy of a list with room to     *)
(* spare.                                                                    *)
StaysInBlock ==
  \A l \in List : Held(l) =>
    /\ at[l] \in live
    /\ type[at[l]] \in {"list", "dict"}
    /\ at[l] # base /\ \A m \in List : at[m] = at[l] => m = l
    /\ length[l] <= capacity[l]
    /\ Bytes(capacity[l]) <= size[at[l]]

(* The contents of the lists, and what the operations return, are those of *)
(* sequences, whenever the lists grow, shrink, move and are copied.        *)
C == INSTANCE ListContents WITH
       present <- {l \in List : Held(l)},
       contents <- [l \in List |-> Elements(l)]

ContentsSpec == C!Spec
==============================================================================
