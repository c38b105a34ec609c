---------------------------- MODULE RegionsProofs ----------------------------
(***************************************************************************)
(* Proofs about Regions.tla, for any blocks, any bound on the call stack   *)
(* and any number of index slots: its invariants, and that lists with      *)
(* indices into them implement the owners of Ownership.tla, every step of  *)
(* the one a step of the other.                                            *)
(***************************************************************************)
EXTENDS Regions, SequenceTheorems, TLAPS

------------------------------------------------------------------------------
(* Lists of distinct pointers. *)

Distinct(s) == \A i, j \in 1 .. Len(s) : s[i] = s[j] => i = j

(* Appending a new element keeps a list duplicate-free and adds just that. *)
LEMMA AppendFacts ==
  ASSUME NEW S, NEW s \in Seq(S), NEW b \in S
  PROVE  /\ Append(s, b) \in Seq(S)
         /\ Len(Append(s, b)) = Len(s) + 1
         /\ \A i \in 1 .. Len(s) : Append(s, b)[i] = s[i]
         /\ Append(s, b)[Len(s) + 1] = b
         /\ Elements(Append(s, b)) = Elements(s) \union {b}
         /\ Distinct(s) /\ b \notin Elements(s) => Distinct(Append(s, b))
<1>1. /\ Append(s, b) \in Seq(S)
      /\ Len(s) \in Nat
      /\ Len(Append(s, b)) = Len(s) + 1
      /\ \A i \in 1 .. Len(s) : Append(s, b)[i] = s[i]
      /\ Append(s, b)[Len(s) + 1] = b
  OBVIOUS
<1> DEFINE t == Append(s, b)
<1> HIDE DEF t
<1>2. Elements(t) = Elements(s) \union {b}
  BY <1>1 DEF Elements, t
<1>3. Distinct(s) /\ b \notin Elements(s) => Distinct(t)
  BY <1>1 DEF Elements, Distinct, t
<1> QED
  BY <1>1, <1>2, <1>3 DEF t

(* tarot_list_lookup finds an element that is there. *)
LEMMA LookupFacts ==
  ASSUME NEW S, NEW s \in Seq(S), Distinct(s), NEW b \in Elements(s)
  PROVE  Lookup(s, b) \in 1 .. Len(s) /\ s[Lookup(s, b)] = b
<1>1. PICK i \in 1 .. Len(s) : s[i] = b
  BY DEF Elements
<1>2. \A j \in 1 .. (i - 1) : s[j] # b
  BY <1>1 DEF Distinct
<1> QED
  BY <1>1, <1>2 DEF Lookup

(* Removing a pointer from a duplicate-free list removes that pointer only, *)
(* and every element that stays moves down by one place at most.            *)
LEMMA RemoveFacts ==
  ASSUME NEW S, NEW s \in Seq(S), Distinct(s), NEW b \in Elements(s)
  PROVE  LET t == ListRemove(s, Lookup(s, b))
         IN  /\ t \in Seq(S) /\ Len(t) <= Len(s)
             /\ Elements(t) = Elements(s) \ {b}
             /\ Distinct(t)
             /\ \A i \in 1 .. Len(t) :
                  \E j \in 1 .. Len(s) : j >= i /\ t[i] = s[j]
<1> DEFINE p == Lookup(s, b)
           n == Len(s)
           t == ListRemove(s, p)
<1>1. p \in 1 .. n /\ s[p] = b /\ n \in Nat
  BY LookupFacts
<1> HIDE DEF p
<1>2. \A i \in 1 .. (n - 1) :
        t[i] = (IF i < p THEN s[i] ELSE s[i + 1])
  BY <1>1 DEF ListRemove
<1>3. \A i \in 1 .. n : s[i] \in S
  BY ElementOfSeq
<1>4. t \in [1 .. (n - 1) -> S] /\ n - 1 \in Nat
  BY <1>1, <1>3 DEF ListRemove
<1>5. t \in Seq(S) /\ Len(t) = n - 1
  BY <1>4, SeqDef
<1> HIDE DEF t
<1>5a. Len(t) <= Len(s)
  BY <1>1, <1>5
<1>6. \A i \in 1 .. Len(t) : \E j \in 1 .. n : j >= i /\ t[i] = s[j]
  BY <1>1, <1>2, <1>5
<1>7. Distinct(t)
  BY <1>1, <1>2, <1>5 DEF Distinct
<1>8. Elements(t) = Elements(s) \ {b}
  <2>1. ASSUME NEW c \in Elements(t) PROVE c \in Elements(s) \ {b}
    <3>1. PICK i \in 1 .. (n - 1) : t[i] = c
      BY <1>5 DEF Elements
    <3>2. PICK j \in 1 .. n : c = s[j] /\ j # p
      <4>1. CASE i < p
        BY <3>1, <4>1, <1>1, <1>2
      <4>2. CASE ~(i < p)
        <5>1. i + 1 \in 1 .. n /\ i + 1 # p /\ c = s[i + 1]
          BY <3>1, <4>2, <1>1, <1>2
        <5> QED
          BY <5>1
      <4> QED
        BY <4>1, <4>2
    <3>3. c # b
      BY <3>2, <1>1 DEF Distinct
    <3> QED
      BY <3>2, <3>3 DEF Elements
  <2>2. ASSUME NEW c \in Elements(s) \ {b} PROVE c \in Elements(t)
    <3>1. PICK i \in 1 .. n : s[i] = c /\ i # p
      BY <1>1 DEF Elements
    <3>2. CASE i < p
      <4>1. i \in 1 .. (n - 1) /\ t[i] = c
        BY <3>1, <3>2, <1>1, <1>2
      <4> QED
        BY <4>1, <1>5 DEF Elements
    <3>3. CASE i > p
      <4>1. i - 1 \in 1 .. (n - 1) /\ t[i - 1] = c
        BY <3>1, <3>3, <1>1, <1>2
      <4> QED
        BY <4>1, <1>5 DEF Elements
    <3> QED
      BY <3>1, <3>2, <3>3, <1>1
  <2> QED
    BY <2>1, <2>2
<1> QED
  BY <1>5, <1>5a, <1>6, <1>7, <1>8 DEF p, t

(* Popping to length n leaves the first n elements in their places. *)
LEMMA PopToFacts ==
  ASSUME NEW S, NEW s \in Seq(S), NEW n \in Nat
  PROVE  /\ PopTo(s, n) \in Seq(S)
         /\ Len(PopTo(s, n)) <= Len(s) /\ Len(PopTo(s, n)) <= n
         /\ Len(PopTo(s, n)) = IF n < Len(s) THEN n ELSE Len(s)
         /\ \A i \in 1 .. Len(PopTo(s, n)) : PopTo(s, n)[i] = s[i]
         /\ Distinct(s) => Distinct(PopTo(s, n))
<1> DEFINE m == IF n < Len(s) THEN n ELSE Len(s)
           t == PopTo(s, n)
<1>1. m \in Nat /\ m <= Len(s) /\ m <= n /\ Len(s) \in Nat
      /\ \A j \in 1 .. Len(s) : j <= n <=> j <= m
  OBVIOUS
<1>2. \A i \in 1 .. Len(s) : s[i] \in S
  BY ElementOfSeq
<1>3. t \in [1 .. m -> S] /\ \A i \in 1 .. m : t[i] = s[i]
  BY <1>1, <1>2 DEF PopTo
<1> HIDE DEF m, t
<1>4. t \in Seq(S) /\ Len(t) = m
  BY <1>1, <1>3, SeqDef
<1>5. Distinct(s) => Distinct(t)
  BY <1>1, <1>3, <1>4 DEF Distinct
<1> QED
  BY <1>1, <1>3, <1>4, <1>5 DEF m, t

(* The elements that popping a duplicate-free list to length n removes. *)
Beyond(s, n) == {s[i] : i \in {j \in 1 .. Len(s) : j > n}}

LEMMA PopToElements ==
  ASSUME NEW S, NEW s \in Seq(S), Distinct(s), NEW n \in Nat
  PROVE  Elements(PopTo(s, n)) = Elements(s) \ Beyond(s, n)
<1> DEFINE t == PopTo(s, n)
<1>1. /\ Len(s) \in Nat
      /\ Len(t) = IF n < Len(s) THEN n ELSE Len(s)
  BY PopToFacts
<1>2. \A i \in 1 .. Len(t) : t[i] = s[i]
  BY PopToFacts
<1>3. \A i \in 1 .. Len(s) : i <= n => i <= Len(t)
  BY <1>1
<1> HIDE DEF t
<1>4. ASSUME NEW e \in Elements(t) PROVE e \in Elements(s) \ Beyond(s, n)
  <2>1. PICK i \in 1 .. Len(t) : e = t[i]
    BY DEF Elements
  <2>2. i \in 1 .. Len(s) /\ i <= n /\ e = s[i]
    BY <2>1, <1>1, <1>2
  <2> QED
    BY <2>2 DEF Elements, Beyond, Distinct
<1>5. ASSUME NEW e \in Elements(s), e \notin Beyond(s, n)
      PROVE  e \in Elements(t)
  <2>1. PICK i \in 1 .. Len(s) : e = s[i]
    BY DEF Elements
  <2>2. i <= n
    BY <2>1, <1>5 DEF Beyond
  <2>3. i \in 1 .. Len(t) /\ t[i] = e
    BY <2>1, <2>2, <1>1, <1>2, <1>3
  <2> QED
    BY <2>3 DEF Elements
<1> QED
  BY <1>4, <1>5 DEF t

------------------------------------------------------------------------------
(* The inductive invariant.  SingleOwner alone is not inductive: that a    *)
(* return or a pop leaves no block behind rests on CleanFrames.            *)
IInv == TypeOK /\ SingleOwner /\ OuterBelowInner /\ CleanFrames

LEMMA InitIInv == Init => IInv
<1> SUFFICES ASSUME Init PROVE IInv
  OBVIOUS
<1> USE RegionsAssumption
<1>1. \A f \in Frame : Tracked(f) = {}
  BY DEF Init, Tracked, Elements
<1>2. \A f \in Frame : region[f] = <<>> /\ indices[f] = <<>>
                       /\ Len(region[f]) = 0 /\ Len(indices[f]) = 0
  BY DEF Init
<1>3. TypeOK
  BY DEF Init, TypeOK, Frame
<1>4. SingleOwner
  BY <1>1, <1>2 DEF Init, SingleOwner
<1>5. OuterBelowInner
  BY <1>2 DEF OuterBelowInner
<1>6. CleanFrames
  BY <1>2 DEF CleanFrames, Depth
<1> QED
  BY <1>3, <1>4, <1>5, <1>6 DEF IInv

(* The facts about one frame that the steps below start from. *)
LEMMA FrameFacts ==
  ASSUME IInv, NEW f \in Frame
  PROVE  /\ region[f] \in Seq(Block) /\ Len(region[f]) \in Nat
         /\ Distinct(region[f])
         /\ indices[f] \in Seq(Nat) /\ Len(indices[f]) \in Nat
         /\ Tracked(f) \subseteq live
         /\ Tracked(f) \intersect held = {}
         /\ \A i \in 1 .. Len(region[f]) : region[f][i] \in Tracked(f)
         /\ Tracked(f) \subseteq Block
         /\ Len(region[f]) <= MaxTracked
BY DEF IInv, TypeOK, SingleOwner, Distinct, Tracked, Elements

LEMMA SmallModulo ==
  ASSUME NEW a \in Nat, NEW b \in Nat, a < b PROVE a % b = a
OBVIOUS

(* Below MaxTracked the byte an index is stored in loses nothing. *)
LEMMA IndexFacts ==
  ASSUME IInv, NEW f \in Frame
  PROVE  Index(f) = Len(region[f])
<1>1. Len(region[f]) \in Nat /\ Len(region[f]) <= MaxTracked
  BY FrameFacts
<1>2. IndexRange \in Nat /\ Len(region[f]) < IndexRange
  BY <1>1, RegionsAssumption
<1> QED
  BY <1>1, <1>2, SmallModulo DEF Index

LEMMA AllocateIInv ==
  ASSUME IInv, NEW b \in Block, Allocate(b)
  PROVE  IInv'
<1> USE RegionsAssumption DEF Frame
<1> DEFINE c == callstack
<1>1. c \in Frame /\ Depth(c) > 0 /\ b \notin live
      /\ Len(region[c]) < MaxTracked
  BY DEF Allocate, CanTrack, InRegion, IInv, TypeOK
<1>2. /\ region' = [region EXCEPT ![c] = Append(@, b)]
      /\ level' = [level EXCEPT ![b] = Depth(c)]
      /\ live' = live \union {b}
      /\ held' = held /\ callstack' = callstack /\ indices' = indices
  BY DEF Allocate, AddToRegion
<1>3. TypeOK
  BY DEF IInv
<1>4. /\ region[c] \in Seq(Block) /\ Distinct(region[c])
      /\ b \notin Elements(region[c])
      /\ Len(region[c]) \in Nat /\ Len(indices[c]) \in Nat
  BY <1>1, FrameFacts DEF Tracked
<1>5. /\ region'[c] = Append(region[c], b)
      /\ \A f \in Frame \ {c} : region'[f] = region[f]
  BY <1>1, <1>2, <1>3 DEF TypeOK
<1>6. /\ region'[c] \in Seq(Block)
      /\ Len(region'[c]) = Len(region[c]) + 1
      /\ \A i \in 1 .. Len(region[c]) : region'[c][i] = region[c][i]
      /\ region'[c][Len(region[c]) + 1] = b
      /\ Elements(region'[c]) = Elements(region[c]) \union {b}
      /\ Distinct(region'[c])
  BY <1>4, <1>5, AppendFacts
<1>7. \A f \in Frame : Tracked(f)' = IF f = c THEN Tracked(f) \union {b}
                                              ELSE Tracked(f)
  BY <1>5, <1>6 DEF Tracked
<1>8. \A f \in Frame : Depth(f)' = Depth(f) /\ indices'[f] = indices[f]
  BY <1>2 DEF Depth
<1>9. TypeOK'
  <2>1. \A f \in Frame : Len(region'[f]) <= MaxTracked
    <3>1. Len(region'[c]) <= MaxTracked
      BY <1>1, <1>4, <1>6, RegionsAssumption
    <3> QED
      BY <3>1, <1>5, FrameFacts
  <2> QED
    BY <1>1, <1>2, <1>3, <1>4, <1>6, <2>1 DEF TypeOK, Depth
<1>10. SingleOwner'
  <2>1. \A f \in Frame : Distinct(region'[f])
    BY <1>5, <1>6, FrameFacts
  <2>2. \A f, g \in Frame : f # g => Tracked(f)' \intersect Tracked(g)' = {}
    BY <1>1, <1>7, FrameFacts DEF IInv, SingleOwner
  <2>3. \A f \in Frame : Tracked(f)' \intersect held' = {}
    <3>1. b \notin held
      BY <1>1 DEF IInv, SingleOwner
    <3> QED
      BY <3>1, <1>2, <1>7 DEF IInv, SingleOwner
  <2>4. live' = held' \union UNION {Tracked(f)' : f \in Frame}
    BY <1>1, <1>2, <1>7 DEF IInv, SingleOwner
  <2> QED
    BY <2>1, <2>2, <2>3, <2>4 DEF SingleOwner, Distinct
<1>11. OuterBelowInner'
  <2> SUFFICES ASSUME NEW f \in Frame, NEW i \in 1 .. Len(region'[f])
               PROVE  /\ level'[region'[f][i]] \in 1 .. Depth(f)
                      /\ \A k \in 1 .. Depth(f) :
                           level'[region'[f][i]] < k => i <= indices[f][k]
    BY <1>8 DEF OuterBelowInner
  <2>1. CASE f = c /\ i = Len(region[c]) + 1
    <3>1. level'[region'[f][i]] = Depth(c)
      BY <2>1, <1>2, <1>3, <1>6 DEF TypeOK
    <3> QED
      BY <2>1, <3>1, <1>1, <1>4 DEF Depth
  <2>2. CASE ~(f = c /\ i = Len(region[c]) + 1)
    <3>1. i \in 1 .. Len(region[f]) /\ region'[f][i] = region[f][i]
      BY <2>2, <1>4, <1>5, <1>6
    <3>2. region[f][i] # b /\ region[f][i] \in Block
      BY <3>1, <1>1, FrameFacts
    <3>3. level'[region'[f][i]] = level[region[f][i]]
      BY <3>1, <3>2, <1>2, <1>3 DEF TypeOK
    <3> QED
      BY <3>1, <3>3 DEF IInv, OuterBelowInner
  <2> QED
    BY <2>1, <2>2
<1>12. CleanFrames'
  BY <1>1, <1>2, <1>5, <1>8 DEF IInv, CleanFrames, Depth
<1> QED
  BY <1>9, <1>10, <1>11, <1>12 DEF IInv

(* Steps that leave the lists alone and change who holds what. *)
LEMMA HolderIInv ==
  ASSUME IInv, NEW b \in Block, AllocateUntracked(b) \/ Release(b)
  PROVE  IInv'
<1> USE RegionsAssumption DEF Frame
<1>1. /\ UNCHANGED <<callstack, region, indices, level>>
      /\ \/ b \notin live /\ live' = live \union {b} /\ held' = held \union {b}
         \/ b \in held /\ live' = live \ {b} /\ held' = held \ {b}
  BY DEF AllocateUntracked, Release
<1>2. \A f \in Frame : Tracked(f)' = Tracked(f) /\ Depth(f)' = Depth(f)
  BY <1>1 DEF Tracked, Depth
<1>3. TypeOK'
  BY <1>1 DEF IInv, TypeOK
<1>4. \A f \in Frame : b \notin Tracked(f)
  BY <1>1, FrameFacts
<1>5. SingleOwner'
  BY <1>1, <1>2, <1>4 DEF IInv, SingleOwner
<1>6. OuterBelowInner' /\ CleanFrames'
  BY <1>1, <1>2 DEF IInv, OuterBelowInner, CleanFrames
<1> QED
  BY <1>3, <1>5, <1>6 DEF IInv

(* OP_Store* and OP_UnTrack: b leaves the list it is tracked in. *)
LEMMA RemoveIInv ==
  ASSUME IInv, NEW b \in Block, NEW old \in Block \union {NoBlock},
         Store(b, old) \/ (Untrack(b) /\ old = NoBlock)
  PROVE  IInv'
<1> USE RegionsAssumption DEF Frame
<1> DEFINE c == callstack
<1>1. /\ c \in Frame /\ b \in Tracked(c)
      /\ old \in held \union {NoBlock}
      /\ region' = [region EXCEPT ![c] = ListRemove(@, Lookup(@, b))]
      /\ live' = live \ {old}
      /\ held' = (held \ {old}) \union {b}
      /\ UNCHANGED <<callstack, indices, level>>
  BY DEF Store, Untrack, RemoveFromRegion, IInv, TypeOK
<1>2. region[c] \in Seq(Block) /\ Distinct(region[c])
      /\ b \in Elements(region[c]) /\ b \in live /\ b \notin held
  BY <1>1, FrameFacts DEF Tracked
<1>3. TypeOK
  BY DEF IInv
<1>4. /\ region'[c] = ListRemove(region[c], Lookup(region[c], b))
      /\ \A f \in Frame \ {c} : region'[f] = region[f]
  BY <1>1, <1>3 DEF TypeOK
<1>5. /\ region'[c] \in Seq(Block)
      /\ Len(region'[c]) <= Len(region[c])
      /\ Elements(region'[c]) = Elements(region[c]) \ {b}
      /\ Distinct(region'[c])
      /\ \A i \in 1 .. Len(region'[c]) :
           \E j \in 1 .. Len(region[c]) : j >= i /\ region'[c][i] = region[c][j]
  BY <1>2, <1>4, RemoveFacts
<1>6. \A f \in Frame : Tracked(f)' = IF f = c THEN Tracked(f) \ {b}
                                              ELSE Tracked(f)
  BY <1>4, <1>5 DEF Tracked
<1>7. \A f \in Frame : Depth(f)' = Depth(f) /\ indices'[f] = indices[f]
  BY <1>1 DEF Depth
<1>8. TypeOK'
  <2>1. \A f \in Frame : Len(region'[f]) <= MaxTracked
    <3>1. Len(region[c]) \in Nat /\ Len(region'[c]) \in Nat
          /\ Len(region[c]) <= MaxTracked
      BY <1>1, <1>5, FrameFacts
    <3>2. Len(region'[c]) <= MaxTracked
      BY <3>1, <1>5
    <3> QED
      BY <3>2, <1>4, FrameFacts
  <2> QED
    BY <1>1, <1>3, <1>5, <2>1 DEF TypeOK
<1>9. SingleOwner'
  <2>1. \A f \in Frame : Distinct(region'[f])
    BY <1>4, <1>5, FrameFacts
  <2>2. \A f, g \in Frame : f # g => Tracked(f)' \intersect Tracked(g)' = {}
    BY <1>6 DEF IInv, SingleOwner
  <2>3. \A f \in Frame \ {c} : b \notin Tracked(f)
    BY <1>1 DEF IInv, SingleOwner
  <2>4. \A f \in Frame : Tracked(f)' \intersect held' = {}
    BY <1>1, <1>6, <2>3 DEF IInv, SingleOwner
  <2>5. live' = held' \union UNION {Tracked(f)' : f \in Frame}
    <3>1. ASSUME NEW d \in live' PROVE d \in held' \union UNION {Tracked(f)' : f \in Frame}
      BY <3>1, <1>1, <1>6 DEF IInv, SingleOwner
    <3>2. ASSUME NEW d \in held' PROVE d \in live'
      BY <3>2, <1>1, <1>2 DEF IInv, SingleOwner
    <3>3. ASSUME NEW f \in Frame, NEW d \in Tracked(f)' PROVE d \in live'
      BY <3>3, <1>1, <1>6, FrameFacts
    <3> QED
      BY <3>1, <3>2, <3>3
  <2> QED
    BY <2>1, <2>2, <2>4, <2>5 DEF SingleOwner, Distinct
<1>10. OuterBelowInner'
  <2> SUFFICES ASSUME NEW f \in Frame, NEW i \in 1 .. Len(region'[f])
               PROVE  /\ level[region'[f][i]] \in 1 .. Depth(f)
                      /\ \A k \in 1 .. Depth(f) :
                           level[region'[f][i]] < k => i <= indices[f][k]
    BY <1>1, <1>7 DEF OuterBelowInner
  <2>1. PICK j \in 1 .. Len(region[f]) : j >= i /\ region'[f][i] = region[f][j]
    <3>1. CASE f = c
      BY <3>1, <1>5
    <3>2. CASE f # c
      <4>1. Len(region[f]) \in Nat /\ region'[f] = region[f]
        BY <3>2, <1>4, FrameFacts
      <4> QED
        BY <4>1
    <3> QED
      BY <3>1, <3>2
  <2>2. \A k \in 1 .. Depth(f) : indices[f][k] \in Nat
    BY FrameFacts, ElementOfSeq DEF Depth
  <2>3. i \in Nat /\ j \in Nat
    <3>1. Len(region'[f]) \in Nat
      BY <1>8 DEF TypeOK
    <3> QED
      BY <3>1, FrameFacts
  <2> QED
    BY <2>1, <2>2, <2>3 DEF IInv, OuterBelowInner
<1>11. CleanFrames'
  <2>1. \A f \in Frame : indices[f] = <<>> => f # c
    BY <1>2, FrameFacts, EmptySeq DEF IInv, CleanFrames, Elements
  <2> QED
    BY <1>1, <1>4, <1>7, <2>1 DEF IInv, CleanFrames, Depth
<1> QED
  BY <1>8, <1>9, <1>10, <1>11 DEF IInv

(* OP_PushRegion, and the push that OP_CallFunction makes in its new frame. *)
LEMMA PushIInv ==
  ASSUME IInv, NEW c \in Frame, CanPush(c),
         indices' = [indices EXCEPT ![c] = Append(@, Len(region[c]))],
         callstack' \in callstack .. MaxFrames, c <= callstack',
         UNCHANGED <<live, held, region, level>>
  PROVE  IInv'
<1> USE RegionsAssumption DEF Frame
<1>1. TypeOK
  BY DEF IInv
<1>2. /\ indices[c] \in Seq(Nat) /\ Len(region[c]) \in Nat
      /\ Len(indices[c]) \in Nat
  BY FrameFacts
<1>3. /\ indices'[c] = Append(indices[c], Len(region[c]))
      /\ \A f \in Frame \ {c} : indices'[f] = indices[f]
  BY <1>1 DEF TypeOK
<1>4. /\ indices'[c] \in Seq(Nat)
      /\ Len(indices'[c]) = Len(indices[c]) + 1
      /\ \A k \in 1 .. Len(indices[c]) : indices'[c][k] = indices[c][k]
      /\ indices'[c][Len(indices[c]) + 1] = Len(region[c])
  BY <1>2, <1>3, AppendFacts
<1>5. \A f \in Frame : Tracked(f)' = Tracked(f)
  BY DEF Tracked
<1>6. TypeOK'
  BY <1>1, <1>4 DEF TypeOK
<1>7. SingleOwner'
  BY <1>5 DEF IInv, SingleOwner
<1>8. OuterBelowInner'
  <2> SUFFICES ASSUME NEW f \in Frame, NEW i \in 1 .. Len(region[f])
               PROVE  /\ level[region[f][i]] \in 1 .. Len(indices'[f])
                      /\ \A k \in 1 .. Len(indices'[f]) :
                           level[region[f][i]] < k => i <= indices'[f][k]
    BY DEF OuterBelowInner, Depth
  <2>1. /\ level[region[f][i]] \in 1 .. Len(indices[f])
        /\ \A k \in 1 .. Len(indices[f]) :
             level[region[f][i]] < k => i <= indices[f][k]
    BY DEF IInv, OuterBelowInner, Depth
  <2>2. CASE f # c
    BY <2>1, <2>2, <1>3
  <2>3. CASE f = c
    BY <2>1, <2>3, <1>2, <1>4
  <2> QED
    BY <2>2, <2>3
<1>9. CleanFrames'
  <2>1. ASSUME indices[c] = <<>> PROVE indices'[c][1] = 0
    <3>1. Len(indices[c]) = 0 /\ Len(region[c]) = 0
      BY <2>1, FrameFacts DEF IInv, CleanFrames
    <3> QED
      BY <3>1, <1>4
  <2>2. ASSUME indices[c] # <<>> PROVE indices'[c][1] = 0
    <3>1. Len(indices[c]) > 0 /\ indices[c][1] = 0
      BY <2>2, <1>2, EmptySeq DEF IInv, CleanFrames
    <3> QED
      BY <3>1, <1>2, <1>4
  <2>3. indices'[c] # <<>> /\ indices'[c][1] = 0
        /\ Len(indices'[c]) < IndexSlots
    <3>1. Len(indices[c]) + 1 < IndexSlots
      BY DEF CanPush, Depth
    <3>2. indices'[c] # <<>>
      <4>1. Len(indices'[c]) # Len(<<>>)
        BY <1>2, <1>4
      <4> QED
        BY <4>1
    <3> QED
      BY <2>1, <2>2, <3>1, <3>2, <1>4
  <2>4. callstack \in Int /\ callstack' \in Int /\ callstack' >= callstack
    BY <1>1 DEF TypeOK
  <2> QED
    BY <1>3, <2>3, <2>4 DEF IInv, CleanFrames, Depth
<1> QED
  BY <1>6, <1>7, <1>8, <1>9 DEF IInv

(* What PopRegion leaves: the blocks below the innermost index, all of the *)
(* innermost level only by default.                                        *)
LEMMA PopFacts ==
  ASSUME IInv, PopRegion
  PROVE  LET c == callstack IN
         /\ c \in Frame /\ Depth(c) \in Nat \ {0} /\ CurrentIndex(c) \in Nat
         /\ region'[c] = PopTo(region[c], CurrentIndex(c))
         /\ indices'[c] = PopTo(indices[c], Depth(c) - 1)
         /\ \A f \in Frame \ {c} : region'[f] = region[f]
                                   /\ indices'[f] = indices[f]
         /\ \A f \in Frame : Tracked(f)' =
              IF f = c THEN Tracked(f) \ Leaving(c) ELSE Tracked(f)
         /\ Leaving(c) \subseteq Tracked(c)
         /\ \A d \in Leaving(c) : level[d] = Depth(c)
         /\ Depth(c) = 1 => Leaving(c) = Tracked(c)
<1> USE RegionsAssumption DEF Frame
<1> DEFINE c == callstack
<1>1. TypeOK
  BY DEF IInv
<1>2. c \in Frame /\ Depth(c) \in Nat \ {0}
  BY <1>1, FrameFacts DEF PopRegion, InRegion, TypeOK, Depth
<1>3. CurrentIndex(c) \in Nat
  BY <1>2, FrameFacts, ElementOfSeq DEF CurrentIndex, Depth
<1>4. /\ region'[c] = PopTo(region[c], CurrentIndex(c))
      /\ indices'[c] = PopTo(indices[c], Depth(c) - 1)
      /\ \A f \in Frame \ {c} : region'[f] = region[f]
                                /\ indices'[f] = indices[f]
  BY <1>1, <1>2 DEF PopRegion, TypeOK, Depth
<1>6. Elements(region'[c]) = Elements(region[c]) \ Leaving(c)
      /\ Leaving(c) \subseteq Elements(region[c])
  <2> DEFINE n == CurrentIndex(c)
             s == region[c]
  <2>1. s \in Seq(Block) /\ Distinct(s) /\ n \in Nat
        /\ region'[c] = PopTo(s, n)
    BY <1>2, <1>3, <1>4, FrameFacts
  <2>2. Leaving(c) = Beyond(s, n)
    BY DEF Leaving, Beyond
  <2> HIDE DEF n, s
  <2>3. Elements(PopTo(s, n)) = Elements(s) \ Beyond(s, n)
    BY <2>1, PopToElements
  <2>4. Beyond(s, n) \subseteq Elements(s)
    BY DEF Beyond, Elements
  <2> QED
    BY <2>1, <2>2, <2>3, <2>4 DEF s
<1>7. callstack' = callstack
  BY DEF PopRegion
<1>8. \A f \in Frame : Tracked(f)' =
        IF f = c THEN Tracked(f) \ Leaving(c) ELSE Tracked(f)
  BY <1>2, <1>4, <1>6, <1>7 DEF Tracked
<1>9. ASSUME NEW d \in Leaving(c) PROVE level[d] = Depth(c)
  <2>1. PICK i \in 1 .. Len(region[c]) :
          d = region[c][i] /\ ~(i <= CurrentIndex(c))
    BY <1>2, <1>3, FrameFacts DEF Leaving
  <2>2. /\ level[d] \in 1 .. Depth(c)
        /\ level[d] < Depth(c) => i <= CurrentIndex(c)
    BY <2>1, <1>2 DEF IInv, OuterBelowInner, CurrentIndex
  <2> QED
    BY <2>1, <2>2, <1>2
<1>10. Depth(c) = 1 => Leaving(c) = Tracked(c)
  <2> SUFFICES ASSUME Depth(c) = 1 PROVE Tracked(c) \subseteq Leaving(c)
    BY <1>6 DEF Tracked
  <2>1. Len(indices[c]) = 1 /\ indices[c] # <<>>
    BY <1>2, FrameFacts, EmptySeq DEF Depth
  <2>2. CurrentIndex(c) = 0
    BY <1>2, <2>1 DEF IInv, CleanFrames, CurrentIndex, Depth
  <2> QED
    BY <1>2, <2>2, FrameFacts DEF Leaving, Tracked, Elements
<1> QED
  BY <1>2, <1>3, <1>4, <1>6, <1>8, <1>9, <1>10 DEF Tracked

LEMMA PopIInv ==
  ASSUME IInv, PopRegion
  PROVE  IInv'
<1> USE RegionsAssumption DEF Frame
<1> DEFINE c == callstack
           x == CurrentIndex(c)
           d == Depth(c)
           gone == Leaving(c)
<1>1. TypeOK
  BY DEF IInv
<1>2. /\ c \in Frame /\ d \in Nat \ {0} /\ x \in Nat
      /\ region'[c] = PopTo(region[c], x)
      /\ indices'[c] = PopTo(indices[c], d - 1)
      /\ \A f \in Frame \ {c} : region'[f] = region[f]
                                /\ indices'[f] = indices[f]
      /\ gone \subseteq Tracked(c)
      /\ d = 1 => gone = Tracked(c)
  BY PopFacts
<1>3. \A f \in Frame : Tracked(f)' =
        IF f = c THEN Tracked(f) \ gone ELSE Tracked(f)
  BY PopFacts
<1>4. /\ UNCHANGED <<held, callstack>>
      /\ live' = live \ gone
      /\ level' = [b \in Block |->
                     IF b \in Tracked(c) \ gone /\ level[b] = d
                     THEN level[b] - 1 ELSE level[b]]
  BY DEF PopRegion
<1>5. /\ region'[c] \in Seq(Block) /\ Len(region'[c]) <= Len(region[c])
      /\ Len(region'[c]) <= x
      /\ \A i \in 1 .. Len(region'[c]) : region'[c][i] = region[c][i]
      /\ Distinct(region'[c])
  <2> DEFINE s == region[c]
  <2>1. s \in Seq(Block) /\ Distinct(s)
    BY <1>2, FrameFacts
  <2> HIDE DEF x, s
  <2>2. x \in Nat
    BY <1>2
  <2>3. PopTo(s, x) \in Seq(Block)
    BY <2>1, <2>2, PopToFacts
  <2>4. Len(PopTo(s, x)) <= Len(s) /\ Len(PopTo(s, x)) <= x
    BY <2>1, <2>2, PopToFacts
  <2>5. \A i \in 1 .. Len(PopTo(s, x)) : PopTo(s, x)[i] = s[i]
    BY <2>1, <2>2, PopToFacts
  <2>6. Distinct(PopTo(s, x))
    BY <2>1, <2>2, PopToFacts
  <2>7. region'[c] = PopTo(s, x)
    BY <1>2 DEF s
  <2> QED
    BY <2>3, <2>4, <2>5, <2>6, <2>7 DEF s
<1>6. /\ indices'[c] \in Seq(Nat) /\ Len(indices'[c]) = d - 1
      /\ \A k \in 1 .. d - 1 : indices'[c][k] = indices[c][k]
  <2> DEFINE s == indices[c]
             n == d - 1
  <2>1. s \in Seq(Nat) /\ n \in Nat /\ n <= Len(s) /\ indices'[c] = PopTo(s, n)
    BY <1>2, FrameFacts DEF Depth
  <2> HIDE DEF d, s, n
  <2>2. PopTo(s, n) \in Seq(Nat)
    BY <2>1, PopToFacts
  <2>3. Len(PopTo(s, n)) = n
    BY <2>1, PopToFacts
  <2>4. \A i \in 1 .. Len(PopTo(s, n)) : PopTo(s, n)[i] = s[i]
    BY <2>1, PopToFacts
  <2>5. indices'[c] \in Seq(Nat) /\ Len(indices'[c]) = n
        /\ \A k \in 1 .. n : indices'[c][k] = s[k]
    BY <2>1, <2>2, <2>3, <2>4
  <2> QED
    BY <2>5 DEF s, n
<1> HIDE DEF x, d, gone
<1>7. TypeOK'
  <2>1. Len(region'[c]) <= MaxTracked
    <3>1. Len(region[c]) \in Nat /\ Len(region'[c]) \in Nat
          /\ Len(region[c]) <= MaxTracked
      BY <1>2, <1>5, FrameFacts
    <3> QED
      BY <3>1, <1>5
  <2>2. \A f \in Frame : Len(region'[f]) <= MaxTracked
    BY <2>1, <1>2, FrameFacts
  <2>3. region' \in [Frame -> Seq(Block)] /\ indices' \in [Frame -> Seq(Nat)]
    BY <1>1, <1>2, <1>5, <1>6 DEF TypeOK, PopRegion
  <2>4. level' \in [Block -> Nat]
    BY <1>1, <1>2, <1>4 DEF TypeOK
  <2> QED
    BY <1>1, <1>4, <2>2, <2>3, <2>4 DEF TypeOK
<1>8. SingleOwner'
  <2>1. \A f \in Frame : Distinct(region'[f])
    BY <1>2, <1>5, FrameFacts
  <2>2. \A f, g \in Frame : f # g => Tracked(f)' \intersect Tracked(g)' = {}
    BY <1>3 DEF IInv, SingleOwner
  <2>3. \A f \in Frame : Tracked(f)' \intersect held' = {}
    BY <1>3, <1>4 DEF IInv, SingleOwner
  <2>4. ASSUME NEW f \in Frame, NEW b \in Tracked(f)' PROVE b \notin gone
    BY <1>2, <1>3 DEF IInv, SingleOwner
  <2>5. gone \intersect held = {}
    BY <1>2 DEF IInv, SingleOwner
  <2>6. live' = held' \union UNION {Tracked(f)' : f \in Frame}
    <3>1. ASSUME NEW b \in live', b \notin held'
          PROVE  \E f \in Frame : b \in Tracked(f)'
      <4>1. PICK f \in Frame : b \in Tracked(f)
        BY <3>1, <1>4 DEF IInv, SingleOwner
      <4> QED
        BY <4>1, <3>1, <1>3, <1>4
    <3>2. ASSUME NEW f \in Frame, NEW b \in Tracked(f)' PROVE b \in live'
      BY <3>2, <2>4, <1>3, <1>4, FrameFacts
    <3>3. held' \subseteq live'
      BY <2>5, <1>4 DEF IInv, SingleOwner
    <3> QED
      BY <3>1, <3>2, <3>3
  <2> QED
    BY <2>1, <2>2, <2>3, <2>6 DEF SingleOwner, Distinct
<1>9. OuterBelowInner'
  <2> SUFFICES ASSUME NEW f \in Frame, NEW i \in 1 .. Len(region'[f])
               PROVE  /\ level'[region'[f][i]] \in 1 .. Len(indices'[f])
                      /\ \A k \in 1 .. Len(indices'[f]) :
                           level'[region'[f][i]] < k => i <= indices'[f][k]
    BY DEF OuterBelowInner, Depth
  <2> DEFINE b == region'[f][i]
  <2>0. i \in 1 .. Len(region[f]) /\ b = region[f][i] /\ i \in Nat
    <3>1. Len(region[f]) \in Nat /\ Len(region'[f]) \in Nat
      BY <1>7, FrameFacts DEF TypeOK
    <3>2. CASE f # c
      BY <3>1, <3>2, <1>2
    <3>3. CASE f = c
      BY <3>1, <3>3, <1>5
    <3> QED
      BY <3>2, <3>3
  <2>1. /\ b \in Block /\ b \in Tracked(f) /\ b \in Tracked(f)'
        /\ level[b] \in 1 .. Len(indices[f])
        /\ \A k \in 1 .. Len(indices[f]) : level[b] < k => i <= indices[f][k]
    BY <2>0, FrameFacts DEF IInv, OuterBelowInner, Depth, Tracked, Elements
  <2>2. CASE f # c
    <3>1. b \notin Tracked(c)
      BY <2>1, <2>2, <1>2 DEF IInv, SingleOwner
    <3>2. level'[b] = level[b]
      BY <2>1, <3>1, <1>4
    <3> QED
      BY <2>1, <2>2, <3>2, <1>2
  <2>3. CASE f = c
    <3>1. level'[b] = IF level[b] = d THEN d - 1 ELSE level[b]
      BY <2>1, <2>3, <1>3, <1>4
    <3>2. d = Len(indices[f]) /\ d # 1
      BY <2>1, <2>3, <1>2, <1>3 DEF d, Depth
    <3>3. i <= x /\ x = indices[f][d]
      <4>1. i \in 1 .. Len(region'[c]) /\ Len(region'[c]) \in Nat
        BY <2>3, <1>5
      <4>2. Len(region'[c]) <= x /\ x \in Nat
        BY <1>2, <1>5
      <4>3. x = indices[f][d]
        BY <2>3 DEF x, d, CurrentIndex
      <4> QED
        BY <4>1, <4>2, <4>3, <2>0
    <3>4. d \in Nat /\ d > 1 /\ Len(indices'[f]) = d - 1
          /\ \A k \in 1 .. d - 1 : indices'[f][k] = indices[f][k]
      <4>1. d \in Nat /\ d > 1
        <5>1. d \in Nat /\ d # 0
          BY <1>2
        <5>2. d # 1
          BY <3>2
        <5> QED
          BY <5>1, <5>2
      <4> QED
        BY <4>1, <2>3, <1>6
    <3>5. level[b] \in Nat /\ level'[b] \in 1 .. d - 1
      BY <2>1, <3>1, <3>2, <3>4
    <3>6. ASSUME NEW k \in 1 .. d - 1, level'[b] < k
          PROVE  i <= indices'[f][k]
      BY <2>1, <3>1, <3>2, <3>4, <3>5, <3>6
    <3> QED
      BY <3>4, <3>5, <3>6
  <2> QED
    BY <2>2, <2>3
<1>10. CleanFrames'
  <2>1. d = 1 => region'[c] = <<>> /\ indices'[c] = <<>>
    <3> SUFFICES ASSUME d = 1 PROVE region'[c] = <<>> /\ indices'[c] = <<>>
      OBVIOUS
    <3>1. Elements(region'[c]) = {}
      BY <1>2, <1>3, <1>4 DEF Tracked
    <3>2. Len(region'[c]) = 0
      <4>1. Len(region'[c]) \in Nat
        BY <1>5
      <4>2. \A i \in 1 .. Len(region'[c]) : region'[c][i] \in Elements(region'[c])
        BY DEF Elements
      <4> QED
        BY <3>1, <4>1, <4>2
    <3> QED
      BY <3>2, <1>5, <1>6, EmptySeq
  <2>2. d # 1 => indices'[c] # <<>> /\ indices'[c][1] = 0
    <3>1. d # 1 => indices[c] # <<>>
      BY <1>2, EmptySeq DEF d, Depth
    <3> QED
      BY <3>1, <1>2, <1>6, EmptySeq DEF IInv, CleanFrames
  <2>3. Len(indices'[c]) < IndexSlots
    BY <1>2, <1>6 DEF IInv, CleanFrames, d
  <2>4. c \in Nat /\ ~(c > c)
    BY <1>2
  <2> QED
    BY <1>2, <1>4, <2>1, <2>2, <2>3, <2>4 DEF IInv, CleanFrames, Depth
<1> QED
  BY <1>7, <1>8, <1>9, <1>10 DEF IInv

(* OP_Return: the frame is emptied, its result goes to the caller. *)
LEMMA ReturnIInv ==
  ASSUME IInv, NEW b \in Block \union {NoBlock}, Return(b)
  PROVE  IInv'
<1> USE RegionsAssumption DEF Frame
<1> DEFINE c == callstack
<1>1. TypeOK
  BY DEF IInv
<1>2. /\ c \in Frame /\ callstack' = c - 1
      /\ live' = live \ Tracked(c)
      /\ indices' = [indices EXCEPT ![c] = <<>>]
  BY <1>1 DEF Return, InRegion, TypeOK
<1>3. /\ indices'[c] = <<>>
      /\ \A f \in Frame \ {c} : indices'[f] = indices[f]
  BY <1>1, <1>2 DEF TypeOK
<1>4. /\ \A f \in Frame : f > c - 1 => indices'[f] = <<>>
      /\ \A f \in Frame : indices'[f] # <<>> => indices'[f][1] = 0
      /\ \A f \in Frame : Len(indices'[f]) < IndexSlots
  <2>1. c \in Nat /\ MaxFrames \in Nat
    BY <1>2
  <2>2. ASSUME NEW f \in Frame, f > c - 1, f # c PROVE indices[f] = <<>>
    BY <2>1, <2>2 DEF IInv, CleanFrames
  <2> QED
    BY <2>2, <1>3 DEF IInv, CleanFrames, Depth
<1>5. CASE b = NoBlock
  <2>1. /\ region' = [region EXCEPT ![c] = <<>>]
        /\ UNCHANGED <<held, level>>
    BY <1>5 DEF Return, IInv, TypeOK
  <2>2. /\ region'[c] = <<>>
        /\ \A f \in Frame \ {c} : region'[f] = region[f]
    BY <1>1, <1>2, <2>1 DEF TypeOK
  <2>3. \A f \in Frame : Tracked(f)' = IF f = c THEN {} ELSE Tracked(f)
    BY <2>2 DEF Tracked, Elements
  <2>4. TypeOK'
    <3>1. region' \in [Frame -> Seq(Block)]
      <4>1. region \in [Frame -> Seq(Block)] /\ <<>> \in Seq(Block)
        BY <1>1 DEF TypeOK
      <4> QED
        BY <4>1, <2>1
    <3>2. Len(region'[c]) <= MaxTracked
      BY <2>2
    <3>3. \A f \in Frame : Len(region'[f]) <= MaxTracked
      BY <3>2, <2>2, FrameFacts
    <3>4. indices' \in [Frame -> Seq(Nat)]
      BY <1>1, <1>2 DEF TypeOK
    <3>5. callstack' \in 0 .. MaxFrames
      BY <1>2
    <3> QED
      BY <1>1, <1>2, <2>1, <3>1, <3>3, <3>4, <3>5 DEF TypeOK
  <2>5. SingleOwner'
    <3>1. \A f \in Frame : Distinct(region'[f])
      <4>1. Distinct(region'[c])
        BY <2>2 DEF Distinct
      <4>2. ASSUME NEW f \in Frame, f # c PROVE Distinct(region'[f])
        BY <4>2, <2>2, FrameFacts
      <4> QED
        BY <4>1, <4>2
    <3>2. \A f, g \in Frame : f # g => Tracked(f)' \intersect Tracked(g)' = {}
      BY <2>3 DEF IInv, SingleOwner
    <3>3. \A f \in Frame : Tracked(f)' \intersect held' = {}
      BY <2>1, <2>3 DEF IInv, SingleOwner
    <3>4. live' = held' \union UNION {Tracked(f)' : f \in Frame}
      BY <1>2, <2>1, <2>3 DEF IInv, SingleOwner
    <3> QED
      BY <3>1, <3>2, <3>3, <3>4 DEF SingleOwner, Distinct
  <2>6. OuterBelowInner'
    <3> SUFFICES ASSUME NEW f \in Frame, NEW i \in 1 .. Len(region'[f])
                 PROVE  /\ level[region'[f][i]] \in 1 .. Len(indices'[f])
                        /\ \A k \in 1 .. Len(indices'[f]) :
                             level[region'[f][i]] < k => i <= indices'[f][k]
      BY <2>1 DEF OuterBelowInner, Depth
    <3>1. f # c
      BY <2>2
    <3> QED
      BY <3>1, <2>2, <1>3 DEF IInv, OuterBelowInner, Depth
  <2>7. CleanFrames'
    <3>1. \A f \in Frame : indices'[f] = <<>> => region'[f] = <<>>
      BY <1>3, <2>2 DEF IInv, CleanFrames
    <3> QED
      BY <3>1, <1>2, <1>4 DEF CleanFrames, Depth
  <2> QED
    BY <2>4, <2>5, <2>6, <2>7 DEF IInv
<1>6. CASE b # NoBlock
  <2> DEFINE e == c - 1
  <2>1. /\ b \in held /\ b \in Block
        /\ e \in Frame /\ e # c /\ Depth(e) > 0
        /\ region' = [region EXCEPT ![c] = <<>>, ![e] = Append(@, b)]
        /\ level' = [level EXCEPT ![b] = Depth(e)]
        /\ held' = held \ {b}
    <3>1. /\ b \in held /\ e > 0 /\ Len(indices'[e]) > 0
          /\ region' = [region EXCEPT ![c] = <<>>, ![e] = Append(@, b)]
          /\ level' = [level EXCEPT ![b] = Len(indices'[e])]
          /\ held' = held \ {b}
      BY <1>2, <1>6 DEF Return, CanTrack, InRegion, Depth
    <3>2. e \in Frame /\ e # c
      BY <1>2, <3>1
    <3>3. indices'[e] = indices[e]
      BY <1>3, <3>2
    <3> QED
      BY <3>1, <3>2, <3>3, <1>6 DEF Depth
  <2> HIDE DEF e
  <2>2. /\ region[e] \in Seq(Block) /\ Distinct(region[e])
        /\ b \notin Elements(region[e])
        /\ Len(region[e]) \in Nat /\ Len(indices[e]) \in Nat
        /\ \A f \in Frame : b \notin Tracked(f)
    BY <2>1, FrameFacts DEF Tracked
  <2>3. /\ region'[c] = <<>>
        /\ region'[e] = Append(region[e], b)
        /\ \A f \in Frame \ {c, e} : region'[f] = region[f]
    BY <1>1, <1>2, <2>1 DEF TypeOK
  <2>4. /\ region'[e] \in Seq(Block)
        /\ Len(region'[e]) = Len(region[e]) + 1
        /\ \A i \in 1 .. Len(region[e]) : region'[e][i] = region[e][i]
        /\ region'[e][Len(region[e]) + 1] = b
        /\ Elements(region'[e]) = Elements(region[e]) \union {b}
        /\ Distinct(region'[e])
    <3> DEFINE s == region[e]
    <3>1. s \in Seq(Block) /\ b \in Block /\ Distinct(s) /\ b \notin Elements(s)
          /\ region'[e] = Append(s, b)
      BY <2>1, <2>2, <2>3
    <3> HIDE DEF s
    <3>2. /\ Append(s, b) \in Seq(Block)
          /\ Len(Append(s, b)) = Len(s) + 1
          /\ \A i \in 1 .. Len(s) : Append(s, b)[i] = s[i]
          /\ Append(s, b)[Len(s) + 1] = b
          /\ Elements(Append(s, b)) = Elements(s) \union {b}
          /\ Distinct(Append(s, b))
      BY <3>1, AppendFacts
    <3>3. /\ region'[e] \in Seq(Block)
          /\ Len(region'[e]) = Len(s) + 1
          /\ \A i \in 1 .. Len(s) : region'[e][i] = s[i]
          /\ region'[e][Len(s) + 1] = b
          /\ Elements(region'[e]) = Elements(s) \union {b}
          /\ Distinct(region'[e])
      BY <3>1, <3>2
    <3> QED
      BY <3>3 DEF s
  <2>5. \A f \in Frame : Tracked(f)' = IF f = c THEN {}
                                        ELSE IF f = e THEN Tracked(f) \union {b}
                                        ELSE Tracked(f)
    <3>1. Elements(region'[c]) = {}
      BY <2>3 DEF Elements
    <3>2. ASSUME NEW f \in Frame, f # c, f # e
          PROVE  Elements(region'[f]) = Elements(region[f])
      BY <3>2, <2>3
    <3> QED
      BY <3>1, <3>2, <2>1, <2>4 DEF Tracked
  <2>6. TypeOK'
    <3>1. region' \in [Frame -> Seq(Block)]
      <4>1. \A f \in Frame : region'[f] \in Seq(Block)
        <5>1. ASSUME NEW f \in Frame, f # c, f # e
              PROVE  region'[f] \in Seq(Block)
          BY <5>1, <2>3, FrameFacts
        <5>2. region'[c] \in Seq(Block)
          BY <2>3
        <5> QED
          BY <5>1, <5>2, <2>4
      <4>2. region' = [f \in Frame |-> region'[f]]
        BY <1>1, <2>1 DEF TypeOK
      <4> QED
        BY <4>1, <4>2
    <3>2. level' \in [Block -> Nat]
      BY <1>1, <2>1, <2>2 DEF TypeOK, Depth
    <3>3. indices' \in [Frame -> Seq(Nat)]
      BY <1>1, <1>2 DEF TypeOK
    <3>4. live' \subseteq Block /\ held' \subseteq Block
      BY <1>1, <1>2, <2>1 DEF TypeOK
    <3>5. callstack' \in 0 .. MaxFrames
      BY <1>2
    <3>6. \A f \in Frame : Len(region'[f]) <= MaxTracked
      <4>1. Len(region[e]) < MaxTracked
        BY <1>6 DEF Return, CanTrack, e
      <4>2. Len(region'[e]) <= MaxTracked
        BY <4>1, <2>2, <2>4
      <4>3. Len(region'[c]) <= MaxTracked
        BY <2>3
      <4> QED
        BY <4>2, <4>3, <2>3, FrameFacts
    <3> QED
      BY <3>1, <3>2, <3>3, <3>4, <3>5, <3>6 DEF TypeOK
  <2>7. SingleOwner'
    <3>1. \A f \in Frame : Distinct(region'[f])
      <4>1. Distinct(region'[c])
        BY <2>3 DEF Distinct
      <4> QED
        BY <4>1, <2>3, <2>4, FrameFacts
    <3>2. \A f, g \in Frame : f # g => Tracked(f)' \intersect Tracked(g)' = {}
      BY <2>2, <2>5 DEF IInv, SingleOwner
    <3>3. \A f \in Frame : Tracked(f)' \intersect held' = {}
      BY <2>1, <2>5 DEF IInv, SingleOwner
    <3>4. live' = held' \union UNION {Tracked(f)' : f \in Frame}
      <4>1. ASSUME NEW d \in live', d \notin held'
            PROVE  \E f \in Frame : d \in Tracked(f)'
        BY <4>1, <1>2, <2>1, <2>5 DEF IInv, SingleOwner
      <4>2. ASSUME NEW f \in Frame, NEW d \in Tracked(f)' PROVE d \in live'
        BY <4>2, <1>2, <2>1, <2>2, <2>5 DEF IInv, SingleOwner
      <4>3. held' \subseteq live'
        BY <1>2, <2>1 DEF IInv, SingleOwner
      <4> QED
        BY <4>1, <4>2, <4>3
    <3> QED
      BY <3>1, <3>2, <3>3, <3>4 DEF SingleOwner, Distinct
  <2>8. OuterBelowInner'
    <3> SUFFICES ASSUME NEW f \in Frame, NEW i \in 1 .. Len(region'[f])
                 PROVE  /\ level'[region'[f][i]] \in 1 .. Len(indices'[f])
                        /\ \A k \in 1 .. Len(indices'[f]) :
                             level'[region'[f][i]] < k => i <= indices'[f][k]
      BY DEF OuterBelowInner, Depth
    <3>1. f # c /\ indices'[f] = indices[f]
      <4>1. f # c
        BY <2>3
      <4> QED
        BY <4>1, <1>3
    <3>2. CASE f = e /\ i = Len(region[e]) + 1
      <4>1. level'[region'[f][i]] = Depth(e)
        BY <3>2, <1>1, <2>1, <2>4 DEF TypeOK
      <4> QED
        BY <3>1, <3>2, <4>1, <2>1, <2>2 DEF Depth
    <3>3. CASE ~(f = e /\ i = Len(region[e]) + 1)
      <4>1. i \in 1 .. Len(region[f]) /\ region'[f][i] = region[f][i]
        <5>1. CASE f = e
          BY <5>1, <3>3, <2>2, <2>4
        <5>2. CASE f # e
          BY <5>2, <3>1, <2>3
        <5> QED
          BY <5>1, <5>2
      <4>2. region[f][i] # b /\ region[f][i] \in Block
        BY <4>1, <2>2, FrameFacts
      <4>3. level'[region'[f][i]] = level[region[f][i]]
        BY <4>1, <4>2, <1>1, <2>1 DEF TypeOK
      <4> QED
        BY <3>1, <4>1, <4>3 DEF IInv, OuterBelowInner, Depth
    <3> QED
      BY <3>2, <3>3
  <2>9. CleanFrames'
    <3>1. ASSUME NEW f \in Frame, indices'[f] = <<>> PROVE region'[f] = <<>>
      <4>1. CASE f = c
        BY <4>1, <2>3
      <4>2. CASE f # c
        <5>1. indices[f] = <<>> /\ f # e
          <6>1. Len(indices[f]) = 0
            BY <3>1, <4>2, <1>3
          <6> QED
            BY <6>1, <3>1, <4>2, <1>3, <2>1 DEF Depth
        <5> QED
          BY <5>1, <4>2, <2>3 DEF IInv, CleanFrames
      <4> QED
        BY <4>1, <4>2
    <3> QED
      BY <3>1, <1>2, <1>4 DEF CleanFrames, Depth
  <2> QED
    BY <2>6, <2>7, <2>8, <2>9 DEF IInv
<1> QED
  BY <1>5, <1>6

------------------------------------------------------------------------------
(* The theorems. *)

LEMMA NextIInv == IInv /\ [Next]_regionVars => IInv'
<1> SUFFICES ASSUME IInv, [Next]_regionVars PROVE IInv'
  OBVIOUS
<1>1. ASSUME NEW b \in Block, Allocate(b) PROVE IInv'
  BY <1>1, AllocateIInv
<1>2. ASSUME NEW b \in Block, AllocateUntracked(b) \/ Release(b) PROVE IInv'
  BY <1>2, HolderIInv
<1>3. ASSUME NEW b \in Block, Untrack(b) PROVE IInv'
  BY <1>3, RemoveIInv
<1>4. ASSUME NEW b \in Block, NEW old \in Block \union {NoBlock}, Store(b, old)
      PROVE  IInv'
  BY <1>4, RemoveIInv
<1>5. CASE PushRegion
  <2>1. callstack \in Frame /\ callstack \in Nat /\ callstack <= MaxFrames
    BY <1>5, RegionsAssumption DEF PushRegion, CanPush, IInv, TypeOK, Frame
  <2>2. PICK d : d = callstack
    OBVIOUS
  <2>3. /\ CanPush(d) /\ d \in Frame /\ d <= callstack'
        /\ callstack' \in callstack .. MaxFrames
        /\ indices' = [indices EXCEPT ![d] = Append(@, Len(region[d]))]
        /\ UNCHANGED <<live, held, region, level>>
    <3>1. Index(d) = Len(region[d])
      BY <2>1, <2>2, IndexFacts
    <3> QED
      BY <1>5, <2>1, <2>2, <3>1, RegionsAssumption DEF PushRegion
  <2> QED
    BY <2>3, PushIInv
<1>6. CASE PopRegion
  BY <1>6, PopIInv
<1>7. CASE Call
  <2>1. callstack' \in Frame /\ callstack' \in callstack .. MaxFrames
    BY <1>7, RegionsAssumption DEF Call, IInv, TypeOK, Frame
  <2>2. PICK d : d = callstack'
    OBVIOUS
  <2>3. /\ CanPush(d) /\ d <= callstack'
        /\ indices' = [indices EXCEPT ![d] = Append(@, Len(region[d]))]
        /\ UNCHANGED <<live, held, region, level>>
    <3>1. Index(d) = Len(region[d])
      BY <2>1, <2>2, IndexFacts
    <3>2. /\ CanPush(d)
          /\ indices' = [indices EXCEPT ![d] = Append(@, Index(d))]
          /\ UNCHANGED <<live, held, region, level>>
      BY <1>7, <2>1, <2>2 DEF Call, CanPush, Depth, Index, Frame
    <3>3. d <= callstack'
      BY <2>1, <2>2, RegionsAssumption DEF Frame
    <3> QED
      BY <3>1, <3>2, <3>3
  <2> QED
    BY <2>1, <2>2, <2>3, PushIInv
<1>8. ASSUME NEW b \in Block \union {NoBlock}, Return(b) PROVE IInv'
  BY <1>8, ReturnIInv
<1>9. CASE UNCHANGED regionVars
  BY <1>9 DEF regionVars, IInv, TypeOK, SingleOwner, OuterBelowInner,
              CleanFrames, Tracked, Depth
<1> QED
  BY <1>1, <1>2, <1>3, <1>4, <1>5, <1>6, <1>7, <1>8, <1>9 DEF Next

(* The regions keep their types, whatever the program does with them. *)
THEOREM TypeCorrect == Spec => []TypeOK
<1>1. IInv => TypeOK
  BY DEF IInv
<1> QED
  BY <1>1, InitIInv, NextIInv, PTL DEF Spec

(* No block is freed twice, freed while it is tracked elsewhere, or lost: *)
(* every live block has exactly one owner (region.c, vm.c).               *)
THEOREM OneOwner == Spec => []SingleOwner
<1>1. IInv => SingleOwner
  BY DEF IInv
<1> QED
  BY <1>1, InitIInv, NextIInv, PTL DEF Spec

(* Popping a region never reaches a pointer of an enclosing one, although *)
(* removals move pointers past the recorded indices (region.c).           *)
THEOREM RegionsNest == Spec => []OuterBelowInner
<1>1. IInv => OuterBelowInner
  BY DEF IInv
<1> QED
  BY <1>1, InitIInv, NextIInv, PTL DEF Spec

(* push_frame may hand out a frame that pop_frame left without clearing   *)
(* its scope: there is nothing in it (thread.c).                          *)
THEOREM FramesReusable == Spec => []CleanFrames
<1>1. IInv => CleanFrames
  BY DEF IInv
<1> QED
  BY <1>1, InitIInv, NextIInv, PTL DEF Spec

------------------------------------------------------------------------------
(* The refinement mapping. *)

Held == <<0, 0>>
Nobody == <<0, 1>>
owner == [b \in Block |-> OwnerOf(b)]
depth == [f \in Frame |-> Depth(f)]

(* What the mapping says of a block, for each of the places it can be in. *)
OwnersRight ==
  /\ \A b \in held : OwnerOf(b) = Held
  /\ \A f \in Frame : \A b \in Tracked(f) : OwnerOf(b) = <<f, level[b]>>
  /\ \A b \in Block \ live : OwnerOf(b) = Nobody

LEMMA OwnerFacts == IInv => OwnersRight
<1> SUFFICES ASSUME IInv PROVE OwnersRight
  OBVIOUS
<1>1. \A b \in held : OwnerOf(b) = Held
  BY DEF OwnerOf, Held
<1>2. ASSUME NEW f \in Frame, NEW b \in Tracked(f)
      PROVE  OwnerOf(b) = <<f, level[b]>>
  <2>1. b \notin held
    BY <1>2, FrameFacts
  <2>2. (CHOOSE g \in Frame : b \in Tracked(g)) = f
    BY <1>2 DEF IInv, SingleOwner
  <2> QED
    BY <1>2, <2>1, <2>2 DEF OwnerOf
<1>3. ASSUME NEW b \in Block \ live PROVE OwnerOf(b) = Nobody
  <2>1. b \notin held /\ \A f \in Frame : b \notin Tracked(f)
    BY <1>3 DEF IInv, SingleOwner
  <2> QED
    BY <2>1 DEF OwnerOf, Nobody
<1> QED
  BY <1>1, <1>2, <1>3 DEF OwnersRight

(* The blocks of an owner. *)
LEMMA OwnedFacts ==
  ASSUME IInv
  PROVE  /\ {b \in live : owner[b] = Held} = held
         /\ \A f \in Frame : {b \in live : owner[b][1] = f} = Tracked(f)
         /\ \A f \in Frame, n \in Nat :
              {b \in live : owner[b] = <<f, n>>} = {b \in Tracked(f) : level[b] = n}
<1>1. OwnersRight /\ live \subseteq Block /\ \A f \in Frame : f # 0
  BY OwnerFacts, RegionsAssumption DEF IInv, TypeOK, Frame
<1>2. \A b \in live : owner[b] = OwnerOf(b)
  BY <1>1 DEF owner
<1>3. \A b \in live : \/ b \in held /\ owner[b] = Held
                      \/ \E f \in Frame : b \in Tracked(f) /\ owner[b] = <<f, level[b]>>
  <2> SUFFICES ASSUME NEW b \in live, b \notin held
               PROVE  \E f \in Frame : b \in Tracked(f) /\ owner[b] = <<f, level[b]>>
    BY <1>1, <1>2 DEF OwnersRight
  <2>1. PICK f \in Frame : b \in Tracked(f)
    BY DEF IInv, SingleOwner
  <2> QED
    BY <1>1, <1>2, <2>1 DEF OwnersRight
<1>4. \A f \in Frame : Tracked(f) \subseteq live /\ held \subseteq live
  BY DEF IInv, SingleOwner
<1>5. \A f \in Frame : \A b \in Tracked(f) : owner[b] = <<f, level[b]>>
  BY <1>1, <1>2, <1>4 DEF OwnersRight
<1>6. \A b \in held : owner[b] = Held
  BY <1>1, <1>2, <1>4 DEF OwnersRight, IInv, SingleOwner
<1>7. {b \in live : owner[b] = Held} = held
  BY <1>1, <1>3, <1>4, <1>6 DEF Held, IInv, SingleOwner
<1>8. ASSUME NEW f \in Frame
      PROVE  {b \in live : owner[b][1] = f} = Tracked(f)
  BY <1>1, <1>3, <1>4, <1>5 DEF Held
<1>9. ASSUME NEW f \in Frame, NEW n \in Nat
      PROVE  {b \in live : owner[b] = <<f, n>>} = {b \in Tracked(f) : level[b] = n}
  BY <1>1, <1>3, <1>4, <1>5 DEF Held
<1> QED
  BY <1>7, <1>8, <1>9

(* A block that stays where it is keeps its owner. *)
LEMMA SameOwner ==
  ASSUME IInv, IInv', NEW b \in Block,
         b \in held' <=> b \in held,
         \A f \in Frame : b \in Tracked(f)' <=> b \in Tracked(f),
         level'[b] = level[b]
  PROVE  OwnerOf(b)' = OwnerOf(b)
<1>1. OwnersRight /\ OwnersRight'
  BY OwnerFacts, PTL
<1>2. CASE b \in held
  BY <1>1, <1>2 DEF OwnersRight, Held
<1>3. CASE \E f \in Frame : b \in Tracked(f)
  BY <1>1, <1>3 DEF OwnersRight
<1>4. CASE b \notin held /\ \A f \in Frame : b \notin Tracked(f)
  <2>1. b \notin live /\ b \notin live'
    BY <1>4 DEF IInv, SingleOwner
  <2> QED
    BY <1>1, <2>1 DEF OwnersRight, Nobody
<1> QED
  BY <1>2, <1>3, <1>4

LEMMA OwnersNext == IInv' => OwnersRight'
BY OwnerFacts, PTL

LEMMA TracksOwn ==
  ASSUME IInv, IInv', NEW b \in Block, Allocate(b)
  PROVE  Own!Track(b)
<1> USE RegionsAssumption
<1> DEFINE c == callstack
<1>1. /\ c \in Frame /\ c > 0 /\ Depth(c) > 0 /\ b \notin live
      /\ region' = [region EXCEPT ![c] = Append(@, b)]
      /\ level' = [level EXCEPT ![b] = Depth(c)]
      /\ live' = live \union {b}
      /\ held' = held /\ callstack' = callstack /\ indices' = indices
  BY DEF Allocate, AddToRegion, CanTrack, InRegion, IInv, TypeOK, Frame
<1>2. \A f \in Frame : Tracked(f)' = IF f = c THEN Tracked(f) \union {b}
                                              ELSE Tracked(f)
  <2>1. region[c] \in Seq(Block)
    BY <1>1, FrameFacts
  <2>2. Elements(Append(region[c], b)) = Elements(region[c]) \union {b}
    BY <2>1, AppendFacts
  <2> QED
    BY <1>1, <2>2 DEF Tracked, IInv, TypeOK
<1>3. ASSUME NEW d \in Block, d # b PROVE OwnerOf(d)' = OwnerOf(d)
  <2>1. level'[d] = level[d]
    BY <1>1, <1>3 DEF IInv, TypeOK
  <2> QED
    BY <1>1, <1>2, <1>3, <2>1, SameOwner
<1>4. OwnerOf(b)' = <<c, Depth(c)>>
  <2>1. b \in Tracked(c)' /\ level'[b] = Depth(c)
    BY <1>1, <1>2 DEF IInv, TypeOK
  <2> QED
    BY <1>1, <2>1, OwnersNext DEF OwnersRight
<1>5. owner' = [owner EXCEPT ![b] = <<c, depth[c]>>]
  BY <1>1, <1>3, <1>4 DEF owner, depth
<1>6. depth' = depth /\ depth[c] > 0
  BY <1>1 DEF depth, Depth
<1> QED
  BY <1>1, <1>5, <1>6 DEF Own!Track, Own!Innermost, owner, depth

LEMMA KeepsOwn ==
  ASSUME IInv, IInv', NEW b \in Block, AllocateUntracked(b)
  PROVE  Own!Keep(b)
<1>1. /\ callstack > 0 /\ b \notin live
      /\ live' = live \union {b} /\ held' = held \union {b}
      /\ UNCHANGED <<callstack, region, indices, level>>
  BY DEF AllocateUntracked
<1>2. \A f \in Frame : Tracked(f)' = Tracked(f) /\ Depth(f)' = Depth(f)
  BY <1>1 DEF Tracked, Depth
<1>3. ASSUME NEW d \in Block, d # b PROVE OwnerOf(d)' = OwnerOf(d)
  BY <1>1, <1>2, <1>3, SameOwner
<1>4. OwnerOf(b)' = Held
  BY <1>1, OwnersNext DEF OwnersRight
<1>5. owner' = [owner EXCEPT ![b] = Held] /\ depth' = depth
  BY <1>2, <1>3, <1>4 DEF owner, depth
<1> QED
  BY <1>1, <1>5 DEF Own!Keep, Own!Held, Held, owner, depth

LEMMA DropsOwn ==
  ASSUME IInv, IInv', NEW b \in Block, Release(b)
  PROVE  Own!Drop(b)
<1>1. /\ callstack > 0 /\ b \in held
      /\ live' = live \ {b} /\ held' = held \ {b}
      /\ UNCHANGED <<callstack, region, indices, level>>
  BY DEF Release
<1>2. \A f \in Frame : Tracked(f)' = Tracked(f) /\ Depth(f)' = Depth(f)
  BY <1>1 DEF Tracked, Depth
<1>3. ASSUME NEW d \in Block, d # b PROVE OwnerOf(d)' = OwnerOf(d)
  BY <1>1, <1>2, <1>3, SameOwner
<1>4. OwnerOf(b)' = Nobody
  BY <1>1, OwnersNext DEF OwnersRight
<1>5. owner' = [owner EXCEPT ![b] = Nobody] /\ depth' = depth
  BY <1>2, <1>3, <1>4 DEF owner, depth
<1>6. b \in {d \in live : owner[d] = Held}
  BY <1>1, OwnedFacts
<1> QED
  BY <1>1, <1>5, <1>6 DEF Own!Drop, Own!OwnedBy, Own!Held, Own!Nobody, Held, Nobody,
                          owner, depth

(* OP_Store* and OP_UnTrack: b leaves its region, old, if any, is freed. *)
LEMMA TakesOwn ==
  ASSUME IInv, IInv', NEW b \in Block, NEW old \in Block \union {NoBlock},
         Store(b, old) \/ (Untrack(b) /\ old = NoBlock)
  PROVE  Own!Take(b, old)
<1> USE RegionsAssumption
<1> DEFINE c == callstack
<1>1. /\ c \in Frame /\ c > 0 /\ b \in Tracked(c)
      /\ old \in held \union {NoBlock}
      /\ region' = [region EXCEPT ![c] = ListRemove(@, Lookup(@, b))]
      /\ held' = (held \ {old}) \union {b}
      /\ UNCHANGED <<callstack, indices, level>>
  BY DEF Store, Untrack, RemoveFromRegion, IInv, TypeOK, Frame
<1>2. live' = live \ {old}
  BY DEF Store, Untrack, IInv, TypeOK
<1>3. \A f \in Frame : Tracked(f)' = IF f = c THEN Tracked(f) \ {b}
                                              ELSE Tracked(f)
  <2>1. region[c] \in Seq(Block) /\ Distinct(region[c]) /\ b \in Elements(region[c])
    BY <1>1, FrameFacts DEF Tracked
  <2>2. Elements(ListRemove(region[c], Lookup(region[c], b))) = Elements(region[c]) \ {b}
    BY <2>1, RemoveFacts
  <2> QED
    BY <1>1, <2>2 DEF Tracked, IInv, TypeOK
<1>4. b \notin held /\ old # b /\ \A f \in Frame \ {c} : b \notin Tracked(f)
  BY <1>1 DEF IInv, SingleOwner
<1>5. ASSUME NEW d \in Block, d # b, d # old PROVE OwnerOf(d)' = OwnerOf(d)
  BY <1>1, <1>3, <1>5, SameOwner
<1>6. OwnerOf(b)' = Held
  BY <1>1, OwnersNext DEF OwnersRight
<1>7. old \in Block => OwnerOf(old)' = Nobody
  BY <1>2, OwnersNext DEF OwnersRight
<1>8. owner' = [d \in Block |-> CASE d = b   -> Held
                                  [] d = old -> Nobody
                                  [] OTHER   -> owner[d]]
  BY <1>4, <1>5, <1>6, <1>7 DEF owner
<1>9. depth' = depth
  BY <1>1 DEF depth, Depth
<1>10. /\ b \in {d \in live : owner[d][1] = c}
       /\ old \in {d \in live : owner[d] = Held} \union {NoBlock}
  BY <1>1, OwnedFacts
<1> QED
  BY <1>1, <1>2, <1>8, <1>9, <1>10
     DEF Own!Take, Own!OwnedBy, Own!OwnedIn, Own!Held, Own!Nobody, Held, Nobody,
         owner, depth

(* A region is opened, in the frame that runs or in one that was clean. *)
LEMMA PushOwners ==
  ASSUME IInv, IInv', NEW c \in Frame,
         indices' = [indices EXCEPT ![c] = Append(@, Index(c))],
         UNCHANGED <<live, held, region, level>>
  PROVE  owner' = owner /\ depth' = [depth EXCEPT ![c] = @ + 1]
<1>1. \A f \in Frame : Tracked(f)' = Tracked(f)
  BY DEF Tracked
<1>2. \A d \in Block : OwnerOf(d)' = OwnerOf(d)
  BY <1>1, SameOwner
<1>3. indices \in [Frame -> Seq(Nat)]
  BY DEF IInv, TypeOK
<1>4. Len(indices'[c]) = Len(indices[c]) + 1
  <2>1. indices'[c] = Append(indices[c], Index(c)) /\ indices[c] \in Seq(Nat)
    BY <1>3
  <2>2. Len(Append(indices[c], Index(c))) = Len(indices[c]) + 1
    <3>1. Index(c) \in Nat
      BY IndexFacts, FrameFacts
    <3> QED
      BY <2>1, <3>1, AppendFacts
  <2> QED
    BY <2>1, <2>2
<1>5. \A f \in Frame : Len(indices'[f]) = IF f = c THEN Len(indices[c]) + 1
                                                   ELSE Len(indices[f])
  BY <1>3, <1>4
<1>6. depth' = [depth EXCEPT ![c] = @ + 1]
  BY <1>5 DEF depth, Depth
<1> QED
  BY <1>2, <1>6 DEF owner

LEMMA EntersOwn ==
  ASSUME IInv, IInv', PushRegion
  PROVE  Own!Enter
<1> USE RegionsAssumption
<1> DEFINE c == callstack
<1>1. c \in Frame /\ c > 0 /\ Len(indices[c]) + 1 < IndexSlots
  BY DEF PushRegion, CanPush, IInv, TypeOK, Frame, Depth
<1>2. /\ indices' = [indices EXCEPT ![c] = Append(@, Index(c))]
      /\ UNCHANGED <<live, held, callstack, region, level>>
  BY DEF PushRegion
<1>3. owner' = owner /\ depth' = [depth EXCEPT ![c] = @ + 1]
  BY <1>1, <1>2, PushOwners
<1>4. depth[c] < IndexSlots - 1
  BY <1>1, FrameFacts DEF depth, Depth
<1> QED
  BY <1>1, <1>2, <1>3, <1>4 DEF Own!Enter, owner, depth

LEMMA CallsOwn ==
  ASSUME IInv, IInv', Call
  PROVE  Own!Call
<1> USE RegionsAssumption
<1> DEFINE c == callstack + 1
<1>1. /\ c \in Frame /\ callstack' = c /\ callstack < MaxFrames
      /\ indices' = [indices EXCEPT ![c] = Append(@, Index(c))]
      /\ UNCHANGED <<live, held, region, level>>
  <2>1. callstack \in Nat /\ c \in Frame
    BY DEF Call, IInv, TypeOK, Frame
  <2>2. callstack' = c
    BY DEF Call
  <2> QED
    BY <2>1, <2>2 DEF Call, Index
<1>2. indices[c] = <<>>
  <2>1. c > callstack
    BY DEF IInv, TypeOK
  <2> QED
    BY <1>1, <2>1 DEF IInv, CleanFrames
<1>3. owner' = owner /\ depth' = [depth EXCEPT ![c] = @ + 1]
  BY <1>1, PushOwners
<1>4. depth[c] = 0
  BY <1>1, <1>2 DEF depth, Depth
<1>5. depth' = [depth EXCEPT ![c] = 1]
  <2>1. depth[c] + 1 = 1
    BY <1>4
  <2> QED
    BY <1>3, <2>1
<1> QED
  BY <1>1, <1>3, <1>5 DEF Own!Call, owner, depth

LEMMA LeavesOwn ==
  ASSUME IInv, IInv', PopRegion
  PROVE  Own!Leave(Leaving(callstack)) /\ Leaving(callstack) \subseteq live
<1> USE RegionsAssumption
<1> DEFINE c == callstack
           gone == Leaving(c)
           n == Depth(c)
<1>1. /\ c \in Frame /\ n \in Nat \ {0}
      /\ indices'[c] = PopTo(indices[c], n - 1)
      /\ \A f \in Frame \ {c} : indices'[f] = indices[f]
      /\ gone \subseteq Tracked(c)
      /\ \A d \in gone : level[d] = n
      /\ n = 1 => gone = Tracked(c)
  BY PopFacts
<1>2. \A f \in Frame : Tracked(f)' = IF f = c THEN Tracked(f) \ gone ELSE Tracked(f)
  BY PopFacts
<1>3. /\ UNCHANGED <<held, callstack>>
      /\ live' = live \ gone
      /\ level' = [b \in Block |->
                     IF b \in Tracked(c) \ gone /\ level[b] = n
                     THEN level[b] - 1 ELSE level[b]]
  BY DEF PopRegion
<1>4. depth' = [depth EXCEPT ![c] = @ - 1]
  <2>1. indices[c] \in Seq(Nat) /\ n - 1 \in Nat /\ n = Len(indices[c])
    BY <1>1, FrameFacts DEF Depth
  <2>2. Len(PopTo(indices[c], n - 1)) = IF n - 1 < Len(indices[c]) THEN n - 1 ELSE Len(indices[c])
    BY <2>1, PopToFacts
  <2>3. Len(indices'[c]) = n - 1
    BY <1>1, <2>1, <2>2
  <2>4. \A f \in Frame : Len(indices'[f]) = IF f = c THEN Len(indices[f]) - 1
                                                     ELSE Len(indices[f])
    BY <1>1, <2>1, <2>3
  <2> QED
    BY <2>4 DEF depth, Depth
<1> HIDE DEF gone
<1>5. ASSUME NEW d \in gone PROVE d \in Block /\ OwnerOf(d)' = Nobody
  <2>1. d \in Block /\ d \notin live'
    BY <1>1, <1>3, <1>5, FrameFacts
  <2> QED
    BY <2>1, OwnersNext DEF OwnersRight
<1>6. ASSUME NEW d \in Tracked(c) \ gone, level[d] = n
      PROVE  OwnerOf(d)' = <<c, n - 1>>
  <2>1. d \in Block /\ d \in Tracked(c)' /\ level'[d] = n - 1
    BY <1>1, <1>2, <1>3, <1>6, FrameFacts
  <2> QED
    BY <1>1, <1>3, <2>1, OwnersNext DEF OwnersRight
<1>7. ASSUME NEW d \in Block, d \notin gone, ~(d \in Tracked(c) /\ level[d] = n)
      PROVE  OwnerOf(d)' = OwnerOf(d)
  <2>1. level'[d] = level[d]
    BY <1>3, <1>7 DEF IInv, TypeOK
  <2>2. \A f \in Frame : d \in Tracked(f)' <=> d \in Tracked(f)
    BY <1>2, <1>7
  <2> QED
    BY <1>3, <1>7, <2>1, <2>2, SameOwner
<1> DEFINE innermost == {d \in live : owner[d] = <<c, n>>}
<1>8. innermost = {d \in Tracked(c) : level[d] = n}
  BY <1>1, OwnedFacts
<1>9. gone \subseteq innermost
  BY <1>1, <1>8
<1>10. owner' = [d \in Block |-> CASE d \in gone -> Nobody
                                   [] d \in innermost \ gone -> <<c, n - 1>>
                                   [] OTHER -> owner[d]]
  BY <1>5, <1>6, <1>7, <1>8 DEF owner
<1>11. n = 1 => gone = {d \in live : owner[d][1] = c}
  BY <1>1, OwnedFacts
<1>12. depth[c] = n /\ c > 0 /\ n > 0
  BY <1>1 DEF depth, Frame
<1>13. Own!Leave(gone)
  BY <1>3, <1>4, <1>9, <1>10, <1>11, <1>12
     DEF Own!Leave, Own!OwnedBy, Own!OwnedIn, Own!Innermost, Own!Nobody, Nobody,
         owner, depth
<1>14. gone \subseteq live
  BY <1>1, FrameFacts
<1> QED
  BY <1>13, <1>14 DEF gone

LEMMA ReturnsOwn ==
  ASSUME IInv, IInv', NEW b \in Block \union {NoBlock}, Return(b)
  PROVE  Own!Return(b)
<1> USE RegionsAssumption
<1>0. PICK c, e : c = callstack /\ e = callstack - 1
  OBVIOUS
<1>1. /\ c \in Frame /\ c > 0 /\ Depth(c) > 0
      /\ callstack' = e
      /\ live' = live \ Tracked(c)
      /\ indices' = [indices EXCEPT ![c] = <<>>]
  BY <1>0 DEF Return, InRegion, IInv, TypeOK, Frame
<1>2. depth' = [depth EXCEPT ![c] = 0]
  <2>1. \A f \in Frame : Len(indices'[f]) = IF f = c THEN 0 ELSE Len(indices[f])
    BY <1>1 DEF IInv, TypeOK
  <2> QED
    BY <2>1 DEF depth, Depth
<1>3. \A d \in Tracked(c) : d \in Block /\ d \in live /\ d \notin held
  BY <1>1, FrameFacts
<1>4. {d \in live : owner[d][1] = c} = Tracked(c) /\ {d \in live : owner[d] = Held} = held
  BY <1>1, OwnedFacts
<1>5. CASE b = NoBlock
  <2>1. /\ region' = [region EXCEPT ![c] = <<>>]
        /\ UNCHANGED <<held, level>>
    BY <1>0, <1>5 DEF Return, IInv, TypeOK
  <2>2. \A f \in Frame : Tracked(f)' = IF f = c THEN {} ELSE Tracked(f)
    <3>1. Elements(<<>>) = {}
      BY DEF Elements
    <3> QED
      BY <1>1, <2>1, <3>1 DEF Tracked, IInv, TypeOK
  <2>3. ASSUME NEW d \in Tracked(c) PROVE OwnerOf(d)' = Nobody
    BY <1>1, <1>3, <2>3, OwnersNext DEF OwnersRight
  <2>4. ASSUME NEW d \in Block, d \notin Tracked(c) PROVE OwnerOf(d)' = OwnerOf(d)
    BY <2>1, <2>2, <2>4, SameOwner
  <2>5. owner' = [d \in Block |-> CASE d = b -> <<e, depth[e]>>
                                    [] d \in Tracked(c) -> Nobody
                                    [] OTHER -> owner[d]]
    BY <1>5, <2>3, <2>4 DEF owner
  <2> QED
    BY <1>0, <1>1, <1>2, <1>4, <1>5, <2>5
       DEF Own!Return, Own!OwnedIn, Own!OwnedBy, Own!Innermost, Own!Nobody, Nobody,
           owner, depth
<1>6. CASE b # NoBlock
  <2>1. /\ b \in held /\ b \in Block /\ e \in Frame /\ e # c /\ c > 1
        /\ Depth(e) > 0
        /\ region' = [region EXCEPT ![c] = <<>>, ![e] = Append(@, b)]
        /\ level' = [level EXCEPT ![b] = Depth(e)]
        /\ held' = held \ {b}
    <3>1. /\ b \in held /\ e > 0 /\ Len(indices'[e]) > 0
          /\ region' = [region EXCEPT ![c] = <<>>, ![e] = Append(@, b)]
          /\ level' = [level EXCEPT ![b] = Len(indices'[e])]
          /\ held' = held \ {b}
      BY <1>0, <1>1, <1>6 DEF Return, CanTrack, InRegion, Depth
    <3>2. e \in Frame /\ e # c /\ c > 1
      BY <1>0, <1>1, <3>1 DEF Frame
    <3>3. indices'[e] = indices[e]
      BY <1>1, <3>2 DEF IInv, TypeOK
    <3> QED
      BY <1>6, <3>1, <3>2, <3>3 DEF Depth
  <2>2. \A f \in Frame : b \notin Tracked(f)
    BY <2>1, FrameFacts
  <2>3. \A f \in Frame : Tracked(f)' = IF f = c THEN {}
                                        ELSE IF f = e THEN Tracked(f) \union {b}
                                        ELSE Tracked(f)
    <3>1. Elements(<<>>) = {}
      BY DEF Elements
    <3>2. region[e] \in Seq(Block)
      BY <2>1, FrameFacts
    <3>3. Elements(Append(region[e], b)) = Elements(region[e]) \union {b}
      BY <2>1, <3>2, AppendFacts
    <3>4. /\ region'[c] = <<>> /\ region'[e] = Append(region[e], b)
          /\ \A f \in Frame \ {c, e} : region'[f] = region[f]
      BY <1>1, <2>1 DEF IInv, TypeOK
    <3>5. /\ Elements(region'[c]) = {}
          /\ Elements(region'[e]) = Elements(region[e]) \union {b}
          /\ \A f \in Frame \ {c, e} : Elements(region'[f]) = Elements(region[f])
      BY <3>1, <3>3, <3>4
    <3> QED
      BY <1>1, <2>1, <3>5 DEF Tracked
  <2>4. ASSUME NEW d \in Tracked(c) PROVE d # b /\ OwnerOf(d)' = Nobody
    BY <1>1, <1>3, <2>1, <2>4, OwnersNext DEF OwnersRight
  <2>5. ASSUME NEW d \in Block, d # b, d \notin Tracked(c)
        PROVE  OwnerOf(d)' = OwnerOf(d)
    <3>1. level'[d] = level[d]
      BY <2>1, <2>5 DEF IInv, TypeOK
    <3>2. \A f \in Frame : d \in Tracked(f)' <=> d \in Tracked(f)
      BY <2>3, <2>5
    <3> QED
      BY <2>1, <2>5, <3>1, <3>2, SameOwner
  <2>6. OwnerOf(b)' = <<e, Depth(e)>>
    <3>1. b \in Tracked(e)' /\ level'[b] = Depth(e)
      BY <2>1, <2>3 DEF IInv, TypeOK
    <3> QED
      BY <2>1, <3>1, OwnersNext DEF OwnersRight
  <2>7. depth[e] = Depth(e)
    BY <2>1 DEF depth
  <2>8. owner' = [d \in Block |-> CASE d = b -> <<e, depth[e]>>
                                    [] d \in Tracked(c) -> Nobody
                                    [] OTHER -> owner[d]]
    BY <2>4, <2>5, <2>6, <2>7 DEF owner
  <2>9. b \in {d \in live : owner[d] = Held} /\ depth[e] > 0
    BY <1>4, <2>1, <2>7
  <2>10. /\ callstack > 0 /\ depth[callstack] > 0
         /\ callstack > 1 /\ depth[callstack - 1] > 0
         /\ callstack' = callstack - 1
         /\ depth' = [depth EXCEPT ![callstack] = 0]
         /\ live' = live \ {d \in live : owner[d][1] = callstack}
    <3>1. depth[c] = Depth(c)
      BY <1>1 DEF depth
    <3> QED
      BY <1>0, <1>1, <1>2, <1>4, <2>1, <2>9, <3>1
  <2>11. owner' = [d \in Block |->
                     CASE d = b -> <<callstack - 1, depth[callstack - 1]>>
                       [] d \in {g \in live : owner[g][1] = callstack} -> Nobody
                       [] OTHER -> owner[d]]
    BY <1>0, <1>4, <2>8
  <2> QED
    BY <2>9, <2>10, <2>11
       DEF Own!Return, Own!OwnedIn, Own!OwnedBy, Own!Innermost, Own!Nobody, Own!Held,
           Held, Nobody, owner, depth
<1> QED
  BY <1>5, <1>6

------------------------------------------------------------------------------
(* The refinement. *)

LEMMA InitOwns == Init => Own!Init
<1> SUFFICES ASSUME Init PROVE Own!Init
  OBVIOUS
<1>1. IInv /\ live = {}
  BY InitIInv DEF Init
<1>2. owner = [b \in Block |-> Nobody]
  BY <1>1, OwnerFacts DEF OwnersRight, owner
<1>3. depth = [f \in Frame |-> 0]
  BY DEF Init, depth, Depth
<1> QED
  BY <1>2, <1>3 DEF Init, Own!Init, Own!Frame, Own!Nobody, Frame, Nobody, owner, depth

LEMMA NextOwns ==
  IInv /\ IInv' /\ [Next]_regionVars => [Own!Next]_(Own!vars)
<1> SUFFICES ASSUME IInv, IInv', [Next]_regionVars PROVE [Own!Next]_(Own!vars)
  OBVIOUS
<1>1. ASSUME NEW b \in Block,
             Allocate(b) \/ AllocateUntracked(b) \/ Untrack(b) \/ Release(b)
      PROVE  Own!Next
  BY <1>1, TracksOwn, KeepsOwn, TakesOwn, DropsOwn DEF Own!Next
<1>2. ASSUME NEW b \in Block, NEW old \in Block \union {NoBlock}, Store(b, old)
      PROVE  Own!Next
  BY <1>2, TakesOwn DEF Own!Next
<1>3. CASE PushRegion
  BY <1>3, EntersOwn DEF Own!Next
<1>4. CASE PopRegion
  BY <1>4, LeavesOwn DEF Own!Next
<1>5. CASE Call
  BY <1>5, CallsOwn DEF Own!Next
<1>6. ASSUME NEW b \in Block \union {NoBlock}, Return(b) PROVE Own!Next
  BY <1>6, ReturnsOwn DEF Own!Next
<1>7. CASE UNCHANGED regionVars
  <2>1. \A d \in Block : OwnerOf(d)' = OwnerOf(d)
    <3>1. \A f \in Frame : Tracked(f)' = Tracked(f)
      BY <1>7 DEF regionVars, Tracked
    <3> QED
      BY <1>7, <3>1, SameOwner DEF regionVars
  <2>2. owner' = owner /\ depth' = depth
    BY <1>7, <2>1 DEF owner, depth, Depth, regionVars
  <2> QED
    BY <1>7, <2>2 DEF Own!vars, owner, depth, regionVars
<1> QED
  BY <1>1, <1>2, <1>3, <1>4, <1>5, <1>6, <1>7 DEF Next

(* The lists and indices of region.c implement owners: a block is in the   *)
(* region it was tracked in, or an enclosing one that this region was left *)
(* for, until it is taken out or freed with it.                            *)
THEOREM RegionsOwnBlocks == Spec => OwnershipSpec
<1>1. Spec => []IInv
  BY InitIInv, NextIInv, PTL DEF Spec
<1> QED
  BY <1>1, InitOwns, NextOwns, PTL DEF Spec, OwnershipSpec, Own!Spec
==============================================================================
