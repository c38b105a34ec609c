----------------------------- MODULE JumpProofs -----------------------------
(***************************************************************************)
(* Why the jumps of a file link to what is around them, for every source   *)
(* text: the registers of the function and of the loop hold what is being  *)
(* parsed, and a subtree is linked as if that were around it already.      *)
(***************************************************************************)
EXTENDS NamesProofs

\* The nodes of x that are no jumps at all; the nodes of some kinds in x that
\* node n lies below.
NoJumps(h, x) == \A n \in h[x].below : h[n].kind \notin Jumping
Enclosing(h, x, kinds, n) ==
    {o \in h[x].below : h[o].kind \in kinds /\ o # n /\ n \in h[o].below}

\* Node n links to the innermost node of these kinds around it in x, or to
\* what is around x.
LinkFits(h, x, kinds, n, outer) ==
    LET around == Enclosing(h, x, kinds, n)
        link == h[n].link
    IN  /\ around = {} => link = outer
        /\ around # {} => /\ link \in around
                          /\ \A p \in around : link \in h[p].below
                                               /\ (p \in h[link].below => p = link)

\* The jumps in x are linked as in a function and in a loop, but those of out.
Tied(h, x, function, loop, out) ==
    \A n \in h[x].below \ out :
        /\ h[n].kind \in {"Return", "Assert"} => LinkFits(h, x, FunctionKinds, n, function)
        /\ h[n].kind = "Break" => LinkFits(h, x, LoopKinds, n, loop)

\* No node of x has x below it.
Rooted(h, x) == \A o \in h[x].below : x \in h[o].below => o = x

\* A list of what is no jump.
PlainKids(h, x) ==
    /\ IsSequence(h[x].kids)
    /\ \A k \in DOMAIN h[x].kids :
          h[x].kids[k].node \in h[x].below /\ h[h[x].kids[k].node].kind \notin Jumping

\* The jump of frame f is not linked yet, or only to what the register holds.
Unlinked(f) == InStep(f) /\ LinkAhead(f.rule, f.at)
Unsettled(f) == f.rule = "break" \/ Unlinked(f)

\* The kind of the node of a frame, and the lists whose elements get links.
HeadRight(h, f) ==
    LET rule == Rules[f.rule]
    IN  f.node # Null =>
            /\ rule.form = "construct" => h[f.node].kind = rule.kind
            /\ rule.form \in {"suffix", "wrap", "many"} =>
                  h[f.node].kind \notin FunctionKinds \cup LoopKinds
            /\ f.rule \notin MayJump => h[f.node].kind \notin Jumping

ListRight(h, f) ==
    /\ f.rule \in Listed => /\ f.node # Null => PlainKids(h, f.node)
                            /\ f.held # Null => h[f.held].kind \notin Jumping
    /\ f.rule \in DOMAIN Listing /\ f.node # Null =>
          LET kids == h[f.node].kids
          IN  /\ IsSequence(kids)
              /\ \A k \in DOMAIN kids : kids[k].field = Listing[f.rule] =>
                    /\ kids[k].node \in h[f.node].below \ {f.node}
                    /\ PlainKids(h, kids[k].node)

\* The nodes of a frame are right for a function and a loop around it.
FrameRight(h, f, function, loop) ==
    /\ HeadRight(h, f) /\ ListRight(h, f)
    /\ \A x \in Own(f) :
          /\ f.rule \in Evaluating => NoJumps(h, x)
          /\ Tied(h, x, function, loop, IF Unsettled(f) THEN {f.node} ELSE {})
    /\ Unsettled(f) /\ f.node # Null => Rooted(h, f.node)

\* The loop around the frames from d on: the last one that is entered.
Looping(fs, d) == {i \in 1 .. d - 1 : InLoop(fs[i])}
OuterLoop(fs, d) ==
    LET loops == Looping(fs, d)
    IN  IF loops = {} THEN Null ELSE fs[CHOOSE i \in loops : \A j \in loops : j <= i].node

\* The function that a frame is in; what is not local is in none.
FunctionFor(f, function) == IF f.rule \in Local THEN function ELSE Null

\* A frame that waits for a value.
WaitsForValue(f) ==
    \/ f.rule \in Evaluating \/ f.phase = "target"
    \/ f.phase = "child" /\ StepsOf(f.rule)[f.at].rule \in Evaluating

\* Rules that are local, or parse a value, call such rules only.
NestInv ==
    /\ \A i, j \in 1 .. Len(frames) : i < j =>
          /\ frames[i].rule \in Local \cup Bodies => frames[j].rule \in Local
          /\ frames[i].rule \in Evaluating => frames[j].rule \in Evaluating
    /\ \A i \in 1 .. Len(frames) - 1 :
          frames[i].phase = "target" => frames[i + 1].rule \in Evaluating

\* The register of functions holds the one that is entered; that of loops
\* holds the innermost one, or nothing behind the end of a loop in it.
RegistersInv ==
    /\ \A i \in 1 .. Len(frames) :
          InScope(frames[i]) /\ Rules[frames[i].rule].kind \in FunctionKinds =>
              within.function = frames[i].node
    /\ within.loop \in {Null, OuterLoop(frames, Len(frames) + 1)}

FramesRight ==
    \A i \in 1 .. Len(frames) :
        FrameRight(heap, frames[i], FunctionFor(frames[i], within.function),
                   OuterLoop(frames, i))

AnswerRight ==
    answer # Null =>
      /\ Tied(heap, answer, within.function, OuterLoop(frames, Len(frames) + 1), {})
      /\ frames # <<>> =>
           /\ WaitsForValue(Top) => NoJumps(heap, answer)
           /\ \E r \in DOMAIN Rules :
                /\ CalledBy(Top, r)
                /\ r \notin MayJump => heap[answer].kind \notin Jumping
                /\ r \in Listed => PlainKids(heap, answer)

\* A break that is linked holds what the register of loops does; without a
\* loop it is dropped.
BreakRight ==
    frames # <<>> /\ Top.rule = "break" /\ Top.node # Null =>
        /\ Unlinked(Top) \/ heap[Top.node].link = within.loop
        /\ Top.phase = "done" /\ within.loop = Null => ~Calm

JumpInv ==
    fault = "none" => NestInv /\ RegistersInv /\ FramesRight /\ AnswerRight /\ BreakRight

-----------------------------------------------------------------------------
(* The last loop that is entered, *)
LEMMA OuterFacts ==
    ASSUME NEW fs, NEW d \in Nat
    PROVE  LET loops == Looping(fs, d)
           IN  /\ loops = {} => OuterLoop(fs, d) = Null
               /\ loops # {} => \E i \in loops :
                     (\A j \in loops : j <= i) /\ OuterLoop(fs, d) = fs[i].node
PROOF
<1>. DEFINE less == OpToRel(<, Nat)
<1>1. IsWellFoundedOn(less, Nat)
    BY NatLessThanWellFounded, Zenon
<1>2. \A i, j \in Nat : j < i => <<j, i>> \in less
    BY Zenon DEF OpToRel
<1>. HIDE DEF less
<1>3. PICK I : I = Looping(fs, d)
    OBVIOUS
<1>4. OuterLoop(fs, d) = IF I = {} THEN Null ELSE fs[CHOOSE i \in I : \A j \in I : j <= i].node
    BY <1>3 DEF OuterLoop
<1>5. I \subseteq 1 .. d - 1
    BY <1>3 DEF Looping
<1>6. ASSUME I # {}
      PROVE  \E i \in I : (\A j \in I : j <= i) /\ OuterLoop(fs, d) = fs[i].node
  <2>1. PICK T : T = {d - i : i \in I}
      OBVIOUS
  <2>9. \A i \in I : d - i \in Nat
      BY <1>5
  <2>2. T \subseteq Nat /\ T # {}
      BY <1>6, <2>1, <2>9
  <2>3. PICK t \in T : \A u \in T : <<u, t>> \notin less
      BY <1>1, <2>2, WFMin
  <2>10. \A u \in T : ~(u < t)
      BY <1>2, <2>2, <2>3
  <2>4. \A u \in T : t <= u
      BY <2>2, <2>10
  <2>5. PICK i \in I : t = d - i
      BY <2>1
  <2>6. \A j \in I : d - j \in T
      BY <2>1
  <2>7. \A j \in I : j <= i
      BY <1>5, <2>4, <2>5, <2>6
  <2>8. (CHOOSE k \in I : \A j \in I : j <= k) \in I
        /\ \A j \in I : j <= (CHOOSE k \in I : \A m \in I : m <= k)
      BY <2>7
  <2>. QED
      BY <1>4, <1>6, <2>8
<1>. QED
    BY <1>3, <1>4, <1>6

LEMMA OuterIs ==
    ASSUME NEW fs, NEW d \in Nat, NEW i \in Looping(fs, d), \A j \in Looping(fs, d) : j <= i
    PROVE  OuterLoop(fs, d) = fs[i].node
PROOF
<1>1. PICK m \in Looping(fs, d) :
          (\A j \in Looping(fs, d) : j <= m) /\ OuterLoop(fs, d) = fs[m].node
    BY OuterFacts
<1>2. m <= i /\ i <= m /\ m \in Int /\ i \in Int
    BY <1>1 DEF Looping
<1>. QED
    BY <1>1, <1>2

(* does not depend on what else the frames do, *)
LEMMA OuterSame ==
    ASSUME NEW fs, NEW gs, NEW d \in Nat,
           \A i \in 1 .. d - 1 : /\ InLoop(gs[i]) <=> InLoop(fs[i])
                                 /\ InLoop(fs[i]) => gs[i].node = fs[i].node
    PROVE  OuterLoop(gs, d) = OuterLoop(fs, d)
PROOF
<1>1. Looping(gs, d) = Looping(fs, d)
    BY DEF Looping
<1>2. CASE Looping(fs, d) = {}
    BY <1>1, <1>2, OuterFacts
<1>3. CASE Looping(fs, d) # {}
  <2>1. PICK i \in Looping(fs, d) :
            (\A j \in Looping(fs, d) : j <= i) /\ OuterLoop(fs, d) = fs[i].node
      BY <1>3, OuterFacts
  <2>2. OuterLoop(gs, d) = gs[i].node
      BY <1>1, <2>1, OuterIs
  <2>3. i \in 1 .. d - 1 /\ InLoop(fs[i])
      BY DEF Looping
  <2>. QED
      BY <2>1, <2>2, <2>3
<1>. QED
    BY <1>2, <1>3

(* and is the one of the next frame when that one is in its loop. *)
LEMMA OuterNext ==
    ASSUME NEW fs, NEW d \in Nat \ {0}
    PROVE  OuterLoop(fs, d + 1) = IF InLoop(fs[d]) THEN fs[d].node ELSE OuterLoop(fs, d)
PROOF
<1>1. \A j \in 1 .. d + 1 - 1 : j \in 1 .. d - 1 \/ j = d
    OBVIOUS
<1>2. 1 .. d - 1 \subseteq 1 .. d + 1 - 1 /\ d \in 1 .. d + 1 - 1 /\ d + 1 \in Nat /\ d \in Nat
    OBVIOUS
<1>3. CASE InLoop(fs[d])
  <2>1. d \in Looping(fs, d + 1) /\ \A j \in Looping(fs, d + 1) : j <= d
      BY <1>2, <1>3 DEF Looping
  <2>. QED
      BY <1>2, <1>3, <2>1, OuterIs
<1>4. CASE ~InLoop(fs[d])
  <2>1. Looping(fs, d + 1) = Looping(fs, d)
      BY <1>1, <1>2, <1>4 DEF Looping
  <2>2. CASE Looping(fs, d) = {}
      BY <1>2, <1>4, <2>1, <2>2, OuterFacts
  <2>3. CASE Looping(fs, d) # {}
    <3>1. PICK i \in Looping(fs, d) :
              (\A j \in Looping(fs, d) : j <= i) /\ OuterLoop(fs, d) = fs[i].node
        BY <1>2, <2>3, OuterFacts
    <3>. QED
        BY <1>2, <1>4, <2>1, <3>1, OuterIs
  <2>. QED
      BY <2>2, <2>3
<1>. QED
    BY <1>3, <1>4

-----------------------------------------------------------------------------
\* Frame f takes the place of t, in its rule, its scope and its loop; the
\* frames gs stand where fs do, with one more that has entered nothing.
Abides(f, t) ==
    /\ f.rule = t.rule
    /\ InScope(f) <=> InScope(t)
    /\ InLoop(f) <=> InLoop(t)
    /\ InScope(t) \/ InLoop(t) => f.node = t.node

Stands(fs, gs) ==
    /\ Len(fs) \in Nat \ {0} /\ Len(gs) \in {Len(fs), Len(fs) + 1}
    /\ \A i \in 1 .. Len(fs) : Abides(gs[i], fs[i])
    /\ Len(gs) = Len(fs) + 1 => ~InScope(gs[Len(gs)]) /\ ~InLoop(gs[Len(gs)])

(* The loops around the frames stay, *)
LEMMA StandsOuter ==
    ASSUME NEW fs, NEW gs, Stands(fs, gs)
    PROVE  /\ \A i \in 1 .. Len(fs) + 1 : OuterLoop(gs, i) = OuterLoop(fs, i)
           /\ OuterLoop(gs, Len(gs) + 1) = OuterLoop(fs, Len(fs) + 1)
PROOF
<1>. DEFINE n == Len(fs)
<1>1. n \in Nat \ {0} /\ Len(gs) \in {n, n + 1} /\ \A i \in 1 .. n : Abides(gs[i], fs[i])
    BY DEF Stands
<1>2. ASSUME NEW i \in 1 .. n + 1
      PROVE  OuterLoop(gs, i) = OuterLoop(fs, i)
  <2>1. i \in Nat /\ \A j \in 1 .. i - 1 : j \in 1 .. n
      BY <1>1
  <2>. QED
      BY <1>1, <2>1, OuterSame DEF Abides
<1>3. ASSUME Len(gs) = n + 1
      PROVE  OuterLoop(gs, n + 1 + 1) = OuterLoop(gs, n + 1)
  <2>1. n + 1 \in Nat \ {0} /\ ~InLoop(gs[n + 1])
      BY <1>1, <1>3 DEF Stands
  <2>. QED
      BY <2>1, OuterNext
<1>. QED
    BY <1>1, <1>2, <1>3

(* and so do the registers, when no rule is called that does not belong    *)
(* there. *)
LEMMA StandsKept ==
    ASSUME NestInv, RegistersInv, CallsInv', Stands(frames, frames'),
           within'.function = within.function, within'.loop = within.loop,
           \A i \in 1 .. Len(frames) : frames[i].rule \in DOMAIN Rules,
           \A i \in 1 .. Len(frames) - 1 : frames'[i].phase = frames[i].phase,
           Len(frames') = Len(frames) + 1 /\ frames'[Len(frames)].phase = "target" =>
               frames'[Len(frames) + 1].rule \in Evaluating
    PROVE  NestInv' /\ RegistersInv'
PROOF
<1>. DEFINE n == Len(frames)
<1>1. /\ n \in Nat \ {0} /\ Len(frames') \in {n, n + 1}
      /\ \A i \in 1 .. n : Abides(frames'[i], frames[i])
    BY DEF Stands
<1>2. \A i \in 1 .. n : frames'[i].rule = frames[i].rule
    BY <1>1 DEF Abides
<1>3. \A i \in 1 .. Len(frames') : i \in 1 .. n \/ (i = n + 1 /\ Len(frames') = n + 1)
    BY <1>1
<1>4. ASSUME NEW i \in 1 .. Len(frames'), NEW j \in 1 .. Len(frames'), i < j
      PROVE  /\ frames'[i].rule \in Local \cup Bodies => frames'[j].rule \in Local
             /\ frames'[i].rule \in Evaluating => frames'[j].rule \in Evaluating
  <2>1. CASE j \in 1 .. n
    <3>1. i \in 1 .. n
        BY <1>1, <1>4, <2>1
    <3>. QED
        BY <1>2, <1>4, <2>1, <3>1 DEF NestInv
  <2>2. CASE j = n + 1 /\ Len(frames') = n + 1
    <3>1. i \in 1 .. n /\ n \in 1 .. n /\ (i = n \/ i < n) /\ n \in 1 .. Len(frames') - 1
        BY <1>1, <1>4, <2>2
    <3>2. CalledBy(frames'[n], frames'[n + 1].rule)
        BY <3>1 DEF CallsInv
    <3>3. frames'[n + 1].rule \in Calls(frames[n].rule) /\ JumpShape(frames[n].rule)
        BY <1>2, <3>1, <3>2, JumpsFit DEF CalledBy
    <3>4. /\ frames[n].rule \in Local \cup Bodies => frames'[n + 1].rule \in Local
          /\ frames[n].rule \in Evaluating => frames'[n + 1].rule \in Evaluating
        BY <3>3 DEF JumpShape
    <3>5. /\ frames[i].rule \in Local \cup Bodies => frames[n].rule \in Local \cup Bodies
          /\ frames[i].rule \in Evaluating => frames[n].rule \in Evaluating
        BY <3>1 DEF NestInv
    <3>. QED
        BY <1>2, <2>2, <3>1, <3>4, <3>5
  <2>. QED
      BY <1>3, <2>1, <2>2
<1>5. ASSUME NEW i \in 1 .. Len(frames') - 1, frames'[i].phase = "target"
      PROVE  frames'[i + 1].rule \in Evaluating
  <2>1. CASE i \in 1 .. n - 1
    <3>1. i + 1 \in 1 .. n
        BY <1>1, <2>1
    <3>. QED
        BY <1>2, <1>5, <2>1, <3>1 DEF NestInv
  <2>2. CASE i = n /\ Len(frames') = n + 1
      BY <1>5, <2>2
  <2>. QED
      BY <1>1, <2>1, <2>2
<1>6. NestInv'
    BY <1>4, <1>5 DEF NestInv
<1>7. ASSUME NEW i \in 1 .. Len(frames'), InScope(frames'[i]),
             Rules[frames'[i].rule].kind \in FunctionKinds
      PROVE  within'.function = frames'[i].node
  <2>1. i \in 1 .. n
    <3>1. ~(i = n + 1 /\ Len(frames') = n + 1)
        BY <1>7 DEF Stands
    <3>. QED
        BY <1>3, <3>1
  <2>2. InScope(frames[i]) /\ frames'[i].node = frames[i].node
      BY <1>1, <1>7, <2>1 DEF Abides
  <2>. QED
      BY <1>2, <1>7, <2>1, <2>2 DEF RegistersInv
<1>8. within'.loop \in {Null, OuterLoop(frames', Len(frames') + 1)}
    BY StandsOuter DEF RegistersInv
<1>. QED
    BY <1>6, <1>7, <1>8 DEF RegistersInv

-----------------------------------------------------------------------------
\* A root with its tree; a tree that is the same for the jumps in it; node
\* with what is below kid.
Whole(h, x) ==
    /\ x \in DOMAIN h /\ x \in h[x].below
    /\ \A m \in h[x].below : m \in DOMAIN h /\ m \in h[m].below /\ h[m].below \subseteq h[x].below

Intact(h, g, x) ==
    /\ x \in h[x].below /\ g[x].below = h[x].below
    /\ \A n \in h[x].below :
          /\ g[n].kind = h[n].kind /\ g[n].below = h[n].below /\ g[n].kids = h[n].kids
          /\ h[n].kind \in Jumping => g[n].link = h[n].link

Joined(h, g, node, kid) ==
    /\ DOMAIN g = DOMAIN h /\ \A n \in DOMAIN h \ {node} : g[n] = h[n]
    /\ g[node].kind = h[node].kind /\ g[node].link = h[node].link
    /\ g[node].below \in {h[node].below, h[node].below \cup h[kid].below}

LEMMA ForestWhole ==
    ASSUME NEW h, NEW R, Forest(h, R), NEW x \in R
    PROVE  Whole(h, x)
PROOF
    BY DEF Forest, Whole

(* What holds in a tree holds where it is the same. *)
LEMMA IntactFits ==
    ASSUME NEW h, NEW g, NEW x, Intact(h, g, x), NEW kinds, NEW outer,
           NEW n \in h[x].below, h[n].kind \in Jumping, LinkFits(h, x, kinds, n, outer)
    PROVE  LinkFits(g, x, kinds, n, outer)
PROOF
<1>1. Enclosing(g, x, kinds, n) = Enclosing(h, x, kinds, n)
    BY DEF Intact, Enclosing
<1>2. g[n].link = h[n].link
    BY DEF Intact
<1>3. \A p \in Enclosing(h, x, kinds, n) : g[p].below = h[p].below
    BY DEF Intact, Enclosing
<1>. QED
    BY <1>1, <1>2, <1>3 DEF LinkFits

LEMMA IntactTied ==
    ASSUME NEW h, NEW g, NEW x, Intact(h, g, x), NEW function, NEW loop, NEW out,
           Tied(h, x, function, loop, out)
    PROVE  Tied(g, x, function, loop, out)
PROOF
<1>1. SUFFICES ASSUME NEW n \in h[x].below \ out
               PROVE  /\ h[n].kind \in {"Return", "Assert"} =>
                            LinkFits(g, x, FunctionKinds, n, function)
                      /\ h[n].kind = "Break" => LinkFits(g, x, LoopKinds, n, loop)
    BY DEF Tied, Intact
<1>2. /\ h[n].kind \in {"Return", "Assert"} => LinkFits(h, x, FunctionKinds, n, function)
      /\ h[n].kind = "Break" => LinkFits(h, x, LoopKinds, n, loop)
    BY DEF Tied
<1>. QED
    BY <1>2, IntactFits DEF Jumping

LEMMA IntactKids ==
    ASSUME NEW h, NEW g, NEW x, Intact(h, g, x), NEW y \in h[x].below,
           h[y].below \subseteq h[x].below, PlainKids(h, y)
    PROVE  PlainKids(g, y)
PROOF
    BY DEF Intact, PlainKids

LEMMA IntactRight ==
    ASSUME NEW h, NEW g, NEW f, NEW function, NEW loop, FrameRight(h, f, function, loop),
           \A x \in Own(f) : Whole(h, x) /\ Intact(h, g, x)
    PROVE  FrameRight(g, f, function, loop)
PROOF
<1>1. f.node # Null => f.node \in Own(f) /\ Whole(h, f.node) /\ Intact(h, g, f.node)
                       /\ f.node \in h[f.node].below
    BY DEF Own, Intact
<1>2. f.held # Null => f.held \in Own(f) /\ g[f.held].kind = h[f.held].kind
    BY DEF Own, Intact
<1>3. f.node # Null => g[f.node].kind = h[f.node].kind /\ g[f.node].kids = h[f.node].kids
                       /\ g[f.node].below = h[f.node].below
    BY <1>1 DEF Intact
<1>4. HeadRight(g, f)
    BY <1>3 DEF HeadRight, FrameRight
<1>5. ListRight(g, f)
  <2>1. f.rule \in Listed /\ f.node # Null => PlainKids(g, f.node)
      BY <1>1, <1>3, IntactKids DEF FrameRight, ListRight
  <2>2. f.rule \in Listed /\ f.held # Null => g[f.held].kind \notin Jumping
      BY <1>2 DEF FrameRight, ListRight
  <2>3. ASSUME f.rule \in DOMAIN Listing, f.node # Null,
               NEW k \in DOMAIN h[f.node].kids, h[f.node].kids[k].field = Listing[f.rule]
        PROVE  PlainKids(g, h[f.node].kids[k].node)
    <3>1. /\ h[f.node].kids[k].node \in h[f.node].below
          /\ PlainKids(h, h[f.node].kids[k].node)
        BY <2>3 DEF FrameRight, ListRight
    <3>2. h[h[f.node].kids[k].node].below \subseteq h[f.node].below
        BY <1>1, <2>3, <3>1 DEF Whole
    <3>. QED
        BY <1>1, <2>3, <3>1, <3>2, IntactKids
  <2>4. f.rule \in DOMAIN Listing /\ f.node # Null =>
            /\ IsSequence(g[f.node].kids)
            /\ \A k \in DOMAIN g[f.node].kids : g[f.node].kids[k].field = Listing[f.rule] =>
                  /\ g[f.node].kids[k].node \in g[f.node].below \ {f.node}
                  /\ PlainKids(g, g[f.node].kids[k].node)
      BY <1>3, <2>3 DEF FrameRight, ListRight
  <2>. QED
      BY <2>1, <2>2, <2>4 DEF ListRight
<1>6. ASSUME NEW x \in Own(f)
      PROVE  /\ f.rule \in Evaluating => NoJumps(g, x)
             /\ Tied(g, x, function, loop, IF Unsettled(f) THEN {f.node} ELSE {})
  <2>1. f.rule \in Evaluating => NoJumps(g, x)
      BY DEF FrameRight, NoJumps, Intact
  <2>2. Tied(g, x, function, loop, IF Unsettled(f) THEN {f.node} ELSE {})
      BY IntactTied DEF FrameRight
  <2>. QED
      BY <2>1, <2>2
<1>7. Unsettled(f) /\ f.node # Null => Rooted(g, f.node)
    BY <1>1 DEF FrameRight, Rooted, Intact
<1>. QED
    BY <1>4, <1>5, <1>6, <1>7 DEF FrameRight

(* A tree below another node: its jumps see that node around them. *)
LEMMA JoinedFits ==
    ASSUME NEW h, NEW g, NEW node, NEW kid, Joined(h, g, node, kid),
           Whole(h, node), Whole(h, kid), h[node].below \cap h[kid].below = {},
           NEW kinds, NEW outer, NEW n \in g[node].below,
           n \in h[node].below => LinkFits(h, node, kinds, n, outer),
           n \in h[kid].below =>
               LinkFits(h, kid, kinds, n, IF h[node].kind \in kinds THEN node ELSE outer)
    PROVE  LinkFits(g, node, kinds, n, outer)
PROOF
<1>1. /\ node \in DOMAIN h /\ node \in h[node].below
      /\ \A m \in h[node].below : m \in DOMAIN h /\ h[m].below \subseteq h[node].below
      /\ \A m \in h[kid].below : m \in DOMAIN h /\ h[m].below \subseteq h[kid].below /\ m # node
    BY DEF Whole
<1>2. /\ \A m \in h[node].below \cup h[kid].below :
            g[m].kind = h[m].kind /\ g[m].link = h[m].link /\ (m # node => g[m].below = h[m].below)
      /\ g[node].below \subseteq h[node].below \cup h[kid].below
      /\ h[node].below \subseteq g[node].below
    BY <1>1 DEF Joined
<1>3. CASE n \in h[node].below
  <2>1. n \notin h[kid].below
      BY <1>3
  <2>2. \A o \in h[node].below : n \in g[o].below <=> n \in h[o].below
      BY <1>2, <1>3, <2>1 DEF Joined
  <2>3. \A o \in h[kid].below : n \notin g[o].below
      BY <1>1, <1>2, <2>1
  <2>4. Enclosing(g, node, kinds, n) = Enclosing(h, node, kinds, n)
      BY <1>2, <2>2, <2>3 DEF Enclosing
  <2>5. \A p \in Enclosing(h, node, kinds, n) : p \in h[node].below /\ h[p].below \subseteq g[p].below
      BY <1>2 DEF Enclosing
  <2>6. \A p \in Enclosing(h, node, kinds, n) : \A q \in h[node].below :
            p \in g[q].below => p \in h[q].below
    <3>1. \A p \in h[node].below : p \notin h[kid].below
        OBVIOUS
    <3>. QED
        BY <1>2, <2>5, <3>1 DEF Joined
  <2>7. g[n].link = h[n].link
      BY <1>2, <1>3
  <2>. QED
      BY <1>3, <2>4, <2>5, <2>6, <2>7 DEF LinkFits
<1>4. CASE n \in h[kid].below
  <2>1. n \notin h[node].below /\ n # node /\ g[node].below = h[node].below \cup h[kid].below
      BY <1>1, <1>2, <1>4 DEF Joined
  <2>2. \A o \in h[kid].below : g[o].below = h[o].below /\ g[o].kind = h[o].kind
      BY <1>1, <1>2
  <2>3. \A o \in h[node].below \ {node} : n \notin g[o].below
      BY <1>1, <1>2, <2>1
  <2>4. Enclosing(g, node, kinds, n) =
            Enclosing(h, kid, kinds, n) \cup (IF h[node].kind \in kinds THEN {node} ELSE {})
      BY <1>1, <1>2, <1>4, <2>1, <2>2, <2>3 DEF Enclosing
  <2>5. g[n].link = h[n].link
      BY <1>2, <1>4
  <2>6. \A p \in Enclosing(h, kid, kinds, n) :
            /\ p \in h[kid].below /\ g[p].below = h[p].below /\ p \in g[node].below
            /\ node \notin g[p].below
      BY <1>1, <2>1, <2>2 DEF Enclosing
  <2>7. LinkFits(h, kid, kinds, n, IF h[node].kind \in kinds THEN node ELSE outer)
      BY <1>4
  <2>8. CASE Enclosing(h, kid, kinds, n) = {}
    <3>1. h[n].link = IF h[node].kind \in kinds THEN node ELSE outer
        BY <2>7, <2>8 DEF LinkFits
    <3>2. h[node].kind \in kinds => Enclosing(g, node, kinds, n) = {node} /\ node \in g[node].below
        BY <1>1, <1>2, <2>4, <2>8
    <3>. QED
        BY <2>4, <2>5, <2>8, <3>1, <3>2 DEF LinkFits
  <2>9. CASE Enclosing(h, kid, kinds, n) # {}
    <3>1. /\ h[n].link \in Enclosing(h, kid, kinds, n)
          /\ \A p \in Enclosing(h, kid, kinds, n) :
                h[n].link \in h[p].below /\ (p \in h[h[n].link].below => p = h[n].link)
        BY <2>7, <2>9 DEF LinkFits
    <3>2. g[n].link \in Enclosing(g, node, kinds, n)
        BY <2>4, <2>5, <3>1
    <3>3. ASSUME NEW p \in Enclosing(g, node, kinds, n)
          PROVE  g[n].link \in g[p].below /\ (p \in g[g[n].link].below => p = g[n].link)
      <4>1. CASE p \in Enclosing(h, kid, kinds, n)
          BY <2>5, <2>6, <3>1, <4>1
      <4>2. CASE p = node
          BY <2>5, <2>6, <3>1, <4>2
      <4>. QED
          BY <2>4, <4>1, <4>2
    <3>. QED
        BY <3>2, <3>3 DEF LinkFits
  <2>. QED
      BY <2>8, <2>9
<1>. QED
    BY <1>2, <1>3, <1>4

LEMMA JoinedTied ==
    ASSUME NEW h, NEW g, NEW node, NEW kid, Joined(h, g, node, kid),
           Whole(h, node), Whole(h, kid), h[node].below \cap h[kid].below = {},
           NEW function, NEW loop, NEW out, out \subseteq {node},
           Tied(h, node, function, loop, out),
           \/ NoJumps(h, kid)
           \/ Tied(h, kid, IF h[node].kind \in FunctionKinds THEN node ELSE function,
                   IF h[node].kind \in LoopKinds THEN node ELSE loop, {})
    PROVE  Tied(g, node, function, loop, out)
PROOF
<1>1. SUFFICES ASSUME NEW n \in g[node].below \ out
               PROVE  /\ g[n].kind \in {"Return", "Assert"} =>
                            LinkFits(g, node, FunctionKinds, n, function)
                      /\ g[n].kind = "Break" => LinkFits(g, node, LoopKinds, n, loop)
    BY DEF Tied
<1>2. n \in h[node].below \cup h[kid].below /\ n \in DOMAIN h /\ g[n].kind = h[n].kind
    BY DEF Joined, Whole
<1>3. n \in h[node].below =>
          /\ h[n].kind \in {"Return", "Assert"} => LinkFits(h, node, FunctionKinds, n, function)
          /\ h[n].kind = "Break" => LinkFits(h, node, LoopKinds, n, loop)
    BY DEF Tied
<1>4. n \in h[kid].below =>
          /\ h[n].kind \in {"Return", "Assert"} =>
                LinkFits(h, kid, FunctionKinds, n,
                         IF h[node].kind \in FunctionKinds THEN node ELSE function)
          /\ h[n].kind = "Break" =>
                LinkFits(h, kid, LoopKinds, n, IF h[node].kind \in LoopKinds THEN node ELSE loop)
    BY DEF Tied, NoJumps, Jumping
<1>5. g[n].kind \in {"Return", "Assert"} => LinkFits(g, node, FunctionKinds, n, function)
    BY <1>2, <1>3, <1>4, JoinedFits
<1>6. g[n].kind = "Break" => LinkFits(g, node, LoopKinds, n, loop)
    BY <1>2, <1>3, <1>4, JoinedFits
<1>. QED
    BY <1>5, <1>6

LEMMA JoinedRest ==
    ASSUME NEW h, NEW g, NEW node, NEW kid, Joined(h, g, node, kid),
           Whole(h, node), Whole(h, kid), h[node].below \cap h[kid].below = {}
    PROVE  /\ Rooted(h, node) => Rooted(g, node)
           /\ NoJumps(h, node) /\ NoJumps(h, kid) => NoJumps(g, node)
           /\ Whole(g, node)
PROOF
<1>1. /\ node \in DOMAIN h /\ node \in h[node].below
      /\ \A m \in h[node].below : m \in DOMAIN h /\ h[m].below \subseteq h[node].below /\ m \in h[m].below
      /\ \A m \in h[kid].below : m \in DOMAIN h /\ h[m].below \subseteq h[kid].below /\ m # node
                                 /\ m \in h[m].below
    BY DEF Whole
<1>2. /\ \A m \in h[node].below \cup h[kid].below :
            g[m].kind = h[m].kind /\ (m # node => g[m].below = h[m].below)
      /\ g[node].below \subseteq h[node].below \cup h[kid].below
      /\ h[node].below \subseteq g[node].below
    BY <1>1 DEF Joined
<1>3. Rooted(h, node) => Rooted(g, node)
    BY <1>1, <1>2 DEF Rooted
<1>4. NoJumps(h, node) /\ NoJumps(h, kid) => NoJumps(g, node)
    BY <1>2 DEF NoJumps
<1>5. Whole(g, node)
  <2>1. \A m \in g[node].below : m \in DOMAIN g /\ m \in g[m].below
      BY <1>1, <1>2 DEF Joined
  <2>2. ASSUME NEW m \in g[node].below, m # node PROVE g[m].below \subseteq g[node].below
    <3>1. CASE m \in h[node].below
        BY <1>1, <1>2, <2>2, <3>1
    <3>2. CASE m \in h[kid].below
      <4>1. g[node].below = h[node].below \cup h[kid].below
          BY <2>2, <3>2 DEF Joined
      <4>. QED
          BY <1>1, <1>2, <2>2, <3>2, <4>1
    <3>. QED
        BY <1>2, <3>1, <3>2
  <2>. QED
      BY <1>1, <1>2, <2>1, <2>2 DEF Whole, Joined
<1>. QED
    BY <1>3, <1>4, <1>5

(* What the operations on nodes do. *)
LEMMA AttachJoined ==
    ASSUME NEW h, NEW node \in DOMAIN h, IsNode(h[node]), NEW kid, kid # Null, NEW field
    PROVE  LET g == Attach(h, node, field, kid)
           IN  /\ Joined(h, g, node, kid)
               /\ g[node].kids = Append(h[node].kids, [field |-> field, node |-> kid])
               /\ IsTraversed(h[node].kind, field) =>
                     g[node].below = h[node].below \cup h[kid].below
               /\ IsNode(g[node])
PROOF
<1>. DEFINE g == Attach(h, node, field, kid)
            more == IF IsTraversed(h[node].kind, field)
                    THEN h[node].below \cup h[kid].below ELSE h[node].below
            e == [h[node] EXCEPT !.kids = Append(@, [field |-> field, node |-> kid]),
                                 !.below = IF IsTraversed(h[node].kind, field)
                                           THEN @ \cup h[kid].below ELSE @]
<1>1. g = [h EXCEPT ![node] = e]
    BY DEF Attach
<1>2. /\ IsNode(e) /\ e.kind = h[node].kind /\ e.below = more /\ e.link = h[node].link
      /\ e.kids = Append(h[node].kids, [field |-> field, node |-> kid])
    BY DEF IsNode
<1>. HIDE DEF e
<1>3. DOMAIN g = DOMAIN h /\ g[node] = e /\ \A n \in DOMAIN h \ {node} : g[n] = h[n]
    BY <1>1
<1>. HIDE DEF g
<1>4. Joined(h, g, node, kid)
    BY <1>2, <1>3 DEF Joined
<1>. QED
    BY <1>2, <1>3, <1>4 DEF g

(* A new node alone. *)
LEMMA AloneTied ==
    ASSUME NEW h, NEW id, h[id].below = {id}, NEW function, NEW loop
    PROVE  /\ Rooted(h, id) /\ Tied(h, id, function, loop, {id})
           /\ h[id].kind \notin Jumping => NoJumps(h, id) /\ Tied(h, id, function, loop, {})
PROOF
    BY DEF Rooted, Tied, NoJumps, Jumping

LEMMA NoJumpsTied ==
    ASSUME NEW h, NEW x, NoJumps(h, x), NEW function, NEW loop, NEW out
    PROVE  Tied(h, x, function, loop, out)
PROOF
    BY DEF Tied, NoJumps, Jumping

-----------------------------------------------------------------------------
\* What a step of a rule finds, the function and the loop around its frame,
\* and the nodes that the frame owns or is given.
Linked == NestInv /\ RegistersInv /\ FramesRight /\ AnswerRight /\ BreakRight
Apt == ParserInv /\ TreeInv /\ CallsInv /\ Running /\ Linked
Here == FunctionFor(Top, within.function)
Around == OuterLoop(frames, Len(frames))
Roots == Own(Top) \cup ({answer} \ {Null})
Mine == UNION {heap[x].below : x \in Roots}

LEMMA ScopeForm ==
    ASSUME NEW f, Fine(f)
    PROVE  /\ f.rule \in DOMAIN Rules /\ RuleShape(f.rule) /\ JumpShape(f.rule)
           /\ InScope(f) => Rules[f.rule].form = "construct"
           /\ InLoop(f) => Rules[f.rule].form = "construct" /\ Rules[f.rule].kind \in LoopKinds
           /\ Unlinked(f) => f.rule \in Jumpers /\ Rules[f.rule].form = "construct"
PROOF
<1>1. f.rule \in DOMAIN Rules /\ RuleShape(f.rule) /\ JumpShape(f.rule)
    BY RulesAssumption, JumpsFit DEF Fine
<1>2. InStep(f) => Rules[f.rule].form \in Stepping
    BY DEF Fine, InStep
<1>3. ASSUME InStep(f)
      PROVE  \A i \in DOMAIN StepsOf(f.rule) : StepShape(f.rule, i) /\ JumpStep(f.rule, i)
    BY <1>1, <1>2, <1>3 DEF RuleShape, JumpShape, StepsOf
<1>4. ASSUME InScope(f) PROVE Rules[f.rule].form = "construct"
  <2>1. PICK j \in DOMAIN StepsOf(f.rule) : StepsOf(f.rule)[j].do = "enter"
      BY <1>4 DEF InScope, Between
  <2>. QED
      BY <1>3, <1>4, <2>1 DEF InScope, StepShape
<1>5. ASSUME InLoop(f)
      PROVE  Rules[f.rule].form = "construct" /\ Rules[f.rule].kind \in LoopKinds
  <2>1. PICK j \in DOMAIN StepsOf(f.rule) : StepsOf(f.rule)[j].do = "loop"
      BY <1>5 DEF InLoop, Between
  <2>. QED
      BY <1>3, <1>5, <2>1 DEF InLoop, JumpStep
<1>6. ASSUME Unlinked(f) PROVE f.rule \in Jumpers /\ Rules[f.rule].form = "construct"
  <2>1. PICK j \in DOMAIN StepsOf(f.rule) : StepsOf(f.rule)[j].do \in LinkSteps
      BY <1>6 DEF Unlinked, LinkAhead
  <2>2. f.rule \in Jumpers
      BY <1>3, <1>6, <2>1 DEF Unlinked, JumpStep
  <2>. QED
      BY <1>1, <2>2 DEF JumpShape
<1>. QED
    BY <1>1, <1>4, <1>5, <1>6

LEMMA AptFacts ==
    ASSUME Apt
    PROVE  /\ frames # <<>> /\ Len(frames) \in Nat \ {0} /\ Top = frames[Len(frames)]
           /\ Top = Last(frames) /\ IsSequence(frames)
           /\ Fine(Top) /\ Top.rule \in DOMAIN Rules /\ RuleShape(Top.rule)
           /\ JumpShape(Top.rule)
           /\ Top.phase \notin Waiting => answer = Null
           /\ Top.phase \in Bare => Top.node = Null
           /\ FrameRight(heap, Top, Here, Around)
           /\ \A i \in 1 .. Len(frames) : Fine(frames[i]) /\ frames[i].rule \in DOMAIN Rules
PROOF
<1>1. /\ frames # <<>> /\ Len(frames) \in Nat \ {0} /\ Top = frames[Len(frames)]
      /\ IsSequence(frames)
      /\ Fine(Top) /\ Top.rule \in DOMAIN Rules /\ RuleShape(Top.rule)
      /\ Top.phase \notin Waiting => answer = Null
    BY AtTop DEF Apt
<1>2. Len(frames) \in 1 .. Len(frames) /\ JumpShape(Top.rule)
    BY <1>1, JumpsFit
<1>3. FrameRight(heap, Top, Here, Around)
    BY <1>1, <1>2 DEF Apt, Linked, FramesRight, Here, Around
<1>4. \A i \in 1 .. Len(frames) : Fine(frames[i]) /\ frames[i].rule \in DOMAIN Rules
    BY DEF Apt, ParserInv, FramesInv, Fine
<1>5. Top.phase \in Bare => Top.node = Null
    BY <1>1 DEF Fine
<1>6. Top = Last(frames)
    BY DEF Top
<1>. QED
    BY <1>1, <1>2, <1>3, <1>4, <1>5, <1>6

LEMMA AptTree ==
    ASSUME Apt
    PROVE  /\ \A x \in Rest(frames) \cup Roots :
                 x \in DOMAIN heap /\ x # Null /\ Whole(heap, x) /\ heap[x].below \subseteq DOMAIN heap
           /\ \A x, y \in Rest(frames) \cup Roots :
                 x # y => heap[x].below \cap heap[y].below = {}
           /\ answer \notin Rest(frames) \cup Own(Top)
           /\ Own(Top) \cap Rest(frames) = {} /\ (Top.node # Null => Top.node # Top.held)
           /\ \A n \in DOMAIN heap : IsNode(heap[n]) /\ n \in heap[n].below
           /\ \A k \in 1 .. 3 : created + k \notin DOMAIN heap /\ created + k # Null
           /\ KindFits(heap, Top) /\ Null \notin DOMAIN heap
PROOF
<1>. DEFINE R == Rest(frames) \cup Own(Top) \cup ({answer} \ {Null})
<1>1. /\ Forest(heap, R) /\ OwnApart(Top, Rest(frames)) /\ Null \notin Rest(frames)
      /\ answer \notin Rest(frames) \cup Own(Top) /\ R \subseteq DOMAIN heap
      /\ \A k \in 1 .. 3 : created + k \notin DOMAIN heap /\ created + k # Null
      /\ KindFits(heap, Top) /\ Null \notin DOMAIN heap
    BY TopTree DEF Apt
<1>2. Rest(frames) \cup Roots = R
    BY DEF Roots
<1>3. \A x \in R : Whole(heap, x)
    BY <1>1, ForestWhole
<1>4. \A x \in R : heap[x].below \subseteq DOMAIN heap
    BY <1>1 DEF Forest
<1>5. \A x, y \in R : x # y => heap[x].below \cap heap[y].below = {}
    BY <1>1 DEF Forest
<1>6. \A n \in DOMAIN heap : IsNode(heap[n]) /\ n \in heap[n].below
    BY <1>1 DEF Forest
<1>. HIDE DEF R
<1>. QED
    BY <1>1, <1>2, <1>3, <1>4, <1>5, <1>6 DEF OwnApart

(* Outside of its body a function does not matter to a frame. *)
LEMMA FunctionHere ==
    ASSUME Apt, ~(InScope(Top) /\ Rule.kind \in FunctionKinds)
    PROVE  Here = within.function
PROOF
<1>1. CASE Top.rule \in Local
    BY <1>1 DEF Here, FunctionFor
<1>2. CASE Top.rule \notin Local
  <2>1. SUFFICES ASSUME within.function # Null PROVE FALSE
      BY <1>2 DEF Here, FunctionFor
  <2>2. PICK i \in 1 .. Len(frames) : InScope(frames[i])
                                      /\ Rules[frames[i].rule].kind \in {"Function", "Method"}
      BY <2>1 DEF Apt, ParserInv, WithinInv, EnteredAs
  <2>3. /\ Fine(frames[i]) /\ Len(frames) \in Nat \ {0} /\ Top = frames[Len(frames)]
      BY AptFacts
  <2>4. Rules[frames[i].rule].form = "construct" /\ JumpShape(frames[i].rule)
      BY <2>2, <2>3, ScopeForm
  <2>5. frames[i].rule \in Bodies
      BY <2>2, <2>4 DEF JumpShape, Making, FunctionKinds
  <2>6. i # Len(frames)
      BY <2>2, <2>3 DEF Rule, FunctionKinds
  <2>7. i < Len(frames) /\ Len(frames) \in 1 .. Len(frames)
      BY <2>2, <2>3, <2>6
  <2>8. Top.rule \in Local
      BY <2>3, <2>5, <2>7 DEF Apt, Linked, NestInv
  <2>. QED
      BY <1>2, <2>8
<1>. QED
    BY <1>1, <1>2

(* What a frame is given fits where the frame is. *)
LEMMA AnswerFits ==
    ASSUME Apt, answer # Null
    PROVE  /\ WaitsForValue(Top) => NoJumps(heap, answer)
           /\ \E r \in DOMAIN Rules :
                /\ CalledBy(Top, r)
                /\ r \notin MayJump => heap[answer].kind \notin Jumping
                /\ r \in Listed => PlainKids(heap, answer)
           /\ Tied(heap, answer, within.function,
                   IF InLoop(Top) THEN Top.node ELSE Around, {})
           /\ ~InStep(Top) => Tied(heap, answer, Here, Around, {})
           /\ answer \in Roots /\ Whole(heap, answer)
           /\ \A x \in Own(Top) : x # answer /\ heap[x].below \cap heap[answer].below = {}
PROOF
<1>1. /\ Tied(heap, answer, within.function, OuterLoop(frames, Len(frames) + 1), {})
      /\ WaitsForValue(Top) => NoJumps(heap, answer)
      /\ \E r \in DOMAIN Rules :
                /\ CalledBy(Top, r)
                /\ r \notin MayJump => heap[answer].kind \notin Jumping
                /\ r \in Listed => PlainKids(heap, answer)
    BY AptFacts DEF Apt, Linked, AnswerRight
<1>2. OuterLoop(frames, Len(frames) + 1) = IF InLoop(Top) THEN Top.node ELSE Around
    BY AptFacts, OuterNext DEF Around
<1>3. ~InStep(Top) => ~InLoop(Top) /\ Here = within.function
    BY FunctionHere DEF InLoop, InScope
<1>4. answer \in Roots
    BY DEF Roots
<1>5. Whole(heap, answer) /\ answer \notin Own(Top)
    BY <1>4, AptTree
<1>6. \A x \in Own(Top) : x # answer /\ heap[x].below \cap heap[answer].below = {}
  <2>1. \A x \in Own(Top) : x \in Roots
      BY DEF Roots
  <2>. QED
      BY <1>4, <1>5, <2>1, AptTree
<1>. QED
    BY <1>1, <1>2, <1>3, <1>4, <1>5, <1>6

(* What a frame does with its nodes does not disturb those of the others. *)
LEMMA RestIntact ==
    ASSUME Apt, \A n \in DOMAIN heap \ Mine : heap'[n] = heap[n]
    PROVE  \A x \in Rest(frames) : Whole(heap, x) /\ Intact(heap, heap', x)
PROOF
<1>1. SUFFICES ASSUME NEW x \in Rest(frames)
               PROVE  Whole(heap, x) /\ Intact(heap, heap', x)
    OBVIOUS
<1>2. Whole(heap, x)
    BY AptTree
<1>3. x \notin Roots
    BY AptTree DEF Roots
<1>4. \A n \in heap[x].below : n \in DOMAIN heap /\ n \notin Mine
    BY <1>3, AptTree DEF Mine
<1>. QED
    BY <1>2, <1>4 DEF Intact, Whole

(* Everything is right again when what the step has changed is. *)
LEMMA MoveJumps ==
    ASSUME Apt, CallsInv', Stands(frames, frames'), answer' = Null, UNCHANGED within,
           \A i \in 1 .. Len(frames) - 1 :
               /\ frames'[i].phase = frames[i].phase
               /\ \/ frames'[i] = frames[i]
                  \/ FrameRight(heap', frames'[i], FunctionFor(frames'[i], within.function),
                                OuterLoop(frames, i)),
           \A x \in Rest(frames) : Whole(heap, x) /\ Intact(heap, heap', x),
           \A i \in Len(frames) .. Len(frames') :
               FrameRight(heap', frames'[i], FunctionFor(frames'[i], within.function),
                          OuterLoop(frames, i)),
           Len(frames') = Len(frames) + 1 /\ frames'[Len(frames)].phase = "target" =>
               frames'[Len(frames) + 1].rule \in Evaluating,
           BreakRight'
    PROVE  Linked'
PROOF
<1>1. Len(frames) \in Nat \ {0} /\ Len(frames') \in {Len(frames), Len(frames) + 1}
    BY DEF Stands
<1>2. \A i \in 1 .. Len(frames) : frames[i].rule \in DOMAIN Rules
    BY AptFacts
<1>3. NestInv' /\ RegistersInv'
    BY <1>2, StandsKept DEF Apt, Linked
<1>4. FramesRight'
  <2>1. SUFFICES ASSUME NEW i \in 1 .. Len(frames')
                 PROVE  FrameRight(heap', frames'[i],
                                   FunctionFor(frames'[i], within'.function),
                                   OuterLoop(frames', i))
      BY DEF FramesRight
  <2>2. OuterLoop(frames', i) = OuterLoop(frames, i)
      BY <1>1, StandsOuter
  <2>3. CASE i \in 1 .. Len(frames) - 1
    <3>1. CASE frames'[i] = frames[i]
      <4>1. FrameRight(heap, frames[i], FunctionFor(frames[i], within.function),
                       OuterLoop(frames, i))
          BY <1>1, <2>3 DEF Apt, Linked, FramesRight
      <4>2. \A x \in Own(frames[i]) : Whole(heap, x) /\ Intact(heap, heap', x)
          BY <2>3 DEF Rest
      <4>. QED
          BY <2>2, <3>1, <4>1, <4>2, IntactRight
    <3>. QED
        BY <2>2, <2>3, <3>1
  <2>4. CASE i \in Len(frames) .. Len(frames')
      BY <2>2, <2>4
  <2>. QED
      BY <1>1, <2>3, <2>4
<1>5. AnswerRight'
    BY DEF AnswerRight
<1>. QED
    BY <1>3, <1>4, <1>5 DEF Linked

(* A step to another place, or back to where a node is finished, *)
LEMMA GotoJumps ==
    ASSUME Apt, CallsInv', NEW f, frames' = WithLast(frames, f), Abides(f, Top),
           answer' = Null, UNCHANGED within,
           \A n \in DOMAIN heap \ Mine : heap'[n] = heap[n],
           FrameRight(heap', f, Here, Around),
           Top.rule # "break" \/ BreakRight'
    PROVE  Linked'
PROOF
<1>1. /\ Len(frames) \in Nat \ {0} /\ Len(frames') = Len(frames) /\ frames' # <<>>
      /\ \A i \in 1 .. Len(frames) : frames'[i] = IF i = Len(frames) THEN f ELSE frames[i]
      /\ Top = frames[Len(frames)]
    BY AptFacts, WithLastFacts
<1>2. Stands(frames, frames')
  <2>1. \A i \in 1 .. Len(frames) : Abides(frames'[i], frames[i])
      BY <1>1 DEF Abides
  <2>. QED
      BY <1>1, <2>1 DEF Stands
<1>3. f.rule = Top.rule /\ Top' = f
  <2>1. Last(frames') = frames'[Len(frames')]
      BY DEF Last
  <2>. QED
      BY <1>1, <2>1 DEF Abides, Top
<1>4. BreakRight'
    BY <1>3 DEF BreakRight
<1>5. \A i \in Len(frames) .. Len(frames') :
          FrameRight(heap', frames'[i], FunctionFor(frames'[i], within.function),
                     OuterLoop(frames, i))
  <2>1. \A i \in Len(frames) .. Len(frames') : i = Len(frames)
      BY <1>1
  <2>2. FrameRight(heap', frames'[Len(frames)],
                   FunctionFor(frames'[Len(frames)], within.function), Around)
      BY <1>1, <1>3 DEF Here, FunctionFor
  <2>. QED
      BY <2>1, <2>2 DEF Around
<1>. QED
    BY <1>1, <1>2, <1>4, <1>5, RestIntact, MoveJumps

(* and the call of a rule. *)
LEMMA CallJumps ==
    ASSUME Apt, CallsInv', NEW f, NEW g, frames' = Append(WithLast(frames, f), g),
           Abides(f, Top), ~InStep(g) \/ Rules[g.rule].form = "scoped", g.rule \in DOMAIN Rules,
           answer' = Null, UNCHANGED within,
           \A n \in DOMAIN heap \ Mine : heap'[n] = heap[n],
           FrameRight(heap', f, Here, Around),
           FrameRight(heap', g, FunctionFor(g, within.function),
                      IF InLoop(Top) THEN Top.node ELSE Around),
           f.phase = "target" => g.rule \in Evaluating,
           g.rule # "break" \/ g.node = Null
    PROVE  Linked'
PROOF
<1>1. /\ Len(frames) \in Nat \ {0} /\ Len(frames') = Len(frames) + 1 /\ frames' # <<>>
      /\ \A i \in 1 .. Len(frames) : frames'[i] = IF i = Len(frames) THEN f ELSE frames[i]
      /\ frames'[Len(frames) + 1] = g /\ Top = frames[Len(frames)]
  <2>1. /\ Len(WithLast(frames, f)) = Len(frames) /\ IsSequence(WithLast(frames, f))
        /\ \A i \in 1 .. Len(frames) :
              WithLast(frames, f)[i] = IF i = Len(frames) THEN f ELSE frames[i]
      BY AptFacts, WithLastFacts
  <2>2. /\ Len(frames') = Len(WithLast(frames, f)) + 1 /\ frames' # <<>>
        /\ frames'[Len(WithLast(frames, f)) + 1] = g
        /\ \A i \in 1 .. Len(WithLast(frames, f)) : frames'[i] = WithLast(frames, f)[i]
      BY <2>1, AppendFacts
  <2>. QED
      BY <2>1, <2>2, AptFacts
<1>2. Stands(frames, frames')
  <2>1. \A i \in 1 .. Len(frames) : Abides(frames'[i], frames[i])
      BY <1>1 DEF Abides
  <2>2. ~InScope(g) /\ ~InLoop(g)
    <3>1. \A j \in DOMAIN StepsOf(g.rule) : Rules[g.rule].form = "scoped" =>
              StepsOf(g.rule)[j].do \notin {"enter", "loop"}
      <4>1. RuleShape(g.rule) /\ "scoped" \in Stepping
          BY RulesAssumption DEF Stepping
      <4>. QED
          BY <4>1 DEF RuleShape, StepShape, StepsOf
    <3>. QED
        BY <3>1 DEF InScope, InLoop, Between
  <2>. QED
      BY <1>1, <2>1, <2>2 DEF Stands
<1>3. f.rule = Top.rule /\ Top' = g
  <2>1. Last(frames') = frames'[Len(frames')]
      BY DEF Last
  <2>. QED
      BY <1>1, <2>1 DEF Abides, Top
<1>4. BreakRight'
    BY <1>3 DEF BreakRight
<1>5. OuterLoop(frames, Len(frames) + 1) = IF InLoop(Top) THEN Top.node ELSE Around
    BY <1>1, OuterNext DEF Around
<1>6. \A i \in Len(frames) .. Len(frames') :
          FrameRight(heap', frames'[i], FunctionFor(frames'[i], within.function),
                     OuterLoop(frames, i))
  <2>1. \A i \in Len(frames) .. Len(frames') : i = Len(frames) \/ i = Len(frames) + 1
      BY <1>1
  <2>2. FrameRight(heap', frames'[Len(frames)],
                   FunctionFor(frames'[Len(frames)], within.function), Around)
      BY <1>1, <1>3 DEF Here, FunctionFor
  <2>3. FrameRight(heap', frames'[Len(frames) + 1],
                   FunctionFor(frames'[Len(frames) + 1], within.function),
                   OuterLoop(frames, Len(frames) + 1))
      BY <1>1, <1>5
  <2>. QED
      BY <2>1, <2>2, <2>3 DEF Around
<1>. QED
    BY <1>1, <1>2, <1>4, <1>6, RestIntact, MoveJumps

(* A frame without a node has nothing to get wrong. *)
LEMMA BareRight ==
    ASSUME NEW h, NEW f, f.node = Null, f.held = Null, NEW function, NEW loop
    PROVE  FrameRight(h, f, function, loop)
PROOF
    BY DEF FrameRight, HeadRight, ListRight, Own

-----------------------------------------------------------------------------
(* A frame is as right at another place of its rule. *)
LEMMA FrameMoves ==
    ASSUME NEW h, NEW t, NEW f, NEW function, NEW loop, FrameRight(h, t, function, loop),
           f.rule = t.rule, f.node = t.node, f.held = t.held, Unlinked(f) <=> Unlinked(t)
    PROVE  FrameRight(h, f, function, loop)
PROOF
<1>1. Own(f) = Own(t) /\ (Unsettled(f) <=> Unsettled(t))
    BY DEF Own, Unsettled
<1>2. HeadRight(h, f) /\ ListRight(h, f)
    BY DEF FrameRight, HeadRight, ListRight
<1>. QED
    BY <1>1, <1>2 DEF FrameRight

LEMMA OnwardFrame ==
    ASSUME Apt, InStep(Top), NEW n \in After(Top.rule, Top.at)
    PROVE  LET f == Onward(Top, n)
           IN  /\ f.rule = Top.rule /\ f.at = n /\ f.node = Top.node
               /\ f.held = Null /\ Top.held = Null
               /\ f.phase = IF n > Len(StepsOf(Top.rule)) THEN "done" ELSE "steps"
               /\ n \in Nat /\ n > Top.at /\ Top.at \in 1 .. Len(StepsOf(Top.rule))
               /\ Len(StepsOf(Top.rule)) \in Nat
               /\ Step = StepsOf(Top.rule)[Top.at] /\ Rules[Top.rule].form \in Stepping
               /\ StepShape(Top.rule, Top.at) /\ JumpStep(Top.rule, Top.at)
               /\ InScope(f) <=> Between(Top.rule, n, "enter", "leave")
               /\ InLoop(f) <=> Between(Top.rule, n, "loop", "unloop")
               /\ Step.do \notin {"enter", "leave"} => (InScope(f) <=> InScope(Top))
               /\ Step.do \notin {"loop", "unloop"} => (InLoop(f) <=> InLoop(Top))
               /\ Unlinked(f) <=> LinkAhead(Top.rule, n)
               /\ Step.do \notin LinkSteps => (Unlinked(f) <=> Unlinked(Top))
PROOF
<1>. DEFINE f == Onward(Top, n)
            r == Top.rule
<1>1. Fine(Top) /\ r \in DOMAIN Rules /\ RuleShape(r) /\ JumpShape(r)
    BY AptFacts
<1>2. /\ Rules[r].form \in Stepping /\ Top.at \in 1 .. Len(StepsOf(r)) /\ Top.held = Null
      /\ Len(StepsOf(r)) \in Nat /\ DOMAIN StepsOf(r) = 1 .. Len(StepsOf(r))
      /\ StepShape(r, Top.at) /\ JumpStep(r, Top.at)
      /\ DOMAIN Top = {"rule", "at", "node", "held", "text", "phase", "calm"}
    BY <1>1 DEF Fine, InStep, RuleShape, JumpShape, IsList, StepsOf
<1>3. n \in Nat /\ n > Top.at
    BY <1>2 DEF After, StepShape
<1>4. /\ f.rule = r /\ f.at = n /\ f.node = Top.node /\ f.held = Top.held
      /\ f.phase = IF n > Len(StepsOf(r)) THEN "done" ELSE "steps"
    BY <1>2 DEF Onward, StepsOf
<1>5. Step = StepsOf(r)[Top.at]
    BY DEF Step, Rule, StepsOf
<1>. HIDE DEF f, r
<1>6. InStep(f) <=> n <= Len(StepsOf(r))
    BY <1>2, <1>3, <1>4 DEF InStep
<1>7. /\ InScope(f) <=> Between(r, n, "enter", "leave")
      /\ InLoop(f) <=> Between(r, n, "loop", "unloop")
    BY <1>2, <1>3, <1>4, <1>6 DEF InScope, InLoop, Between
<1>8. InScope(Top) <=> Between(r, Top.at, "enter", "leave")
    BY DEF InScope, r
<1>9. InLoop(Top) <=> Between(r, Top.at, "loop", "unloop")
    BY DEF InLoop, r
<1>10. /\ Step.do \notin {"enter", "leave"} => (InScope(f) <=> InScope(Top))
       /\ Step.do \notin {"loop", "unloop"} => (InLoop(f) <=> InLoop(Top))
    BY <1>2, <1>5, <1>7, <1>8, <1>9 DEF StepShape, Brackets, r
<1>11. Unlinked(f) <=> LinkAhead(r, n)
    BY <1>2, <1>3, <1>4, <1>6 DEF Unlinked, LinkAhead
<1>12. Unlinked(Top) <=> LinkAhead(r, Top.at)
    BY DEF Unlinked, r
<1>13. LinkAhead(r, n) /\ Step.do \notin LinkSteps => LinkAhead(r, Top.at)
    BY <1>2, <1>3 DEF LinkAhead
<1>14. LinkAhead(r, Top.at) /\ Step.do \notin LinkSteps => LinkAhead(r, n)
    BY <1>2, <1>5 DEF JumpStep, r
<1>. QED
    BY <1>2, <1>3, <1>4, <1>5, <1>7, <1>10, <1>11, <1>12, <1>13, <1>14 DEF f, r

(* A step of a list that neither enters nor leaves nor links. *)
LEMMA OnJumps ==
    ASSUME Apt, CallsInv', InStep(Top), NEW n \in After(Top.rule, Top.at),
           Step.do \notin LinkSteps \cup {"enter", "leave", "loop", "unloop"},
           frames' = WithLast(frames, Onward(Top, n)), answer' = Null, UNCHANGED within,
           \A m \in DOMAIN heap \ Mine : heap'[m] = heap[m],
           FrameRight(heap', Top, Here, Around),
           Top.rule # "break" \/ BreakRight'
    PROVE  Linked'
PROOF
<1>. DEFINE f == Onward(Top, n)
<1>1. /\ f.rule = Top.rule /\ f.node = Top.node /\ f.held = Top.held
      /\ InScope(f) <=> InScope(Top)
      /\ InLoop(f) <=> InLoop(Top)
      /\ Unlinked(f) <=> Unlinked(Top)
    BY OnwardFrame
<1>. HIDE DEF f
<1>2. Abides(f, Top)
    BY <1>1 DEF Abides
<1>3. FrameRight(heap', f, Here, Around)
    BY <1>1, FrameMoves
<1>4. frames' = WithLast(frames, f)
    BY DEF f
<1>. QED
    BY <1>2, <1>3, <1>4, GotoJumps

(* While a break is parsed no f-string is: there is one parser. *)
LEMMA OneParser ==
    ASSUME Apt, Top.rule = "break"
    PROVE  Len(parsers) = 1 /\ IsSequence(parsers) /\ ParserFine(parsers[1])
PROOF
<1>1. ASSUME NEW i \in 1 .. Len(frames), frames[i].phase = "slice" PROVE FALSE
  <2>1. Fine(frames[i]) /\ Len(frames) \in Nat \ {0} /\ Top = frames[Len(frames)]
      BY AptFacts
  <2>2. Rules[frames[i].rule].form = "fstring" /\ JumpShape(frames[i].rule)
      BY <1>1, <2>1, ScopeForm DEF Fine
  <2>3. frames[i].rule \in Evaluating /\ "break" \notin Evaluating
      BY <2>2, JumpsFit DEF JumpShape, Jumpers
  <2>4. i = Len(frames) \/ i < Len(frames)
      BY <2>1
  <2>5. Top.rule \in Evaluating
      BY <2>1, <2>3, <2>4 DEF Apt, Linked, NestInv
  <2>. QED
      BY <2>3, <2>5
<1>2. Slicing(frames) = {}
    BY <1>1 DEF Slicing
<1>3. stage = "parsing"
    BY AtTop DEF Apt
<1>4. PICK p : Orders(p, Len(streams) - 1, {})
    BY <1>2, <1>3 DEF Apt, ParserInv, StreamsInv
<1>5. Len(parsers) = Len(streams) /\ streams # <<>> /\ IsSequence(streams)
    BY <1>3 DEF Apt, ParserInv, StreamsInv
<1>6. Len(streams) \in Nat \ {0}
    BY <1>5, SequenceFacts
<1>7. ~(1 \in 1 .. Len(streams) - 1)
    BY <1>4 DEF Orders
<1>8. Len(parsers) = 1
    BY <1>5, <1>6, <1>7
<1>9. IsSequence(parsers) /\ ParserFine(parsers[1])
    BY <1>8 DEF Apt, ParserInv, ParsersInv
<1>. QED
    BY <1>8, <1>9

LEMMA RaisedUneasy ==
    ASSUME Apt, Top.rule = "break", parsers' = Raised(parsers)
    PROVE  ~Calm'
PROOF
<1>1. Len(parsers) = 1 /\ IsSequence(parsers) /\ ParserFine(parsers[1])
    BY OneParser
<1>2. parsers # <<>> /\ ParsersFine(parsers)
  <2>1. \A k \in 1 .. Len(parsers) : k = 1
      BY <1>1
  <2>. QED
      BY <1>1, <2>1, SequenceFacts DEF ParsersFine
<1>3. Len(parsers') = 1 /\ Last(parsers') = parsers'[1]
    BY <1>1, <1>2, RaisedForward, SequenceFacts DEF Forward, Shifts
<1>4. parsers'[1].calm = FALSE
    BY <1>1, <1>2, SequenceFacts DEF Raised, ParserFine
<1>. QED
    BY <1>3, <1>4 DEF Calm

\* The tree is the same for the jumps in it, and the same outside of the nodes
\* of the frame.
Altered(h, g) ==
    /\ \A n \in DOMAIN h : /\ g[n].kind = h[n].kind /\ g[n].below = h[n].below
                           /\ g[n].kids = h[n].kids
                           /\ h[n].kind \in Jumping => g[n].link = h[n].link
    /\ \A n \in DOMAIN h \ Mine : g[n] = h[n]

LEMMA AlteredRight ==
    ASSUME Apt, NEW h, Altered(heap, h)
    PROVE  FrameRight(h, Top, Here, Around)
PROOF
<1>1. ASSUME NEW x \in Own(Top) PROVE Whole(heap, x) /\ Intact(heap, h, x)
  <2>1. x \in Roots
      BY DEF Roots
  <2>. QED
      BY <2>1, AptTree DEF Altered, Intact, Whole
<1>. QED
    BY <1>1, AptFacts, IntactRight

LEMMA EditJumps ==
    ASSUME Apt, CallsInv', Top.phase = "steps", NEW n \in After(Top.rule, Top.at),
           Step.do \notin LinkSteps \cup {"enter", "leave", "loop", "unloop"},
           frames' = WithLast(frames, Onward(Top, n)), answer' = answer, UNCHANGED within,
           Altered(heap, heap'), Top.rule # "break" \/ BreakRight'
    PROVE  Linked'
PROOF
<1>1. answer' = Null /\ InStep(Top)
    BY AptFacts DEF Waiting, InStep
<1>2. FrameRight(heap', Top, Here, Around) /\ \A m \in DOMAIN heap \ Mine : heap'[m] = heap[m]
    BY AlteredRight DEF Altered
<1>. QED
    BY <1>1, <1>2, OnJumps

(* What edits of the node of the frame change. *)
LEMMA Alterations ==
    ASSUME Apt, NEW v, NEW w
    PROVE  /\ Altered(heap, heap)
           /\ Altered(heap, [heap EXCEPT ![Top.node].text = v])
           /\ Altered(heap, [heap EXCEPT ![Top.node].note = v])
           /\ heap[Top.node].kind \notin Jumping =>
                 Altered(heap, [heap EXCEPT ![Top.node].link = v, ![Top.node].text = w])
PROOF
<1>1. Top.node \in DOMAIN heap => Top.node \in Mine /\ IsNode(heap[Top.node])
  <2>1. Top.node \in DOMAIN heap => Top.node \in Roots
      BY AptTree DEF Roots, Own
  <2>. QED
      BY <2>1, AptTree DEF Mine
<1>2. Altered(heap, heap)
    BY DEF Altered
<1>3. CASE Top.node \notin DOMAIN heap
  <2>1. ASSUME NEW h, DOMAIN h = DOMAIN heap, \A n \in DOMAIN heap : h[n] = heap[n]
        PROVE  Altered(heap, h)
      BY <2>1 DEF Altered
  <2>2. ASSUME NEW h \in {[heap EXCEPT ![Top.node].text = v], [heap EXCEPT ![Top.node].note = v],
                          [heap EXCEPT ![Top.node].link = v, ![Top.node].text = w]}
        PROVE  DOMAIN h = DOMAIN heap /\ \A n \in DOMAIN heap : h[n] = heap[n]
      BY <1>3
  <2>. QED
      BY <1>2, <2>1, <2>2
<1>4. CASE Top.node \in DOMAIN heap
  <2>1. ASSUME NEW h, \A n \in DOMAIN heap \ {Top.node} : h[n] = heap[n],
               h[Top.node].kind = heap[Top.node].kind, h[Top.node].below = heap[Top.node].below,
               h[Top.node].kids = heap[Top.node].kids,
               heap[Top.node].kind \in Jumping => h[Top.node].link = heap[Top.node].link
        PROVE  Altered(heap, h)
      BY <1>1, <1>4, <2>1 DEF Altered
  <2>2. PICK e : e = heap[Top.node]
      OBVIOUS
  <2>3. IsNode(e)
      BY <1>1, <1>4, <2>2
  <2>4. Altered(heap, [heap EXCEPT ![Top.node].text = v])
    <3>1. [heap EXCEPT ![Top.node].text = v] = [heap EXCEPT ![Top.node] = [e EXCEPT !.text = v]]
        BY <2>2
    <3>. QED
        BY <1>4, <2>1, <2>2, <2>3, <3>1 DEF IsNode
  <2>5. Altered(heap, [heap EXCEPT ![Top.node].note = v])
    <3>1. [heap EXCEPT ![Top.node].note = v] = [heap EXCEPT ![Top.node] = [e EXCEPT !.note = v]]
        BY <2>2
    <3>. QED
        BY <1>4, <2>1, <2>2, <2>3, <3>1 DEF IsNode
  <2>6. heap[Top.node].kind \notin Jumping =>
            Altered(heap, [heap EXCEPT ![Top.node].link = v, ![Top.node].text = w])
    <3>1. PICK h : h = [heap EXCEPT ![Top.node].link = v, ![Top.node].text = w]
        OBVIOUS
    <3>2. \A n \in DOMAIN heap \ {Top.node} : h[n] = heap[n]
        BY <3>1
    <3>3. h[Top.node] = [[e EXCEPT !.link = v] EXCEPT !.text = w]
        BY <1>4, <2>2, <3>1
    <3>4. h[Top.node].kind = e.kind /\ h[Top.node].below = e.below /\ h[Top.node].kids = e.kids
        BY <2>3, <3>3 DEF IsNode
    <3>. QED
        BY <2>1, <2>2, <3>1, <3>2, <3>4
  <2>. QED
      BY <1>2, <2>4, <2>5, <2>6
<1>. QED
    BY <1>3, <1>4

(* Most steps of a list leave the jumps alone. *)
LEMMA PlainJumps ==
    ASSUME Apt, CallsInv',
           ExpectToken \/ OptionalToken \/ ReadText \/ Declare \/ Constructor \/ Alias \/ MarkScoped
    PROVE  Linked'
PROOF
<1>1. /\ Running /\ Top.phase = "steps" /\ InStep(Top) /\ UNCHANGED <<answer, within>>
      /\ Step.do \in {"expect", "maybe", "name", "path", "declare", "constructor", "alias", "scoped"}
    BY DEF ExpectToken, OptionalToken, ReadText, Declare, Constructor, Alias, MarkScoped,
           AtStep, At, InStep, OnlyFrames, Otherwise, SameScopes
<1>2. Step.do \notin LinkSteps \cup {"enter", "leave", "loop", "unloop"}
    BY <1>1 DEF LinkSteps
<1>3. Step = StepsOf(Top.rule)[Top.at]
    BY DEF Step, Rule, StepsOf
<1>4. PICK n \in After(Top.rule, Top.at) : frames' = WithLast(frames, Onward(Top, n))
    BY <1>3 DEF ExpectToken, OptionalToken, ReadText, Declare, Constructor, Alias, MarkScoped,
                AtStep, After, Goto, NextStep
<1>5. Top.at + 1 \in After(Top.rule, Top.at) /\ (Step.do = "expect" => After(Top.rule, Top.at) = {Top.at + 1})
    BY <1>3 DEF After
<1>6. /\ Fine(Top) /\ Rules[Top.rule].form \in Stepping /\ Top.at \in 1 .. Len(StepsOf(Top.rule))
      /\ JumpStep(Top.rule, Top.at) /\ NameStep(Top.rule, Top.at) /\ Top.rule \in DOMAIN Rules
  <2>1. /\ Fine(Top) /\ Rules[Top.rule].form \in Stepping /\ Top.at \in 1 .. Len(StepsOf(Top.rule))
        /\ JumpStep(Top.rule, Top.at) /\ Top.rule \in DOMAIN Rules /\ RuleShape(Top.rule)
      BY <1>1, <1>5, AptFacts, OnwardFrame
  <2>2. NameShape(Top.rule) /\ Top.at \in DOMAIN StepsOf(Top.rule)
      BY <2>1, NamesFit DEF RuleShape, IsList, StepsOf
  <2>. QED
      BY <2>1, <2>2 DEF NameShape, StepsOf
<1>7. Altered(heap, heap')
  <2>1. CASE ExpectToken \/ OptionalToken \/ Declare
    <3>1. heap' = heap
        BY <2>1 DEF ExpectToken, OptionalToken, Declare, SameTree
    <3>. QED
        BY <3>1, Alterations
  <2>2. CASE ReadText
    <3>1. \E v : \/ heap' = [heap EXCEPT ![Top.node].text = v]
                 \/ heap' = [heap EXCEPT ![Top.node].note = v]
        BY <2>2 DEF ReadText
    <3>. QED
        BY <3>1, Alterations
  <2>3. CASE Constructor
    <3>1. Step.do = "constructor" /\ Top.rule = "constructor"
        BY <1>3, <1>6, <2>3 DEF Constructor, AtStep, NameStep
    <3>2. Rules[Top.rule].form # "scoped" /\ "constructor" \notin MayJump
        BY <3>1, NamesFit DEF MayJump, Jumpers
    <3>3. Top.node # Null
        BY <1>1, <1>6, <3>2 DEF Fine, InStep
    <3>4. heap[Top.node].kind \notin Jumping
        BY <3>1, <3>2, <3>3, AptFacts DEF FrameRight, HeadRight
    <3>5. heap' = [heap EXCEPT ![Top.node].link = within.class,
                               ![Top.node].text = heap[within.class].text]
        BY <2>3 DEF Constructor
    <3>. QED
        BY <3>4, <3>5, Alterations
  <2>4. CASE Alias
    <3>1. heap' = heap \/ \E v : heap' = [heap EXCEPT ![Top.node].text = v]
        BY <2>4 DEF Alias
    <3>. QED
        BY <3>1, Alterations
  <2>5. CASE MarkScoped
    <3>1. heap' = heap \/ heap' = [heap EXCEPT ![Top.node].note = "scoped"]
        BY <2>5 DEF MarkScoped
    <3>. QED
        BY <3>1, Alterations
  <2>. QED
      BY <2>1, <2>2, <2>3, <2>4, <2>5
<1>8. ASSUME Top.rule = "break" PROVE BreakRight'
  <2>1. Step.do = "expect" /\ n = Top.at + 1 /\ Top.at # Len(StepsOf(Top.rule))
      BY <1>1, <1>3, <1>4, <1>5, <1>6, <1>8 DEF JumpStep
  <2>2. heap' = heap
      BY <1>1, <2>1 DEF ExpectToken, OptionalToken, ReadText, Declare, Constructor, Alias,
                        MarkScoped, AtStep, SameTree
  <2>. DEFINE f == Onward(Top, n)
  <2>3. /\ f.rule = Top.rule /\ f.node = Top.node /\ (Unlinked(f) <=> Unlinked(Top))
        /\ f.phase = "steps"
      BY <1>1, <1>2, <2>1, OnwardFrame
  <2>. HIDE DEF f
  <2>4. Top' = f
      BY <1>4, AptFacts, WithLastFacts DEF Top, f
  <2>. QED
      BY <1>1, <1>8, <2>2, <2>3, <2>4, AptFacts DEF BreakRight, Apt, Linked
<1>. QED
    BY <1>1, <1>2, <1>4, <1>7, <1>8, EditJumps

LEMMA ConcatJumps ==
    ASSUME Apt, CallsInv', Concat
    PROVE  Linked'
PROOF
<1>1. /\ Top.phase = "steps" /\ InStep(Top) /\ UNCHANGED <<answer, within>> /\ Step.do = "concat"
    BY DEF Concat, AtStep, At, InStep, OnlyFrames, Otherwise, SameScopes
<1>2. Top.at + 1 \in After(Top.rule, Top.at)
    BY DEF After
<1>3. Top.rule # "break"
    BY <1>1, <1>2, OnwardFrame DEF JumpStep
<1>4. Altered(heap, heap')
  <2>1. heap' = heap \/ \E v : heap' = [heap EXCEPT ![Top.node].text = v]
      BY DEF Concat
  <2>. QED
      BY <2>1, Alterations
<1>5. CASE frames' = frames
  <2>1. frames' = WithLast(frames, Top)
    <3>1. PICK S : frames \in Seq(S)
        BY AptFacts DEF IsSequence
    <3>. QED
        BY <1>5, <3>1, AptFacts DEF WithLast
  <2>2. Abides(Top, Top)
      BY DEF Abides
  <2>3. answer' = Null
      BY <1>1, AptFacts DEF Waiting
  <2>. QED
      BY <1>1, <1>3, <1>4, <2>1, <2>2, <2>3, AlteredRight, GotoJumps DEF Altered
<1>6. CASE frames' # frames
  <2>1. frames' = WithLast(frames, Onward(Top, Top.at + 1))
      BY <1>6 DEF Concat, Goto, NextStep
  <2>. QED
      BY <1>1, <1>2, <1>3, <1>4, <2>1, EditJumps DEF LinkSteps
<1>. QED
    BY <1>5, <1>6

(* A break outside of a loop is reported. *)
LEMMA CheckJumps ==
    ASSUME Apt, CallsInv', Check
    PROVE  Linked'
PROOF
<1>1. /\ Top.phase = "steps" /\ InStep(Top) /\ UNCHANGED <<answer, within, heap>>
      /\ Step.do \in {"outside", "require"}
      /\ frames' = WithLast(frames, Onward(Top, Top.at + 1))
    BY DEF Check, AtStep, At, InStep, OnlyFrames, Otherwise, SameScopes, SameTree, Goto, NextStep
<1>2. Top.at + 1 \in After(Top.rule, Top.at)
    BY DEF After
<1>3. Altered(heap, heap')
    BY <1>1, Alterations
<1>4. ASSUME Top.rule = "break" PROVE BreakRight'
  <2>1. /\ Step = StepsOf(Top.rule)[Top.at] /\ JumpStep(Top.rule, Top.at)
        /\ Top.at \in 1 .. Len(StepsOf(Top.rule)) /\ Len(StepsOf(Top.rule)) \in Nat
      BY <1>1, <1>2, OnwardFrame
  <2>2. Step.do = "outside" /\ Top.at = Len(StepsOf(Top.rule))
      BY <1>1, <1>4, <2>1 DEF JumpStep
  <2>. DEFINE f == Onward(Top, Top.at + 1)
  <2>3. /\ f.rule = Top.rule /\ f.node = Top.node /\ (Unlinked(f) <=> Unlinked(Top))
        /\ Unlinked(f) <=> LinkAhead(Top.rule, Top.at + 1)
      BY <1>1, <1>2, <2>2, OnwardFrame DEF LinkSteps
  <2>4. ~LinkAhead(Top.rule, Top.at + 1)
    <3>1. DOMAIN StepsOf(Top.rule) = 1 .. Len(StepsOf(Top.rule))
        BY <1>1, <1>2, AptFacts, OnwardFrame DEF RuleShape, IsList, StepsOf
    <3>. QED
        BY <2>1, <2>2, <3>1 DEF LinkAhead
  <2>. HIDE DEF f
  <2>5. Top' = f
      BY <1>1, AptFacts, WithLastFacts DEF Top, f
  <2>6. within.loop = Null => ~Calm'
    <3>1. within.loop = Null => parsers' = Raised(parsers)
        BY <2>2 DEF Check
    <3>. QED
        BY <1>4, <3>1, RaisedUneasy
  <2>. QED
      BY <1>1, <1>4, <2>3, <2>4, <2>5, <2>6, AptFacts DEF BreakRight, Apt, Linked
<1>. QED
    BY <1>1, <1>2, <1>3, <1>4, EditJumps DEF LinkSteps

(* The handlers of a try and the values of an enumeration get a link, and  *)
(* no jump does. *)
LEMMA IndexListJumps ==
    ASSUME Apt, CallsInv', IndexList
    PROVE  Linked'
PROOF
<1>1. /\ Top.phase = "steps" /\ InStep(Top) /\ UNCHANGED <<answer, within>>
      /\ Step.do \in {"index", "handlers", "enumerators"}
      /\ frames' = WithLast(frames, Onward(Top, Top.at + 1))
    BY DEF IndexList, AtStep, At, InStep, SameScopes, Goto, NextStep
<1>2. Top.at + 1 \in After(Top.rule, Top.at)
    BY DEF After
<1>3. /\ Step = StepsOf(Top.rule)[Top.at] /\ JumpStep(Top.rule, Top.at)
      /\ StepShape(Top.rule, Top.at) /\ Fine(Top)
    BY <1>1, <1>2, AptFacts, OnwardFrame
<1>4. Top.rule # "break"
    BY <1>1, <1>3 DEF JumpStep
<1>5. CASE Step.do = "index"
  <2>1. heap' = heap
      BY <1>5 DEF IndexList
  <2>. QED
      BY <1>1, <1>2, <1>4, <2>1, Alterations, EditJumps DEF LinkSteps
<1>6. CASE Step.do \in {"handlers", "enumerators"}
  <2>1. PICK field : field = ListOf[Step.do]
      OBVIOUS
  <2>2. Top.rule \in DOMAIN Listing /\ field = Listing[Top.rule]
      BY <1>3, <1>6, <2>1 DEF JumpStep, ListOf
  <2>3. Top.node # Null
      BY <1>1, <1>3, <1>6 DEF StepShape, Fine, InStep
  <2>4. /\ IsSequence(heap[Top.node].kids)
        /\ \A k \in DOMAIN heap[Top.node].kids : heap[Top.node].kids[k].field = field =>
              /\ heap[Top.node].kids[k].node \in heap[Top.node].below \ {Top.node}
              /\ PlainKids(heap, heap[Top.node].kids[k].node)
      BY <2>2, <2>3, AptFacts DEF FrameRight, ListRight
  <2>5. Top.node \in Roots /\ Whole(heap, Top.node)
      BY <2>3, AptTree DEF Roots, Own
  <2>6. ASSUME NEW m \in Elements(field)
        PROVE  m \in heap[Top.node].below /\ heap[m].kind \notin Jumping
    <3>1. PICK list : list = Kid(heap, Top.node, field)
        OBVIOUS
    <3>2. list # Null /\ m \in {k.node : k \in ToSet(heap[list].kids)}
        BY <3>1 DEF Elements
    <3>3. PICK i \in DOMAIN heap[Top.node].kids :
              heap[Top.node].kids[i].field = field /\ list = heap[Top.node].kids[i].node
        BY <2>4, <3>1, <3>2, KidOne
    <3>4. list \in heap[Top.node].below /\ PlainKids(heap, list)
        BY <2>4, <3>3
    <3>5. PICK j \in DOMAIN heap[list].kids : m = heap[list].kids[j].node
        BY <3>2 DEF ToSet
    <3>6. m \in heap[list].below /\ heap[m].kind \notin Jumping
        BY <3>4, <3>5 DEF PlainKids
    <3>. QED
        BY <2>5, <3>4, <3>6 DEF Whole
  <2>7. heap' = [n \in DOMAIN heap |-> IF n \in Elements(field)
                                       THEN [heap[n] EXCEPT !.link = Top.node] ELSE heap[n]]
      BY <1>6, <2>1 DEF IndexList
  <2>8. PICK E : E = Elements(field)
      OBVIOUS
  <2>9. \A n \in DOMAIN heap : heap'[n] = IF n \in E THEN [heap[n] EXCEPT !.link = Top.node]
                                          ELSE heap[n]
      BY <2>7, <2>8
  <2>10. \A m \in E : m \in Mine /\ heap[m].kind \notin Jumping
      BY <2>5, <2>6, <2>8 DEF Mine
  <2>11. \A n \in DOMAIN heap : IsNode(heap[n])
      BY AptTree
  <2>12. Altered(heap, heap')
      BY <2>9, <2>10, <2>11 DEF Altered, IsNode
  <2>. QED
      BY <1>1, <1>2, <1>4, <1>6, <2>12, EditJumps DEF LinkSteps
<1>. QED
    BY <1>1, <1>5, <1>6

(* A jump gets its link from the register of the function or the loop.     *)
LEMMA LinkJumps ==
    ASSUME Apt, CallsInv', LinkJump
    PROVE  Linked'
PROOF
<1>. DEFINE r == Top.rule
            node == Top.node
            f == Onward(Top, Top.at + 1)
<1>1. /\ Top.phase = "steps" /\ InStep(Top) /\ UNCHANGED <<answer, within>>
      /\ Step.do \in LinkSteps
      /\ frames' = WithLast(frames, Onward(Top, Top.at + 1))
      /\ heap' = [heap EXCEPT ![node].link = IF Step.do = "inLoop" THEN within.loop
                                             ELSE within.function]
    BY DEF LinkJump, AtStep, At, InStep, OnlyFrames, Otherwise, SameScopes, Goto, NextStep,
           LinkSteps
<1>2. Top.at + 1 \in After(r, Top.at)
    BY DEF After
<1>3. /\ Step = StepsOf(r)[Top.at] /\ JumpStep(r, Top.at) /\ StepShape(r, Top.at)
      /\ Top.at \in 1 .. Len(StepsOf(r)) /\ Len(StepsOf(r)) \in Nat /\ DOMAIN StepsOf(r) = 1 .. Len(StepsOf(r))
      /\ f.rule = r /\ f.node = node /\ f.held = Null /\ Top.held = Null /\ f.at = Top.at + 1
      /\ f.phase = IF Top.at + 1 > Len(StepsOf(r)) THEN "done" ELSE "steps"
      /\ Unlinked(f) <=> LinkAhead(r, Top.at + 1)
      /\ (InScope(f) <=> InScope(Top)) /\ (InLoop(f) <=> InLoop(Top))
      /\ JumpShape(r) /\ Fine(Top)
    BY <1>1, <1>2, AptFacts, OnwardFrame DEF LinkSteps, RuleShape, IsList, StepsOf
<1>. HIDE DEF f
<1>4. /\ r \in Jumpers /\ ~Unlinked(f) /\ (Step.do = "inLoop" <=> r = "break")
      /\ Rules[r].form = "construct" /\ Rules[r].kind \in Jumping
      /\ Rules[r].kind = "Break" <=> r = "break"
    BY <1>1, <1>3 DEF JumpStep, JumpShape
<1>5. Unlinked(Top) /\ Unsettled(Top) /\ (Unsettled(f) <=> r = "break")
  <2>1. LinkAhead(r, Top.at)
      BY <1>1, <1>3 DEF LinkAhead
  <2>. QED
      BY <1>1, <1>3, <1>4, <2>1 DEF Unlinked, Unsettled
<1>6. node # Null /\ heap[node].kind = Rules[r].kind /\ Own(Top) = {node} /\ Own(f) = {node}
  <2>1. node # Null
      BY <1>1, <1>3, <1>4 DEF Fine, InStep
  <2>. QED
      BY <1>3, <1>4, <2>1, AptFacts DEF FrameRight, HeadRight, Own
<1>7. node \in Roots /\ Whole(heap, node) /\ node \in DOMAIN heap /\ node \in heap[node].below
  <2>1. node \in Roots
      BY <1>6 DEF Roots
  <2>. QED
      BY <2>1, AptTree DEF Whole
<1>8. /\ Tied(heap, node, Here, Around, {node}) /\ Rooted(heap, node)
      /\ r \in Evaluating => NoJumps(heap, node)
    BY <1>5, <1>6, AptFacts DEF FrameRight
<1>9. PICK register : register = IF r = "break" THEN within.loop ELSE within.function
    OBVIOUS
<1>10. /\ \A n \in DOMAIN heap : heap'[n].kind = heap[n].kind /\ heap'[n].below = heap[n].below
       /\ \A n \in DOMAIN heap \ {node} : heap'[n] = heap[n]
       /\ heap'[node].link = register
  <2>1. PICK e : e = [heap[node] EXCEPT !.link = register]
      OBVIOUS
  <2>2. e.kind = heap[node].kind /\ e.below = heap[node].below /\ e.link = register
      BY <1>7, <2>1, AptTree DEF IsNode
  <2>3. heap' = [heap EXCEPT ![node] = e]
      BY <1>1, <1>4, <1>9, <2>1
  <2>. QED
      BY <1>7, <2>2, <2>3
<1>. HIDE DEF r, node
<1>11. \A n \in heap[node].below : n \in DOMAIN heap
    BY <1>7 DEF Whole
<1>12. \A kinds, n : Enclosing(heap', node, kinds, n) = Enclosing(heap, node, kinds, n)
    BY <1>7, <1>10, <1>11 DEF Enclosing
<1>13. ASSUME NEW n \in heap[node].below, n # node, NEW kinds, NEW outer,
              LinkFits(heap, node, kinds, n, outer)
       PROVE  LinkFits(heap', node, kinds, n, outer)
  <2>1. heap'[n].link = heap[n].link
      BY <1>10, <1>11, <1>13
  <2>2. \A p \in Enclosing(heap, node, kinds, n) : heap'[p].below = heap[p].below
      BY <1>10, <1>11 DEF Enclosing
  <2>. QED
      BY <1>12, <1>13, <2>1, <2>2 DEF LinkFits
<1>14. \A kinds : Enclosing(heap', node, kinds, node) = {}
    BY <1>8, <1>12 DEF Rooted, Enclosing
<1>15. Tied(heap', node, Here, Around, {node})
    BY <1>7, <1>8, <1>10, <1>11, <1>13 DEF Tied
<1>16. r # "break" => register = Here
  <2>1. Rule.kind \notin FunctionKinds
      BY <1>4 DEF Rule, r, Jumping, FunctionKinds
  <2>. QED
      BY <1>9, <2>1, FunctionHere
<1>17. r # "break" => Tied(heap', node, Here, Around, {})
  <2>1. r # "break" => /\ heap'[node].kind # "Break"
                       /\ LinkFits(heap', node, FunctionKinds, node, Here)
      BY <1>4, <1>6, <1>7, <1>10, <1>14, <1>16 DEF LinkFits
  <2>. QED
      BY <1>15, <2>1 DEF Tied
<1>18. FrameRight(heap', f, Here, Around)
  <2>1. HeadRight(heap', f)
      BY <1>3, <1>4, <1>6, <1>7, <1>10 DEF HeadRight, MayJump, r, node
  <2>2. ListRight(heap', f)
    <3>1. r \notin DOMAIN Listing
        BY <1>4 DEF Listing, Jumpers
    <3>2. r \notin Listed
        BY <1>4 DEF Listed, Jumpers
    <3>. QED
        BY <1>3, <3>1, <3>2 DEF ListRight, r
  <2>3. r \in Evaluating => NoJumps(heap', node)
      BY <1>7, <1>8, <1>10, <1>11 DEF NoJumps
  <2>4. Rooted(heap', node)
      BY <1>7, <1>8, <1>10, <1>11 DEF Rooted
  <2>. QED
      BY <1>3, <1>5, <1>6, <1>15, <1>17, <2>1, <2>2, <2>3, <2>4 DEF FrameRight, r, node
<1>19. \A n \in DOMAIN heap \ Mine : heap'[n] = heap[n]
    BY <1>7, <1>10 DEF Mine
<1>20. Abides(f, Top)
    BY <1>3 DEF Abides, r, node
<1>21. answer' = Null
    BY <1>1, AptFacts DEF Waiting
<1>22. ASSUME r = "break" PROVE BreakRight'
  <2>1. Top.at # Len(StepsOf(r))
      BY <1>1, <1>3, <1>22 DEF JumpStep, LinkSteps, r
  <2>2. f.phase = "steps"
      BY <1>3, <2>1 DEF r
  <2>3. Top' = f
      BY <1>1, AptFacts, WithLastFacts DEF Top, f
  <2>4. heap'[f.node].link = within'.loop
      BY <1>1, <1>3, <1>9, <1>10, <1>22 DEF node
  <2>. QED
      BY <2>2, <2>3, <2>4 DEF BreakRight
<1>. QED
    BY <1>1, <1>18, <1>19, <1>20, <1>21, <1>22, GotoJumps DEF f, r

-----------------------------------------------------------------------------
(* A function, or a loop, begins or ends. *)
LEMMA RegisterJumps ==
    ASSUME Apt, InStep(Top), Step.do \in {"enter", "leave", "loop", "unloop"},
           frames' = WithLast(frames, Onward(Top, Top.at + 1)), answer' = Null,
           heap' = heap,
           within'.function = within.function \/ \A i \in 1 .. Len(frames) : frames[i].rule \notin Local
    PROVE  /\ NestInv' /\ FramesRight' /\ AnswerRight' /\ BreakRight'
           /\ Len(frames') = Len(frames)
           /\ LET f == Onward(Top, Top.at + 1)
              IN  /\ f.rule = Top.rule /\ f.node = Top.node
                  /\ \A i \in 1 .. Len(frames) :
                        frames'[i] = IF i = Len(frames) THEN f ELSE frames[i]
                  /\ InScope(f) <=> \/ Step.do = "enter"
                                    \/ Step.do # "leave" /\ InScope(Top)
                  /\ InLoop(f) <=> \/ Step.do = "loop"
                                   \/ Step.do # "unloop" /\ InLoop(Top)
           /\ OuterLoop(frames', Len(frames)) = Around
           /\ Top.rule \in DOMAIN Rules /\ JumpShape(Top.rule)
           /\ StepShape(Top.rule, Top.at) /\ Step = StepsOf(Top.rule)[Top.at]
PROOF
<1>. DEFINE f == Onward(Top, Top.at + 1)
            d == Len(frames)
<1>1. Top.at + 1 \in After(Top.rule, Top.at)
    BY DEF After
<1>2. /\ f.rule = Top.rule /\ f.node = Top.node /\ f.held = Top.held
      /\ Step = StepsOf(Top.rule)[Top.at] /\ StepShape(Top.rule, Top.at)
      /\ JumpStep(Top.rule, Top.at)
      /\ InScope(f) <=> Between(Top.rule, Top.at + 1, "enter", "leave")
      /\ InLoop(f) <=> Between(Top.rule, Top.at + 1, "loop", "unloop")
      /\ Unlinked(f) <=> Unlinked(Top)
    BY <1>1, OnwardFrame DEF LinkSteps
<1>3. /\ InScope(f) <=> \/ Step.do = "enter"
                        \/ Step.do # "leave" /\ InScope(Top)
      /\ InLoop(f) <=> \/ Step.do = "loop"
                       \/ Step.do # "unloop" /\ InLoop(Top)
    BY <1>1, <1>2 DEF StepShape, Brackets, InScope, InLoop
<1>. HIDE DEF f
<1>4. /\ d \in Nat \ {0} /\ Len(frames') = d /\ Top = frames[d] /\ frames' # <<>>
      /\ \A i \in 1 .. d : frames'[i] = IF i = d THEN f ELSE frames[i]
      /\ Top' = f /\ Top.rule \in DOMAIN Rules /\ JumpShape(Top.rule)
    BY AptFacts, WithLastFacts DEF f, Top
<1>5. \A i \in 1 .. d : frames'[i].rule = frames[i].rule
    BY <1>2, <1>4
<1>6. NestInv'
  <2>1. \A i \in 1 .. d - 1 : i \in 1 .. d /\ i + 1 \in 1 .. d /\ i # d
      BY <1>4
  <2>2. \A i \in 1 .. d - 1 : frames'[i].phase = frames[i].phase
                             /\ frames'[i + 1].rule = frames[i + 1].rule
      BY <1>4, <1>5, <2>1
  <2>3. \A i, j \in 1 .. d : i < j =>
            /\ frames'[i].rule \in Local \cup Bodies => frames'[j].rule \in Local
            /\ frames'[i].rule \in Evaluating => frames'[j].rule \in Evaluating
      BY <1>5 DEF NestInv, Apt, Linked
  <2>4. \A i \in 1 .. d - 1 :
            frames'[i].phase = "target" => frames'[i + 1].rule \in Evaluating
      BY <2>2 DEF NestInv, Apt, Linked
  <2>. QED
      BY <1>4, <2>3, <2>4 DEF NestInv
<1>7. \A i \in 1 .. d : OuterLoop(frames', i) = OuterLoop(frames, i)
  <2>1. SUFFICES ASSUME NEW i \in 1 .. d
                 PROVE  OuterLoop(frames', i) = OuterLoop(frames, i)
      OBVIOUS
  <2>2. i \in Nat /\ \A j \in 1 .. i - 1 : frames'[j] = frames[j]
      BY <1>4
  <2>. QED
      BY <2>2, OuterSame
<1>8. FramesRight'
  <2>1. SUFFICES ASSUME NEW i \in 1 .. d
                 PROVE  FrameRight(heap, frames'[i], FunctionFor(frames'[i], within'.function),
                                   OuterLoop(frames', i))
      BY <1>4 DEF FramesRight
  <2>2. FunctionFor(frames'[i], within'.function) = FunctionFor(frames[i], within.function)
      BY <1>5 DEF FunctionFor
  <2>3. FrameRight(heap, frames[i], FunctionFor(frames[i], within.function),
                   OuterLoop(frames, i))
      BY DEF Apt, Linked, FramesRight
  <2>4. CASE i = d
      BY <1>2, <1>4, <1>7, <2>2, <2>3, <2>4, FrameMoves
  <2>5. CASE i # d
      BY <1>4, <1>7, <2>2, <2>3, <2>5
  <2>. QED
      BY <2>4, <2>5
<1>9. AnswerRight'
    BY DEF AnswerRight
<1>10. BreakRight'
  <2>1. Top.rule # "break"
      BY <1>2 DEF JumpStep
  <2>. QED
      BY <1>2, <1>4, <2>1 DEF BreakRight
<1>11. OuterLoop(frames', d) = Around
    BY <1>4, <1>7 DEF Around
<1>. QED
    BY <1>2, <1>3, <1>4, <1>6, <1>8, <1>9, <1>10, <1>11 DEF f

LEMMA ScopeJumps ==
    ASSUME Apt, EnterScope \/ LeaveScope
    PROVE  Linked'
PROOF
<1>. DEFINE f == Onward(Top, Top.at + 1)
            d == Len(frames)
<1>1. /\ Top.phase = "steps" /\ InStep(Top) /\ heap' = heap /\ answer' = answer
      /\ frames' = WithLast(frames, f)
      /\ \/ Step.do = "enter" /\ within' = Registered(Rule.kind, Top.node)
         \/ Step.do = "leave" /\ within' = Registered(Rule.kind, Null)
    BY DEF EnterScope, LeaveScope, AtStep, At, InStep, SameTree, Goto, NextStep
<1>2. answer' = Null
    BY <1>1, AptFacts DEF Waiting
<1>3. /\ within \in [function : Nat, class : Nat, loop : Nat] /\ Rule = Rules[Top.rule]
      /\ Top = frames[d] /\ d \in Nat \ {0} /\ Top.rule \in DOMAIN Rules /\ JumpShape(Top.rule)
    BY AptFacts DEF Apt, ParserInv, WithinInv, Rule
<1>4. within'.loop = within.loop
    BY <1>1, <1>3 DEF Registered
<1>5. Rules[Top.rule].form = "construct"
  <2>1. Top.at + 1 \in After(Top.rule, Top.at)
      BY DEF After
  <2>2. StepShape(Top.rule, Top.at) /\ Step = StepsOf(Top.rule)[Top.at]
      BY <1>1, <2>1, OnwardFrame
  <2>. QED
      BY <1>1, <2>2 DEF StepShape
<1>6. CASE Rule.kind \in FunctionKinds
  <2>1. Top.rule \in Bodies
      BY <1>3, <1>5, <1>6 DEF JumpShape, Making
  <2>2. Top.rule \notin Local
      BY <2>1, JumpsFit
  <2>3. \A i \in 1 .. d : i # d => frames[i].rule \notin Local \cup Bodies
      BY <1>3, <2>2 DEF Apt, Linked, NestInv
  <2>4. \A i \in 1 .. d : frames[i].rule \notin Local
      BY <1>3, <2>2, <2>3
  <2>5. /\ NestInv' /\ FramesRight' /\ AnswerRight' /\ BreakRight'
        /\ Len(frames') = d /\ f.rule = Top.rule /\ f.node = Top.node
        /\ \A i \in 1 .. d : frames'[i] = IF i = d THEN f ELSE frames[i]
        /\ InScope(f) <=> Step.do = "enter"
        /\ InLoop(f) <=> InLoop(Top)
      BY <1>1, <1>2, <2>4, RegisterJumps
  <2>. HIDE DEF f
  <2>6. \A i \in 1 .. d : InScope(frames'[i]) /\ Rules[frames'[i].rule].kind \in FunctionKinds =>
            within'.function = frames'[i].node
    <3>1. SUFFICES ASSUME NEW i \in 1 .. d, InScope(frames'[i]),
                          Rules[frames'[i].rule].kind \in FunctionKinds
                   PROVE  within'.function = frames'[i].node
        OBVIOUS
    <3>2. CASE i = d
      <4>1. Step.do = "enter"
          BY <2>5, <3>1, <3>2
      <4>2. within' = [within EXCEPT !.function = Top.node]
          BY <1>1, <1>6, <4>1 DEF Registered, FunctionKinds
      <4>. QED
          BY <1>3, <2>5, <3>2, <4>2
    <3>3. CASE i # d
      <4>1. frames'[i] = frames[i] /\ Fine(frames[i])
          BY <2>5, <3>3, AptFacts
      <4>2. frames[i].rule \in Bodies
          BY <3>1, <4>1, ScopeForm DEF JumpShape, Making
      <4>. QED
          BY <2>3, <3>3, <4>2
    <3>. QED
        BY <3>2, <3>3
  <2>7. OuterLoop(frames', d + 1) = OuterLoop(frames, d + 1)
    <3>1. \A j \in 1 .. d + 1 - 1 : j \in 1 .. d
        BY <1>3
    <3>. QED
        BY <1>3, <2>5, <3>1, OuterSame
  <2>8. RegistersInv'
      BY <1>4, <2>5, <2>6, <2>7 DEF RegistersInv, Apt, Linked
  <2>. QED
      BY <2>5, <2>8 DEF Linked
<1>7. CASE Rule.kind \notin FunctionKinds
  <2>1. within'.function = within.function
      BY <1>1, <1>3, <1>7 DEF Registered, FunctionKinds
  <2>2. /\ NestInv' /\ FramesRight' /\ AnswerRight' /\ BreakRight'
        /\ Len(frames') = d /\ f.rule = Top.rule /\ f.node = Top.node
        /\ \A i \in 1 .. d : frames'[i] = IF i = d THEN f ELSE frames[i]
        /\ InLoop(f) <=> InLoop(Top)
      BY <1>1, <1>2, <2>1, RegisterJumps
  <2>. HIDE DEF f
  <2>3. \A i \in 1 .. d : InScope(frames'[i]) /\ Rules[frames'[i].rule].kind \in FunctionKinds =>
            within'.function = frames'[i].node
    <3>1. \A i \in 1 .. d : Rules[frames'[i].rule].kind \in FunctionKinds => frames'[i] = frames[i]
        BY <1>3, <1>7, <2>2
    <3>. QED
        BY <2>1, <3>1 DEF Apt, Linked, RegistersInv
  <2>4. OuterLoop(frames', d + 1) = OuterLoop(frames, d + 1)
    <3>1. \A j \in 1 .. d + 1 - 1 : j \in 1 .. d
        BY <1>3
    <3>. QED
        BY <1>3, <2>2, <3>1, OuterSame
  <2>5. RegistersInv'
      BY <1>4, <2>2, <2>3, <2>4 DEF RegistersInv, Apt, Linked
  <2>. QED
      BY <2>2, <2>5 DEF Linked
<1>. QED
    BY <1>6, <1>7

LEMMA LoopJumps ==
    ASSUME Apt, Loop
    PROVE  Linked'
PROOF
<1>. DEFINE f == Onward(Top, Top.at + 1)
            d == Len(frames)
<1>1. /\ Top.phase = "steps" /\ InStep(Top) /\ heap' = heap /\ answer' = answer
      /\ frames' = WithLast(frames, f)
      /\ Step.do \in {"loop", "unloop"}
      /\ within' = [within EXCEPT !.loop = IF Step.do = "loop" THEN Top.node ELSE Null]
    BY DEF Loop, AtStep, At, InStep, SameTree, Goto, NextStep
<1>2. answer' = Null
    BY <1>1, AptFacts DEF Waiting
<1>3. /\ within \in [function : Nat, class : Nat, loop : Nat]
      /\ Top = frames[d] /\ d \in Nat \ {0}
    BY AptFacts DEF Apt, ParserInv, WithinInv
<1>4. within'.function = within.function
      /\ within'.loop = IF Step.do = "loop" THEN Top.node ELSE Null
    BY <1>1, <1>3
<1>5. /\ NestInv' /\ FramesRight' /\ AnswerRight' /\ BreakRight'
      /\ Len(frames') = d /\ f.rule = Top.rule /\ f.node = Top.node
      /\ \A i \in 1 .. d : frames'[i] = IF i = d THEN f ELSE frames[i]
      /\ InScope(f) <=> InScope(Top)
      /\ InLoop(f) <=> Step.do = "loop"
    BY <1>1, <1>2, <1>4, RegisterJumps
<1>. HIDE DEF f
<1>6. \A i \in 1 .. d : InScope(frames'[i]) /\ Rules[frames'[i].rule].kind \in FunctionKinds =>
          within'.function = frames'[i].node
  <2>1. \A i \in 1 .. d : /\ InScope(frames'[i]) <=> InScope(frames[i])
                          /\ frames'[i].rule = frames[i].rule /\ frames'[i].node = frames[i].node
      BY <1>3, <1>5
  <2>. QED
      BY <1>4, <2>1 DEF Apt, Linked, RegistersInv
<1>7. within'.loop \in {Null, OuterLoop(frames', d + 1)}
  <2>1. d \in 1 .. d /\ frames'[d] = f
      BY <1>3, <1>5
  <2>2. OuterLoop(frames', d + 1) = IF InLoop(f) THEN f.node ELSE OuterLoop(frames', d)
      BY <1>3, <2>1, OuterNext
  <2>. QED
      BY <1>1, <1>4, <1>5, <2>2
<1>8. RegistersInv'
    BY <1>5, <1>6, <1>7 DEF RegistersInv
<1>. QED
    BY <1>5, <1>8 DEF Linked

-----------------------------------------------------------------------------
(* What happens around the lists of steps.  A tree that fits where the     *)
(* frame is, and the frames that it makes right. *)
Right(h, x) ==
    /\ Top.rule \in Evaluating => NoJumps(h, x)
    /\ Tied(h, x, Here, Around, {})

LEMMA RootsRight ==
    ASSUME Apt, ~InStep(Top), Top.rule # "break"
    PROVE  /\ \A x \in Own(Top) : Right(heap, x)
           /\ answer # Null => Right(heap, answer)
PROOF
<1>1. ~Unsettled(Top)
    BY DEF Unsettled, Unlinked
<1>2. \A x \in Own(Top) : Right(heap, x)
    BY <1>1, AptFacts DEF FrameRight, Right
<1>3. answer # Null => Right(heap, answer)
    BY AnswerFits DEF Right, WaitsForValue
<1>. QED
    BY <1>2, <1>3

LEMMA AsideRight ==
    ASSUME Apt, Rules[Top.rule].form # "construct", NEW f, f.rule = Top.rule,
           InStep(f) => Rules[f.rule].form \in Stepping,
           NEW h, HeadRight(h, f), ListRight(h, f), \A x \in Own(f) : Right(h, x)
    PROVE  FrameRight(h, f, Here, Around)
PROOF
<1>1. JumpShape(Top.rule) /\ RuleShape(Top.rule)
    BY AptFacts
<1>2. ~Unsettled(f)
  <2>1. ASSUME Unlinked(f) PROVE f.rule \in Jumpers
    <3>1. PICK j \in DOMAIN StepsOf(f.rule) : StepsOf(f.rule)[j].do \in LinkSteps
        BY <2>1 DEF Unlinked, LinkAhead
    <3>2. JumpStep(f.rule, j)
        BY <1>1, <2>1, <3>1 DEF Unlinked, JumpShape, StepsOf
    <3>. QED
        BY <3>1, <3>2 DEF JumpStep
  <2>2. f.rule \notin Jumpers
      BY <1>1 DEF JumpShape
  <2>. QED
      BY <2>1, <2>2 DEF Unsettled, Jumpers
<1>. QED
    BY <1>2 DEF FrameRight, Right

(* Values are no jumps; nor is what the other rules return, but some. *)
LEMMA HeadSteady ==
    ASSUME Apt, Rules[Top.rule].form \notin {"construct", "suffix", "wrap", "many"},
           NEW f, f.rule = Top.rule, NEW h,
           \/ f.node = Null
           \/ f.rule \in Evaluating /\ NoJumps(h, f.node) /\ f.node \in h[f.node].below
           \/ f.node = answer /\ h = heap
    PROVE  HeadRight(h, f) /\ ListRight(h, f)
PROOF
<1>1. JumpShape(Top.rule)
    BY AptFacts
<1>2. ListRight(h, f)
    BY <1>1 DEF ListRight, JumpShape
<1>3. CASE f.node = Null
    BY <1>2, <1>3 DEF HeadRight
<1>4. CASE f.rule \in Evaluating /\ NoJumps(h, f.node) /\ f.node \in h[f.node].below
    BY <1>2, <1>4 DEF HeadRight, NoJumps
<1>5. CASE f.node = answer /\ h = heap /\ answer # Null
  <2>1. PICK r \in DOMAIN Rules :
            CalledBy(Top, r) /\ (r \notin MayJump => heap[answer].kind \notin Jumping)
      BY <1>5, AnswerFits
  <2>2. r \in Calls(Top.rule)
      BY <2>1 DEF CalledBy
  <2>3. Top.rule \notin MayJump => r \notin MayJump
      BY <1>1, <2>2 DEF JumpShape
  <2>. QED
      BY <1>2, <1>5, <2>1, <2>3 DEF HeadRight
<1>. QED
    BY <1>2, <1>3, <1>4, <1>5

(* A frame that is called, with a value or with nothing. *)
LEMMA FreshRight ==
    ASSUME NEW h, NEW function, NEW loop, NEW g, g.node = Null,
           g.held # Null => NoJumps(h, g.held) /\ g.held \in h[g.held].below
    PROVE  FrameRight(h, g, function, loop)
PROOF
<1>1. HeadRight(h, g) /\ ListRight(h, g)
    BY DEF HeadRight, ListRight, NoJumps
<1>2. \A x \in Own(g) : NoJumps(h, x)
    BY DEF Own
<1>3. \A x \in Own(g) : Tied(h, x, function, loop, IF Unsettled(g) THEN {g.node} ELSE {})
    BY <1>2, NoJumpsTied
<1>. QED
    BY <1>1, <1>2, <1>3 DEF FrameRight

LEMMA AsideJumps ==
    ASSUME Apt, CallsInv', ~InStep(Top), Rules[Top.rule].form # "construct",
           NEW f, f.rule = Top.rule, ~InScope(f), ~InLoop(f), answer' = Null, UNCHANGED within,
           \A n \in DOMAIN heap \ Mine : heap'[n] = heap[n],
           FrameRight(heap', f, Here, Around),
           \/ frames' = WithLast(frames, f)
           \/ \E r \in DOMAIN Rules : \E m :
                 /\ \/ frames' = Append(WithLast(frames, f), [Frame(r) EXCEPT !.held = m])
                    \/ frames' = Append(WithLast(frames, f), Frame(r)) /\ m = Null
                 /\ m # Null => NoJumps(heap', m) /\ m \in heap'[m].below
                 /\ f.phase = "target" => r \in Evaluating
    PROVE  Linked'
PROOF
<1>1. Top.rule # "break"
    BY AptFacts DEF JumpShape, Jumpers
<1>2. ~InScope(Top) /\ ~InLoop(Top) /\ Abides(f, Top)
    BY DEF InScope, InLoop, Abides
<1>3. CASE frames' = WithLast(frames, f)
    BY <1>1, <1>2, <1>3, GotoJumps
<1>4. CASE frames' # WithLast(frames, f)
  <2>1. PICK r, m :
            /\ r \in DOMAIN Rules
            /\ \/ frames' = Append(WithLast(frames, f), [Frame(r) EXCEPT !.held = m])
               \/ frames' = Append(WithLast(frames, f), Frame(r)) /\ m = Null
            /\ m # Null => NoJumps(heap', m) /\ m \in heap'[m].below
            /\ f.phase = "target" => r \in Evaluating
      BY <1>4
  <2>2. PICK g : /\ g = [Frame(r) EXCEPT !.held = m] \/ (g = Frame(r) /\ m = Null)
                 /\ frames' = Append(WithLast(frames, f), g)
      BY <2>1
  <2>3. /\ g.rule = r /\ g.node = Null
        /\ FrameRight(heap', g, FunctionFor(g, within.function), Around)
        /\ ~InStep(g) \/ Rules[r].form = "scoped"
    <3>1. g.rule = r /\ g.node = Null /\ g.held = m /\ (~InStep(g) \/ Rules[r].form = "scoped")
        BY <2>2 DEF Frame, InStep
    <3>2. PICK h, function, loop :
              h = heap' /\ function = FunctionFor(g, within.function) /\ loop = Around
        OBVIOUS
    <3>3. FrameRight(h, g, function, loop)
        BY <2>1, <3>1, <3>2, FreshRight
    <3>. QED
        BY <3>1, <3>2, <3>3
  <2>. QED
      BY <1>2, <2>1, <2>2, <2>3, CallJumps
<1>. QED
    BY <1>3, <1>4

(* What a frame of such a rule has, by its phase. *)
LEMMA AsideAt ==
    ASSUME Apt
    PROVE  /\ Rule = Rules[Top.rule] /\ JumpShape(Top.rule) /\ RuleShape(Top.rule)
           /\ DOMAIN Top = {"rule", "at", "node", "held", "text", "phase", "calm"}
           /\ Top.phase \notin {"steps", "child"} => ~InStep(Top)
           /\ Rule.form \in {"chain", "level", "fstring"} => Top.rule \in Evaluating
           /\ Top.held # Null => \/ Top.phase \in {"right", "append", "slice"}
                                 \/ Top.phase = "enter" /\ Rule.form = "suffix"
           /\ Top.phase \in Bare => Top.node = Null
           /\ \A f : f.phase \notin {"steps", "child"} => ~InStep(f) /\ ~InScope(f) /\ ~InLoop(f)
           /\ \A x \in Own(Top) : x \in Roots /\ Whole(heap, x) /\ x \in heap[x].below
           /\ \A m : LET f == Done(m)
                     IN  f.rule = Top.rule /\ f.node = m /\ f.held = Null /\ f.phase = "done"
PROOF
<1>1. Rule = Rules[Top.rule] /\ JumpShape(Top.rule) /\ RuleShape(Top.rule) /\ Fine(Top)
    BY AptFacts DEF Rule
<1>2. DOMAIN Top = {"rule", "at", "node", "held", "text", "phase", "calm"}
    BY <1>1 DEF Fine
<1>3. \A x \in Own(Top) : x \in Roots /\ Whole(heap, x) /\ x \in heap[x].below
    BY AptTree DEF Roots, Whole
<1>4. \A m : LET f == Done(m)
             IN  f.rule = Top.rule /\ f.node = m /\ f.held = Null /\ f.phase = "done"
    BY <1>2 DEF Done
<1>5. \A f : f.phase \notin {"steps", "child"} => ~InStep(f) /\ ~InScope(f) /\ ~InLoop(f)
    BY DEF InStep, InScope, InLoop
<1>. QED
    BY <1>1, <1>2, <1>3, <1>4, <1>5, Owns DEF JumpShape, InStep, Apt

(* A frame that has no node, *)
LEMMA EmptyJumps ==
    ASSUME Apt, CallsInv', ~InStep(Top), Rule.form # "construct", UNCHANGED heap,
           NEW f, f.rule = Top.rule, f.node = Null, f.held = Null,
           f.phase \notin {"steps", "child"}, answer' = Null, UNCHANGED within,
           \/ frames' = WithLast(frames, f)
           \/ \E r \in DOMAIN Rules : /\ frames' = Append(WithLast(frames, f), Frame(r))
                                      /\ f.phase = "target" => r \in Evaluating
    PROVE  Linked'
PROOF
<1>1. FrameRight(heap', f, Here, Around)
    BY BareRight
<1>2. \A n \in DOMAIN heap \ Mine : heap'[n] = heap[n]
    OBVIOUS
<1>3. ~InScope(f) /\ ~InLoop(f) /\ Rules[Top.rule].form # "construct"
    BY DEF InScope, InLoop, InStep, Rule
<1>. QED
    BY <1>1, <1>2, <1>3, AsideJumps

(* and one that keeps its node. *)
LEMMA KeptJumps ==
    ASSUME Apt, CallsInv', ~InStep(Top), Rule.form # "construct", UNCHANGED heap,
           NEW f, f.rule = Top.rule, f.node = Top.node, f.held = Top.held,
           f.phase \notin {"steps", "child", "target"}, answer' = Null, UNCHANGED within,
           \/ frames' = WithLast(frames, f)
           \/ \E r \in DOMAIN Rules : frames' = Append(WithLast(frames, f), Frame(r))
    PROVE  Linked'
PROOF
<1>1. FrameRight(heap', f, Here, Around)
  <2>1. ~Unlinked(f) /\ ~Unlinked(Top)
      BY DEF Unlinked, InStep
  <2>. QED
      BY <2>1, AptFacts, FrameMoves
<1>2. \A n \in DOMAIN heap \ Mine : heap'[n] = heap[n]
    OBVIOUS
<1>3. ~InScope(f) /\ ~InLoop(f) /\ Rules[Top.rule].form # "construct"
    BY DEF InScope, InLoop, InStep, Rule
<1>. QED
    BY <1>1, <1>2, <1>3, AsideJumps

LEMMA ChooseJumps ==
    ASSUME Apt, CallsInv', Choose
    PROVE  Linked'
PROOF
<1>1. /\ Top.phase \in {"enter", "choose"} /\ Rule.form \in {"choice", "definition"}
      /\ UNCHANGED <<heap, within, answer>>
    BY DEF Choose, In, At, SameTree, OnlyFrames, Otherwise, SameScopes
<1>2. ~InStep(Top) /\ Top.node = Null /\ Top.held = Null /\ answer' = Null
    BY <1>1, AsideAt, AptFacts DEF Waiting, Bare
<1>3. CASE frames' = WithLast(frames, Done(Null))
    BY <1>1, <1>2, <1>3, AsideAt, EmptyJumps
<1>4. ASSUME NEW first \in Top.at .. Len(Rule.of),
             frames' = Append(WithLast(frames, [Top EXCEPT !.phase = "chosen", !.at = first + 1]),
                              Frame(Rule.of[first]))
      PROVE  Linked'
  <2>1. Rule.of[first] \in DOMAIN Rules
    <3>1. Top.at \in Nat \ {0}
        BY AptFacts DEF Fine
    <3>. QED
        BY <1>1, <1>4, <3>1, AsideAt DEF RuleShape, IsList, Callable
  <2>2. PICK f : f = [Top EXCEPT !.phase = "chosen", !.at = first + 1]
      OBVIOUS
  <2>3. f.rule = Top.rule /\ f.node = Null /\ f.held = Null /\ f.phase = "chosen"
      BY <1>2, <2>2, AsideAt
  <2>. QED
      BY <1>1, <1>2, <1>4, <2>1, <2>2, <2>3, EmptyJumps
<1>. QED
    BY <1>3, <1>4 DEF Choose, Goto, Call

LEMMA TakeChosenJumps ==
    ASSUME Apt, CallsInv', TakeChosen
    PROVE  Linked'
PROOF
<1>1. /\ Top.phase = "chosen" /\ UNCHANGED <<heap, within>> /\ answer' = Null
    BY DEF TakeChosen, At, SameTree, Taking, Otherwise, SameScopes
<1>2. /\ ~InStep(Top) /\ Top.node = Null /\ Top.held = Null
      /\ Rule.form \in {"choice", "definition"} /\ Rule = Rules[Top.rule]
    BY <1>1, AsideAt, FormOf DEF Bare, Apt
<1>3. PICK f : /\ frames' = WithLast(frames, f)
               /\ f = IF Rule.form = "choice"
                      THEN IF answer = Null THEN [Top EXCEPT !.phase = "enter"] ELSE Done(answer)
                      ELSE [Top EXCEPT !.phase = IF answer = Null THEN "choose" ELSE "define",
                                       !.node = answer]
    BY DEF TakeChosen, Goto
<1>4. /\ f.rule = Top.rule /\ f.node = answer /\ f.held = Null
      /\ f.phase \in {"enter", "done", "choose", "define"}
    BY <1>2, <1>3, AsideAt
<1>5. CASE answer = Null
    BY <1>1, <1>2, <1>3, <1>4, <1>5, EmptyJumps
<1>6. CASE answer # Null
  <2>1. HeadRight(heap, f) /\ ListRight(heap, f)
      BY <1>2, <1>4, HeadSteady
  <2>2. Top.rule # "break"
      BY <1>2, AsideAt DEF JumpShape, Jumpers
  <2>3. \A x \in Own(f) : Right(heap, x)
      BY <1>2, <1>4, <1>6, <2>2, RootsRight DEF Own
  <2>4. ~InStep(f) /\ ~InScope(f) /\ ~InLoop(f)
      BY <1>4 DEF InStep, InScope, InLoop
  <2>5. FrameRight(heap', f, Here, Around)
      BY <1>1, <1>2, <1>4, <2>1, <2>3, <2>4, AsideRight
  <2>6. \A n \in DOMAIN heap \ Mine : heap'[n] = heap[n]
      BY <1>1
  <2>. QED
      BY <1>1, <1>2, <1>3, <1>4, <2>4, <2>5, <2>6, AsideJumps
<1>. QED
    BY <1>5, <1>6

(* A frame takes what it was given for its own. *)
LEMMA TakenJumps ==
    ASSUME Apt, CallsInv', ~InStep(Top),
           Rule.form \notin {"construct", "suffix", "wrap", "many"}, UNCHANGED heap,
           NEW f, f.rule = Top.rule, f.node = answer, f.held = Null,
           f.phase \notin {"steps", "child"}, answer' = Null, UNCHANGED within,
           frames' = WithLast(frames, f)
    PROVE  Linked'
PROOF
<1>1. CASE answer = Null
    BY <1>1, EmptyJumps
<1>2. CASE answer # Null
  <2>1. HeadRight(heap, f) /\ ListRight(heap, f)
      BY HeadSteady DEF Rule
  <2>2. Top.rule # "break" /\ Rules[Top.rule].form # "construct"
      BY AsideAt DEF JumpShape, Jumpers, Rule
  <2>3. \A x \in Own(f) : Right(heap, x)
      BY <1>2, <2>2, RootsRight DEF Own
  <2>4. ~InStep(f) /\ ~InScope(f) /\ ~InLoop(f)
      BY DEF InStep, InScope, InLoop
  <2>5. FrameRight(heap', f, Here, Around)
      BY <2>1, <2>2, <2>3, <2>4, AsideRight
  <2>. QED
      BY <2>2, <2>4, <2>5, AsideJumps
<1>. QED
    BY <1>1, <1>2

LEMMA ReadVisibilityJumps ==
    ASSUME Apt, CallsInv', ReadVisibility
    PROVE  Linked'
PROOF
<1>1. /\ Top.phase = "enter" /\ Rule.form = "definition" /\ UNCHANGED <<heap, within, answer>>
    BY DEF ReadVisibility, In, At, SameTree, OnlyFrames, Otherwise, SameScopes
<1>2. ~InStep(Top) /\ Top.node = Null /\ Top.held = Null /\ answer' = Null
    BY <1>1, AsideAt, AptFacts DEF Waiting, Bare
<1>3. PICK f : /\ frames' = WithLast(frames, f)
               /\ f \in {[Top EXCEPT !.phase = "choose", !.text = Current],
                         [Top EXCEPT !.phase = "choose"]}
    BY DEF ReadVisibility, Goto
<1>4. f.rule = Top.rule /\ f.node = Null /\ f.held = Null /\ f.phase = "choose"
    BY <1>2, <1>3, AsideAt
<1>. QED
    BY <1>1, <1>2, <1>3, <1>4, EmptyJumps

LEMMA OperandJumps ==
    ASSUME Apt, CallsInv', CallOperand \/ CallFirst \/ BeginAssign
    PROVE  Linked'
PROOF
<1>1. /\ Top.phase = "enter" /\ Rule.form \in {"level", "wrap", "assign"}
      /\ UNCHANGED <<heap, within, answer>>
    BY DEF CallOperand, CallFirst, BeginAssign, In, At, SameTree, OnlyFrames, Otherwise, SameScopes
<1>2. ~InStep(Top) /\ Top.node = Null /\ Top.held = Null /\ answer' = Null
    BY <1>1, AsideAt, AptFacts DEF Waiting, Bare
<1>3. PICK phase \in {"left", "first", "target"}, r \in DOMAIN Rules :
          /\ frames' = Append(WithLast(frames, [Top EXCEPT !.phase = phase]), Frame(r))
          /\ phase = "target" => r \in Evaluating
  <2>1. CASE CallOperand
    <3>1. Rule.operand \in DOMAIN Rules
        BY <2>1, AsideAt DEF CallOperand, In, RuleShape, Callable
    <3>. QED
        BY <2>1, <3>1 DEF CallOperand, Call
  <2>2. CASE CallFirst
    <3>1. Rule.first \in DOMAIN Rules
        BY <2>2, AsideAt DEF CallFirst, In, RuleShape, Callable
    <3>. QED
        BY <2>2, <3>1 DEF CallFirst, Call
  <2>3. CASE BeginAssign
    <3>1. "primary" \in DOMAIN Rules /\ "primary" \in Evaluating
        BY RulesAssumption, JumpsFit DEF Callable
    <3>. QED
        BY <2>3, <3>1 DEF BeginAssign, Call
  <2>. QED
      BY <2>1, <2>2, <2>3
<1>4. PICK f : f = [Top EXCEPT !.phase = phase]
    OBVIOUS
<1>5. f.rule = Top.rule /\ f.node = Null /\ f.held = Null /\ f.phase = phase
    BY <1>2, <1>4, AsideAt
<1>. QED
    BY <1>1, <1>2, <1>3, <1>4, <1>5, EmptyJumps

LEMMA TakeSuffixJumps ==
    ASSUME Apt, CallsInv', TakeSuffix
    PROVE  Linked'
PROOF
<1>1. /\ Top.phase = "suffixes" /\ Rule.form = "chain" /\ UNCHANGED <<heap, within, answer>>
    BY DEF TakeSuffix, In, At, SameTree, OnlyFrames, Otherwise, SameScopes
<1>2. /\ ~InStep(Top) /\ Top.held = Null /\ answer' = Null /\ Top.rule \in Evaluating
      /\ Rule = Rules[Top.rule]
    BY <1>1, AsideAt, AptFacts DEF Waiting
<1>3. CASE frames' = WithLast(frames, Done(Top.node))
    BY <1>1, <1>2, <1>3, AsideAt, KeptJumps
<1>4. ASSUME NEW r \in ToSet(Rule.of),
             frames' = Append(WithLast(frames, [Top EXCEPT !.phase = "suffixed", !.node = Null]),
                              [Frame(r) EXCEPT !.held = Top.node])
      PROVE  Linked'
  <2>1. r \in DOMAIN Rules
      BY <1>1, AsideAt DEF RuleShape, IsList, ToSet
  <2>2. PICK f : f = [Top EXCEPT !.phase = "suffixed", !.node = Null]
      OBVIOUS
  <2>3. /\ f.rule = Top.rule /\ f.node = Null /\ f.held = Null /\ f.phase = "suffixed"
        /\ ~InScope(f) /\ ~InLoop(f)
      BY <1>2, <2>2, AsideAt
  <2>4. FrameRight(heap', f, Here, Around)
      BY <2>3, BareRight
  <2>5. Top.node # Null => NoJumps(heap', Top.node) /\ Top.node \in heap'[Top.node].below
      BY <1>1, <1>2, AsideAt, AptFacts DEF Own, FrameRight
  <2>6. /\ frames' = Append(WithLast(frames, f), [Frame(r) EXCEPT !.held = Top.node])
        /\ \A n \in DOMAIN heap \ Mine : heap'[n] = heap[n]
      BY <1>1, <1>4, <2>2
  <2>. QED
      BY <1>1, <1>2, <2>1, <2>3, <2>4, <2>5, <2>6, AsideJumps
<1>. QED
    BY <1>3, <1>4 DEF TakeSuffix, Goto, Call

LEMMA TakeSuffixedJumps ==
    ASSUME Apt, CallsInv', TakeSuffixed \/ TakeAssigned
    PROVE  Linked'
PROOF
<1>1. /\ Top.phase \in {"suffixed", "assigned"} /\ UNCHANGED <<heap, within>> /\ answer' = Null
    BY DEF TakeSuffixed, TakeAssigned, At, SameTree, Taking, Otherwise, SameScopes
<1>2. /\ ~InStep(Top) /\ Top.held = Null /\ Rule.form \in {"chain", "assign"}
    BY <1>1, AsideAt, FormOf DEF Apt
<1>3. PICK f : /\ frames' = WithLast(frames, f)
               /\ \/ f = Done(answer)
                  \/ f = [Top EXCEPT !.phase = "suffixes", !.node = answer]
    BY DEF TakeSuffixed, TakeAssigned, Goto
<1>4. f.rule = Top.rule /\ f.node = answer /\ f.held = Null /\ f.phase \in {"done", "suffixes"}
  <2>1. CASE f = Done(answer)
      BY <2>1, AsideAt
  <2>2. CASE f = [Top EXCEPT !.phase = "suffixes", !.node = answer]
      BY <1>2, <2>2, AsideAt
  <2>. QED
      BY <1>3, <2>1, <2>2
<1>. QED
    BY <1>1, <1>2, <1>3, <1>4, TakenJumps

LEMMA EndJumps ==
    ASSUME Apt, CallsInv', EndMany \/ EndFString
    PROVE  Linked'
PROOF
<1>1. /\ Top.phase \in {"close", "slices"} /\ UNCHANGED <<heap, within, answer>>
      /\ frames' = WithLast(frames, Done(Top.node))
    BY DEF EndMany, EndFString, At, SameTree, OnlyFrames, Otherwise, SameScopes, Goto
<1>2. /\ ~InStep(Top) /\ Top.held = Null /\ answer' = Null /\ Rule.form # "construct"
    BY <1>1, AsideAt, FormOf, AptFacts DEF Waiting, Apt
<1>. QED
    BY <1>1, <1>2, AsideAt, KeptJumps

LEMMA TakeLeftJumps ==
    ASSUME Apt, CallsInv', TakeLeft
    PROVE  Linked'
PROOF
<1>1. /\ Top.phase = "left" /\ UNCHANGED <<heap, within>> /\ answer' = Null
    BY DEF TakeLeft, At, SameTree, Taking, Otherwise, SameScopes
<1>2. /\ ~InStep(Top) /\ Top.node = Null /\ Top.held = Null /\ Rule.form = "level"
      /\ Rule = Rules[Top.rule] /\ Top.rule \in Evaluating
    BY <1>1, AsideAt, FormOf DEF Bare, Apt
<1>3. CASE frames' = WithLast(frames, Done(answer))
    BY <1>1, <1>2, <1>3, AsideAt, TakenJumps
<1>4. ASSUME frames' = Append(WithLast(frames, [Top EXCEPT !.phase = "right", !.held = answer,
                                                           !.text = Current]),
                              Frame(Rule.self))
      PROVE  Linked'
  <2>1. Rule.self \in DOMAIN Rules
      BY <1>2, AsideAt DEF RuleShape, Callable
  <2>2. PICK f : f = [Top EXCEPT !.phase = "right", !.held = answer, !.text = Current]
      OBVIOUS
  <2>3. /\ f.rule = Top.rule /\ f.node = Null /\ f.held = answer /\ f.phase = "right"
        /\ ~InStep(f) /\ ~InScope(f) /\ ~InLoop(f)
      BY <1>2, <2>2, AsideAt
  <2>4. HeadRight(heap, f) /\ ListRight(heap, f)
      BY <1>2, <2>3, HeadSteady
  <2>5. Top.rule # "break"
      BY <1>2, AsideAt DEF JumpShape, Jumpers
  <2>6. \A x \in Own(f) : Right(heap, x)
      BY <1>2, <2>3, <2>5, RootsRight DEF Own
  <2>7. FrameRight(heap', f, Here, Around)
      BY <1>1, <1>2, <2>3, <2>4, <2>6, AsideRight
  <2>8. /\ frames' = Append(WithLast(frames, f), Frame(Rule.self))
        /\ \A n \in DOMAIN heap \ Mine : heap'[n] = heap[n]
      BY <1>1, <1>4, <2>2
  <2>. QED
      BY <1>1, <1>2, <2>1, <2>3, <2>7, <2>8, AsideJumps
<1>. QED
    BY <1>3, <1>4 DEF TakeLeft, Goto, Call

(* The elements of a list keep to what their rules return. *)
LEMMA TakeItemJumps ==
    ASSUME Apt, CallsInv', TakeItem
    PROVE  Linked'
PROOF
<1>1. /\ Top.phase = "item" /\ UNCHANGED <<heap, within>> /\ answer' = Null
    BY DEF TakeItem, At, SameTree, Taking, Otherwise, SameScopes
<1>2. /\ ~InStep(Top) /\ Top.held = Null /\ Rule.form = "many"
      /\ Rule = Rules[Top.rule]
    BY <1>1, AsideAt, FormOf DEF Apt
<1>3. Rule.of \in DOMAIN Rules
    BY <1>2, AsideAt DEF RuleShape, Callable
<1>4. ASSUME frames' = WithLast(frames, [Top EXCEPT !.phase = "append", !.held = answer,
                                                    !.text = "none"])
      PROVE  Linked'
  <2>1. PICK f : f = [Top EXCEPT !.phase = "append", !.held = answer, !.text = "none"]
      OBVIOUS
  <2>2. /\ f.rule = Top.rule /\ f.node = Top.node /\ f.held = answer /\ f.phase = "append"
        /\ ~InStep(f) /\ ~InScope(f) /\ ~InLoop(f)
      BY <2>1, AsideAt
  <2>3. HeadRight(heap, Top) /\ ListRight(heap, Top)
      BY AptFacts DEF FrameRight
  <2>4. HeadRight(heap, f)
      BY <2>2, <2>3 DEF HeadRight
  <2>5. f.rule \in Listed /\ answer # Null => heap[answer].kind \notin Jumping
    <3>1. SUFFICES ASSUME Top.rule \in Listed, answer # Null
                   PROVE  heap[answer].kind \notin Jumping
        BY <2>2
    <3>2. PICK r \in DOMAIN Rules :
              CalledBy(Top, r) /\ (r \notin MayJump => heap[answer].kind \notin Jumping)
        BY <3>1, AnswerFits
    <3>3. r = Rule.of
        BY <1>2, <3>2 DEF CalledBy, Calls, Stepping
    <3>. QED
        BY <1>2, <3>1, <3>2, <3>3, AsideAt DEF JumpShape
  <2>6. Top.rule \notin DOMAIN Listing
      BY <1>2, AsideAt DEF JumpShape
  <2>7. ListRight(heap, f)
      BY <2>2, <2>3, <2>5, <2>6 DEF ListRight
  <2>8. Top.rule # "break"
      BY <1>2, AsideAt DEF JumpShape, Jumpers
  <2>9. \A x \in Own(f) : Right(heap, x)
      BY <1>2, <2>2, <2>8, RootsRight DEF Own
  <2>10. FrameRight(heap', f, Here, Around)
      BY <1>1, <1>2, <2>2, <2>4, <2>7, <2>9, AsideRight
  <2>11. /\ frames' = WithLast(frames, f)
         /\ \A n \in DOMAIN heap \ Mine : heap'[n] = heap[n]
      BY <1>1, <1>4, <2>1
  <2>. QED
      BY <1>1, <1>2, <2>2, <2>10, <2>11, AsideJumps
<1>5. ASSUME frames' = Append(WithLast(frames, [[Top EXCEPT !.text = "recover"]
                                                    EXCEPT !.phase = "item"]),
                              Frame(Rule.of))
      PROVE  Linked'
  <2>1. PICK f : f = [[Top EXCEPT !.text = "recover"] EXCEPT !.phase = "item"]
      OBVIOUS
  <2>2. /\ f.rule = Top.rule /\ f.node = Top.node /\ f.held = Top.held /\ f.phase = "item"
      BY <2>1, AsideAt
  <2>3. frames' = Append(WithLast(frames, f), Frame(Rule.of))
      BY <1>5, <2>1
  <2>. QED
      BY <1>1, <1>2, <1>3, <2>2, <2>3, KeptJumps
<1>. QED
    BY <1>4, <1>5 DEF TakeItem, CallItem, Goto, Call

-----------------------------------------------------------------------------
(* Trees that are not touched, *)
LEMMA StaysRight ==
    ASSUME NEW h, NEW g, NEW x, Whole(h, x), \A n \in h[x].below : n \in DOMAIN g /\ g[n] = h[n]
    PROVE  /\ Intact(h, g, x) /\ Whole(g, x) /\ g[x] = h[x]
           /\ Right(h, x) => Right(g, x)
           /\ NoJumps(h, x) => NoJumps(g, x)
PROOF
<1>1. x \in h[x].below /\ g[x] = h[x]
    BY DEF Whole
<1>2. Intact(h, g, x)
    BY <1>1 DEF Intact
<1>3. Whole(g, x)
    BY <1>1 DEF Whole
<1>4. NoJumps(h, x) => NoJumps(g, x)
    BY <1>1 DEF NoJumps
<1>5. Right(h, x) => Right(g, x)
    BY <1>2, <1>4, IntactTied DEF Right
<1>. QED
    BY <1>1, <1>2, <1>3, <1>4, <1>5

(* a node that is new, *)
Made(h, g, id, kind) ==
    /\ Right(g, id) /\ Whole(g, id) /\ NoJumps(g, id) /\ IsNode(g[id])
    /\ g[id].kind = kind /\ (\A n \in g[id].below : n = id) /\ g[id].kids = <<>>
    /\ DOMAIN g = DOMAIN h \cup {id} /\ \A n \in DOMAIN h \ {id} : g[n] = h[n]

LEMMA CreateRight ==
    ASSUME NEW h, NEW id, NEW kind, kind \notin Jumping, NEW text
    PROVE  Made(h, Create(h, id, kind, text), id, kind)
PROOF
<1>. DEFINE g == Create(h, id, kind, text)
<1>1. /\ g[id] = Fresh(id, kind, text) /\ DOMAIN g = DOMAIN h \cup {id}
      /\ \A n \in DOMAIN h \ {id} : g[n] = h[n]
    BY DEF Create
<1>. HIDE DEF g
<1>2. g[id].kind = kind /\ g[id].below = {id} /\ g[id].kids = <<>> /\ IsNode(g[id])
    BY <1>1 DEF Fresh, IsNode
<1>3. NoJumps(g, id) /\ Tied(g, id, Here, Around, {})
    BY <1>2, AloneTied
<1>4. Whole(g, id)
    BY <1>1, <1>2 DEF Whole
<1>5. Made(h, g, id, kind)
    BY <1>1, <1>2, <1>3, <1>4 DEF Right, Made
<1>. QED
    BY <1>5 DEF g

(* and one that gets another tree below it. *)
Addable(h, node, kid) ==
    /\ IsNode(h[node]) /\ Whole(h, node) /\ Right(h, node)
    /\ h[node].kind \notin FunctionKinds \cup LoopKinds
    /\ kid # Null => /\ Whole(h, kid) /\ Right(h, kid)
                     /\ \A n \in h[kid].below : n \notin h[node].below

Grown(h, g, node, field, kid) ==
    /\ Right(g, node) /\ Whole(g, node) /\ IsNode(g[node])
    /\ g[node].kind = h[node].kind /\ DOMAIN g = DOMAIN h
    /\ \A n \in DOMAIN h \ {node} : g[n] = h[n]
    /\ \A n \in g[node].below : n \in h[node].below \/ (kid # Null /\ n \in h[kid].below)
    /\ \A n \in h[node].below : n \in g[node].below
    /\ NoJumps(h, node) /\ (kid # Null => NoJumps(h, kid)) => NoJumps(g, node)
    /\ kid = Null => g = h
    /\ kid # Null =>
          /\ g[node].kids = Append(h[node].kids, [field |-> field, node |-> kid])
          /\ IsTraversed(h[node].kind, field) => \A n \in h[kid].below : n \in g[node].below

LEMMA JoinRight ==
    ASSUME NEW h, NEW node, NEW kid, Addable(h, node, kid), NEW field
    PROVE  Grown(h, Attach(h, node, field, kid), node, field, kid)
PROOF
<1>1. PICK g : g = Attach(h, node, field, kid)
    OBVIOUS
<1>2. CASE kid = Null
    BY <1>1, <1>2 DEF Attach, Grown, Addable
<1>3. CASE kid # Null
  <2>1. node \in DOMAIN h /\ IsNode(h[node]) /\ Whole(h, node) /\ Whole(h, kid)
        /\ h[node].below \cap h[kid].below = {} /\ h[node].kind \notin FunctionKinds \cup LoopKinds
      BY <1>3 DEF Whole, Addable
  <2>2. /\ Joined(h, g, node, kid) /\ IsNode(g[node])
        /\ g[node].kids = Append(h[node].kids, [field |-> field, node |-> kid])
        /\ IsTraversed(h[node].kind, field) => g[node].below = h[node].below \cup h[kid].below
      BY <1>1, <1>3, <2>1, AttachJoined
  <2>3. Tied(h, node, Here, Around, {}) /\ Tied(h, kid, Here, Around, {})
      BY <1>3 DEF Right, Addable
  <2>4. Tied(g, node, Here, Around, {})
      BY <2>1, <2>2, <2>3, JoinedTied
  <2>5. Whole(g, node) /\ (NoJumps(h, node) /\ NoJumps(h, kid) => NoJumps(g, node))
      BY <2>1, <2>2, JoinedRest
  <2>6. Right(g, node)
      BY <1>3, <2>4, <2>5 DEF Right, Addable
  <2>. QED
      BY <1>1, <1>3, <2>2, <2>5, <2>6 DEF Joined, Grown
<1>. QED
    BY <1>2, <1>3

(* What is outside of the trees of the frame. *)
LEMMA MineHas ==
    ASSUME Apt
    PROVE  \A x \in Own(Top) \cup ({answer} \ {Null}) :
              x \in Mine /\ x \in DOMAIN heap /\ Whole(heap, x) /\ IsNode(heap[x])
PROOF
    BY AptTree DEF Mine, Roots, Whole

(* An f-string, or an operation, that is built. *)
LEMMA ValueJumps ==
    ASSUME Apt, CallsInv', ~InStep(Top), Rule.form \in {"level", "fstring"},
           NEW f, f.rule = Top.rule, f.node # Null, f.phase \notin {"steps", "child", "target"},
           answer' = Null, UNCHANGED within,
           \A n \in DOMAIN heap \ Mine : heap'[n] = heap[n],
           \A x \in Own(f) : Right(heap', x) /\ Whole(heap', x),
           \/ frames' = WithLast(frames, f)
           \/ \E r \in DOMAIN Rules : frames' = Append(WithLast(frames, f), Frame(r))
    PROVE  Linked'
PROOF
<1>1. /\ Rule = Rules[Top.rule] /\ Top.rule \in Evaluating
      /\ ~InStep(f) /\ ~InScope(f) /\ ~InLoop(f)
    BY AsideAt
<1>2. f.node \in Own(f)
    BY DEF Own
<1>3. f.node \in heap'[f.node].below /\ NoJumps(heap', f.node)
    BY <1>1, <1>2 DEF Right, Whole
<1>4. PICK h : h = heap'
    OBVIOUS
<1>5. HeadRight(h, f) /\ ListRight(h, f)
    BY <1>1, <1>3, <1>4, HeadSteady
<1>6. FrameRight(h, f, Here, Around)
    BY <1>1, <1>4, <1>5, AsideRight
<1>. QED
    BY <1>1, <1>4, <1>6, AsideJumps

LEMMA TakeRightJumps ==
    ASSUME Apt, CallsInv', TakeRight
    PROVE  Linked'
PROOF
<1>. DEFINE id == created + 1
<1>20. PICK h1 : h1 = Create(heap, id, Rule.kind, Top.text)
    OBVIOUS
<1>21. PICK h2 : h2 = Attach(h1, id, "left_operand", Top.held)
    OBVIOUS
<1>22. PICK h3 : h3 = Attach(h2, id, "right_operand", answer)
    OBVIOUS
<1>1. /\ Top.phase = "right" /\ heap' = h3 /\ UNCHANGED within /\ answer' = Null
      /\ frames' = WithLast(frames, Done(id))
    BY <1>20, <1>21, <1>22 DEF TakeRight, At, Taking, Otherwise, SameScopes, Goto
<1>. HIDE DEF id
<1>2. /\ ~InStep(Top) /\ Top.node = Null /\ Rule.form = "level" /\ Rule = Rules[Top.rule]
      /\ Top.rule \in Evaluating
    BY <1>1, AsideAt, FormOf DEF Bare, Apt
<1>3. Rule.kind \notin Jumping /\ Rule.kind \notin FunctionKinds \cup LoopKinds /\ Top.rule # "break"
    BY <1>2, AsideAt DEF JumpShape, Making, Jumpers
<1>4. id \notin DOMAIN heap /\ id # Null
    BY AptTree DEF id
<1>5. /\ \A x \in Own(Top) : Right(heap, x)
      /\ answer # Null => Right(heap, answer)
    BY <1>2, <1>3, RootsRight
<1>6. /\ \A x \in Own(Top) \cup ({answer} \ {Null}) :
             x \in DOMAIN heap /\ Whole(heap, x) /\ Right(heap, x)
      /\ \A x \in Own(Top) \cup ({answer} \ {Null}) : \A n \in heap[x].below : n \in DOMAIN heap
    BY <1>5, MineHas DEF Whole
<1>7. Top.held # Null /\ answer # Null => heap[Top.held].below \cap heap[answer].below = {}
    BY AnswerFits DEF Own
<1>23. Made(heap, h1, id, Rule.kind)
    BY <1>3, <1>20, CreateRight
<1>8. /\ Right(h1, id) /\ Whole(h1, id) /\ IsNode(h1[id]) /\ h1[id].kind = Rule.kind
      /\ (\A n \in h1[id].below : n = id) /\ DOMAIN h1 = DOMAIN heap \cup {id}
      /\ \A n \in DOMAIN heap : h1[n] = heap[n]
    BY <1>4, <1>23 DEF Made
<1>9. \A x \in Own(Top) \cup ({answer} \ {Null}) :
          Whole(h1, x) /\ Right(h1, x) /\ h1[x] = heap[x] /\ id \notin h1[x].below
    BY <1>4, <1>6, <1>8, StaysRight
<1>24. Addable(h1, id, Top.held)
    BY <1>3, <1>8, <1>9 DEF Own, Addable
<1>25. Grown(h1, h2, id, "left_operand", Top.held)
    BY <1>21, <1>24, JoinRight
<1>10. /\ Right(h2, id) /\ Whole(h2, id) /\ IsNode(h2[id]) /\ h2[id].kind = Rule.kind
       /\ DOMAIN h2 = DOMAIN h1 /\ \A n \in DOMAIN h1 \ {id} : h2[n] = h1[n]
       /\ \A n \in h2[id].below : n = id \/ (Top.held # Null /\ n \in heap[Top.held].below)
    BY <1>8, <1>9, <1>25 DEF Grown, Own
<1>11. Addable(h2, id, answer)
  <2>1. ASSUME answer # Null
        PROVE  /\ Whole(h2, answer) /\ Right(h2, answer)
               /\ \A n \in h2[answer].below : n \notin h2[id].below
    <3>2. /\ Whole(h1, answer) /\ Right(h1, answer) /\ h1[answer] = heap[answer]
          /\ id \notin h1[answer].below
        BY <1>9, <2>1
    <3>3. \A n \in h1[answer].below : n \in DOMAIN h2 /\ h2[n] = h1[n]
        BY <1>10, <3>2 DEF Whole
    <3>4. Whole(h2, answer) /\ Right(h2, answer) /\ h2[answer] = heap[answer]
        BY <3>2, <3>3, StaysRight
    <3>. QED
        BY <1>7, <1>10, <2>1, <3>2, <3>4
  <2>. QED
      BY <1>3, <1>10, <2>1 DEF Addable
<1>26. Grown(h2, h3, id, "right_operand", answer)
    BY <1>11, <1>22, JoinRight
<1>12. /\ Right(h3, id) /\ Whole(h3, id) /\ DOMAIN h3 = DOMAIN h2
       /\ \A n \in DOMAIN h2 \ {id} : h3[n] = h2[n]
    BY <1>26 DEF Grown
<1>13. \A n \in DOMAIN heap \ Mine : heap'[n] = heap[n]
    BY <1>1, <1>4, <1>8, <1>10, <1>12
<1>14. PICK f : f = Done(id)
    OBVIOUS
<1>15. f.rule = Top.rule /\ f.node = id /\ f.held = Null /\ f.phase = "done" /\ Own(f) = {id}
    BY <1>4, <1>14, AsideAt DEF Own
<1>16. \A x \in Own(f) : Right(heap', x) /\ Whole(heap', x)
    BY <1>1, <1>12, <1>15
<1>. QED
    BY <1>1, <1>2, <1>4, <1>13, <1>14, <1>15, <1>16, ValueJumps

(* The pieces of an f-string. *)
LEMMA BeginFStringJumps ==
    ASSUME Apt, CallsInv', BeginFString
    PROVE  Linked'
PROOF
<1>. DEFINE id == created + 1
<1>1. /\ Top.phase = "enter" /\ Rule.form = "fstring" /\ UNCHANGED <<within, answer>>
    BY DEF BeginFString, In, At, OnlyFrames, Otherwise, SameScopes
<1>2. ~InStep(Top) /\ Top.node = Null /\ Top.held = Null /\ answer' = Null
    BY <1>1, AsideAt, AptFacts DEF Waiting, Bare
<1>3. CASE frames' = WithLast(frames, Done(Null)) /\ heap' = heap
  <2>1. PICK f : f = Done(Null)
      OBVIOUS
  <2>2. f.rule = Top.rule /\ f.node = Null /\ f.held = Null /\ f.phase = "done"
      BY <2>1, AsideAt
  <2>. QED
      BY <1>1, <1>2, <1>3, <2>1, <2>2, EmptyJumps
<1>4. CASE /\ heap' = Create(heap, id, "FString", Current)
           /\ frames' = WithLast(frames, [Top EXCEPT !.phase = "slices", !.node = id,
                                                     !.text = Current])
  <2>1. id \notin DOMAIN heap /\ id # Null
      BY AptTree
  <2>. HIDE DEF id
  <2>2. PICK h1 : h1 = Create(heap, id, "FString", Current)
      OBVIOUS
  <2>3. Made(heap, h1, id, "FString")
      BY <2>2, CreateRight DEF Jumping
  <2>4. /\ Right(h1, id) /\ Whole(h1, id) /\ \A n \in DOMAIN heap : h1[n] = heap[n]
      BY <2>1, <2>3 DEF Made
  <2>5. PICK f : f = [Top EXCEPT !.phase = "slices", !.node = id, !.text = Current]
      OBVIOUS
  <2>6. f.rule = Top.rule /\ f.node = id /\ f.held = Null /\ f.phase = "slices" /\ Own(f) = {id}
      BY <1>2, <2>1, <2>5, AsideAt DEF Own
  <2>7. frames' = WithLast(frames, f) /\ heap' = h1
      BY <1>4, <2>2, <2>5
  <2>. QED
      BY <1>1, <1>2, <2>1, <2>4, <2>6, <2>7, ValueJumps
<1>. QED
    BY <1>3, <1>4 DEF BeginFString, Goto, SameTree

LEMMA SliceJumps ==
    ASSUME Apt, CallsInv', TextSlice \/ OpenSlice
    PROVE  Linked'
PROOF
<1>. DEFINE id == created + 1
<1>1. /\ Top.phase = "slices" /\ UNCHANGED <<within, answer>>
    BY DEF TextSlice, OpenSlice, At, OnlyFrames, Otherwise, SameScopes
<1>2. /\ ~InStep(Top) /\ Top.node # Null /\ Top.held = Null /\ answer' = Null
      /\ Rule.form = "fstring" /\ Rule = Rules[Top.rule] /\ Own(Top) = {Top.node}
      /\ heap[Top.node].kind = "FString"
    BY <1>1, AsideAt, AptFacts, AptTree, FormOf DEF Waiting, KindFits, Own, Apt
<1>3. id \notin DOMAIN heap /\ id # Null
    BY AptTree
<1>. HIDE DEF id
<1>4. Top.rule # "break"
    BY <1>2, AsideAt DEF JumpShape, Jumpers
<1>5. /\ Right(heap, Top.node) /\ Whole(heap, Top.node) /\ IsNode(heap[Top.node])
      /\ Top.node \in Mine /\ Top.node # id
    BY <1>2, <1>3, <1>4, RootsRight, MineHas
<1>6. ASSUME NEW kind \in {"FStringString", "FStringExpression"}, NEW text,
             NEW h1, h1 = Create(heap, id, kind, text)
      PROVE  /\ Right(h1, id) /\ Whole(h1, id) /\ (\A n \in h1[id].below : n = id)
             /\ \A n \in DOMAIN heap : h1[n] = heap[n]
             /\ DOMAIN h1 = DOMAIN heap \cup {id}
             /\ Right(h1, Top.node) /\ Whole(h1, Top.node) /\ h1[Top.node] = heap[Top.node]
             /\ id \notin h1[Top.node].below
  <2>1. Made(heap, h1, id, kind)
      BY <1>6, CreateRight DEF Jumping
  <2>2. /\ Right(h1, id) /\ Whole(h1, id) /\ (\A n \in h1[id].below : n = id)
        /\ \A n \in DOMAIN heap : h1[n] = heap[n]
        /\ DOMAIN h1 = DOMAIN heap \cup {id}
      BY <1>3, <2>1 DEF Made
  <2>3. \A n \in heap[Top.node].below : n \in DOMAIN h1 /\ h1[n] = heap[n] /\ n # id
      BY <1>3, <1>5, <2>2 DEF Whole
  <2>. QED
      BY <1>5, <2>2, <2>3, StaysRight
<1>7. CASE TextSlice
  <2>1. PICK h1 : h1 = Create(heap, id, "FStringString", Slice.text)
      OBVIOUS
  <2>2. PICK h2 : h2 = Attach(h1, Top.node, "element", id)
      OBVIOUS
  <2>3. Addable(h1, Top.node, id)
      BY <1>2, <1>5, <1>6, <2>1 DEF Addable, FunctionKinds, LoopKinds
  <2>4. Grown(h1, h2, Top.node, "element", id)
      BY <2>2, <2>3, JoinRight
  <2>5. /\ Right(h2, Top.node) /\ Whole(h2, Top.node)
        /\ \A n \in DOMAIN heap \ {Top.node} : h2[n] = heap[n]
      BY <1>6, <2>1, <2>4 DEF Grown
  <2>6. PICK f : f = [Top EXCEPT !.at = @ + 1]
      OBVIOUS
  <2>7. f.rule = Top.rule /\ f.node = Top.node /\ f.held = Null /\ f.phase = "slices"
      BY <1>1, <1>2, <2>6, AsideAt
  <2>8. heap' = h2 /\ frames' = WithLast(frames, f)
      BY <1>7, <2>1, <2>2, <2>6 DEF TextSlice, Goto, id
  <2>9. \A n \in DOMAIN heap \ Mine : heap'[n] = heap[n]
      BY <1>5, <2>5, <2>8
  <2>10. \A x \in Own(f) : Right(heap', x) /\ Whole(heap', x)
      BY <2>5, <2>7, <2>8 DEF Own
  <2>. QED
      BY <1>1, <1>2, <2>7, <2>8, <2>9, <2>10, ValueJumps
<1>8. CASE OpenSlice
  <2>1. PICK h1 : h1 = Create(heap, id, "FStringExpression", "none")
      OBVIOUS
  <2>2. /\ Right(h1, id) /\ Whole(h1, id) /\ \A n \in DOMAIN heap : h1[n] = heap[n]
        /\ Right(h1, Top.node) /\ Whole(h1, Top.node)
      BY <1>6, <2>1
  <2>3. PICK f : f = [Top EXCEPT !.phase = "slice", !.held = id]
      OBVIOUS
  <2>4. f.rule = Top.rule /\ f.node = Top.node /\ f.held = id /\ f.phase = "slice"
      BY <1>1, <1>2, <2>3, AsideAt
  <2>5. heap' = h1 /\ frames' = Append(WithLast(frames, f), Frame("expression"))
      BY <1>8, <2>1, <2>3 DEF OpenSlice, Call, id
  <2>6. \A x \in Own(f) : Right(heap', x) /\ Whole(heap', x)
      BY <2>2, <2>4, <2>5 DEF Own
  <2>7. "expression" \in DOMAIN Rules
      BY RulesAssumption DEF Callable
  <2>. QED
      BY <1>1, <1>2, <2>2, <2>4, <2>5, <2>6, <2>7, ValueJumps
<1>. QED
    BY <1>7, <1>8

LEMMA CloseSliceJumps ==
    ASSUME Apt, CallsInv', CloseSlice
    PROVE  Linked'
PROOF
<1>1. /\ Top.phase = "slice" /\ UNCHANGED within /\ answer' = Null
    BY DEF CloseSlice, At, SameScopes
<1>2. /\ ~InStep(Top) /\ Top.node # Null /\ Top.held # Null
      /\ Rule.form = "fstring" /\ Rule = Rules[Top.rule] /\ Own(Top) = {Top.node, Top.held}
      /\ heap[Top.node].kind = "FString" /\ heap[Top.held].kind = "FStringExpression"
    BY <1>1, AsideAt, AptTree, FormOf DEF KindFits, Own, Apt
<1>3. Top.rule # "break"
    BY <1>2, AsideAt DEF JumpShape, Jumpers
<1>4. \A x \in {Top.node, Top.held} \cup ({answer} \ {Null}) :
          Right(heap, x) /\ Whole(heap, x) /\ IsNode(heap[x]) /\ x \in Mine /\ x \in DOMAIN heap
    BY <1>2, <1>3, RootsRight, MineHas
<1>5. /\ heap[Top.node].below \cap heap[Top.held].below = {}
      /\ answer # Null => /\ heap[Top.node].below \cap heap[answer].below = {}
                          /\ heap[Top.held].below \cap heap[answer].below = {}
    BY <1>2, AptTree, AnswerFits DEF Roots
<1>6. PICK h1 : h1 = Attach(heap, Top.held, "expression", answer)
    OBVIOUS
<1>7. PICK h2 : h2 = Attach(h1, Top.node, "element", Top.held)
    OBVIOUS
<1>8. Addable(heap, Top.held, answer)
    BY <1>2, <1>4, <1>5 DEF Addable, FunctionKinds, LoopKinds
<1>9. Grown(heap, h1, Top.held, "expression", answer)
    BY <1>6, <1>8, JoinRight
<1>10. /\ Right(h1, Top.held) /\ Whole(h1, Top.held) /\ DOMAIN h1 = DOMAIN heap
       /\ \A n \in DOMAIN heap \ {Top.held} : h1[n] = heap[n]
       /\ \A n \in h1[Top.held].below :
             n \in heap[Top.held].below \/ (answer # Null /\ n \in heap[answer].below)
    BY <1>9 DEF Grown
<1>11. \A n \in heap[Top.node].below : n \in DOMAIN h1 /\ h1[n] = heap[n]
    BY <1>4, <1>5, <1>10 DEF Whole
<1>12. Right(h1, Top.node) /\ Whole(h1, Top.node) /\ h1[Top.node] = heap[Top.node]
    BY <1>4, <1>11, StaysRight
<1>13. Addable(h1, Top.node, Top.held)
    BY <1>2, <1>4, <1>5, <1>10, <1>12 DEF Addable, FunctionKinds, LoopKinds
<1>14. Grown(h1, h2, Top.node, "element", Top.held)
    BY <1>7, <1>13, JoinRight
<1>15. /\ Right(h2, Top.node) /\ Whole(h2, Top.node)
       /\ \A n \in DOMAIN h1 \ {Top.node} : h2[n] = h1[n]
    BY <1>14 DEF Grown
<1>16. PICK f : f = [Top EXCEPT !.phase = "slices", !.at = @ + 1, !.held = Null]
    OBVIOUS
<1>17. f.rule = Top.rule /\ f.node = Top.node /\ f.held = Null /\ f.phase = "slices"
    BY <1>16, AsideAt
<1>18. heap' = h2 /\ frames' = WithLast(frames, f)
    BY <1>6, <1>7, <1>16 DEF CloseSlice, Goto
<1>19. \A n \in DOMAIN heap \ Mine : heap'[n] = heap[n]
    BY <1>4, <1>10, <1>15, <1>18
<1>20. \A x \in Own(f) : Right(heap', x) /\ Whole(heap', x)
    BY <1>15, <1>17, <1>18 DEF Own
<1>. QED
    BY <1>1, <1>2, <1>17, <1>18, <1>19, <1>20, ValueJumps

(* A list that begins, and one that gets another element. *)
LEMMA BeginManyJumps ==
    ASSUME Apt, CallsInv', BeginMany
    PROVE  Linked'
PROOF
<1>. DEFINE id == created + 1
<1>1. /\ Top.phase = "enter" /\ Rule.form = "many" /\ UNCHANGED <<within, answer>>
    BY DEF BeginMany, In, At, OnlyFrames, Otherwise, SameScopes
<1>2. /\ ~InStep(Top) /\ Top.node = Null /\ Top.held = Null /\ answer' = Null
      /\ Rule = Rules[Top.rule]
    BY <1>1, AsideAt, AptFacts DEF Waiting, Bare
<1>3. CASE frames' = WithLast(frames, Done(Null)) /\ heap' = heap
  <2>1. PICK f : f = Done(Null)
      OBVIOUS
  <2>2. f.rule = Top.rule /\ f.node = Null /\ f.held = Null /\ f.phase = "done"
      BY <2>1, AsideAt
  <2>. QED
      BY <1>1, <1>2, <1>3, <2>1, <2>2, EmptyJumps
<1>4. CASE /\ heap' = [Create(heap, id, Rule.kind, "none") EXCEPT ![id].note = Rule.note]
           /\ frames' = Append(WithLast(frames, [[Top EXCEPT !.node = id,
                                                           !.calm = Last(parsers').calm]
                                                    EXCEPT !.phase = "item"]),
                               Frame(Rule.of))
  <2>1. id \notin DOMAIN heap /\ id # Null
      BY AptTree
  <2>. HIDE DEF id
  <2>2. PICK h1 : h1 = Create(heap, id, Rule.kind, "none")
      OBVIOUS
  <2>3. Rule.kind \notin Jumping /\ Rule.kind \notin FunctionKinds \cup LoopKinds /\ Top.rule # "break"
        /\ Rule.of \in DOMAIN Rules /\ Top.rule \notin DOMAIN Listing
      BY <1>1, <1>2, AsideAt DEF JumpShape, RuleShape, Callable, Making, Jumpers
  <2>4. Made(heap, h1, id, Rule.kind)
      BY <2>2, <2>3, CreateRight
  <2>5. /\ Right(h1, id) /\ Whole(h1, id) /\ (\A n \in DOMAIN heap : h1[n] = heap[n])
        /\ h1[id].kind = Rule.kind /\ h1[id].kids = <<>> /\ IsNode(h1[id])
        /\ \A n \in h1[id].below : n = id
      BY <2>1, <2>4 DEF Made
  <2>6. PICK h2 : h2 = [h1 EXCEPT ![id].note = Rule.note]
      OBVIOUS
  <2>7. /\ \A n \in DOMAIN heap : h2[n] = heap[n]
        /\ h2[id].kind = h1[id].kind /\ h2[id].below = h1[id].below /\ h2[id].kids = <<>>
      BY <2>1, <2>5, <2>6 DEF Whole, IsNode
  <2>8. h1[id].below = {id}
      BY <2>5 DEF Whole
  <2>9. Right(h2, id)
      BY <2>3, <2>5, <2>7, <2>8, AloneTied DEF Right
  <2>10. PICK f : f = [[Top EXCEPT !.node = id, !.calm = Last(parsers').calm]
                             EXCEPT !.phase = "item"]
      OBVIOUS
  <2>11. /\ f.rule = Top.rule /\ f.node = id /\ f.held = Null /\ f.phase = "item" /\ Own(f) = {id}
         /\ ~InStep(f) /\ ~InScope(f) /\ ~InLoop(f)
      BY <1>2, <2>1, <2>10, AsideAt DEF Own
  <2>12. heap' = h2 /\ frames' = Append(WithLast(frames, f), Frame(Rule.of))
      BY <1>4, <2>2, <2>6, <2>10
  <2>13. HeadRight(h2, f)
      BY <1>1, <1>2, <2>3, <2>5, <2>7, <2>11 DEF HeadRight
  <2>14. IsSequence(<<>>) /\ DOMAIN <<>> = {}
      BY DEF IsSequence
  <2>15. ListRight(h2, f)
      BY <2>3, <2>7, <2>11, <2>14 DEF ListRight, PlainKids
  <2>16. FrameRight(h2, f, Here, Around)
      BY <1>1, <1>2, <2>9, <2>11, <2>13, <2>15, AsideRight
  <2>. QED
      BY <1>1, <1>2, <2>3, <2>7, <2>11, <2>12, <2>16, AsideJumps
<1>. QED
    BY <1>3, <1>4 DEF BeginMany, CallItem, Call, Goto, SameTree

LEMMA PlainAppend ==
    ASSUME NEW h, NEW g, NEW node, PlainKids(h, node), NEW held, NEW field,
           Whole(h, node), Whole(h, held), h[held].kind \notin Jumping,
           h[node].kind \notin Jumping, Grown(h, g, node, field, held), held # Null,
           IsTraversed(h[node].kind, field), \A n \in h[held].below : n \notin h[node].below
    PROVE  PlainKids(g, node)
PROOF
<1>1. PICK kids : kids = h[node].kids
    OBVIOUS
<1>2. PICK e : e = [field |-> field, node |-> held]
    OBVIOUS
<1>3. e.node = held
    BY <1>2
<1>4. /\ IsSequence(kids)
      /\ \A k \in DOMAIN kids :
            kids[k].node \in h[node].below /\ h[kids[k].node].kind \notin Jumping
    BY <1>1 DEF PlainKids
<1>5. PICK more : more = Append(kids, e)
    OBVIOUS
<1>6. /\ IsSequence(more) /\ Len(more) = Len(kids) + 1 /\ more[Len(kids) + 1] = e
      /\ \A k \in 1 .. Len(kids) : more[k] = kids[k]
    BY <1>4, <1>5, AppendFacts
<1>7. /\ Len(kids) \in Nat /\ DOMAIN kids = 1 .. Len(kids) /\ DOMAIN more = 1 .. Len(kids) + 1
    BY <1>4, <1>6, SequenceFacts
<1>8. /\ g[node].kids = more /\ g[node].kind = h[node].kind
      /\ \A n \in DOMAIN h \ {node} : g[n] = h[n]
      /\ \A n \in h[held].below : n \in g[node].below
    BY <1>1, <1>2, <1>5 DEF Grown
<1>9. \A n \in h[node].below : n \in g[node].below
    BY DEF Grown
<1>10. \A n \in DOMAIN h : g[n].kind = h[n].kind
    BY <1>8
<1>11. /\ held \in h[held].below /\ held \in DOMAIN h
       /\ \A n \in h[node].below : n \in DOMAIN h
    BY DEF Whole
<1>12. \A k \in DOMAIN more :
           more[k].node \in g[node].below /\ g[more[k].node].kind \notin Jumping
  <2>1. SUFFICES ASSUME NEW k \in DOMAIN more
                 PROVE  more[k].node \in g[node].below /\ g[more[k].node].kind \notin Jumping
      OBVIOUS
  <2>2. k \in 1 .. Len(kids) \/ k = Len(kids) + 1
      BY <1>7
  <2>. QED
      BY <1>3, <1>4, <1>6, <1>7, <1>8, <1>9, <1>10, <1>11, <2>2
<1>. QED
    BY <1>6, <1>8, <1>12 DEF PlainKids

LEMMA AppendItemJumps ==
    ASSUME Apt, CallsInv', AppendItem
    PROVE  Linked'
PROOF
<1>1. /\ Top.phase = "append" /\ UNCHANGED <<within, answer>>
      /\ heap' = Attach(heap, Top.node, "element", Top.held)
    BY DEF AppendItem, At, OnlyFrames, Otherwise, SameScopes
<1>2. /\ ~InStep(Top) /\ answer' = Null /\ Rule.form = "many" /\ Rule = Rules[Top.rule]
      /\ Top.node # Null /\ IsTraversed(heap[Top.node].kind, "element")
    BY <1>1, AsideAt, AptFacts, AptTree, FormOf DEF Waiting, KindFits, Apt
<1>3. /\ Top.rule # "break" /\ Top.rule \notin MayJump /\ Rule.of \in DOMAIN Rules
      /\ Top.rule \notin DOMAIN Listing
  <2>1. Top.rule \notin Jumpers /\ Rule.of \in DOMAIN Rules /\ Top.rule \notin DOMAIN Listing
      BY <1>2, AsideAt DEF JumpShape, RuleShape, Callable
  <2>2. Top.rule # "statement"
      BY <1>2, JumpsFit
  <2>. QED
      BY <2>1, <2>2 DEF MayJump, Jumpers
<1>4. HeadRight(heap, Top) /\ ListRight(heap, Top)
    BY AptFacts DEF FrameRight
<1>5. /\ heap[Top.node].kind \notin FunctionKinds \cup LoopKinds
      /\ heap[Top.node].kind \notin Jumping
    BY <1>2, <1>3, <1>4 DEF HeadRight
<1>6. \A x \in Own(Top) :
          Right(heap, x) /\ Whole(heap, x) /\ IsNode(heap[x]) /\ x \in Mine /\ x \in DOMAIN heap
    BY <1>2, <1>3, RootsRight, MineHas
<1>7. Top.held # Null => \A n \in heap[Top.held].below : n \notin heap[Top.node].below
    BY <1>2, AptTree DEF Roots, Own
<1>8. PICK h1 : h1 = Attach(heap, Top.node, "element", Top.held)
    OBVIOUS
<1>9. Addable(heap, Top.node, Top.held)
    BY <1>2, <1>5, <1>6, <1>7 DEF Addable, Own
<1>10. Grown(heap, h1, Top.node, "element", Top.held)
    BY <1>8, <1>9, JoinRight
<1>11. /\ Right(h1, Top.node) /\ h1[Top.node].kind = heap[Top.node].kind
       /\ \A n \in DOMAIN heap \ {Top.node} : h1[n] = heap[n]
       /\ Top.held = Null => h1 = heap
    BY <1>10 DEF Grown
<1>12. ASSUME Top.rule \in Listed PROVE PlainKids(h1, Top.node)
  <2>1. PlainKids(heap, Top.node) /\ (Top.held # Null => heap[Top.held].kind \notin Jumping)
      BY <1>2, <1>4, <1>12 DEF ListRight
  <2>2. CASE Top.held = Null
      BY <1>11, <2>1, <2>2
  <2>3. CASE Top.held # Null
    <3>1. Whole(heap, Top.node) /\ Whole(heap, Top.held)
        BY <1>2, <1>6, <2>3 DEF Own
    <3>. QED
        BY <1>2, <1>5, <1>7, <1>10, <2>1, <2>3, <3>1, PlainAppend
  <2>. QED
      BY <2>2, <2>3
<1>13. PICK f : /\ \/ frames' = WithLast(frames, f)
                   \/ frames' = Append(WithLast(frames, f), Frame(Rule.of))
                /\ f \in {[[Top EXCEPT !.held = Null] EXCEPT !.phase = "item"],
                          [[Top EXCEPT !.held = Null] EXCEPT !.phase = "close"]}
    BY DEF AppendItem, CallItem, Call, Goto
<1>14. /\ f.rule = Top.rule /\ f.node = Top.node /\ f.held = Null /\ f.phase \in {"item", "close"}
       /\ ~InStep(f) /\ ~InScope(f) /\ ~InLoop(f) /\ Own(f) = {Top.node}
  <2>1. f.rule = Top.rule /\ f.node = Top.node /\ f.held = Null /\ f.phase \in {"item", "close"}
    <3>1. CASE f = [[Top EXCEPT !.held = Null] EXCEPT !.phase = "item"]
        BY <3>1, AsideAt
    <3>2. CASE f = [[Top EXCEPT !.held = Null] EXCEPT !.phase = "close"]
        BY <3>2, AsideAt
    <3>. QED
        BY <1>13, <3>1, <3>2
  <2>2. ~InStep(f) /\ ~InScope(f) /\ ~InLoop(f)
      BY <2>1, AsideAt
  <2>. QED
      BY <1>2, <2>1, <2>2 DEF Own
<1>15. HeadRight(h1, f)
    BY <1>2, <1>5, <1>11, <1>14 DEF HeadRight
<1>16. ListRight(h1, f)
    BY <1>3, <1>12, <1>14 DEF ListRight
<1>17. FrameRight(h1, f, Here, Around)
    BY <1>2, <1>11, <1>14, <1>15, <1>16, AsideRight
<1>18. heap' = h1 /\ \A n \in DOMAIN heap \ Mine : h1[n] = heap[n]
    BY <1>1, <1>2, <1>6, <1>8, <1>11 DEF Own
<1>. QED
    BY <1>1, <1>2, <1>3, <1>13, <1>14, <1>17, <1>18, AsideJumps

-----------------------------------------------------------------------------
(* The node of a step, when only other nodes change and when it gets a     *)
(* tree without jumps. *)
NodeRight(h) ==
    FrameRight(h, Top, Here, Around) /\ Whole(h, Top.node) /\ IsNode(h[Top.node])

LEMMA StepStaysRight ==
    ASSUME Apt, InStep(Top), Top.node # Null, NEW g, \A n \in DOMAIN heap : n \in DOMAIN g /\ g[n] = heap[n]
    PROVE  NodeRight(g) /\ g[Top.node] = heap[Top.node]
PROOF
<1>1. /\ Whole(heap, Top.node) /\ IsNode(heap[Top.node]) /\ Top.node \in DOMAIN heap
      /\ \A x \in Own(Top) : Whole(heap, x)
    BY MineHas DEF Own
<1>2. \A x \in Own(Top) : \A n \in heap[x].below : n \in DOMAIN g /\ g[n] = heap[n]
    BY <1>1 DEF Whole
<1>3. \A x \in Own(Top) : Intact(heap, g, x) /\ Whole(g, x)
    BY <1>1, <1>2, StaysRight
<1>4. FrameRight(heap, Top, Here, Around)
    BY AptFacts
<1>5. FrameRight(g, Top, Here, Around)
    BY <1>1, <1>3, <1>4, IntactRight
<1>6. Top.node \in Own(Top)
    BY DEF Own
<1>. QED
    BY <1>1, <1>3, <1>5, <1>6 DEF NodeRight

\* Node kid is linked as the jumps in a field of the node under way are.
Hangs(h, kid, field) ==
    /\ \/ NoJumps(h, kid)
       \/ Tied(h, kid, IF h[Top.node].kind \in FunctionKinds THEN Top.node ELSE Here,
               IF h[Top.node].kind \in LoopKinds THEN Top.node ELSE Around, {})
    /\ Top.rule \in Evaluating => NoJumps(h, kid)
    /\ Top.rule \in DOMAIN Listing /\ field = Listing[Top.rule] =>
          IsTraversed(h[Top.node].kind, field) /\ PlainKids(h, kid)

LEMMA StepHangRight ==
    ASSUME Apt, InStep(Top), Top.node # Null, NEW h, NodeRight(h),
           NEW kid, kid # Null, Whole(h, kid), NEW field, Hangs(h, kid, field),
           \A n \in h[kid].below : n \notin h[Top.node].below
    PROVE  LET g == Attach(h, Top.node, field, kid)
           IN  /\ NodeRight(g) /\ DOMAIN g = DOMAIN h
               /\ \A n \in DOMAIN h \ {Top.node} : g[n] = h[n]
               /\ \A n \in g[Top.node].below : n \in h[Top.node].below \/ n \in h[kid].below
PROOF
<1>1. PICK g : g = Attach(h, Top.node, field, kid)
    OBVIOUS
<1>2. /\ FrameRight(h, Top, Here, Around) /\ Whole(h, Top.node) /\ IsNode(h[Top.node])
      /\ Top.node \in DOMAIN h /\ h[Top.node].below \cap h[kid].below = {}
    BY DEF NodeRight, Whole
<1>3. /\ Joined(h, g, Top.node, kid) /\ IsNode(g[Top.node])
      /\ g[Top.node].kids = Append(h[Top.node].kids, [field |-> field, node |-> kid])
  <2>1. PICK node : node = Top.node
      OBVIOUS
  <2>2. node \in DOMAIN h /\ IsNode(h[node])
      BY <1>2, <2>1
  <2>3. /\ Joined(h, g, node, kid) /\ IsNode(g[node])
        /\ g[node].kids = Append(h[node].kids, [field |-> field, node |-> kid])
      BY <1>1, <2>1, <2>2, AttachJoined
  <2>. QED
      BY <2>1, <2>3
<1>12. IsTraversed(h[Top.node].kind, field) => \A n \in h[kid].below : n \in g[Top.node].below
  <2>1. /\ Top.node \in DOMAIN h /\ IsNode(h[Top.node])
        /\ g = [h EXCEPT ![Top.node].kids = Append(@, [field |-> field, node |-> kid]),
                         ![Top.node].below = IF IsTraversed(h[Top.node].kind, field)
                                             THEN @ \cup h[kid].below ELSE @]
      BY <1>1, <1>2 DEF Attach
  <2>2. IsTraversed(h[Top.node].kind, field) => g[Top.node].below = h[Top.node].below \cup h[kid].below
      BY <2>1 DEF IsNode
  <2>. QED
      BY <2>2
<1>4. /\ Rooted(h, Top.node) => Rooted(g, Top.node)
      /\ NoJumps(h, Top.node) /\ NoJumps(h, kid) => NoJumps(g, Top.node)
      /\ Whole(g, Top.node)
    BY <1>2, <1>3, JoinedRest
<1>5. /\ Own(Top) = {Top.node} /\ Top.rule \in DOMAIN Rules /\ Top.rule \notin Listed
  <2>1. Top.held = Null
      BY AsideAt DEF InStep
  <2>2. Rule.form \in Stepping /\ Rule = Rules[Top.rule]
      BY AptFacts, AsideAt DEF Fine, InStep, Rule
  <2>. QED
      BY <2>1, <2>2, AsideAt, AptFacts DEF Own, JumpShape, Stepping
<1>6. HeadRight(g, Top)
    BY <1>2, <1>3 DEF FrameRight, HeadRight, Joined
<1>7. ListRight(g, Top)
  <2>1. SUFFICES ASSUME Top.rule \in DOMAIN Listing
                 PROVE  /\ IsSequence(g[Top.node].kids)
                        /\ \A k \in DOMAIN g[Top.node].kids :
                              g[Top.node].kids[k].field = Listing[Top.rule] =>
                                 /\ g[Top.node].kids[k].node \in g[Top.node].below \ {Top.node}
                                 /\ PlainKids(g, g[Top.node].kids[k].node)
      BY <1>5 DEF ListRight
  <2>2. PICK kids : kids = h[Top.node].kids
      OBVIOUS
  <2>3. PICK e : e = [field |-> field, node |-> kid]
      OBVIOUS
  <2>4. /\ IsSequence(kids)
        /\ \A k \in DOMAIN kids : kids[k].field = Listing[Top.rule] =>
              kids[k].node \in h[Top.node].below \ {Top.node} /\ PlainKids(h, kids[k].node)
      BY <1>2, <2>1, <2>2 DEF FrameRight, ListRight
  <2>5. PICK more : more = Append(kids, e)
      OBVIOUS
  <2>6. /\ IsSequence(more) /\ Len(more) = Len(kids) + 1 /\ more[Len(kids) + 1] = e
        /\ \A k \in 1 .. Len(kids) : more[k] = kids[k]
      BY <2>4, <2>5, AppendFacts
  <2>7. /\ Len(kids) \in Nat /\ DOMAIN kids = 1 .. Len(kids) /\ DOMAIN more = 1 .. Len(kids) + 1
      BY <2>4, <2>6, SequenceFacts
  <2>8. e.field = field /\ e.node = kid /\ g[Top.node].kids = more
      BY <1>3, <2>1, <2>2, <2>3, <2>5
  <2>9. ASSUME NEW k \in DOMAIN more, more[k].field = Listing[Top.rule]
        PROVE  /\ more[k].node \in g[Top.node].below \ {Top.node}
               /\ PlainKids(g, more[k].node)
    <3>1. PICK y : y = more[k].node
        OBVIOUS
    <3>2. CASE k = Len(kids) + 1
      <4>1. y = kid /\ IsTraversed(h[Top.node].kind, field) /\ PlainKids(h, kid)
          BY <2>1, <2>6, <2>8, <2>9, <3>1, <3>2 DEF Hangs
      <4>2. \A n \in h[kid].below : n \in g[Top.node].below
          BY <1>12, <4>1
      <4>3. \A n \in h[kid].below : n \in DOMAIN h /\ n # Top.node /\ g[n] = h[n]
          BY <1>2, <1>3 DEF Whole, Joined
      <4>4. kid \in h[kid].below /\ g[kid] = h[kid]
          BY <4>3 DEF Whole
      <4>5. PlainKids(g, kid)
          BY <4>1, <4>3, <4>4 DEF PlainKids
      <4>. QED
          BY <3>1, <4>1, <4>2, <4>3, <4>4, <4>5
    <3>3. CASE k \in 1 .. Len(kids)
      <4>1. y \in h[Top.node].below \ {Top.node} /\ PlainKids(h, y)
          BY <2>4, <2>6, <2>7, <2>9, <3>1, <3>3
      <4>2. \A n \in h[Top.node].below : n \in g[Top.node].below
          BY <1>3 DEF Joined
      <4>3. /\ y \in DOMAIN h /\ g[y] = h[y]
            /\ \A n \in h[y].below : n \in DOMAIN h /\ g[n].kind = h[n].kind
          BY <1>2, <1>3, <4>1 DEF Whole, Joined
      <4>4. PlainKids(g, y)
          BY <4>1, <4>3 DEF PlainKids
      <4>. QED
          BY <3>1, <4>1, <4>2, <4>4
    <3>. QED
        BY <2>7, <3>2, <3>3
  <2>. QED
      BY <2>6, <2>8, <2>9
<1>8. PICK out : out = IF Unsettled(Top) THEN {Top.node} ELSE {}
    OBVIOUS
<1>9. /\ Top.rule \in Evaluating => NoJumps(h, Top.node)
      /\ Tied(h, Top.node, Here, Around, out)
      /\ Unsettled(Top) => Rooted(h, Top.node)
    BY <1>2, <1>5, <1>8 DEF FrameRight
<1>10. Tied(g, Top.node, Here, Around, out)
    BY <1>2, <1>3, <1>8, <1>9, JoinedTied DEF Hangs
<1>13. Top.rule \in Evaluating => NoJumps(g, Top.node)
    BY <1>4, <1>9 DEF Hangs
<1>11. FrameRight(g, Top, Here, Around)
    BY <1>13, <1>4, <1>5, <1>6, <1>7, <1>8, <1>9, <1>10 DEF FrameRight
<1>. QED
    BY <1>1, <1>3, <1>4, <1>11 DEF NodeRight, Joined

LEMMA StepAttachRight ==
    ASSUME Apt, InStep(Top), Top.node # Null, NEW h, NodeRight(h),
           NEW kid, kid # Null, Whole(h, kid), NoJumps(h, kid),
           \A n \in h[kid].below : n \notin h[Top.node].below,
           NEW field, Top.rule \in DOMAIN Listing => field # Listing[Top.rule]
    PROVE  LET g == Attach(h, Top.node, field, kid)
           IN  /\ NodeRight(g) /\ DOMAIN g = DOMAIN h
               /\ \A n \in DOMAIN h \ {Top.node} : g[n] = h[n]
               /\ \A n \in g[Top.node].below : n \in h[Top.node].below \/ n \in h[kid].below
PROOF
<1>1. Hangs(h, kid, field)
    BY DEF Hangs
<1>. QED
    BY <1>1, StepHangRight

LEMMA StepRoot ==
    ASSUME Apt, InStep(Top), Rules[Top.rule].form # "scoped"
    PROVE  /\ Top.node # Null /\ Top.node \in Mine /\ Top.node \in DOMAIN heap
           /\ Whole(heap, Top.node) /\ IsNode(heap[Top.node])
           /\ FrameRight(heap, Top, Here, Around)
           /\ Top.held = Null /\ Own(Top) = {Top.node}
           /\ Rule = Rules[Top.rule] /\ Rule.form \in Stepping
           /\ Step = StepsOf(Top.rule)[Top.at] /\ JumpStep(Top.rule, Top.at)
           /\ Top.at + 1 \in After(Top.rule, Top.at)
PROOF
<1>1. Top.at + 1 \in After(Top.rule, Top.at)
    BY DEF After
<1>2. /\ Step = StepsOf(Top.rule)[Top.at] /\ JumpStep(Top.rule, Top.at) /\ Top.held = Null
      /\ Rules[Top.rule].form \in Stepping
    BY <1>1, OnwardFrame
<1>3. Top.node # Null /\ FrameRight(heap, Top, Here, Around)
    BY AptFacts DEF Fine, InStep
<1>. QED
    BY <1>1, <1>2, <1>3, MineHas DEF Own, Rule

(* The bounds of a range and the variable of a for loop are no jumps. *)
LEMMA DefaultRangeJumps ==
    ASSUME Apt, CallsInv', DefaultRange
    PROVE  Linked'
PROOF
<1>1. /\ Top.phase = "steps" /\ Step.do = "range" /\ UNCHANGED <<within, answer>>
      /\ frames' = WithLast(frames, Onward(Top, Top.at + 1))
    BY DEF DefaultRange, AtStep, At, OnlyFrames, Otherwise, SameScopes, Goto, NextStep
<1>2. InStep(Top) /\ answer' = Null /\ Rules[Top.rule].form # "scoped" /\ Top.rule # "break"
  <2>1. InStep(Top) /\ answer' = Null
      BY <1>1, AptFacts DEF InStep, Waiting
  <2>2. Top.at + 1 \in After(Top.rule, Top.at)
      BY DEF After
  <2>3. StepShape(Top.rule, Top.at) /\ JumpStep(Top.rule, Top.at) /\ Step = StepsOf(Top.rule)[Top.at]
      BY <2>1, <2>2, OnwardFrame
  <2>. QED
      BY <1>1, <2>1, <2>3, JumpsFit DEF StepShape, JumpStep, Jumpers
<1>3. /\ Top.node # Null /\ Top.node \in Mine /\ Top.node \in DOMAIN heap
      /\ Whole(heap, Top.node) /\ Top.at + 1 \in After(Top.rule, Top.at)
    BY <1>2, StepRoot
<1>4. PICK i, j : i = created + 1 /\ j = i + 1
    OBVIOUS
<1>5. i \notin DOMAIN heap /\ j \notin DOMAIN heap /\ i # j /\ i # Null /\ j # Null
  <2>1. created \in Nat
      BY AtTop DEF Apt
  <2>2. j = created + 2
      BY <1>4, <2>1
  <2>. QED
      BY <1>4, <2>1, <2>2, AptTree
<1>6. PICK h1 : h1 = Create(heap, i, "Literal", "1")
    OBVIOUS
<1>7. PICK h2 : h2 = Create(h1, j, "Literal", "1")
    OBVIOUS
<1>8. PICK h3 : h3 = Attach(h2, Top.node, "start", i)
    OBVIOUS
<1>9. PICK h4 : h4 = Attach(h3, Top.node, "stepsize", j)
    OBVIOUS
<1>10. heap' = h4
    BY <1>4, <1>6, <1>7, <1>8, <1>9 DEF DefaultRange
<1>11. Made(heap, h1, i, "Literal")
    BY <1>6, CreateRight DEF Jumping
<1>12. Made(h1, h2, j, "Literal")
    BY <1>7, CreateRight DEF Jumping
<1>13. /\ Whole(h1, i) /\ NoJumps(h1, i) /\ (\A n \in h1[i].below : n = i)
       /\ DOMAIN h1 = DOMAIN heap \cup {i} /\ \A n \in DOMAIN heap : h1[n] = heap[n]
    BY <1>5, <1>11 DEF Made
<1>14. /\ Whole(h2, j) /\ NoJumps(h2, j) /\ (\A n \in h2[j].below : n = j)
       /\ DOMAIN h2 = DOMAIN h1 \cup {j} /\ \A n \in DOMAIN h1 : h2[n] = h1[n]
    BY <1>5, <1>12, <1>13 DEF Made
<1>15. Whole(h2, i) /\ NoJumps(h2, i) /\ (\A n \in h2[i].below : n = i)
  <2>1. \A n \in h1[i].below : n \in DOMAIN h2 /\ h2[n] = h1[n]
      BY <1>13, <1>14 DEF Whole
  <2>. QED
      BY <1>13, <2>1, StaysRight
<1>16. NodeRight(h2) /\ h2[Top.node] = heap[Top.node]
  <2>1. \A n \in DOMAIN heap : n \in DOMAIN h2 /\ h2[n] = heap[n]
      BY <1>13, <1>14
  <2>. QED
      BY <1>2, <1>3, <2>1, StepStaysRight
<1>17. i \notin h2[Top.node].below /\ j \notin h2[Top.node].below
    BY <1>3, <1>5, <1>16 DEF Whole
<1>18. Top.rule \in DOMAIN Listing => "start" # Listing[Top.rule] /\ "stepsize" # Listing[Top.rule]
    BY DEF Listing
<1>19. /\ NodeRight(h3) /\ DOMAIN h3 = DOMAIN h2
       /\ \A n \in DOMAIN h2 \ {Top.node} : h3[n] = h2[n]
       /\ \A n \in h3[Top.node].below : n \in h2[Top.node].below \/ n = i
    BY <1>2, <1>3, <1>5, <1>8, <1>15, <1>16, <1>17, <1>18, StepAttachRight
<1>20. Whole(h3, j) /\ NoJumps(h3, j) /\ (\A n \in h3[j].below : n = j)
  <2>1. Top.node # j
      BY <1>3, <1>5
  <2>2. \A n \in h2[j].below : n \in DOMAIN h3 /\ h3[n] = h2[n]
      BY <1>14, <1>19, <2>1 DEF Whole
  <2>. QED
      BY <1>14, <2>2, StaysRight
<1>21. j \notin h3[Top.node].below
    BY <1>5, <1>17, <1>19
<1>22. /\ NodeRight(h4) /\ \A n \in DOMAIN h3 \ {Top.node} : h4[n] = h3[n]
    BY <1>2, <1>3, <1>5, <1>9, <1>18, <1>19, <1>20, <1>21, StepAttachRight
<1>23. \A n \in DOMAIN heap \ Mine : heap'[n] = heap[n]
    BY <1>3, <1>10, <1>13, <1>14, <1>19, <1>22
<1>24. FrameRight(heap', Top, Here, Around)
    BY <1>10, <1>22 DEF NodeRight
<1>. QED
    BY <1>1, <1>2, <1>3, <1>23, <1>24, OnJumps DEF LinkSteps

LEMMA IteratorJumps ==
    ASSUME Apt, CallsInv', Iterator
    PROVE  Linked'
PROOF
<1>1. /\ Top.phase = "steps" /\ Step.do = "iterator" /\ UNCHANGED <<within, answer>>
      /\ frames' = WithLast(frames, Onward(Top, Top.at + 1))
    BY DEF Iterator, AtStep, At, Goto, NextStep
<1>2. InStep(Top) /\ answer' = Null /\ Rules[Top.rule].form # "scoped" /\ Top.rule # "break"
  <2>1. InStep(Top) /\ answer' = Null
      BY <1>1, AptFacts DEF InStep, Waiting
  <2>2. Top.at + 1 \in After(Top.rule, Top.at)
      BY DEF After
  <2>3. StepShape(Top.rule, Top.at) /\ JumpStep(Top.rule, Top.at) /\ Step = StepsOf(Top.rule)[Top.at]
      BY <2>1, <2>2, OnwardFrame
  <2>. QED
      BY <1>1, <2>1, <2>3 DEF StepShape, JumpStep
<1>3. /\ Top.node # Null /\ Top.node \in Mine /\ Top.node \in DOMAIN heap
      /\ Whole(heap, Top.node) /\ Top.at + 1 \in After(Top.rule, Top.at)
    BY <1>2, StepRoot
<1>4. PICK i, j, k : i = created + 1 /\ j = i + 1 /\ k = i + 2
    OBVIOUS
<1>5. /\ i \notin DOMAIN heap /\ j \notin DOMAIN heap /\ k \notin DOMAIN heap
      /\ i # j /\ i # k /\ j # k /\ i # Null /\ j # Null /\ k # Null
  <2>1. created \in Nat
      BY AtTop DEF Apt
  <2>2. j = created + 2 /\ k = created + 3
      BY <1>4, <2>1
  <2>. QED
      BY <1>4, <2>1, <2>2, AptTree
<1>6. PICK h1 : h1 = Create(heap, i, "Variable", heap[Top.node].text)
    OBVIOUS
<1>7. PICK h2 : h2 = Create(h1, j, "Type", "Integer")
    OBVIOUS
<1>8. PICK h3 : h3 = Attach(h2, i, "type", j)
    OBVIOUS
<1>9. PICK h4 : h4 = Create(h3, k, "Literal", "0")
    OBVIOUS
<1>10. PICK h5 : h5 = Attach(h4, i, "value", k)
    OBVIOUS
<1>11. PICK h6 : h6 = [h5 EXCEPT ![Top.node].text = "for"]
    OBVIOUS
<1>12. PICK h7 : h7 = Attach(h6, Top.node, "identifier", i)
    OBVIOUS
<1>13. heap' = h7
    BY <1>4, <1>6, <1>7, <1>8, <1>9, <1>10, <1>11, <1>12 DEF Iterator
<1>14. Made(heap, h1, i, "Variable")
    BY <1>6, CreateRight DEF Jumping
<1>15. /\ Whole(h1, i) /\ NoJumps(h1, i) /\ Right(h1, i) /\ IsNode(h1[i]) /\ h1[i].kind = "Variable"
       /\ (\A n \in h1[i].below : n = i)
       /\ DOMAIN h1 = DOMAIN heap \cup {i} /\ \A n \in DOMAIN heap : h1[n] = heap[n]
    BY <1>5, <1>14 DEF Made
<1>16. Made(h1, h2, j, "Type")
    BY <1>7, CreateRight DEF Jumping
<1>17. /\ Whole(h2, j) /\ NoJumps(h2, j) /\ Right(h2, j) /\ (\A n \in h2[j].below : n = j)
       /\ DOMAIN h2 = DOMAIN h1 \cup {j} /\ \A n \in DOMAIN h1 : h2[n] = h1[n]
    BY <1>5, <1>15, <1>16 DEF Made
<1>18. Whole(h2, i) /\ NoJumps(h2, i) /\ Right(h2, i) /\ h2[i] = h1[i]
  <2>1. \A n \in h1[i].below : n \in DOMAIN h2 /\ h2[n] = h1[n]
      BY <1>15, <1>17 DEF Whole
  <2>. QED
      BY <1>15, <2>1, StaysRight
<1>19. Addable(h2, i, j)
    BY <1>5, <1>15, <1>17, <1>18 DEF Addable, FunctionKinds, LoopKinds
<1>20. Grown(h2, h3, i, "type", j)
    BY <1>8, <1>19, JoinRight
<1>21. /\ Whole(h3, i) /\ NoJumps(h3, i) /\ Right(h3, i) /\ IsNode(h3[i]) /\ h3[i].kind = "Variable"
       /\ (\A n \in h3[i].below : n = i \/ n = j)
       /\ DOMAIN h3 = DOMAIN h2 /\ \A n \in DOMAIN h2 \ {i} : h3[n] = h2[n]
    BY <1>15, <1>17, <1>18, <1>20 DEF Grown
<1>22. Made(h3, h4, k, "Literal")
    BY <1>9, CreateRight DEF Jumping
<1>23. /\ Whole(h4, k) /\ NoJumps(h4, k) /\ Right(h4, k) /\ (\A n \in h4[k].below : n = k)
       /\ DOMAIN h4 = DOMAIN h3 \cup {k} /\ \A n \in DOMAIN h3 : h4[n] = h3[n]
    BY <1>5, <1>15, <1>17, <1>21, <1>22 DEF Made
<1>24. Whole(h4, i) /\ NoJumps(h4, i) /\ Right(h4, i) /\ h4[i] = h3[i]
  <2>1. \A n \in h3[i].below : n \in DOMAIN h4 /\ h4[n] = h3[n]
      BY <1>21, <1>23 DEF Whole
  <2>. QED
      BY <1>21, <2>1, StaysRight
<1>25. Addable(h4, i, k)
    BY <1>5, <1>21, <1>23, <1>24 DEF Addable, FunctionKinds, LoopKinds
<1>26. Grown(h4, h5, i, "value", k)
    BY <1>10, <1>25, JoinRight
<1>27. /\ Whole(h5, i) /\ NoJumps(h5, i) /\ (\A n \in h5[i].below : n \in {i, j, k})
       /\ DOMAIN h5 = DOMAIN h4 /\ \A n \in DOMAIN h4 \ {i} : h5[n] = h4[n]
    BY <1>21, <1>23, <1>24, <1>26 DEF Grown
<1>28. /\ \A n \in DOMAIN heap : n \in DOMAIN h5 /\ h5[n] = heap[n]
    BY <1>5, <1>15, <1>17, <1>21, <1>23, <1>27
<1>29. NodeRight(h5) /\ h5[Top.node] = heap[Top.node]
    BY <1>2, <1>3, <1>28, StepStaysRight
<1>30. /\ DOMAIN h6 = DOMAIN h5 /\ \A n \in DOMAIN h5 \ {Top.node} : h6[n] = h5[n]
       /\ h6[Top.node] = [h5[Top.node] EXCEPT !.text = "for"]
    BY <1>3, <1>11, <1>28
<1>31. /\ h6[Top.node].kind = h5[Top.node].kind /\ h6[Top.node].below = h5[Top.node].below
       /\ h6[Top.node].kids = h5[Top.node].kids /\ h6[Top.node].link = h5[Top.node].link
       /\ IsNode(h6[Top.node])
    BY <1>29, <1>30 DEF NodeRight, IsNode
<1>32. \A n \in DOMAIN h5 : /\ h6[n].kind = h5[n].kind /\ h6[n].below = h5[n].below
                            /\ h6[n].kids = h5[n].kids /\ h6[n].link = h5[n].link
    BY <1>30, <1>31
<1>33. Whole(h5, Top.node) /\ Own(Top) = {Top.node} /\ FrameRight(h5, Top, Here, Around)
    BY <1>2, <1>29, StepRoot DEF NodeRight
<1>34. Intact(h5, h6, Top.node) /\ Whole(h6, Top.node)
    BY <1>30, <1>32, <1>33 DEF Intact, Whole
<1>35. FrameRight(h6, Top, Here, Around)
    BY <1>33, <1>34, IntactRight
<1>36. NodeRight(h6)
    BY <1>31, <1>34, <1>35 DEF NodeRight
<1>37. Whole(h6, i) /\ NoJumps(h6, i) /\ h6[i] = h5[i]
  <2>1. \A n \in h5[i].below : n \in DOMAIN h6 /\ h6[n] = h5[n]
      BY <1>3, <1>5, <1>27, <1>30 DEF Whole
  <2>. QED
      BY <1>27, <2>1, StaysRight
<1>38. \A n \in h6[i].below : n \notin h6[Top.node].below
    BY <1>3, <1>5, <1>27, <1>29, <1>31, <1>37 DEF Whole
<1>39. Top.rule \in DOMAIN Listing => "identifier" # Listing[Top.rule]
    BY DEF Listing
<1>40. /\ NodeRight(h7) /\ \A n \in DOMAIN h6 \ {Top.node} : h7[n] = h6[n]
    BY <1>2, <1>3, <1>5, <1>12, <1>36, <1>37, <1>38, <1>39, StepAttachRight
<1>41. \A n \in DOMAIN heap \ Mine : heap'[n] = heap[n]
    BY <1>3, <1>13, <1>28, <1>30, <1>40
<1>42. FrameRight(heap', Top, Here, Around)
    BY <1>13, <1>40 DEF NodeRight
<1>. QED
    BY <1>1, <1>2, <1>3, <1>41, <1>42, OnJumps DEF LinkSteps

LEMMA DefineJumps ==
    ASSUME Apt, CallsInv', Define
    PROVE  Linked'
PROOF
<1>1. /\ Top.phase = "define" /\ heap' = [heap EXCEPT ![Top.node].note = Top.text]
      /\ frames' = WithLast(frames, Done(Top.node)) /\ UNCHANGED <<answer, within>>
    BY DEF Define, At, Goto
<1>2. /\ ~InStep(Top) /\ ~InScope(Top) /\ ~InLoop(Top) /\ Top.held = Null /\ answer' = Null
      /\ Rule.form = "definition" /\ Rule = Rules[Top.rule]
    BY <1>1, AsideAt, FormOf, AptFacts DEF Waiting, Apt
<1>3. Top.rule # "break"
    BY <1>2, AsideAt DEF JumpShape, Jumpers
<1>4. PICK h : h = heap'
    OBVIOUS
<1>5. Altered(heap, h)
    BY <1>1, <1>4, Alterations
<1>6. FrameRight(h, Top, Here, Around)
    BY <1>5, AlteredRight
<1>7. PICK f : f = Done(Top.node)
    OBVIOUS
<1>8. /\ f.rule = Top.rule /\ f.node = Top.node /\ f.held = Null /\ f.phase = "done"
      /\ ~InStep(f) /\ ~InScope(f) /\ ~InLoop(f)
    BY <1>7, AsideAt
<1>9. FrameRight(h, f, Here, Around)
    BY <1>2, <1>6, <1>8, FrameMoves DEF Unlinked
<1>10. \A n \in DOMAIN heap \ Mine : h[n] = heap[n]
    BY <1>5 DEF Altered
<1>. QED
    BY <1>1, <1>2, <1>3, <1>4, <1>7, <1>8, <1>9, <1>10, GotoJumps DEF Abides

\* Node id of heap g is new, around node kid, in a rule that makes no jumps.
BuiltAround(h, g, id, kind, kid) ==
    /\ Right(g, id) /\ Whole(g, id) /\ IsNode(g[id]) /\ g[id].kind = kind
    /\ (\A n \in g[id].below : n = id \/ (kid # Null /\ n \in h[kid].below))
    /\ DOMAIN g = DOMAIN h \cup {id} /\ \A n \in DOMAIN h : g[n] = h[n]
    /\ (kid # Null => NoJumps(h, kid)) => NoJumps(g, id)

LEMMA AroundRight ==
    ASSUME NEW h, NEW id, id \notin DOMAIN h,
           NEW kind, kind \notin Jumping \cup FunctionKinds \cup LoopKinds, NEW text,
           NEW kid, kid # Null => Whole(h, kid) /\ Right(h, kid),
           NEW h1, h1 = Create(h, id, kind, text), NEW g, NEW field, g = Attach(h1, id, field, kid)
    PROVE  BuiltAround(h, g, id, kind, kid)
PROOF
<1>1. Made(h, h1, id, kind)
    BY CreateRight
<1>2. /\ Right(h1, id) /\ Whole(h1, id) /\ NoJumps(h1, id) /\ IsNode(h1[id]) /\ h1[id].kind = kind
      /\ (\A n \in h1[id].below : n = id) /\ DOMAIN h1 = DOMAIN h \cup {id}
      /\ \A n \in DOMAIN h : h1[n] = h[n]
    BY <1>1 DEF Made
<1>3. ASSUME kid # Null
      PROVE  /\ Whole(h1, kid) /\ Right(h1, kid) /\ h1[kid] = h[kid] /\ id \notin h1[kid].below
             /\ NoJumps(h, kid) => NoJumps(h1, kid)
  <2>1. \A n \in h[kid].below : n \in DOMAIN h1 /\ h1[n] = h[n] /\ n # id
      BY <1>2, <1>3 DEF Whole
  <2>. QED
      BY <1>3, <2>1, StaysRight
<1>4. Addable(h1, id, kid)
    BY <1>2, <1>3 DEF Addable
<1>5. Grown(h1, g, id, field, kid)
    BY <1>4, JoinRight
<1>. QED
    BY <1>2, <1>3, <1>5 DEF Grown, BuiltAround

BuiltPair(h, g, id, kind) ==
    /\ Right(g, id) /\ Whole(g, id) /\ g[id].kind = kind
    /\ \A n \in DOMAIN h : n \in DOMAIN g /\ g[n] = h[n]

(* A new node with two others below it. *)
LEMMA PairRight ==
    ASSUME NEW h, NEW id, id \notin DOMAIN h,
           NEW kind, kind \notin Jumping \cup FunctionKinds \cup LoopKinds, NEW text,
           NEW a, a # Null => Whole(h, a) /\ Right(h, a),
           NEW b, b # Null => Whole(h, b) /\ Right(h, b),
           a # Null /\ b # Null => \A n \in h[b].below : n \notin h[a].below,
           NEW h1, h1 = Create(h, id, kind, text),
           NEW h2, NEW one, h2 = Attach(h1, id, one, a),
           NEW h3, NEW two, h3 = Attach(h2, id, two, b)
    PROVE  BuiltPair(h, h3, id, kind)
PROOF
<1>1. BuiltAround(h, h2, id, kind, a)
    BY AroundRight
<1>2. /\ Right(h2, id) /\ Whole(h2, id) /\ IsNode(h2[id]) /\ h2[id].kind = kind
      /\ (\A n \in h2[id].below : n = id \/ (a # Null /\ n \in h[a].below))
      /\ \A n \in DOMAIN h : n \in DOMAIN h2 /\ h2[n] = h[n]
    BY <1>1 DEF BuiltAround
<1>3. ASSUME b # Null
      PROVE  Whole(h2, b) /\ Right(h2, b) /\ \A n \in h2[b].below : n \notin h2[id].below
  <2>1. \A n \in h[b].below : n \in DOMAIN h2 /\ h2[n] = h[n] /\ n # id
      BY <1>2, <1>3 DEF Whole
  <2>2. Whole(h2, b) /\ Right(h2, b) /\ h2[b] = h[b]
      BY <1>3, <2>1, StaysRight
  <2>. QED
      BY <1>2, <1>3, <2>1, <2>2
<1>4. Addable(h2, id, b)
    BY <1>2, <1>3 DEF Addable
<1>5. Grown(h2, h3, id, two, b)
    BY <1>4, JoinRight
<1>. QED
    BY <1>2, <1>5 DEF Grown, BuiltPair

(* The first step of a rule. *)
LEMMA OnwardFirst ==
    ASSUME Apt, ~InStep(Top), Rule.form \in {"construct", "suffix", "wrap"},
           NEW g, DOMAIN g = DOMAIN Top, g.rule = Top.rule, g.held = Null, g.calm = Top.calm,
           g.text = Top.text, g.node \in Nat, g.node # Null, NEW f, f = Onward(g, 1)
    PROVE  /\ Fine(f) /\ f.rule = Top.rule /\ f.node = g.node /\ f.phase \in {"steps", "done"}
           /\ ~InScope(f) /\ ~InLoop(f)
PROOF
<1>1. PICK t : t = Top
    OBVIOUS
<1>2. /\ Fine(t) /\ ~InStep(t) /\ RuleShape(t.rule)
      /\ Rules[t.rule].form \in {"construct", "suffix", "wrap"}
      /\ DOMAIN g = DOMAIN t /\ g.rule = t.rule /\ g.calm = t.calm /\ g.text = t.text
    BY <1>1, AptFacts, AsideAt
<1>3. LET u == Onward(g, 1)
      IN  /\ Fine(u) /\ u.rule = t.rule /\ u.phase \in {"steps", "done"} /\ u.node = g.node
          /\ ~InScope(u) /\ ~InLoop(u)
    BY <1>2, FirstFine
<1>. QED
    BY <1>1, <1>3

(* A wrap or a suffix makes a node around a value, or in its place. *)
LEMMA WrapJumps ==
    ASSUME Apt, CallsInv', ~InStep(Top), Rule.form \in {"wrap", "suffix"},
           NEW g, DOMAIN g = DOMAIN Top, g.rule = Top.rule, g.held = Null, g.calm = Top.calm,
           g.text = Top.text, NEW id \in Nat \ {Null}, g.node = id,
           frames' = WithLast(frames, Onward(g, 1)),
           NEW h, heap' = h, h[id].kind = Rule.kind, Right(h, id),
           \A n \in DOMAIN heap \ Mine : h[n] = heap[n], answer' = Null, UNCHANGED within
    PROVE  Linked'
PROOF
<1>1. Rule = Rules[Top.rule] /\ JumpShape(Top.rule)
    BY AsideAt
<1>2. PICK f : f = Onward(g, 1)
    OBVIOUS
<1>3. /\ Fine(f) /\ f.rule = Top.rule /\ f.node = id /\ ~InScope(f) /\ ~InLoop(f)
      /\ f.phase \in {"steps", "done"}
    BY <1>1, <1>2, OnwardFirst
<1>4. f.held = Null
    BY <1>1, <1>3 DEF Fine
<1>5. HeadRight(h, f) /\ ListRight(h, f)
    BY <1>1, <1>3, <1>4 DEF HeadRight, ListRight, JumpShape, Making, MayJump
<1>6. \A x \in Own(f) : Right(h, x)
    BY <1>3, <1>4 DEF Own
<1>7. FrameRight(h, f, Here, Around)
    BY <1>1, <1>3, <1>5, <1>6, AsideRight DEF Stepping
<1>. QED
    BY <1>1, <1>2, <1>3, <1>7, AsideJumps

LEMMA TakeFirstJumps ==
    ASSUME Apt, CallsInv', TakeFirst
    PROVE  Linked'
PROOF
<1>1. /\ Top.phase = "first" /\ answer' = Null /\ UNCHANGED within
    BY DEF TakeFirst, At, Taking, Otherwise, SameScopes
<1>2. /\ ~InStep(Top) /\ Rule.form = "wrap" /\ Rule = Rules[Top.rule] /\ JumpShape(Top.rule)
      /\ Top.node = Null /\ Top.held = Null
    BY <1>1, AsideAt, FormOf DEF Apt, Bare
<1>3. CASE answer = Null
  <2>1. frames' = WithLast(frames, Done(Null)) /\ UNCHANGED heap
      BY <1>3 DEF TakeFirst, Goto, SameTree
  <2>. QED
      BY <1>1, <1>2, <2>1, AsideAt, EmptyJumps
<1>4. ASSUME answer # Null
      PROVE  Linked'
  <2>1. PICK id : id = created + 1
      OBVIOUS
  <2>2. id \notin DOMAIN heap /\ id # Null /\ id \in Nat
      BY <2>1, AptTree, AtTop DEF Apt
  <2>3. PICK g : g = [Top EXCEPT !.node = id]
      OBVIOUS
  <2>8. /\ DOMAIN g = DOMAIN Top /\ g.rule = Top.rule /\ g.held = Null /\ g.calm = Top.calm
        /\ g.text = Top.text /\ g.node = id /\ frames' = WithLast(frames, Onward(g, 1))
      BY <1>2, <1>4, <2>1, <2>3, AsideAt DEF TakeFirst, Goto
  <2>4. /\ Rule.kind \notin Jumping \cup FunctionKinds \cup LoopKinds /\ Top.rule # "break"
      BY <1>2 DEF JumpShape, Making, Jumpers
  <2>5. Right(heap, answer) /\ Whole(heap, answer) /\ answer \in DOMAIN heap
      BY <1>2, <1>4, <2>4, RootsRight, AnswerFits DEF Whole
  <2>6. ASSUME heap' = Create(Free(heap, answer), id, "Type", heap[answer].text), Rule.kind = "Type"
        PROVE  Linked'
    <3>1. PICK h1 : h1 = Free(heap, answer)
        OBVIOUS
    <3>2. PICK h2 : h2 = Create(h1, id, "Type", heap[answer].text)
        OBVIOUS
    <3>3. DOMAIN h1 = DOMAIN heap \ heap[answer].below /\ \A n \in DOMAIN h1 : h1[n] = heap[n]
        BY <3>1 DEF Free
    <3>4. Made(h1, h2, id, "Type")
        BY <3>2, CreateRight DEF Jumping
    <3>5. /\ Right(h2, id) /\ h2[id].kind = "Type"
          /\ \A n \in DOMAIN h1 : h2[n] = h1[n]
        BY <2>2, <3>3, <3>4 DEF Made
    <3>6. \A n \in DOMAIN heap \ Mine : h2[n] = heap[n]
        BY <1>4, <3>3, <3>5 DEF Mine, Roots
    <3>. QED
        BY <1>1, <1>2, <2>2, <2>6, <2>8, <3>1, <3>2, <3>5, <3>6, WrapJumps
  <2>7. ASSUME heap' = Attach(Create(heap, id, Rule.kind, "none"), id, Rule.field, answer)
        PROVE  Linked'
    <3>1. PICK h1 : h1 = Create(heap, id, Rule.kind, "none")
        OBVIOUS
    <3>2. PICK h2 : h2 = Attach(h1, id, Rule.field, answer)
        OBVIOUS
    <3>3. BuiltAround(heap, h2, id, Rule.kind, answer)
        BY <1>4, <2>2, <2>4, <2>5, <3>1, <3>2, AroundRight
    <3>4. /\ Right(h2, id) /\ h2[id].kind = Rule.kind /\ \A n \in DOMAIN heap : h2[n] = heap[n]
        BY <3>3 DEF BuiltAround
    <3>. QED
        BY <1>1, <1>2, <2>2, <2>7, <2>8, <3>1, <3>2, <3>4, WrapJumps
  <2>. QED
      BY <1>4, <2>1, <2>6, <2>7 DEF TakeFirst, NewAround
<1>. QED
    BY <1>3, <1>4

(* A rule that is called starts with nothing, or with a value. *)
LEMMA CallChildJumps ==
    ASSUME Apt, CallsInv', CallChild
    PROVE  Linked'
PROOF
<1>1. /\ Top.phase = "steps" /\ Step.do \in {"child", "become"}
      /\ UNCHANGED <<heap, within, answer>>
      /\ frames' = Append(WithLast(frames, [Top EXCEPT !.phase = "child"]), Frame(Step.rule))
    BY DEF CallChild, AtStep, At, Call, SameTree, OnlyFrames, Otherwise, SameScopes
<1>2. InStep(Top) /\ answer' = Null
    BY <1>1, AptFacts DEF InStep, Waiting
<1>3. PICK f : f = [Top EXCEPT !.phase = "child"]
    OBVIOUS
<1>4. /\ f.rule = Top.rule /\ f.node = Top.node /\ f.held = Top.held /\ f.at = Top.at
      /\ f.phase = "child" /\ InStep(f)
    BY <1>3, AsideAt DEF InStep
<1>5. /\ Abides(f, Top) /\ (Unlinked(f) <=> Unlinked(Top))
    BY <1>2, <1>4 DEF Abides, InScope, InLoop, Unlinked
<1>6. FrameRight(heap, Top, Here, Around)
    BY AptFacts
<1>7. FrameRight(heap, f, Here, Around)
    BY <1>4, <1>5, <1>6, FrameMoves
<1>8. Step.rule \in Callable /\ Callable \subseteq DOMAIN Rules
  <2>1. Top.at + 1 \in After(Top.rule, Top.at)
      BY DEF After
  <2>. QED
      BY <1>1, <1>2, <2>1, OnwardFrame DEF StepShape, Callable
<1>9. PICK g : g = Frame(Step.rule)
    OBVIOUS
<1>10. /\ g.rule = Step.rule /\ g.node = Null /\ g.held = Null
       /\ ~InStep(g) \/ Rules[g.rule].form = "scoped"
    BY <1>9 DEF Frame, InStep
<1>11. FrameRight(heap, g, FunctionFor(g, within.function),
                  IF InLoop(Top) THEN Top.node ELSE Around)
    BY <1>10, BareRight
<1>12. f.phase # "target"
    BY <1>4
<1>13. frames' = Append(WithLast(frames, f), g) /\ heap' = heap
    BY <1>1, <1>3, <1>9
<1>14. \A n \in DOMAIN heap \ Mine : heap'[n] = heap[n]
    BY <1>13
<1>15. FrameRight(heap', f, Here, Around)
    BY <1>7, <1>13
<1>16. FrameRight(heap', g, FunctionFor(g, within.function),
                  IF InLoop(Top) THEN Top.node ELSE Around)
    BY <1>11, <1>13
<1>. QED
    BY <1>1, <1>2, <1>5, <1>8, <1>10, <1>12, <1>13, <1>14, <1>15, <1>16, CallJumps

(* What a rule returns hangs in the node of its caller as it is linked.    *)
LEMMA ChildHangs ==
    ASSUME Apt, Top.phase = "child", Rules[Top.rule].form # "scoped", answer # Null,
           Step.do = "child"
    PROVE  Hangs(heap, answer, Step.field)
PROOF
<1>1. InStep(Top)
    BY DEF InStep
<1>2. /\ Top.node # Null /\ Rule = Rules[Top.rule] /\ Rule.form \in Stepping
      /\ Step = StepsOf(Top.rule)[Top.at] /\ JumpStep(Top.rule, Top.at)
      /\ FrameRight(heap, Top, Here, Around)
    BY <1>1, StepRoot
<1>3. /\ HeadRight(heap, Top) /\ Fine(Top) /\ KindFits(heap, Top) /\ JumpShape(Top.rule)
      /\ Top.at \in Top.at .. Len(StepsOf(Top.rule))
  <2>1. Top.at + 1 \in After(Top.rule, Top.at)
      BY DEF After
  <2>. QED
      BY <1>1, <1>2, <2>1, AptFacts, AptTree, OnwardFrame DEF FrameRight
<1>4. heap[Top.node].kind \in FunctionKinds \cup LoopKinds =>
          Rule.form = "construct" /\ heap[Top.node].kind = Rule.kind
    BY <1>2, <1>3 DEF HeadRight, Stepping
<1>5. Rule.form = "construct" => heap[Top.node].kind = Rule.kind
    BY <1>2, <1>3 DEF HeadRight
<1>6. /\ InScope(Top) => Rule.form = "construct"
      /\ InLoop(Top) => Rule.form = "construct" /\ Rule.kind \in LoopKinds
    BY <1>2, <1>3, ScopeForm
<1>7. /\ WaitsForValue(Top) => NoJumps(heap, answer)
      /\ Tied(heap, answer, within.function, IF InLoop(Top) THEN Top.node ELSE Around, {})
    BY AnswerFits
<1>8. PICK function, loop :
          /\ function = IF heap[Top.node].kind \in FunctionKinds THEN Top.node ELSE Here
          /\ loop = IF heap[Top.node].kind \in LoopKinds THEN Top.node ELSE Around
    OBVIOUS
<1>9. function = within.function
  <2>1. CASE heap[Top.node].kind \in FunctionKinds
    <3>1. Between(Top.rule, Top.at, "enter", "leave") /\ Rule.kind \in FunctionKinds
        BY <1>2, <1>4, <2>1 DEF JumpStep
    <3>2. InScope(Top)
        BY <1>1, <3>1 DEF InScope
    <3>3. Len(frames) \in 1 .. Len(frames) /\ Top = frames[Len(frames)] /\ RegistersInv
        BY AptFacts DEF Apt, Linked
    <3>. QED
        BY <1>2, <1>8, <2>1, <3>1, <3>2, <3>3 DEF RegistersInv
  <2>2. CASE heap[Top.node].kind \notin FunctionKinds
    <3>1. ~(InScope(Top) /\ Rule.kind \in FunctionKinds)
        BY <1>5, <1>6, <2>2
    <3>. QED
        BY <1>8, <2>2, <3>1, FunctionHere
  <2>. QED
      BY <2>1, <2>2
<1>10. NoJumps(heap, answer) \/ Tied(heap, answer, function, loop, {})
  <2>1. CASE WaitsForValue(Top)
      BY <1>7, <2>1
  <2>2. CASE ~WaitsForValue(Top)
    <3>1. Step.rule \notin Evaluating
        BY <1>2, <2>2 DEF WaitsForValue
    <3>2. heap[Top.node].kind \in LoopKinds => InLoop(Top)
        BY <1>1, <1>2, <1>4, <3>1 DEF JumpStep, InLoop
    <3>3. InLoop(Top) => heap[Top.node].kind \in LoopKinds
        BY <1>5, <1>6
    <3>. QED
        BY <1>7, <1>8, <1>9, <3>2, <3>3
  <2>. QED
      BY <2>1, <2>2
<1>11. Top.rule \in Evaluating => NoJumps(heap, answer)
    BY <1>7 DEF WaitsForValue
<1>12. ASSUME Top.rule \in DOMAIN Listing, Step.field = Listing[Top.rule]
       PROVE  IsTraversed(heap[Top.node].kind, Step.field) /\ PlainKids(heap, answer)
  <2>1. Step.rule \in Listed
      BY <1>2, <1>12 DEF JumpStep
  <2>2. PICK r \in DOMAIN Rules : CalledBy(Top, r) /\ (r \in Listed => PlainKids(heap, answer))
      BY AnswerFits
  <2>3. r = Step.rule
      BY <1>2, <2>2 DEF CalledBy
  <2>4. Step.field \in Fills(StepsOf(Top.rule)[Top.at])
      BY <1>2 DEF Fills
  <2>5. IsTraversed(heap[Top.node].kind, Step.field)
      BY <1>1, <1>3, <2>4 DEF KindFits
  <2>. QED
      BY <2>1, <2>2, <2>3, <2>5
<1>. QED
    BY <1>8, <1>10, <1>11, <1>12 DEF Hangs

LEMMA TakeChildJumps ==
    ASSUME Apt, CallsInv', TakeChild
    PROVE  Linked'
PROOF
<1>1. /\ Top.phase = "child" /\ answer' = Null /\ UNCHANGED within
      /\ IF Step.do = "become"
         THEN frames' = WithLast(frames, Onward([Top EXCEPT !.node = answer], Top.at + 1))
              /\ heap' = heap
         ELSE frames' = WithLast(frames, Onward(Top, Top.at + 1))
              /\ heap' = Attach(heap, Top.node, Step.field, answer)
    BY DEF TakeChild, At, Taking, Otherwise, SameScopes, Goto, NextStep
<1>2. InStep(Top) /\ Top.at + 1 \in After(Top.rule, Top.at)
    BY <1>1 DEF InStep, After
<1>3. /\ Step = StepsOf(Top.rule)[Top.at] /\ StepShape(Top.rule, Top.at)
      /\ JumpStep(Top.rule, Top.at) /\ Step.do \in {"child", "become"} /\ Rule = Rules[Top.rule]
      /\ Rules[Top.rule].form \in Stepping
    BY <1>1, <1>2, OnwardFrame, AptFacts DEF Fine, Rule
<1>4. CASE Step.do = "become"
  <2>1. Rules[Top.rule].form = "scoped" /\ Top.at = 2
      BY <1>3, <1>4 DEF StepShape
  <2>2. ~InScope(Top) /\ ~InLoop(Top)
      BY <2>1, AptFacts, ScopeForm
  <2>3. PICK g : g = [Top EXCEPT !.node = answer]
      OBVIOUS
  <2>4. /\ DOMAIN g = DOMAIN Top /\ g.rule = Top.rule /\ g.held = Top.held /\ g.calm = Top.calm
        /\ g.text = Top.text /\ g.node = answer /\ Top.held = Null /\ answer \in Nat
      BY <2>3, <1>2, AsideAt, OnwardFrame, AtTop DEF Apt
  <2>5. PICK f : f = Onward(g, Top.at + 1)
      OBVIOUS
  <2>6. Fine(f) /\ f.rule = Top.rule /\ f.node = answer /\ f.phase \in {"steps", "done"}
    <3>1. PICK t : t = Top
        OBVIOUS
    <3>2. /\ Fine(t) /\ InStep(t) /\ RuleShape(t.rule) /\ Top.at + 1 \in After(t.rule, t.at)
          /\ DOMAIN g = DOMAIN t /\ g.rule = t.rule /\ g.held = Null /\ g.calm = t.calm
          /\ g.text = t.text /\ g.node \in Nat /\ Rules[t.rule].form = "scoped" /\ ~(Top.at + 1 <= 2)
        BY <1>2, <2>1, <2>4, <3>1, AptFacts
    <3>3. LET u == Onward(g, Top.at + 1)
          IN  Fine(u) /\ u.rule = t.rule /\ u.phase \in {"steps", "done"} /\ u.node = g.node
        BY <3>2, OnwardFine
    <3>. QED
        BY <2>4, <2>5, <3>1, <3>3
  <2>7. /\ f.held = Null /\ ~InScope(f) /\ ~InLoop(f) /\ Top.rule # "break"
    <3>1. f.held = Null
        BY <2>1, <2>6 DEF Fine
    <3>2. ~InScope(f) /\ ~InLoop(f)
        BY <2>1, <2>6, ScopeForm
    <3>. QED
        BY <2>1, <3>1, <3>2, AptFacts DEF JumpShape, Jumpers
  <2>8. HeadRight(heap, f) /\ ListRight(heap, f)
      BY <2>1, <2>6, HeadSteady
  <2>9. answer # Null => Right(heap, answer)
    <3>1. SUFFICES ASSUME answer # Null PROVE Right(heap, answer)
        OBVIOUS
    <3>2. Tied(heap, answer, within.function, Around, {}) /\ (WaitsForValue(Top) => NoJumps(heap, answer))
        BY <2>2, <3>1, AnswerFits
    <3>3. Here = within.function
        BY <2>2, FunctionHere
    <3>. QED
        BY <3>2, <3>3 DEF Right, WaitsForValue
  <2>10. \A x \in Own(f) : Right(heap, x)
      BY <2>6, <2>7, <2>9 DEF Own
  <2>11. FrameRight(heap, f, Here, Around)
      BY <1>3, <2>1, <2>6, <2>8, <2>10, AsideRight
  <2>12. frames' = WithLast(frames, f) /\ heap' = heap
      BY <1>1, <1>4, <2>3, <2>5
  <2>13. FrameRight(heap', f, Here, Around) /\ \A n \in DOMAIN heap \ Mine : heap'[n] = heap[n]
      BY <2>11, <2>12
  <2>. QED
      BY <1>1, <2>2, <2>6, <2>7, <2>12, <2>13, GotoJumps DEF Abides
<1>5. CASE Step.do = "child"
  <2>1. Rules[Top.rule].form # "scoped" /\ Top.rule # "break"
      BY <1>3, <1>5 DEF StepShape, JumpStep
  <2>2. /\ Top.node # Null /\ Top.node \in Mine /\ Top.node \in DOMAIN heap
        /\ Whole(heap, Top.node) /\ IsNode(heap[Top.node]) /\ FrameRight(heap, Top, Here, Around)
        /\ Own(Top) = {Top.node}
      BY <1>2, <2>1, StepRoot
  <2>3. PICK h : h = heap'
      OBVIOUS
  <2>4. /\ FrameRight(h, Top, Here, Around)
        /\ \A n \in DOMAIN heap \ Mine : h[n] = heap[n]
    <3>1. CASE answer = Null
        BY <1>1, <1>5, <2>2, <2>3, <3>1 DEF Attach
    <3>2. CASE answer # Null
      <4>1. Hangs(heap, answer, Step.field)
          BY <1>1, <1>5, <2>1, <3>2, ChildHangs
      <4>2. NodeRight(heap)
          BY <2>2 DEF NodeRight
      <4>3. Whole(heap, answer) /\ \A n \in heap[answer].below : n \notin heap[Top.node].below
          BY <2>2, <3>2, AnswerFits
      <4>4. PICK field, kid : field = Step.field /\ kid = answer
          OBVIOUS
      <4>5. LET g == Attach(heap, Top.node, field, kid)
            IN  NodeRight(g) /\ \A n \in DOMAIN heap \ {Top.node} : g[n] = heap[n]
          BY <1>2, <2>2, <3>2, <4>1, <4>2, <4>3, <4>4, StepHangRight
      <4>. QED
          BY <1>1, <1>5, <2>2, <2>3, <4>4, <4>5 DEF NodeRight
    <3>. QED
        BY <3>1, <3>2
  <2>5. frames' = WithLast(frames, Onward(Top, Top.at + 1))
      BY <1>1, <1>5
  <2>6. Step.do \notin LinkSteps \cup {"enter", "leave", "loop", "unloop"}
      BY <1>5 DEF LinkSteps
  <2>. QED
      BY <1>1, <1>2, <2>1, <2>3, <2>4, <2>5, <2>6, OnJumps
<1>. QED
    BY <1>3, <1>4, <1>5

(* x += e becomes x = x + e: the caller's x goes into the new node. *)
LEMMA AssignJumps ==
    ASSUME Apt, CallsInv', Assign
    PROVE  Linked'
PROOF
<1>1. PICK n : n = Len(frames)
    OBVIOUS
<1>2. PICK id : id = created + 1
    OBVIOUS
<1>3. PICK c : c = frames[n - 1]
    OBVIOUS
<1>4. PICK f : f = Onward([Top EXCEPT !.node = id], Top.at + 1)
    OBVIOUS
<1>5. PICK e : e = [c EXCEPT !.held = Null]
    OBVIOUS
<1>6. /\ n \in Nat /\ n > 1 /\ IsSequence(frames') /\ Len(frames') = n
      /\ \A i \in 1 .. n :
            frames'[i] = IF i = n THEN f ELSE IF i = n - 1 THEN e ELSE frames[i]
      /\ Top = frames[n] /\ Top.rule = "compound" /\ Fine(Top) /\ InStep(Top)
      /\ f.rule = Top.rule /\ f.node = id
      /\ e.rule = c.rule /\ e.node = c.node /\ e.phase = "assigned" /\ c.phase = "assigned"
  <2>1. ParserInv
      BY DEF Apt
  <2>. QED
      BY <1>1, <1>2, <1>3, <1>4, <1>5, <2>1, AssignFrames
<1>7. /\ Top.held = Null /\ Top.node # Null /\ Rules["compound"].form = "suffix"
      /\ answer = Null /\ UNCHANGED <<answer, within>> /\ Top.rule \in Local \ Evaluating
      /\ Fine(c) /\ c.node = Null /\ DOMAIN c = DOMAIN Top /\ Rules[c.rule].form = "assign"
  <2>1. Top.held = Null /\ Top.node # Null /\ Rules["compound"].form = "suffix"
      BY <1>6, StepFacts, NamesFit, JumpsFit DEF Fine, InStep, Apt
  <2>2. answer = Null /\ UNCHANGED <<answer, within>>
      BY <1>6, AptFacts DEF Assign, AtStep, At, OnlyFrames, Otherwise, SameScopes, Waiting
  <2>3. n - 1 \in 1 .. Len(frames)
      BY <1>1, <1>6
  <2>4. Fine(c)
      BY <1>3, <2>3, AptFacts
  <2>. QED
      BY <1>6, <2>1, <2>2, <2>4, JumpsFit DEF Fine, Bare
<1>8. e.held = Null /\ f.held = Null /\ DOMAIN e = DOMAIN c
    BY <1>4, <1>5, <1>6, <1>7 DEF Fine, Onward
<1>9. \A g : g.rule = "compound" => ~InScope(g) /\ ~InLoop(g) /\ ~Unsettled(g)
  <2>1. RuleShape("compound") /\ JumpShape("compound")
      BY <1>6, AptFacts
  <2>2. \A i \in DOMAIN StepsOf("compound") : StepShape("compound", i) /\ JumpStep("compound", i)
      BY <1>7, <2>1 DEF RuleShape, JumpShape, Stepping, StepsOf
  <2>3. \A i \in DOMAIN StepsOf("compound") :
            StepsOf("compound")[i].do \notin {"enter", "loop"} \cup LinkSteps
      BY <1>7, <2>2 DEF StepShape, JumpStep, Jumpers
  <2>. QED
      BY <2>3 DEF InScope, InLoop, Unsettled, Unlinked, Between, LinkAhead
<1>10. c.phase # "target" /\ ~InStep(c) /\ ~InStep(e)
    BY <1>6 DEF InStep
<1>11. Stands(frames, frames')
  <2>1. Abides(f, Top) /\ Abides(e, c)
      BY <1>6, <1>9, <1>10 DEF Abides, InScope, InLoop
  <2>2. \A i \in 1 .. n : Abides(frames'[i], frames[i])
      BY <1>3, <1>6, <2>1 DEF Abides
  <2>. QED
      BY <1>1, <1>6, <2>2 DEF Stands
<1>12. /\ c.rule \in Local /\ Here = within.function /\ OuterLoop(frames, n - 1) = Around
       /\ FrameRight(heap, c, Here, Around)
  <2>1. n - 1 \in 1 .. Len(frames) /\ n - 1 \in Nat \ {0} /\ n - 1 + 1 = n
      BY <1>1, <1>6
  <2>2. c.rule \in Local
      BY <1>7, JumpsFit DEF JumpShape, Fine
  <2>3. OuterLoop(frames, n) = OuterLoop(frames, n - 1)
      BY <1>3, <1>10, <2>1, OuterNext DEF InLoop
  <2>4. Here = within.function
      BY <1>7 DEF Here, FunctionFor
  <2>5. FrameRight(heap, c, FunctionFor(c, within.function), OuterLoop(frames, n - 1))
      BY <1>3, <2>1 DEF Apt, Linked, FramesRight
  <2>. QED
      BY <1>1, <2>2, <2>3, <2>4, <2>5 DEF Around, FunctionFor
<1>13. PICK target : target = c.held
    OBVIOUS
<1>14. target # Null => target \in Rest(frames) /\ Tied(heap, target, Here, Around, {})
  <2>1. n - 1 \in 1 .. Len(frames) - 1
      BY <1>1, <1>6
  <2>2. ~Unsettled(c)
      BY <1>7, <1>10, JumpsFit DEF Unsettled, Unlinked, JumpShape, Jumpers, Fine
  <2>3. Own(c) \subseteq Rest(frames)
      BY <1>3, <2>1 DEF Rest
  <2>. QED
      BY <1>12, <1>13, <2>2, <2>3 DEF FrameRight, Own
<1>15. PICK h0 : h0 = [heap EXCEPT ![Top.node].text = OperatorOf[@]]
    OBVIOUS
<1>16. Altered(heap, h0) /\ DOMAIN h0 = DOMAIN heap
  <2>1. PICK v : v = OperatorOf[heap[Top.node].text]
      OBVIOUS
  <2>2. h0 = [heap EXCEPT ![Top.node].text = v]
      BY <1>15, <2>1
  <2>. QED
      BY <2>2, Alterations
<1>17. /\ Top.node \in Roots /\ Top.node \in Mine /\ Top.node \in DOMAIN heap /\ Whole(heap, Top.node)
       /\ id \notin DOMAIN heap /\ id # Null
    BY <1>2, <1>6, <1>7, MineHas, AptTree DEF Own, Roots
<1>18. Whole(h0, Top.node) /\ Right(h0, Top.node)
  <2>1. FrameRight(h0, Top, Here, Around)
      BY <1>16, AlteredRight
  <2>2. Tied(h0, Top.node, Here, Around, {})
      BY <1>6, <1>7, <1>9, <2>1 DEF FrameRight, Own
  <2>3. Whole(h0, Top.node)
      BY <1>16, <1>17 DEF Altered, Whole
  <2>. QED
      BY <1>7, <2>2, <2>3 DEF Right
<1>19. target # Null =>
          Whole(h0, target) /\ Right(h0, target) /\ \A m \in h0[Top.node].below : m \notin h0[target].below
  <2>1. SUFFICES ASSUME target # Null
                 PROVE  /\ Whole(h0, target) /\ Right(h0, target)
                        /\ \A m \in h0[Top.node].below : m \notin h0[target].below
      OBVIOUS
  <2>2. Whole(heap, target) /\ target # Top.node /\ heap[target].below \cap heap[Top.node].below = {}
      BY <1>14, <1>17, <2>1, AptTree DEF Roots, Own
  <2>3. \A m \in heap[target].below : m \in DOMAIN heap /\ m # Top.node /\ h0[m] = heap[m]
      BY <1>15, <1>17, <2>2 DEF Whole
  <2>4. Right(heap, target)
      BY <1>7, <1>14, <2>1 DEF Right
  <2>5. Whole(h0, target) /\ Right(h0, target) /\ h0[target] = heap[target]
      BY <1>16, <2>2, <2>3, <2>4, StaysRight
  <2>6. h0[Top.node].below = heap[Top.node].below
      BY <1>16, <1>17 DEF Altered
  <2>. QED
      BY <2>2, <2>5, <2>6
<1>20. PICK h1 : h1 = Create(h0, id, "Assignment", "=")
    OBVIOUS
<1>21. PICK h2 : h2 = Attach(h1, id, "identifier", target)
    OBVIOUS
<1>22. PICK h3 : h3 = Attach(h2, id, "value", Top.node)
    OBVIOUS
<1>23. heap' = h3
    BY <1>1, <1>2, <1>3, <1>13, <1>15, <1>20, <1>21, <1>22 DEF Assign
<1>24. /\ Right(h3, id) /\ Whole(h3, id) /\ h3[id].kind = "Assignment"
       /\ \A m \in DOMAIN h0 : m \in DOMAIN h3 /\ h3[m] = h0[m]
  <2>1. "Assignment" \notin Jumping \cup FunctionKinds \cup LoopKinds
      BY DEF Jumping, FunctionKinds, LoopKinds
  <2>2. PICK kind, one, two, text, b : kind = "Assignment" /\ one = "identifier" /\ two = "value"
                                       /\ text = "=" /\ b = Top.node
      OBVIOUS
  <2>3. /\ id \notin DOMAIN h0 /\ kind \notin Jumping \cup FunctionKinds \cup LoopKinds
        /\ b # Null => Whole(h0, b) /\ Right(h0, b)
        /\ target # Null /\ b # Null => \A m \in h0[b].below : m \notin h0[target].below
        /\ h1 = Create(h0, id, kind, text) /\ h2 = Attach(h1, id, one, target)
        /\ h3 = Attach(h2, id, two, b)
      BY <1>16, <1>17, <1>18, <1>19, <1>20, <1>21, <1>22, <2>1, <2>2
  <2>4. BuiltPair(h0, h3, id, kind)
      BY <1>19, <2>3, PairRight
  <2>. QED
      BY <2>2, <2>4 DEF BuiltPair
<1>25. \A m \in DOMAIN heap \ Mine : heap'[m] = heap[m]
    BY <1>16, <1>23, <1>24 DEF Altered
<1>26. FrameRight(heap', f, FunctionFor(f, within.function), Around)
  <2>1. Own(f) = {id} /\ ~Unsettled(f) /\ FunctionFor(f, within.function) = Here
      BY <1>6, <1>8, <1>9, <1>17 DEF Own, Here, FunctionFor
  <2>2. Tied(h3, id, Here, Around, {})
      BY <1>24 DEF Right
  <2>3. HeadRight(h3, f) /\ ListRight(h3, f)
      BY <1>6, <1>7, <1>8, <1>24
         DEF HeadRight, ListRight, FunctionKinds, LoopKinds, Jumping, Listed, Listing
  <2>. QED
      BY <1>6, <1>7, <1>23, <2>1, <2>2, <2>3 DEF FrameRight
<1>27. FrameRight(heap', e, FunctionFor(e, within.function), OuterLoop(frames, n - 1))
    BY <1>6, <1>7, <1>8, BareRight
<1>28. \A i \in 1 .. Len(frames) - 1 :
          /\ frames'[i].phase = frames[i].phase
          /\ \/ frames'[i] = frames[i]
             \/ FrameRight(heap', frames'[i], FunctionFor(frames'[i], within.function),
                           OuterLoop(frames, i))
  <2>1. SUFFICES ASSUME NEW i \in 1 .. Len(frames) - 1
                 PROVE  /\ frames'[i].phase = frames[i].phase
                        /\ \/ frames'[i] = frames[i]
                           \/ FrameRight(heap', frames'[i],
                                         FunctionFor(frames'[i], within.function),
                                         OuterLoop(frames, i))
      OBVIOUS
  <2>2. CASE i = n - 1
      BY <1>1, <1>3, <1>6, <1>27, <2>2
  <2>3. CASE i # n - 1
      BY <1>1, <1>6, <2>3
  <2>. QED
      BY <2>2, <2>3
<1>29. \A i \in Len(frames) .. Len(frames') :
           FrameRight(heap', frames'[i], FunctionFor(frames'[i], within.function),
                      OuterLoop(frames, i))
  <2>1. \A i \in Len(frames) .. Len(frames') : i = n
      BY <1>1, <1>6
  <2>2. frames'[n] = f /\ OuterLoop(frames, n) = Around
      BY <1>1, <1>6 DEF Around
  <2>. QED
      BY <1>26, <2>1, <2>2
<1>30. BreakRight'
  <2>1. Top' = f /\ Len(frames') # Len(frames) + 1
      BY <1>1, <1>6 DEF Top, Last
  <2>. QED
      BY <1>6, <2>1 DEF BreakRight
<1>31. Len(frames') # Len(frames) + 1
    BY <1>1, <1>6
<1>. QED
    BY <1>7, <1>11, <1>25, <1>28, <1>29, <1>30, <1>31, RestIntact, MoveJumps

(* A value that is copied is one in the copy. *)
CopiedRight(h, g, x, m) ==
    /\ NoJumps(g, m) /\ m \in g[m].below
    /\ \A n \in DOMAIN h : n \in DOMAIN g /\ g[n] = h[n]

LEMMA CopyRight ==
    ASSUME NEW h, NEW x, Whole(h, x), NoJumps(h, x), NEW shift \in Nat,
           DOMAIN h \subseteq 1 .. shift, \A n \in DOMAIN h : IsNode(h[n])
    PROVE  CopiedRight(h, Copy(h, x, shift), x, x + shift)
PROOF
<1>. DEFINE g == Copy(h, x, shift)
            copies == {b + shift : b \in h[x].below}
            Moved(k, kind) == IF IsTraversed(kind, k.field)
                              THEN [k EXCEPT !.node = @ + shift] ELSE k
            Copied(n) == [h[n] EXCEPT
                            !.below = {b + shift : b \in @},
                            !.kids = [i \in DOMAIN @ |-> Moved(@[i], h[n].kind)]]
<1>1. /\ DOMAIN g = DOMAIN h \cup copies
      /\ \A n \in DOMAIN h \cup copies : g[n] = IF n \in copies THEN Copied(n - shift) ELSE h[n]
    BY DEF Copy
<1>2. /\ x \in DOMAIN h /\ x \in h[x].below
      /\ \A b \in h[x].below : b \in DOMAIN h /\ h[b].kind \notin Jumping
    BY DEF Whole, NoJumps
<1>3. \A b \in DOMAIN h : b \in 1 .. shift /\ b + shift \in shift + 1 .. 2 * shift
                          /\ (b + shift) - shift = b
    OBVIOUS
<1>. HIDE DEF g, Moved
<1>4. \A b \in DOMAIN h : Copied(b).kind = h[b].kind /\ Copied(b).below = {d + shift : d \in h[b].below}
    BY DEF IsNode
<1>. HIDE DEF Copied
<1>5. \A n \in DOMAIN h : n \notin copies
  <2>1. \A b \in h[x].below : b + shift \in shift + 1 .. 2 * shift
      BY <1>2, <1>3
  <2>. QED
      BY <1>3, <2>1
<1>6. \A b \in h[x].below : g[b + shift] = Copied(b)
    BY <1>1, <1>2, <1>3
<1>7. g[x + shift].below = copies /\ x + shift \in copies
    BY <1>2, <1>4, <1>6
<1>8. NoJumps(g, x + shift)
  <2>1. \A b \in h[x].below : g[b + shift].kind \notin Jumping
      BY <1>2, <1>4, <1>6
  <2>. QED
      BY <1>7, <2>1 DEF NoJumps
<1>9. \A n \in DOMAIN h : n \in DOMAIN g /\ g[n] = h[n]
    BY <1>1, <1>5
<1>10. CopiedRight(h, g, x, x + shift)
    BY <1>7, <1>8, <1>9 DEF CopiedRight
<1>. QED
    BY <1>10 DEF g

LEMMA TakeTargetJumps ==
    ASSUME Apt, CallsInv', TakeTarget
    PROVE  Linked'
PROOF
<1>1. /\ Top.phase = "target" /\ answer' = Null /\ UNCHANGED within
    BY DEF TakeTarget, At, SameScopes
<1>2. /\ ~InStep(Top) /\ Rule.form = "assign" /\ Rule = Rules[Top.rule] /\ JumpShape(Top.rule)
      /\ Top.node = Null /\ Top.held = Null /\ Top.rule # "break"
    BY <1>1, AsideAt, FormOf DEF Apt, Bare, JumpShape, Jumpers
<1>3. CASE answer = Null
  <2>1. frames' = WithLast(frames, Done(Null)) /\ UNCHANGED heap
      BY <1>3 DEF TakeTarget, Goto, SameTree
  <2>. QED
      BY <1>1, <1>2, <2>1, AsideAt, EmptyJumps
<1>4. ASSUME answer # Null
      PROVE  Linked'
  <2>1. NoJumps(heap, answer) /\ Right(heap, answer) /\ Whole(heap, answer) /\ answer \in heap[answer].below
      BY <1>1, <1>2, <1>4, RootsRight, AnswerFits DEF WaitsForValue, Whole
  <2>2. \A t : LET f == Assigned(t)
               IN  f.rule = Top.rule /\ f.node = Null /\ f.held = t /\ f.phase = "assigned"
      BY <1>2, AsideAt DEF Assigned
  <2>3. CASE Fits("=")
    <3>1. frames' = Append(WithLast(frames, Assigned(Null)), [Frame("assignment") EXCEPT !.held = answer])
          /\ heap' = heap
        BY <1>4, <2>3 DEF TakeTarget, Call, SameTree
    <3>2. PICK f : f = Assigned(Null)
        OBVIOUS
    <3>3. f.rule = Top.rule /\ f.node = Null /\ f.held = Null /\ f.phase = "assigned"
        BY <2>2, <3>2
    <3>4. FrameRight(heap', f, Here, Around)
        BY <3>3, BareRight
    <3>5. ~InScope(f) /\ ~InLoop(f)
        BY <3>3, AsideAt
    <3>6. /\ \A n \in DOMAIN heap \ Mine : heap'[n] = heap[n]
          /\ NoJumps(heap', answer) /\ answer \in heap'[answer].below
        BY <2>1, <3>1
    <3>7. PICK r \in DOMAIN Rules : r = "assignment"
        BY RulesAssumption
    <3>8. frames' = Append(WithLast(frames, f), [Frame(r) EXCEPT !.held = answer])
        BY <3>1, <3>2, <3>7
    <3>. QED
        BY <1>1, <1>2, <3>3, <3>4, <3>5, <3>6, <3>8, AsideJumps
  <2>4. CASE ~Fits("=") /\ Compound
    <3>1. /\ heap' = Copy(heap, answer, created)
          /\ frames' = Append(WithLast(frames, Assigned(answer)),
                              [Frame("compound") EXCEPT !.held = answer + created])
        BY <1>4, <2>4 DEF TakeTarget, Call
    <3>2. PICK f : f = Assigned(answer)
        OBVIOUS
    <3>3. f.rule = Top.rule /\ f.node = Null /\ f.held = answer /\ f.phase = "assigned"
        BY <2>2, <3>2
    <3>4. PICK m, h : m = answer + created /\ h = heap'
        OBVIOUS
    <3>5. CopiedRight(heap, h, answer, m)
      <4>1. created \in Nat /\ DOMAIN heap \subseteq 1 .. created /\ \A n \in DOMAIN heap : IsNode(heap[n])
          BY AptTree, AtTop DEF Apt, TreeInv
      <4>2. PICK shift \in Nat : shift = created
          BY <4>1
      <4>3. CopiedRight(heap, Copy(heap, answer, shift), answer, answer + shift)
          BY <2>1, <4>1, <4>2, CopyRight
      <4>. QED
          BY <3>1, <3>4, <4>2, <4>3
    <3>6. /\ NoJumps(h, m) /\ m \in h[m].below
          /\ \A n \in DOMAIN heap : n \in DOMAIN h /\ h[n] = heap[n]
        BY <3>5 DEF CopiedRight
    <3>7. Right(h, answer)
      <4>1. \A n \in heap[answer].below : n \in DOMAIN h /\ h[n] = heap[n]
          BY <2>1, <3>6 DEF Whole
      <4>. QED
          BY <2>1, <4>1, StaysRight
    <3>8. HeadRight(h, f) /\ ListRight(h, f) /\ ~InStep(f) /\ ~InScope(f) /\ ~InLoop(f)
        BY <1>2, <3>3, HeadSteady, AsideAt
    <3>9. \A x \in Own(f) : Right(h, x)
        BY <3>3, <3>7 DEF Own
    <3>10. FrameRight(h, f, Here, Around)
        BY <1>2, <3>3, <3>8, <3>9, AsideRight
    <3>11. PICK r \in DOMAIN Rules : r = "compound"
        BY RulesAssumption
    <3>12. frames' = Append(WithLast(frames, f), [Frame(r) EXCEPT !.held = m])
        BY <3>1, <3>2, <3>4, <3>11
    <3>13. FrameRight(heap', f, Here, Around) /\ NoJumps(heap', m) /\ m \in heap'[m].below
           /\ \A n \in DOMAIN heap \ Mine : heap'[n] = heap[n]
        BY <3>4, <3>6, <3>10
    <3>. QED
        BY <1>1, <1>2, <3>3, <3>8, <3>12, <3>13, AsideJumps
  <2>5. CASE ~Fits("=") /\ ~Compound
    <3>1. PICK id : id = created + 1
        OBVIOUS
    <3>2. id \notin DOMAIN heap /\ id # Null
        BY <3>1, AptTree
    <3>3. PICK h1 : h1 = Create(heap, id, "ExpressionStatement", ";")
        OBVIOUS
    <3>4. PICK h : h = Attach(h1, id, "expression", answer)
        OBVIOUS
    <3>5. heap' = h /\ frames' = WithLast(frames, Done(id))
        BY <1>4, <2>5, <3>1, <3>3, <3>4 DEF TakeTarget, Goto
    <3>6. BuiltAround(heap, h, id, "ExpressionStatement", answer)
        BY <2>1, <3>2, <3>3, <3>4, AroundRight DEF Jumping, FunctionKinds, LoopKinds
    <3>7. /\ Right(h, id) /\ h[id].kind = "ExpressionStatement"
          /\ \A n \in DOMAIN heap : h[n] = heap[n]
        BY <3>6 DEF BuiltAround
    <3>8. PICK f : f = Done(id)
        OBVIOUS
    <3>9. /\ f.rule = Top.rule /\ f.node = id /\ f.held = Null /\ f.phase = "done"
          /\ ~InStep(f) /\ ~InScope(f) /\ ~InLoop(f)
        BY <3>8, AsideAt
    <3>10. HeadRight(h, f) /\ ListRight(h, f)
        BY <1>2, <3>7, <3>9 DEF HeadRight, ListRight, JumpShape, Jumping
    <3>11. \A x \in Own(f) : Right(h, x)
        BY <3>7, <3>9 DEF Own
    <3>12. FrameRight(heap', f, Here, Around)
        BY <1>2, <3>5, <3>9, <3>10, <3>11, AsideRight
    <3>13. frames' = WithLast(frames, f) /\ \A n \in DOMAIN heap \ Mine : heap'[n] = heap[n]
        BY <3>5, <3>7, <3>8
    <3>. QED
        BY <1>1, <1>2, <3>9, <3>12, <3>13, AsideJumps
  <2>. QED
      BY <2>3, <2>4, <2>5
<1>. QED
    BY <1>3, <1>4

(* A rule begins with a node that is alone; a jump is still to be linked. *)
LEMMA BeginFrame ==
    ASSUME Apt, ~InStep(Top), Rule.form = "construct",
           NEW g, DOMAIN g = DOMAIN Top, g.rule = Top.rule, g.held = Null, g.calm = Top.calm,
           g.text = Top.text, NEW id \in Nat \ {Null}, g.node = id,
           NEW h, h[id].kind = Rule.kind, h[id].below = {id}, h[id].kids = <<>>
    PROVE  LET f == Onward(g, 1)
           IN  /\ FrameRight(h, f, Here, Around) /\ f.rule = Top.rule /\ f.node = id
               /\ ~InScope(f) /\ ~InLoop(f)
               /\ f.rule = "break" => Unlinked(f) /\ f.phase = "steps"
PROOF
<1>1. Rule = Rules[Top.rule] /\ JumpShape(Top.rule) /\ RuleShape(Top.rule)
    BY AsideAt
<1>2. PICK f : f = Onward(g, 1)
    OBVIOUS
<1>3. /\ Fine(f) /\ f.rule = Top.rule /\ f.node = id /\ ~InScope(f) /\ ~InLoop(f)
      /\ f.phase \in {"steps", "done"}
    BY <1>1, <1>2, OnwardFirst
<1>4. f.held = Null /\ f.at = 1 /\ f.phase = IF 1 > Len(StepsOf(Top.rule)) THEN "done" ELSE "steps"
  <2>1. DOMAIN g = {"rule", "at", "node", "held", "text", "phase", "calm"}
      BY AsideAt
  <2>. QED
      BY <1>2, <2>1 DEF Onward, StepsOf
<1>5. Top.rule \in Jumpers => Unlinked(f) /\ f.phase = "steps"
  <2>1. SUFFICES ASSUME Top.rule \in Jumpers
                 PROVE  Unlinked(f) /\ f.phase = "steps"
      OBVIOUS
  <2>2. LinkAhead(Top.rule, 1)
      BY <1>1, <2>1 DEF JumpShape
  <2>3. DOMAIN StepsOf(Top.rule) = 1 .. Len(StepsOf(Top.rule)) /\ Len(StepsOf(Top.rule)) \in Nat
      BY <1>1 DEF RuleShape, Stepping, StepsOf, IsList
  <2>4. Len(StepsOf(Top.rule)) >= 1
      BY <2>2, <2>3 DEF LinkAhead
  <2>5. f.phase = "steps"
      BY <1>4, <2>3, <2>4
  <2>. QED
      BY <1>3, <1>4, <2>2, <2>5 DEF Unlinked, InStep
<1>6. h[id].kind \in Jumping => Top.rule \in Jumpers
    BY <1>1 DEF JumpShape, Making
<1>7. HeadRight(h, f)
    BY <1>1, <1>3, <1>6 DEF HeadRight, MayJump
<1>8. ListRight(h, f)
  <2>1. IsSequence(<<>>) /\ DOMAIN <<>> = {}
    <3>1. <<>> \in Seq({})
        OBVIOUS
    <3>. QED
        BY <3>1 DEF IsSequence
  <2>2. f.rule \notin Listed
      BY <1>1, <1>3 DEF JumpShape
  <2>. QED
      BY <1>3, <2>1, <2>2 DEF ListRight
<1>9. /\ Rooted(h, id) /\ Tied(h, id, Here, Around, {id})
      /\ h[id].kind \notin Jumping => NoJumps(h, id) /\ Tied(h, id, Here, Around, {})
    BY AloneTied
<1>10. Own(f) = {id}
    BY <1>3, <1>4 DEF Own
<1>11. f.rule \in Evaluating => NoJumps(h, id)
    BY <1>3, <1>6, <1>9, JumpsFit
<1>12. ~Unsettled(f) => h[id].kind \notin Jumping
    BY <1>5, <1>6 DEF Unsettled
<1>13. FrameRight(h, f, Here, Around)
    BY <1>3, <1>7, <1>8, <1>9, <1>10, <1>11, <1>12 DEF FrameRight
<1>. QED
    BY <1>2, <1>3, <1>5, <1>13 DEF Jumpers

LEMMA BeginJumps ==
    ASSUME Apt, CallsInv', Begin
    PROVE  Linked'
PROOF
<1>1. /\ Top.phase = "enter" /\ Rule.form \in {"construct", "suffix", "chain"}
      /\ UNCHANGED <<answer, within>>
    BY DEF Begin, In, At, OnlyFrames, Otherwise, SameScopes
<1>2. /\ ~InStep(Top) /\ ~InScope(Top) /\ ~InLoop(Top) /\ Rule = Rules[Top.rule] /\ Top.node = Null
      /\ answer' = Null /\ JumpShape(Top.rule)
      /\ Rule.form # "suffix" => Top.held = Null
      /\ DOMAIN Top = {"rule", "at", "node", "held", "text", "phase", "calm"}
    BY <1>1, AsideAt, AptFacts DEF Waiting, Bare
<1>3. CASE ~Starts(Rule.start)
  <2>1. frames' = WithLast(frames, Done(Null)) /\ heap' = heap
      BY <1>3 DEF Begin, Goto, SameTree
  <2>2. PICK f : f = Done(Null)
      OBVIOUS
  <2>3. /\ f.rule = Top.rule /\ f.node = Null /\ f.held = Null /\ f.phase = "done"
        /\ ~InStep(f) /\ ~InScope(f) /\ ~InLoop(f)
      BY <2>2, AsideAt
  <2>4. FrameRight(heap', f, Here, Around)
      BY <2>3, BareRight
  <2>5. frames' = WithLast(frames, f) /\ \A n \in DOMAIN heap \ Mine : heap'[n] = heap[n]
      BY <2>1, <2>2
  <2>6. BreakRight'
    <3>1. Top' = f
      <4>1. frames # <<>> /\ IsSequence(frames)
          BY AptFacts
      <4>2. Len(frames') = Len(frames) /\ frames'[Len(frames)] = f /\ Last(frames') = frames'[Len(frames')]
          BY <2>5, <4>1, WithLastFacts, SequenceFacts DEF Last
      <4>. QED
          BY <4>2 DEF Top
    <3>. QED
        BY <2>3, <3>1 DEF BreakRight
  <2>. QED
      BY <1>1, <1>2, <2>3, <2>4, <2>5, <2>6, GotoJumps DEF Abides
<1>4. ASSUME Starts(Rule.start)
      PROVE  Linked'
  <2>1. PICK id \in Nat : id = created + 1
      BY AtTop DEF Apt
  <2>2. id \notin DOMAIN heap /\ id # Null
      BY <2>1, AptTree
  <2>3. CASE Rule.form = "suffix"
    <3>1. PICK h1 : h1 = Create(heap, id, Rule.kind, Current)
        OBVIOUS
    <3>2. PICK h : h = Attach(h1, id, Rule.field, Top.held)
        OBVIOUS
    <3>3. PICK g : g = [Top EXCEPT !.node = id, !.held = Null]
        OBVIOUS
    <3>4. heap' = h /\ frames' = WithLast(frames, Onward(g, 1))
        BY <1>4, <2>1, <2>3, <3>1, <3>2, <3>3 DEF Begin, NewAround, Goto
    <3>5. /\ DOMAIN g = DOMAIN Top /\ g.rule = Top.rule /\ g.held = Null /\ g.calm = Top.calm
          /\ g.text = Top.text /\ g.node = id
        BY <1>2, <3>3
    <3>6. Rule.kind \notin Jumping \cup FunctionKinds \cup LoopKinds /\ Top.rule # "break"
        BY <1>2, <2>3 DEF JumpShape, Making, Jumpers
    <3>7. Top.held # Null => Right(heap, Top.held) /\ Whole(heap, Top.held)
        BY <1>2, <3>6, RootsRight, AsideAt DEF Own
    <3>8. BuiltAround(heap, h, id, Rule.kind, Top.held)
        BY <2>2, <3>1, <3>2, <3>6, <3>7, AroundRight
    <3>9. /\ Right(h, id) /\ h[id].kind = Rule.kind /\ \A n \in DOMAIN heap : h[n] = heap[n]
        BY <3>8 DEF BuiltAround
    <3>. QED
        BY <1>1, <1>2, <2>2, <2>3, <3>4, <3>5, <3>9, WrapJumps
  <2>4. CASE Rule.form # "suffix"
    <3>1. PICK text : text = IF Rule.start = {} THEN "none" ELSE Current
        OBVIOUS
    <3>2. PICK h : h = Create(heap, id, Rule.kind, text)
        OBVIOUS
    <3>3. heap' = h
        BY <1>4, <2>1, <2>4, <3>1, <3>2 DEF Begin, NewAround, Attach
    <3>4. /\ h[id].kind = Rule.kind /\ h[id].below = {id} /\ h[id].kids = <<>>
          /\ \A n \in DOMAIN heap : n # id /\ h[n] = heap[n]
        BY <2>2, <3>2 DEF Create, Fresh
    <3>5. CASE Rule.form = "construct"
      <4>1. PICK g : g = [Top EXCEPT !.node = id, !.held = Null]
          OBVIOUS
      <4>2. /\ DOMAIN g = DOMAIN Top /\ g.rule = Top.rule /\ g.held = Null /\ g.calm = Top.calm
            /\ g.text = Top.text /\ g.node = id
          BY <1>2, <4>1
      <4>3. PICK f : f = Onward(g, 1)
          OBVIOUS
      <4>4. frames' = WithLast(frames, f)
          BY <1>4, <2>1, <3>5, <4>1, <4>3 DEF Begin, Goto
      <4>5. /\ FrameRight(h, f, Here, Around) /\ f.rule = Top.rule /\ f.node = id
            /\ ~InScope(f) /\ ~InLoop(f)
            /\ f.rule = "break" => Unlinked(f) /\ f.phase = "steps"
          BY <1>2, <2>2, <3>4, <3>5, <4>2, <4>3, BeginFrame
      <4>6. BreakRight'
        <5>1. Top' = f
          <6>1. frames # <<>> /\ IsSequence(frames)
              BY AptFacts
          <6>2. /\ Len(frames') = Len(frames) /\ frames'[Len(frames)] = f
                /\ Last(frames') = frames'[Len(frames')]
              BY <4>4, <6>1, WithLastFacts, SequenceFacts DEF Last
          <6>. QED
              BY <6>2 DEF Top
        <5>. QED
            BY <4>5, <5>1 DEF BreakRight, Unlinked, InStep
      <4>7. FrameRight(heap', f, Here, Around) /\ \A n \in DOMAIN heap \ Mine : heap'[n] = heap[n]
          BY <3>3, <3>4, <4>5
      <4>. QED
          BY <1>1, <1>2, <4>4, <4>5, <4>6, <4>7, GotoJumps DEF Abides
    <3>6. CASE Rule.form = "chain"
      <4>1. PICK f : f = [Top EXCEPT !.phase = "suffixes", !.node = id]
          OBVIOUS
      <4>2. /\ f.rule = Top.rule /\ f.node = id /\ f.held = Null /\ f.phase = "suffixes"
            /\ ~InStep(f) /\ ~InScope(f) /\ ~InLoop(f)
          BY <1>2, <2>4, <4>1, AsideAt
      <4>3. frames' = WithLast(frames, f)
          BY <1>4, <2>1, <3>6, <4>1 DEF Begin, Goto
      <4>4. Top.rule \in Evaluating /\ Rule.kind \notin Jumping /\ Top.rule # "break"
          BY <1>2, <3>6, AsideAt DEF JumpShape, Making, Jumpers
      <4>5. NoJumps(h, id) /\ id \in h[id].below /\ Right(h, id)
        <5>1. NoJumps(h, id)
            BY <3>4, <4>4 DEF NoJumps
        <5>. QED
            BY <3>4, <5>1, NoJumpsTied DEF Right
      <4>6. HeadRight(h, f) /\ ListRight(h, f)
          BY <1>2, <3>6, <4>2, <4>4, <4>5, HeadSteady
      <4>7. \A x \in Own(f) : Right(h, x)
          BY <4>2, <4>5 DEF Own
      <4>8. FrameRight(h, f, Here, Around)
          BY <1>2, <3>6, <4>2, <4>6, <4>7, AsideRight
      <4>9. FrameRight(heap', f, Here, Around) /\ \A n \in DOMAIN heap \ Mine : heap'[n] = heap[n]
          BY <3>3, <3>4, <4>8
      <4>. QED
          BY <1>1, <1>2, <3>6, <4>2, <4>3, <4>9, AsideJumps
    <3>. QED
        BY <1>1, <2>4, <3>5, <3>6
  <2>. QED
      BY <2>3, <2>4
<1>. QED
    BY <1>3, <1>4

(* No rule is called from a break. *)
LEMMA BreakWaits ==
    ASSUME Apt, NEW i \in 1 .. Len(frames) - 1
    PROVE  frames[i].rule # "break"
PROOF
<1>1. i \in 1 .. Len(frames) /\ i < Len(frames)
    BY AptFacts
<1>2. Fine(frames[i]) /\ frames[i].phase \in Waiting
    BY <1>1 DEF Apt, ParserInv, FramesInv
<1>3. PICK f : f = frames[i]
    OBVIOUS
<1>4. SUFFICES ASSUME f.rule = "break" PROVE FALSE
    BY <1>3
<1>5. JumpShape(f.rule) /\ RuleShape(f.rule)
    BY <1>2, <1>3, ScopeForm
<1>6. Rules[f.rule].form = "construct"
    BY <1>4, <1>5 DEF JumpShape, Jumpers
<1>7. f.phase = "child"
    BY <1>2, <1>3, <1>6 DEF Fine, Waiting
<1>8. f.at \in DOMAIN StepsOf(f.rule) /\ StepsOf(f.rule)[f.at].do \in {"child", "become"}
    BY <1>2, <1>3, <1>5, <1>6, <1>7 DEF Fine, RuleShape, Stepping, StepsOf, IsList
<1>9. JumpStep(f.rule, f.at)
    BY <1>5, <1>6, <1>8 DEF JumpShape, Stepping, StepsOf
<1>. QED
    BY <1>4, <1>8, <1>9 DEF JumpStep

(* What a rule returns is linked as in what is around it. *)
LEMMA DoneRight ==
    ASSUME Apt, Top.phase = "done", Calm, Top.node # Null
    PROVE  Tied(heap, Top.node, within.function, Around, {})
PROOF
<1>1. ~InStep(Top) /\ ~InScope(Top) /\ ~InLoop(Top)
    BY AsideAt
<1>2. Here = within.function
    BY <1>1, FunctionHere
<1>3. /\ FrameRight(heap, Top, Here, Around) /\ JumpShape(Top.rule)
      /\ Len(frames) \in Nat \ {0} /\ Top = frames[Len(frames)] /\ frames # <<>>
    BY AptFacts
<1>4. PICK out : out = IF Unsettled(Top) THEN {Top.node} ELSE {}
    OBVIOUS
<1>5. Tied(heap, Top.node, within.function, Around, out) /\ (Unsettled(Top) => Rooted(heap, Top.node))
    BY <1>2, <1>3, <1>4 DEF FrameRight, Own
<1>6. CASE Top.rule # "break"
    BY <1>1, <1>4, <1>5, <1>6 DEF Unsettled, Unlinked
<1>7. CASE Top.rule = "break"
  <2>1. heap[Top.node].kind = "Break"
      BY <1>3, <1>7 DEF FrameRight, HeadRight, JumpShape, Jumpers
  <2>2. heap[Top.node].link = within.loop /\ within.loop # Null
      BY <1>1, <1>3, <1>7 DEF Apt, Linked, BreakRight, Unlinked
  <2>3. OuterLoop(frames, Len(frames) + 1) = Around
      BY <1>1, <1>3, OuterNext DEF Around
  <2>4. heap[Top.node].link = Around
      BY <2>2, <2>3 DEF Apt, Linked, RegistersInv
  <2>5. Enclosing(heap, Top.node, LoopKinds, Top.node) = {}
      BY <1>5, <1>7 DEF Unsettled, Rooted, Enclosing
  <2>6. LinkFits(heap, Top.node, LoopKinds, Top.node, Around)
      BY <2>4, <2>5 DEF LinkFits
  <2>. QED
      BY <1>4, <1>5, <1>7, <2>1, <2>6 DEF Unsettled, Tied
<1>. QED
    BY <1>6, <1>7

LEMMA ReturnJumps ==
    ASSUME Apt, Return
    PROVE  Linked'
PROOF
<1>1. PICK n : n = Len(frames)
    OBVIOUS
<1>2. /\ n \in Nat \ {0} /\ IsSequence(frames) /\ frames # <<>> /\ Top = frames[n]
      /\ FrameRight(heap, Top, Here, Around)
    BY <1>1, AptFacts
<1>3. /\ Len(frames') = n - 1 /\ \A i \in 1 .. n - 1 : frames'[i] = frames[i]
      /\ n > 1 => Top' = frames[n - 1]
      /\ n = 1 => frames' = <<>>
  <2>1. frames' = Front(frames)
      BY DEF Return
  <2>2. /\ IsSequence(frames') /\ Len(frames') = n - 1
        /\ \A i \in 1 .. n - 1 : frames'[i] = frames[i]
      BY <1>1, <1>2, <2>1, FrontFacts
  <2>3. Last(frames') = frames'[Len(frames')]
      BY DEF Last
  <2>. QED
      BY <1>2, <2>2, <2>3, SequenceFacts DEF Top
<1>4. Top.phase = "done" /\ UNCHANGED within
    BY DEF Return, At
<1>5. ~InStep(Top) /\ ~InScope(Top) /\ ~InLoop(Top)
    BY <1>4, AsideAt
<1>6. \A i \in 1 .. n : OuterLoop(frames', i) = OuterLoop(frames, i)
    BY <1>2, <1>3, OuterSame
<1>7. OuterLoop(frames', Len(frames') + 1) = Around /\ OuterLoop(frames, Len(frames) + 1) = Around
  <2>1. n - 1 + 1 = n /\ n \in 1 .. n
      BY <1>2
  <2>. QED
      BY <1>1, <1>2, <1>3, <1>5, <1>6, <2>1, OuterNext DEF Around
<1>8. NestInv /\ RegistersInv /\ FramesRight
    BY DEF Apt, Linked
<1>9. NestInv' /\ RegistersInv'
  <2>1. \A i \in 1 .. n - 1 : i \in 1 .. n
      BY <1>2
  <2>2. \A i \in 1 .. n - 1 - 1 : i + 1 \in 1 .. n - 1 /\ i \in 1 .. n - 1
      BY <1>2
  <2>3. NestInv'
      BY <1>1, <1>3, <1>8, <2>1, <2>2 DEF NestInv
  <2>4. RegistersInv'
      BY <1>1, <1>3, <1>4, <1>7, <1>8, <2>1 DEF RegistersInv
  <2>. QED
      BY <2>3, <2>4
<1>10. \A m \in DOMAIN heap \ Mine : heap'[m] = heap[m]
  <2>1. CASE heap' = heap
      BY <2>1
  <2>2. CASE heap' = Free(heap, Top.node) /\ Top.node # Null
      BY <2>2 DEF Free, Mine, Roots, Own
  <2>. QED
      BY <2>1, <2>2 DEF Return
<1>11. FramesRight'
  <2>1. SUFFICES ASSUME NEW i \in 1 .. n - 1
                 PROVE  FrameRight(heap', frames[i], FunctionFor(frames[i], within.function),
                                   OuterLoop(frames, i))
    <3>1. \A i \in 1 .. n - 1 : i \in 1 .. n
        BY <1>2
    <3>. QED
        BY <1>3, <1>4, <1>6, <3>1 DEF FramesRight
  <2>2. i \in 1 .. Len(frames) /\ i \in 1 .. Len(frames) - 1
      BY <1>1, <1>2
  <2>3. FrameRight(heap, frames[i], FunctionFor(frames[i], within.function), OuterLoop(frames, i))
      BY <1>8, <2>2 DEF FramesRight
  <2>4. \A x \in Own(frames[i]) : Whole(heap, x) /\ Intact(heap, heap', x)
      BY <1>10, <2>2, RestIntact DEF Rest
  <2>. QED
      BY <2>3, <2>4, IntactRight
<1>12. AnswerRight'
  <2>1. SUFFICES ASSUME answer' # Null PROVE AnswerRight'
      BY DEF AnswerRight
  <2>2. answer' = Top.node /\ Top.node # Null /\ heap' = heap /\ Calm
      BY <2>1 DEF Return
  <2>3. Tied(heap, Top.node, within.function, Around, {})
      BY <1>4, <2>2, DoneRight
  <2>4. ASSUME frames' # <<>>
        PROVE  /\ WaitsForValue(frames[n - 1]) => NoJumps(heap, Top.node)
               /\ CalledBy(frames[n - 1], Top.rule) /\ Top.rule \in DOMAIN Rules
               /\ Top.rule \notin MayJump => heap[Top.node].kind \notin Jumping
               /\ Top.rule \in Listed => PlainKids(heap, Top.node)
    <3>1. /\ n > 1 /\ n - 1 \in 1 .. Len(frames) - 1 /\ n - 1 + 1 = n
          /\ n - 1 \in 1 .. Len(frames) /\ n \in 1 .. Len(frames) /\ n - 1 < n
        BY <1>1, <1>2, <1>3, <2>4
    <3>2. CalledBy(frames[n - 1], Top.rule)
        BY <1>2, <3>1 DEF Apt, CallsInv
    <3>3. /\ frames[n - 1].rule \in Evaluating => Top.rule \in Evaluating
          /\ frames[n - 1].phase = "target" => Top.rule \in Evaluating
        BY <1>2, <1>8, <3>1 DEF NestInv
    <3>4. WaitsForValue(frames[n - 1]) => Top.rule \in Evaluating
        BY <3>2, <3>3 DEF WaitsForValue, CalledBy
    <3>. QED
        BY <1>2, <2>2, <3>2, <3>4, AptFacts DEF FrameRight, HeadRight, ListRight, Own
  <2>5. frames' # <<>> => Top' = frames[n - 1]
      BY <1>2, <1>3
  <2>6. ASSUME frames' # <<>>
        PROVE  /\ WaitsForValue(Top') => NoJumps(heap', answer')
               /\ \E r \in DOMAIN Rules :
                    /\ CalledBy(Top', r)
                    /\ r \notin MayJump => heap'[answer'].kind \notin Jumping
                    /\ r \in Listed => PlainKids(heap', answer')
      BY <2>2, <2>4, <2>5, <2>6
  <2>7. Tied(heap', answer', within'.function, OuterLoop(frames', Len(frames') + 1), {})
      BY <1>4, <1>7, <2>2, <2>3
  <2>. QED
      BY <2>6, <2>7 DEF AnswerRight, WaitsForValue, CalledBy
<1>13. BreakRight'
  <2>1. ASSUME frames' # <<>> PROVE Top'.rule # "break"
    <3>1. n - 1 \in 1 .. Len(frames) - 1 /\ n > 1
        BY <1>1, <1>2, <1>3, <2>1
    <3>. QED
        BY <1>3, <3>1, BreakWaits
  <2>. QED
      BY <2>1 DEF BreakRight
<1>. QED
    BY <1>9, <1>11, <1>12, <1>13 DEF Linked

-----------------------------------------------------------------------------
(* Every function of the parser keeps the links right. *)
LEMMA SyntaxJumps ==
    ASSUME Apt, CallsInv', Syntax
    PROVE  Linked'
PROOF
<1>1. CASE Begin \/ Return \/ ExpectToken \/ OptionalToken \/ ReadText
    BY <1>1, BeginJumps, ReturnJumps, PlainJumps
<1>2. CASE CallChild \/ TakeChild \/ Choose \/ TakeChosen \/ ReadVisibility
    BY <1>2, CallChildJumps, TakeChildJumps, ChooseJumps, TakeChosenJumps, ReadVisibilityJumps
<1>3. CASE TakeSuffix \/ TakeSuffixed \/ CallOperand \/ TakeLeft \/ TakeRight
    BY <1>3, TakeSuffixJumps, TakeSuffixedJumps, OperandJumps, TakeLeftJumps, TakeRightJumps
<1>4. CASE CallFirst \/ TakeFirst \/ BeginMany \/ TakeItem \/ AppendItem \/ EndMany
    BY <1>4, OperandJumps, TakeFirstJumps, BeginManyJumps, TakeItemJumps, AppendItemJumps,
       EndJumps
<1>. QED
    BY <1>1, <1>2, <1>3, <1>4 DEF Syntax

LEMMA SemanticsJumps ==
    ASSUME Apt, CallsInv', Semantics, ~TypeDefinition
    PROVE  Linked'
PROOF
<1>1. CASE BeginAssign \/ TakeTarget \/ TakeAssigned \/ Assign \/ Concat \/ Define
    BY <1>1, OperandJumps, TakeTargetJumps, TakeSuffixedJumps, AssignJumps, ConcatJumps,
       DefineJumps
<1>2. CASE BeginFString \/ EndFString \/ TextSlice \/ OpenSlice \/ CloseSlice
    BY <1>2, BeginFStringJumps, EndJumps, SliceJumps, CloseSliceJumps
<1>3. CASE Declare \/ Constructor \/ Alias \/ MarkScoped \/ Iterator \/ DefaultRange
    BY <1>3, PlainJumps, IteratorJumps, DefaultRangeJumps
<1>4. CASE EnterScope \/ LeaveScope \/ Loop \/ LinkJump \/ Check \/ IndexList
    BY <1>4, ScopeJumps, LoopJumps, LinkJumps, CheckJumps, IndexListJumps
<1>. QED
    BY <1>1, <1>2, <1>3, <1>4 DEF Semantics

LEMMA SyntaxWorks ==
    ASSUME Syntax
    PROVE  Running
PROOF
    BY DEF Syntax, At, In, AtStep,
           Begin, Return, ExpectToken, OptionalToken, ReadText, CallChild, TakeChild,
           Choose, TakeChosen, ReadVisibility, TakeSuffix, TakeSuffixed,
           CallOperand, TakeLeft, TakeRight, CallFirst, TakeFirst,
           BeginMany, TakeItem, AppendItem, EndMany

LEMMA SemanticsWorks ==
    ASSUME Semantics
    PROVE  Running
PROOF
    BY DEF Semantics, At, In, AtStep,
           BeginAssign, TakeTarget, TakeAssigned, Assign,
           BeginFString, EndFString, TextSlice, OpenSlice, CloseSlice,
           Concat, Declare, Define, Constructor, Iterator,
           EnterScope, LeaveScope, Loop, LinkJump, Check, IndexList,
           DefaultRange, Alias, MarkScoped, TypeDefinition

(* Outside of a file there is nothing to link. *)
LEMMA EmptyLinked ==
    ASSUME ParserInv, frames = <<>>, answer = Null
    PROVE  Linked
PROOF
<1>1. Len(frames) = 0 /\ \A i \in 1 .. Len(frames) : FALSE
    BY EmptyFacts
<1>2. within.loop = Null
    BY <1>1 DEF ParserInv, WithinInv
<1>3. NestInv /\ RegistersInv
  <2>1. Len(frames) - 1 = -1 /\ \A i \in 1 .. Len(frames) - 1 : FALSE
      BY <1>1
  <2>. QED
      BY <1>1, <1>2, <2>1 DEF NestInv, RegistersInv
<1>. QED
    BY <1>1, <1>3 DEF Linked, FramesRight, AnswerRight, BreakRight

LEMMA OpenLinked ==
    ASSUME ParserInv, JumpInv, OpenFile
    PROVE  JumpInv'
PROOF
<1>. DEFINE m == Frame("module")
<1>1. /\ frames = <<>> /\ answer = Null /\ frames' = <<m>> /\ UNCHANGED <<answer, within, heap>>
    BY DEF OpenFile, ParserInv, Stages
<1>2. Len(frames) = 0 /\ \A i \in 1 .. Len(frames) : FALSE
    BY <1>1, EmptyFacts
<1>3. within.loop = Null
    BY <1>2 DEF ParserInv, WithinInv
<1>4. /\ ~InStep(m) /\ ~InScope(m) /\ m.node = Null /\ m.held = Null /\ m.phase = "enter"
    BY RulesAssumption DEF Frame, InStep, InScope
<1>5. m.rule = "module" /\ "module" # "break"
    BY DEF Frame
<1>. HIDE DEF m
<1>6. Len(frames') = 1 /\ frames'[1] = m /\ \A i \in 1 .. 1 : i = 1
    BY <1>1, OneFacts
<1>7. Top' = m
    BY <1>1, OneFacts DEF Top
<1>8. NestInv'
  <2>1. \A i, j \in 1 .. Len(frames') : ~(i < j)
      BY <1>6
  <2>2. \A i \in 1 .. Len(frames') - 1 : FALSE
      BY <1>6
  <2>. QED
      BY <2>1, <2>2 DEF NestInv
<1>9. RegistersInv'
    BY <1>1, <1>3, <1>4, <1>6 DEF RegistersInv
<1>10. FramesRight'
    BY <1>4, <1>6, BareRight DEF FramesRight
<1>11. AnswerRight' /\ BreakRight'
    BY <1>1, <1>5, <1>7 DEF AnswerRight, BreakRight
<1>. QED
    BY <1>8, <1>9, <1>10, <1>11 DEF JumpInv

LEMMA FileLinked ==
    ASSUME ParserInv, ParserInv', JumpInv,
           OpenFile \/ FailToOpen \/ CloseFile \/ Restart \/ UNCHANGED vars
    PROVE  JumpInv'
PROOF
<1>1. CASE FailToOpen \/ Restart
  <2>1. frames' = <<>> /\ answer' = Null
      BY <1>1 DEF FailToOpen, Restart, Reset, ParserInv, Stages
  <2>2. (ParserInv /\ frames = <<>> /\ answer = Null => Linked)'
      BY EmptyLinked, PTL
  <2>3. Linked'
      BY <2>1, <2>2
  <2>. QED
      BY <2>3 DEF JumpInv, Linked
<1>2. CASE UNCHANGED <<frames, within, heap, answer, parsers>> /\ (fault' = "none" => fault = "none")
    BY <1>2 DEF JumpInv, NestInv, RegistersInv, FramesRight, AnswerRight, BreakRight, Top,
                Calm, WaitsForValue, CalledBy, Step, Rule
<1>3. CASE CloseFile
  <2>1. fault = "none"
      BY <1>3 DEF CloseFile
  <2>. QED
      BY <1>2, <1>3, <2>1 DEF CloseFile
<1>4. CASE UNCHANGED vars
    BY <1>2, <1>4 DEF vars
<1>. QED
    BY <1>1, <1>3, <1>4, OpenLinked

LEMMA StepJumps ==
    ASSUME ParserInv, TreeInv, CallsInv, JumpInv, ParserInv', CallsInv',
           [Parsing \/ Restart]_vars
    PROVE  JumpInv'
PROOF
<1>1. CASE Syntax \/ (Semantics /\ ~TypeDefinition)
  <2>1. Running
      BY <1>1, SyntaxWorks, SemanticsWorks
  <2>2. Apt
      BY <2>1 DEF Apt, Running, JumpInv, Linked
  <2>3. Linked'
      BY <1>1, <2>2, SyntaxJumps, SemanticsJumps
  <2>. QED
      BY <2>3 DEF JumpInv, Linked
<1>2. CASE TypeDefinition
    BY <1>2 DEF TypeDefinition, JumpInv
<1>3. CASE OpenFile \/ FailToOpen \/ CloseFile \/ Restart \/ UNCHANGED vars
    BY <1>3, FileLinked
<1>. QED
    BY <1>1, <1>2, <1>3 DEF Parsing

(* What links to the innermost node around it links to what the checks of  *)
(* the parser call so.                                                     *)
LEMMA LinkInnermost ==
    ASSUME NEW h, NEW x, NEW kinds, NEW n, NEW link, NEW around,
           around = Enclosing(h, x, kinds, n), h[n].link = link,
           LinkFits(h, x, kinds, n, Null)
    PROVE  /\ around = {} => link = Null
           /\ around # {} => link = CHOOSE o \in around : \A p \in around : o \in h[p].below
PROOF
<1>1. ASSUME around # {}
      PROVE  link = CHOOSE o \in around : \A p \in around : o \in h[p].below
  <2>1. /\ link \in around
        /\ \A p \in around : link \in h[p].below /\ (p \in h[link].below => p = link)
      BY <1>1 DEF LinkFits
  <2>. DEFINE c == CHOOSE o \in around : \A p \in around : o \in h[p].below
  <2>2. c \in around /\ \A p \in around : c \in h[p].below
      BY <2>1
  <2>. HIDE DEF c
  <2>3. c = link
      BY <2>1, <2>2
  <2>. QED
      BY <2>3 DEF c
<1>. QED
    BY <1>1 DEF LinkFits

LEMMA FinishedLinked ==
    ASSUME ParserInv, JumpInv
    PROVE  JumpsLinked
PROOF
<1>1. SUFFICES ASSUME Finished, NEW n \in Tree
               PROVE  /\ heap[n].kind \in {"Return", "Assert"} =>
                            heap[n].link = Innermost(Inside(FunctionKinds, n))
                      /\ heap[n].kind = "Break" =>
                            heap[n].link = Innermost(Inside(LoopKinds, n))
    BY DEF JumpsLinked, FunctionKinds, LoopKinds
<1>2. frames = <<>> /\ answer # Null /\ Tree = heap[answer].below /\ n \in heap[answer].below
    BY <1>1 DEF Finished, ParserInv, Stages, Tree
<1>3. Len(frames) = 0 /\ \A i \in 1 .. Len(frames) : FALSE
    BY <1>2, EmptyFacts
<1>4. within.function = Null
    BY <1>3 DEF ParserInv, WithinInv, EnteredAs
<1>5. OuterLoop(frames, Len(frames) + 1) = Null
  <2>1. Looping(frames, Len(frames) + 1) = {}
      BY <1>3 DEF Looping
  <2>. QED
      BY <1>3, <2>1, OuterFacts
<1>6. Tied(heap, answer, Null, Null, {})
    BY <1>1, <1>2, <1>4, <1>5 DEF Finished, JumpInv, AnswerRight
<1>7. /\ Inside(FunctionKinds, n) = Enclosing(heap, answer, FunctionKinds, n)
      /\ Inside(LoopKinds, n) = Enclosing(heap, answer, LoopKinds, n)
    BY <1>2 DEF Inside, Enclosing
<1>8. ASSUME NEW kinds, LinkFits(heap, answer, kinds, n, Null),
             Inside(kinds, n) = Enclosing(heap, answer, kinds, n)
      PROVE  heap[n].link = Innermost(Inside(kinds, n))
  <2>1. PICK around : around = Inside(kinds, n)
      OBVIOUS
  <2>2. /\ around = {} => heap[n].link = Null
        /\ around # {} =>
              heap[n].link = CHOOSE o \in around : \A p \in around : o \in heap[p].below
      BY <1>8, <2>1, LinkInnermost
  <2>. QED
      BY <2>1, <2>2 DEF Innermost
<1>. QED
    BY <1>2, <1>6, <1>7, <1>8 DEF Tied

(* For every text and every set of tokens: each return and each assert of  *)
(* a parsed file links to the function or method around it, each break to  *)
(* the innermost loop, and nothing that a value, a list or a failed rule   *)
(* contributes to the tree brings a jump with it that is linked elsewhere  *)
(* (parse.c:1250, 1275, 1308, 1497).                                       *)
THEOREM JumpsFindTheirTarget == Spec => []JumpsLinked
PROOF
<1>. DEFINE Inv == ParserInv /\ TreeInv /\ CallsInv /\ JumpInv
<1>1. Init => Inv
  <2>1. SUFFICES ASSUME Init PROVE Inv
      OBVIOUS
  <2>2. ParserInv /\ TreeInv /\ CallsInv
      BY <2>1, InitControl, EmptyTree, EmptyCalls DEF Init
  <2>3. Linked
      BY <2>1, <2>2, EmptyLinked DEF Init
  <2>. QED
      BY <2>2, <2>3 DEF JumpInv, Linked
<1>2. Inv /\ [Parsing \/ Restart]_vars => Inv'
  <2>1. SUFFICES ASSUME Inv, [Parsing \/ Restart]_vars PROVE Inv'
      OBVIOUS
  <2>2. ParserInv' /\ TreeInv'
      BY <2>1, StepControl, ParsingTree
  <2>3. CallsInv'
      BY <2>1, <2>2, StepCalls
  <2>4. JumpInv'
      BY <2>1, <2>2, <2>3, StepJumps
  <2>. QED
      BY <2>2, <2>3, <2>4
<1>3. Inv => JumpsLinked
    BY FinishedLinked
<1>. QED
    BY <1>1, <1>2, <1>3, PTL DEF Spec
=============================================================================
