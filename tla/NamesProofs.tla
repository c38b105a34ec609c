----------------------------- MODULE NamesProofs -----------------------------
(***************************************************************************)
(* Why the parser fails an assertion in a file with errors only, for every *)
(* source text: which rule may call which, and what a rule returns as long *)
(* as no error was reported.  Names that are compared have been read, the  *)
(* lists that are looked into are there, and a symbol is a node that is    *)
(* allocated.                                                              *)
(***************************************************************************)
EXTENDS TreeProofs, WellFoundedInduction

\* Frame f waits for rule r.
CalledBy(f, r) ==
    /\ r \in Calls(f.rule)
    /\ f.phase = "child" => r = StepsOf(f.rule)[f.at].rule
    /\ f.phase = "assigned" => r \in {"assignment", "compound"}

\* Rules are called by rules that call them; a class is not in another one,
\* and its register is set while it is parsed.
CallsInv ==
    /\ \A i \in 1 .. Len(frames) - 1 : CalledBy(frames[i], frames[i + 1].rule)
    /\ \A i, j \in 1 .. Len(frames) :
          i < j /\ frames[i].rule \notin ToClass => frames[j].rule \notin Outer
    /\ \A i \in 1 .. Len(frames) : frames[i].rule \in OfClass =>
          \E j \in 1 .. i - 1 : frames[j].rule = "class" /\ InScope(frames[j])
    /\ \A i \in 1 .. Len(frames) :
          frames[i].rule = "class" /\ InScope(frames[i]) => within.class = frames[i].node

\* A node has its name, is alone if no traversal goes on from it, and what
\* an import names has a name.
NodeNamed(h, n) ==
    /\ h[n].kind \in Named => h[n].text # "none"
    /\ h[n].kind \notin DOMAIN Traversed => h[n].below = {n}
    /\ IsSequence(h[n].kids)
    /\ \A i \in DOMAIN h[n].kids :
          /\ DOMAIN h[n].kids[i] = {"field", "node"} /\ h[n].kids[i].node \in Nat \ {Null}
          /\ h[n].kind = "Import" /\ h[n].kids[i].field = "identifier" =>
                /\ h[n].kids[i].node \in h[n].below \cap DOMAIN h
                /\ h[h[n].kids[i].node].kind \in Named
HeapNamed(h) == \A n \in DOMAIN h : NodeNamed(h, n)

SymbolsNamed(h, s) ==
    \A o \in DOMAIN s :
        /\ IsSequence(s[o])
        /\ \A i \in DOMAIN s[o] : s[o][i] \in DOMAIN h /\ h[s[o][i]].kind \in Declaring

\* What a rule returns in a file without errors.
Gives(h, r, n) ==
    /\ n = Null => ~Solid(r)
    /\ n # Null /\ r # "compound" /\ Rules[r].form \in {"construct", "suffix", "chain"} =>
          h[n].kind \in Results(r)
    /\ r = "typedef" => n = Null

\* The node of a frame is of the kind that the rule has made, and the list
\* that a step looks into is there.
Placed(h, f) ==
    /\ InStep(f) /\ Rules[f.rule].form # "scoped" =>
          IF f.rule = "compound" THEN h[f.node].kind \notin Named
          ELSE h[f.node].kind = Rules[f.rule].kind
    /\ f.phase = "steps" /\ StepsOf(f.rule)[f.at].do \in {"index", "handlers"} =>
          \E k \in DOMAIN h[f.node].kids :
              h[f.node].kids[k].field = ListOf[StepsOf(f.rule)[f.at].do]
    /\ f.phase = "suffixes" => h[f.node].kind \in Results(f.rule)
    /\ f.phase = "define" => h[f.node].kind \in Declaring
    /\ f.phase = "done" => Gives(h, f.rule, f.node)

NamesRight ==
    /\ HeapNamed(heap) /\ SymbolsNamed(heap, symbols)
    /\ \A i \in 1 .. Len(frames) : Placed(heap, frames[i])
    /\ frames # <<>> /\ Top.phase \in Waiting =>
          \E r \in DOMAIN Rules : CalledBy(Top, r) /\ Gives(heap, r, answer)

NamesInv ==
    /\ CallsInv
    /\ Errors = 0 => NamesRight
    /\ stage = "closed" => fault = "none"

-----------------------------------------------------------------------------
(* Which rule calls which, whatever is parsed. *)
LEMMA SameCalls ==
    ASSUME CallsInv, Len(frames) \in Nat, Len(frames') = Len(frames),
           within'.class = within.class,
           \A i \in 1 .. Len(frames) :
              /\ frames'[i].rule = frames[i].rule
              /\ InScope(frames'[i]) <=> InScope(frames[i])
              /\ InScope(frames'[i]) => frames'[i].node = frames[i].node,
           \A i \in 1 .. Len(frames) - 1 :
              frames'[i].phase = frames[i].phase /\ frames'[i].at = frames[i].at
    PROVE  CallsInv'
PROOF
<1>1. \A i \in 1 .. Len(frames') - 1 : CalledBy(frames'[i], frames'[i + 1].rule)
  <2>1. SUFFICES ASSUME NEW i \in 1 .. Len(frames) - 1
                 PROVE  CalledBy(frames'[i], frames'[i + 1].rule)
      OBVIOUS
  <2>2. i \in 1 .. Len(frames) /\ i + 1 \in 1 .. Len(frames)
      OBVIOUS
  <2>3. CalledBy(frames[i], frames[i + 1].rule)
      BY DEF CallsInv
  <2>. QED
      BY <2>2, <2>3 DEF CalledBy
<1>2. \A i, j \in 1 .. Len(frames') :
          i < j /\ frames'[i].rule \notin ToClass => frames'[j].rule \notin Outer
    BY DEF CallsInv
<1>3. ASSUME NEW i \in 1 .. Len(frames'), frames'[i].rule \in OfClass
      PROVE  \E j \in 1 .. i - 1 : frames'[j].rule = "class" /\ InScope(frames'[j])
  <2>1. PICK j \in 1 .. i - 1 : frames[j].rule = "class" /\ InScope(frames[j])
      BY <1>3 DEF CallsInv
  <2>2. j \in 1 .. Len(frames)
      BY <2>1
  <2>. QED
      BY <2>1, <2>2
<1>4. \A i \in 1 .. Len(frames') :
          frames'[i].rule = "class" /\ InScope(frames'[i]) => within'.class = frames'[i].node
    BY DEF CallsInv
<1>. QED
    BY <1>1, <1>2, <1>3, <1>4 DEF CallsInv

\* Frame f takes the place of the top one, in its rule and in its scope.
Stays(f) ==
    /\ f.rule = Top.rule
    /\ InScope(f) <=> InScope(Top)
    /\ InScope(f) => f.node = Top.node

LEMMA GotoCalls ==
    ASSUME ParserInv, CallsInv, Running, NEW f, Stays(f), frames' = WithLast(frames, f),
           within'.class = within.class
    PROVE  CallsInv'
PROOF
<1>1. /\ frames # <<>> /\ IsSequence(frames) /\ Len(frames) \in Nat \ {0}
      /\ Top = frames[Len(frames)]
    BY AtTop
<1>2. /\ Len(frames') = Len(frames)
      /\ \A i \in 1 .. Len(frames) : frames'[i] = IF i = Len(frames) THEN f ELSE frames[i]
    BY <1>1, WithLastFacts
<1>3. \A i \in 1 .. Len(frames) :
          /\ frames'[i].rule = frames[i].rule
          /\ InScope(frames'[i]) <=> InScope(frames[i])
          /\ InScope(frames'[i]) => frames'[i].node = frames[i].node
    BY <1>1, <1>2 DEF Stays
<1>4. \A i \in 1 .. Len(frames) - 1 : frames'[i] = frames[i]
    BY <1>1, <1>2
<1>. QED
    BY <1>1, <1>2, <1>3, <1>4, SameCalls

(* A rule of a class is called by another one or in the scope of the class. *)
LEMMA ClassCalls ==
    ASSUME NEW f, Fine(f), f.phase \in Waiting, NEW r \in OfClass, CalledBy(f, r)
    PROVE  f.rule \in OfClass \/ (f.rule = "class" /\ InScope(f))
PROOF
<1>1. f.rule \in DOMAIN Rules /\ NameShape(f.rule)
    BY NamesFit DEF Fine
<1>2. f.rule \in OfClass \cup {"class"}
    BY <1>1 DEF NameShape, CalledBy
<1>3. ASSUME f.rule = "class" PROVE InScope(f)
  <2>1. f.phase = "child"
      BY <1>3, NamesFit DEF Fine, Waiting
  <2>2. r = StepsOf("class")[f.at].rule /\ f.at \in 1 .. Len(StepsOf("class"))
        /\ StepsOf("class")[f.at].do \in {"child", "become"}
      BY <1>3, <2>1 DEF CalledBy, Fine, StepsOf
  <2>3. RuleShape("class")
      BY <1>1, <1>3, RulesAssumption
  <2>4. f.at \in DOMAIN StepsOf("class") /\ StepShape("class", f.at)
      BY <2>2, <2>3, NamesFit DEF RuleShape, StepsOf, Stepping, IsList
  <2>5. StepsOf("class")[f.at].do = "child"
      BY <2>2, <2>4, NamesFit DEF StepShape
  <2>. QED
      BY <1>3, <2>1, <2>2, <2>4, <2>5, NamesFit DEF InScope, InStep
<1>. QED
    BY <1>2, <1>3

LEMMA CallCalls ==
    ASSUME ParserInv, CallsInv, ParserInv', Running, NEW f, NEW g, Stays(f),
           CalledBy(f, g.rule), ~InScope(g),
           frames' = Append(WithLast(frames, f), g), within'.class = within.class
    PROVE  CallsInv'
PROOF
<1>. DEFINE n == Len(frames)
            hs == WithLast(frames, f)
<1>1. /\ frames # <<>> /\ IsSequence(frames) /\ n \in Nat \ {0} /\ Top = frames[n]
    BY AtTop
<1>2. /\ IsSequence(hs) /\ Len(hs) = n
      /\ \A i \in 1 .. n : hs[i] = IF i = n THEN f ELSE frames[i]
    BY <1>1, WithLastFacts
<1>. HIDE DEF hs
<1>3. frames' = Append(hs, g)
    BY DEF hs
<1>4. /\ Len(frames') = n + 1 /\ frames'[n + 1] = g
      /\ \A i \in 1 .. n : frames'[i] = IF i = n THEN f ELSE frames[i]
    BY <1>2, <1>3, AppendFacts
<1>5. \A i \in 1 .. n :
          /\ frames'[i].rule = frames[i].rule
          /\ InScope(frames'[i]) <=> InScope(frames[i])
          /\ InScope(frames'[i]) => frames'[i].node = frames[i].node
    BY <1>1, <1>4 DEF Stays
<1>7. \A i \in 1 .. n + 1 : i \in 1 .. n \/ i = n + 1
    BY <1>1
<1>. HIDE DEF n
<1>12. Fine(f) /\ f.phase \in Waiting
  <2>1. n \in 1 .. n + 1 /\ n < n + 1 /\ n \in 1 .. n
      BY <1>1
  <2>2. Fine(frames'[n]) /\ frames'[n].phase \in Waiting
      BY <1>4, <2>1 DEF ParserInv, FramesInv
  <2>. QED
      BY <1>4, <2>1, <2>2
<1>6. f.rule = frames[n].rule /\ f.rule \in DOMAIN Rules /\ NameShape(f.rule)
    BY <1>1, <1>12, NamesFit DEF Fine, Stays
<1>8. \A i \in 1 .. Len(frames') - 1 : CalledBy(frames'[i], frames'[i + 1].rule)
  <2>1. SUFFICES ASSUME NEW i \in 1 .. n
                 PROVE  CalledBy(frames'[i], frames'[i + 1].rule)
      BY <1>1, <1>4
  <2>2. CASE i = n
      BY <1>1, <1>4, <2>2
  <2>3. CASE i # n
    <3>1. i \in 1 .. n - 1 /\ i + 1 \in 1 .. n
        BY <1>1, <2>3
    <3>2. CalledBy(frames[i], frames[i + 1].rule)
        BY <3>1 DEF CallsInv, n
    <3>. QED
        BY <1>4, <1>5, <2>3, <3>1, <3>2
  <2>. QED
      BY <2>2, <2>3
<1>9. ASSUME NEW i \in 1 .. n + 1, NEW j \in 1 .. n + 1, i < j, frames'[i].rule \notin ToClass
      PROVE  frames'[j].rule \notin Outer
  <2>1. i \in 1 .. n
      BY <1>1, <1>9
  <2>2. CASE j \in 1 .. n
      BY <1>5, <1>9, <2>1, <2>2 DEF CallsInv, n
  <2>3. CASE j = n + 1
    <3>1. f.rule \notin ToClass
      <4>1. i = n \/ (i < n /\ n \in 1 .. n)
          BY <1>1, <2>1
      <4>2. i < n => frames[n].rule \notin Outer
          BY <1>1, <1>5, <1>9, <2>1, <4>1 DEF CallsInv, n
      <4>. QED
          BY <1>5, <1>6, <1>9, <2>1, <4>1, <4>2 DEF Outer
    <3>. QED
        BY <1>4, <1>6, <2>3, <3>1 DEF CalledBy, NameShape
  <2>. QED
      BY <1>7, <2>2, <2>3
<1>10. ASSUME NEW i \in 1 .. n + 1, frames'[i].rule \in OfClass
       PROVE  \E j \in 1 .. i - 1 : frames'[j].rule = "class" /\ InScope(frames'[j])
  <2>1. ASSUME NEW k \in 1 .. n, frames[k].rule \in OfClass, k <= i
        PROVE  \E j \in 1 .. i - 1 : frames'[j].rule = "class" /\ InScope(frames'[j])
    <3>1. PICK j \in 1 .. k - 1 : frames[j].rule = "class" /\ InScope(frames[j])
        BY <2>1 DEF CallsInv, n
    <3>2. j \in 1 .. n /\ j \in 1 .. i - 1
        BY <1>1, <2>1
    <3>. QED
        BY <1>5, <3>1, <3>2
  <2>2. CASE i \in 1 .. n
    <3>1. frames'[i].rule = frames[i].rule
        BY <1>5, <2>2
    <3>2. frames[i].rule \in OfClass
        BY <1>10, <3>1
    <3>3. i <= i
        OBVIOUS
    <3>. QED
        BY <2>1, <2>2, <3>2, <3>3
  <2>3. CASE i = n + 1
    <3>1. n \in 1 .. n /\ n <= i /\ n \in 1 .. i - 1
        BY <1>1, <2>3
    <3>2. f.rule \in OfClass \/ (f.rule = "class" /\ InScope(f))
        BY <1>4, <1>10, <1>12, <2>3, ClassCalls
    <3>. QED
        BY <1>4, <1>6, <2>1, <3>1, <3>2
  <2>. QED
      BY <1>7, <2>2, <2>3
<1>11. ASSUME NEW i \in 1 .. n + 1, frames'[i].rule = "class", InScope(frames'[i])
       PROVE  within'.class = frames'[i].node
  <2>1. i \in 1 .. n
      BY <1>4, <1>7, <1>11
  <2>. QED
      BY <1>5, <1>11, <2>1 DEF CallsInv, n
<1>. QED
    BY <1>4, <1>8, <1>9, <1>10, <1>11 DEF CallsInv


(* A rule is in a scope only between its steps. *)
LEMMA NewFrame ==
    ASSUME NEW r \in DOMAIN Rules, NEW h
    PROVE  /\ Frame(r).rule = r /\ ~InScope(Frame(r))
           /\ [Frame(r) EXCEPT !.held = h].rule = r /\ ~InScope([Frame(r) EXCEPT !.held = h])
PROOF
<1>1. ~Between(r, 1, "enter", "leave") \/ Rules[r].form # "scoped"
    BY RulesAssumption DEF Between, RuleShape, IsList, StepsOf, Stepping
<1>2. /\ Frame(r).rule = r /\ Frame(r).at = 1
      /\ Frame(r).phase = IF Rules[r].form = "scoped" THEN "steps" ELSE "enter"
    BY DEF Frame
<1>3. /\ [Frame(r) EXCEPT !.held = h].rule = r /\ [Frame(r) EXCEPT !.held = h].at = 1
      /\ [Frame(r) EXCEPT !.held = h].phase = IF Rules[r].form = "scoped" THEN "steps" ELSE "enter"
    BY DEF Frame
<1>. QED
    BY <1>1, <1>2, <1>3 DEF InScope, InStep

\* A frame that neither was in its scope nor is.
Turns(f) == f.rule = Top.rule /\ ~InScope(f)

LEMMA TurnCalls ==
    ASSUME ParserInv, CallsInv, Running, ~InScope(Top), NEW f, Turns(f),
           frames' = WithLast(frames, f), UNCHANGED within
    PROVE  CallsInv'
PROOF
<1>1. Stays(f) /\ within'.class = within.class
    BY DEF Stays, Turns
<1>. QED
    BY <1>1, GotoCalls

LEMMA AsideCalls ==
    ASSUME ParserInv, CallsInv, ParserInv', Running, ~InScope(Top), NEW f, Turns(f),
           f.phase \notin {"child", "assigned"}, NEW g, g.rule \in Calls(Top.rule), ~InScope(g),
           frames' = Append(WithLast(frames, f), g), UNCHANGED within
    PROVE  CallsInv'
PROOF
<1>1. Stays(f) /\ within'.class = within.class /\ CalledBy(f, g.rule)
    BY DEF Stays, Turns, CalledBy
<1>. QED
    BY <1>1, CallCalls

(* Steps of a list, *)
LEMMA StepStays ==
    ASSUME ParserInv, Running, InStep(Top), Step.do \notin {"enter", "leave"},
           NEW n \in After(Top.rule, Top.at)
    PROVE  Stays(Onward(Top, n))
PROOF
<1>. DEFINE f == Onward(Top, n)
<1>1. Fine(Top) /\ RuleShape(Top.rule)
    BY AtTop
<1>2. /\ Step = StepsOf(Top.rule)[Top.at] /\ StepShape(Top.rule, Top.at)
      /\ Top.at \in Nat /\ Top.held = Null
    BY StepFacts
<1>3. n \in Nat /\ n > Top.at
    BY <1>2 DEF After, StepShape
<1>4. /\ f.rule = Top.rule /\ f.node = Top.node
      /\ InScope(f) <=> Between(Top.rule, n, "enter", "leave")
  <2>1. /\ Rules[Top.rule].form = "scoped" /\ n <= 2 => Top.node = Null
        /\ Rules[Top.rule].form # "scoped" => Top.node # Null
        /\ Top.node \in Nat
      BY <1>1, <1>2, <1>3 DEF Fine, InStep
  <2>. HIDE DEF InStep
  <2>. QED
      BY <1>1, <1>2, <2>1, OnwardFine
<1>. HIDE DEF f
<1>5. Between(Top.rule, n, "enter", "leave") <=> Between(Top.rule, Top.at, "enter", "leave")
    BY <1>2 DEF StepShape, Brackets
<1>. QED
    BY <1>4, <1>5 DEF Stays, InScope, f

LEMMA OnCalls ==
    ASSUME ParserInv, CallsInv, Running, InStep(Top), Step.do \notin {"enter", "leave"},
           NEW n \in After(Top.rule, Top.at), frames' = WithLast(frames, Onward(Top, n)),
           within'.class = within.class
    PROVE  CallsInv'
PROOF
    BY StepStays, GotoCalls

LEMMA NextCalls ==
    ASSUME ParserInv, CallsInv,
           \/ ExpectToken \/ ReadText \/ Declare \/ Constructor \/ Iterator \/ Loop
           \/ LinkJump \/ Check \/ IndexList \/ DefaultRange \/ MarkScoped
    PROVE  CallsInv'
PROOF
<1>1. /\ Running /\ InStep(Top) /\ Step.do \notin {"enter", "leave"}
      /\ frames' = WithLast(frames, Onward(Top, Top.at + 1))
    BY DEF ExpectToken, ReadText, LinkJump, Check, IndexList, DefaultRange, MarkScoped, Loop,
           Declare, Constructor, Iterator, AtStep, At, Goto, InStep, NextStep
<1>2. within \in [function : Nat, class : Nat, loop : Nat]
    BY DEF ParserInv, WithinInv
<1>3. within'.class = within.class
    BY <1>2 DEF ExpectToken, ReadText, LinkJump, Check, IndexList, DefaultRange, MarkScoped, Loop,
           Declare, Constructor, Iterator, OnlyFrames, Otherwise, SameScopes
<1>4. Top.at + 1 \in After(Top.rule, Top.at)
    BY DEF After
<1>. QED
    BY <1>1, <1>3, <1>4, OnCalls

LEMMA SameFramesCalls ==
    ASSUME ParserInv, CallsInv, UNCHANGED <<frames, within>>
    PROVE  CallsInv'
PROOF
    BY DEF CallsInv, CalledBy, InScope, InStep

LEMMA JumpCalls ==
    ASSUME ParserInv, CallsInv, OptionalToken \/ Alias \/ Concat \/ TypeDefinition
    PROVE  CallsInv'
PROOF
<1>1. /\ Running /\ InStep(Top) /\ Step.do \notin {"enter", "leave"} /\ UNCHANGED within
    BY DEF OptionalToken, Alias, Concat, TypeDefinition, AtStep, At, OnlyFrames, InStep,
           Otherwise, SameScopes
<1>2. {Top.at + 1, Top.at + 1 + Step.over} \subseteq After(Top.rule, Top.at) \/ ~OptionalToken
    BY DEF OptionalToken, AtStep, After, Step, Rule, StepsOf
<1>3. {Top.at + 1, Top.at + 2} \subseteq After(Top.rule, Top.at) \/ ~Alias
    BY DEF Alias, AtStep, After, Step, Rule, StepsOf
<1>4. Top.at + 1 \in After(Top.rule, Top.at)
    BY DEF After
<1>5. \/ UNCHANGED frames
      \/ \E n \in After(Top.rule, Top.at) : frames' = WithLast(frames, Onward(Top, n))
    BY <1>2, <1>3, <1>4 DEF OptionalToken, Alias, Concat, TypeDefinition, Goto, NextStep
<1>. QED
    BY <1>1, <1>5, OnCalls, SameFramesCalls

(* and what happens around the lists. *)
LEMMA BeginCalls ==
    ASSUME ParserInv, CallsInv, Begin \/ TakeFirst
    PROVE  CallsInv'
PROOF
<1>1. /\ Running /\ UNCHANGED within /\ Top.phase \notin {"steps", "child"}
      /\ Rule.form = "chain" \/ Rule.form \in Stepping
    <2>1. CASE Begin
        BY <2>1 DEF Begin, In, At, OnlyFrames, Otherwise, SameScopes, Stepping
    <2>2. CASE TakeFirst
      <3>1. Running /\ Top.phase = "first" /\ UNCHANGED within
          BY <2>2 DEF TakeFirst, At, Taking, Otherwise, SameScopes
      <3>2. Rule.form = "wrap"
          BY <3>1, AtTop DEF Fine, Rule
      <3>. QED
          BY <3>1, <3>2 DEF Stepping
    <2>. QED
        BY <2>1, <2>2
<1>2. ~InScope(Top) /\ Fine(Top) /\ RuleShape(Top.rule) /\ Rule = Rules[Top.rule]
    BY <1>1, AtTop DEF InScope, InStep, Rule
<1>3. ASSUME NEW g, g.rule = Top.rule, DOMAIN g = DOMAIN Top, Rule.form \in Stepping
      PROVE  Turns(Onward(g, 1))
  <2>1. Len(StepsOf(Top.rule)) \in Nat /\ DOMAIN StepsOf(Top.rule) = 1 .. Len(StepsOf(Top.rule))
      BY <1>2, <1>3 DEF RuleShape, IsList, StepsOf
  <2>2. Onward(g, 1).rule = Top.rule /\ Onward(g, 1).at = 1
      BY <1>2, <1>3 DEF Onward, Fine
  <2>. QED
      BY <2>1, <2>2 DEF Turns, InScope, Between
<1>4. /\ Done(Null).rule = Top.rule /\ Done(Null).phase = "done"
      /\ [Top EXCEPT !.phase = "suffixes", !.node = created + 1].rule = Top.rule
      /\ [Top EXCEPT !.phase = "suffixes", !.node = created + 1].phase = "suffixes"
      /\ [Top EXCEPT !.node = created + 1, !.held = Null].rule = Top.rule
      /\ DOMAIN [Top EXCEPT !.node = created + 1, !.held = Null] = DOMAIN Top
      /\ [Top EXCEPT !.node = created + 1].rule = Top.rule
      /\ DOMAIN [Top EXCEPT !.node = created + 1] = DOMAIN Top
    BY <1>2 DEF Done, Fine
<1>5. Turns(Done(Null)) /\ Turns([Top EXCEPT !.phase = "suffixes", !.node = created + 1])
    BY <1>4 DEF Turns, InScope, InStep
<1>6. Rule.form \in Stepping =>
          /\ Turns(Onward([Top EXCEPT !.node = created + 1, !.held = Null], 1))
          /\ Turns(Onward([Top EXCEPT !.node = created + 1], 1))
    BY <1>3, <1>4
<1>7. \/ frames' = WithLast(frames, Done(Null))
      \/ frames' = WithLast(frames, [Top EXCEPT !.phase = "suffixes", !.node = created + 1])
      \/ /\ Rule.form \in Stepping
         /\ \/ frames' = WithLast(frames, Onward([Top EXCEPT !.node = created + 1, !.held = Null], 1))
            \/ frames' = WithLast(frames, Onward([Top EXCEPT !.node = created + 1], 1))
  <2>1. CASE Begin
      BY <1>1, <2>1 DEF Begin, Goto
  <2>2. CASE TakeFirst
    <3>1. Rule.form \in Stepping
      <4>1. Top.phase = "first"
          BY <2>2 DEF TakeFirst, At
      <4>. QED
          BY <1>2, <4>1 DEF Fine, Stepping
    <3>. QED
        BY <2>2, <3>1 DEF TakeFirst, Goto
  <2>. QED
      BY <2>1, <2>2
<1>8. PICK f : Turns(f) /\ frames' = WithLast(frames, f)
    BY <1>5, <1>6, <1>7
<1>. QED
    BY <1>1, <1>2, <1>8, TurnCalls

\* A frame that is at no step.
Unlisted(f) == f.rule = Top.rule /\ f.phase \notin {"steps", "child", "assigned"}

LEMMA AsideTurns ==
    ASSUME ParserInv, Running, Rule.form \notin Stepping
    PROVE  /\ ~InScope(Top) /\ Rule = Rules[Top.rule] /\ Top.rule \in DOMAIN Rules
           /\ RuleShape(Top.rule) /\ Fine(Top)
           /\ DOMAIN Top = {"rule", "at", "node", "held", "text", "phase", "calm"}
           /\ \A f : Unlisted(f) => Turns(f)
           /\ \A m : Unlisted(Done(m))
PROOF
<1>1. Fine(Top) /\ RuleShape(Top.rule) /\ Rule = Rules[Top.rule] /\ Top.rule \in DOMAIN Rules
    BY AtTop DEF Rule
<1>2. ~InScope(Top)
    BY <1>1 DEF Fine, InStep, InScope
<1>3. \A f : Unlisted(f) => Turns(f)
    BY DEF Unlisted, Turns, InScope, InStep
<1>4. DOMAIN Top = {"rule", "at", "node", "held", "text", "phase", "calm"}
    BY <1>1 DEF Fine
<1>5. \A m : Unlisted(Done(m))
    BY <1>4 DEF Unlisted, Done
<1>. QED
    BY <1>1, <1>2, <1>3, <1>4, <1>5

(* The form of the rule that is in a phase. *)
LEMMA FormOf ==
    ASSUME ParserInv, Running
    PROVE  /\ Top.phase \in {"choose", "define"} => Rule.form = "definition"
           /\ Top.phase = "chosen" => Rule.form \in {"choice", "definition"}
           /\ Top.phase \in {"suffixes", "suffixed"} => Rule.form = "chain"
           /\ Top.phase \in {"left", "right"} => Rule.form = "level"
           /\ Top.phase = "first" => Rule.form = "wrap"
           /\ Top.phase \in {"item", "append", "close"} => Rule.form = "many"
           /\ Top.phase \in {"target", "assigned"} => Rule.form = "assign"
           /\ Top.phase \in {"slices", "slice"} => Rule.form = "fstring"
PROOF
    BY AtTop DEF Fine, Rule

LEMMA AsideGotoCalls ==
    ASSUME ParserInv, CallsInv,
           \/ TakeChosen \/ ReadVisibility \/ TakeSuffixed \/ TakeRight \/ EndMany
           \/ TakeAssigned \/ BeginFString \/ EndFString \/ TextSlice \/ CloseSlice \/ Define
    PROVE  CallsInv'
PROOF
<1>1. Running /\ UNCHANGED within
    BY DEF TakeChosen, ReadVisibility, TakeSuffixed, TakeRight, EndMany, TakeAssigned,
           BeginFString, EndFString, TextSlice, CloseSlice, Define, In, At, OnlyFrames, Taking,
           Otherwise, SameScopes
<1>2. Rule.form \notin Stepping
    BY <1>1, FormOf DEF TakeChosen, ReadVisibility, TakeSuffixed, TakeRight, EndMany, TakeAssigned,
           BeginFString, EndFString, TextSlice, CloseSlice, Define, In, At, Stepping
<1>3. /\ ~InScope(Top)
      /\ DOMAIN Top = {"rule", "at", "node", "held", "text", "phase", "calm"}
      /\ \A f : Unlisted(f) => Turns(f)
      /\ \A m : Unlisted(Done(m))
    BY <1>1, <1>2, AsideTurns
<1>4. \E f : frames' = WithLast(frames, f) /\ Unlisted(f)
  <2>1. CASE EndMany \/ TakeAssigned \/ EndFString \/ Define \/ TakeRight
      BY <1>3, <2>1 DEF EndMany, TakeAssigned, EndFString, Define, TakeRight, Goto
  <2>0. /\ Unlisted([Top EXCEPT !.phase = "enter"]) /\ Unlisted([Top EXCEPT !.phase = "choose"])
        /\ \A m : /\ Unlisted([Top EXCEPT !.phase = "choose", !.node = m])
                  /\ Unlisted([Top EXCEPT !.phase = "define", !.node = m])
                  /\ Unlisted([Top EXCEPT !.phase = "suffixes", !.node = m])
        /\ \A t : Unlisted([Top EXCEPT !.phase = "choose", !.text = t])
        /\ \A m, t : Unlisted([Top EXCEPT !.phase = "slices", !.node = m, !.text = t])
        /\ Unlisted([Top EXCEPT !.phase = "slices", !.at = @ + 1, !.held = Null])
      BY <1>3 DEF Unlisted
  <2>2. CASE TakeChosen
    <3>1. \/ frames' = WithLast(frames, [Top EXCEPT !.phase = "enter"])
          \/ frames' = WithLast(frames, Done(answer))
          \/ frames' = WithLast(frames, [Top EXCEPT !.phase = "choose", !.node = answer])
          \/ frames' = WithLast(frames, [Top EXCEPT !.phase = "define", !.node = answer])
        BY <2>2 DEF TakeChosen, Goto
    <3>. QED
        BY <1>3, <2>0, <3>1
  <2>3. CASE TakeSuffixed
    <3>1. \/ frames' = WithLast(frames, Done(Null))
          \/ frames' = WithLast(frames, [Top EXCEPT !.phase = "suffixes", !.node = answer])
        BY <2>3 DEF TakeSuffixed, Goto
    <3>. QED
        BY <1>3, <2>0, <3>1
  <2>4. CASE ReadVisibility
    <3>1. \/ frames' = WithLast(frames, [Top EXCEPT !.phase = "choose", !.text = Current])
          \/ frames' = WithLast(frames, [Top EXCEPT !.phase = "choose"])
        BY <2>4 DEF ReadVisibility, Goto
    <3>. QED
        BY <2>0, <3>1
  <2>5. CASE BeginFString
    <3>1. \/ frames' = WithLast(frames, Done(Null))
          \/ frames' = WithLast(frames, [Top EXCEPT !.phase = "slices", !.node = created + 1,
                                                   !.text = Current])
        BY <2>5 DEF BeginFString, Goto
    <3>. QED
        BY <1>3, <2>0, <3>1
  <2>6. CASE TextSlice
    <3>1. frames' = WithLast(frames, [Top EXCEPT !.at = @ + 1]) /\ Top.phase = "slices"
        BY <2>6 DEF TextSlice, Goto, At
    <3>. QED
        BY <1>3, <3>1 DEF Unlisted
  <2>7. CASE CloseSlice
      BY <2>0, <2>7 DEF CloseSlice, Goto
  <2>. QED
      BY <2>1, <2>2, <2>3, <2>4, <2>5, <2>6, <2>7
<1>. QED
    BY <1>1, <1>3, <1>4, TurnCalls

LEMMA AsideFrames ==
    ASSUME ParserInv, CallsInv, ParserInv', Running, UNCHANGED within, Rule.form \notin Stepping,
           \/ \E f : frames' = WithLast(frames, f) /\ Unlisted(f)
           \/ \E f : \E r \in Calls(Top.rule) \cap DOMAIN Rules : Unlisted(f) /\
                 \/ frames' = Append(WithLast(frames, f), Frame(r))
                 \/ \E h : frames' = Append(WithLast(frames, f), [Frame(r) EXCEPT !.held = h])
    PROVE  CallsInv'
PROOF
<1>1. ~InScope(Top) /\ \A f : Unlisted(f) => Turns(f)
    BY AsideTurns
<1>2. ASSUME NEW f, frames' = WithLast(frames, f), Unlisted(f)
      PROVE  CallsInv'
    BY <1>1, <1>2, TurnCalls
<1>3. ASSUME NEW f, NEW r \in Calls(Top.rule) \cap DOMAIN Rules, Unlisted(f),
             frames' = Append(WithLast(frames, f), Frame(r))
      PROVE  CallsInv'
    BY <1>1, <1>3, NewFrame, AsideCalls DEF Unlisted
<1>4. ASSUME NEW f, NEW r \in Calls(Top.rule) \cap DOMAIN Rules, Unlisted(f), NEW h,
             frames' = Append(WithLast(frames, f), [Frame(r) EXCEPT !.held = h])
      PROVE  CallsInv'
    BY <1>1, <1>4, NewFrame, AsideCalls DEF Unlisted
<1>. QED
    BY <1>2, <1>3, <1>4

LEMMA AsideCallCalls ==
    ASSUME ParserInv, CallsInv, ParserInv',
           \/ Choose \/ TakeSuffix \/ CallOperand \/ TakeLeft \/ BeginMany \/ TakeItem
           \/ AppendItem \/ BeginAssign \/ OpenSlice
    PROVE  CallsInv'
PROOF
<1>1. Running /\ UNCHANGED within
    BY DEF Choose, TakeSuffix, CallOperand, TakeLeft, BeginMany, TakeItem, AppendItem, BeginAssign,
           OpenSlice, In, At, OnlyFrames, Taking, Otherwise, SameScopes
<1>2. Rule.form \notin Stepping
    BY <1>1, FormOf DEF Choose, TakeSuffix, CallOperand, TakeLeft, BeginMany, TakeItem, AppendItem,
           BeginAssign, OpenSlice, In, At, Stepping
<1>3. /\ Rule = Rules[Top.rule] /\ RuleShape(Top.rule)
      /\ DOMAIN Top = {"rule", "at", "node", "held", "text", "phase", "calm"}
      /\ \A m : Unlisted(Done(m))
    BY <1>1, <1>2, AsideTurns
<1>4. CASE Choose
  <2>1. Rule.form \in {"choice", "definition"}
      BY <1>4 DEF Choose, In
  <2>2. CASE Goto(Done(Null))
      BY <1>1, <1>2, <1>3, <2>2, AsideFrames DEF Goto
  <2>3. ASSUME NEW first \in Top.at .. Len(Rule.of), 
               frames' = Append(WithLast(frames, [Top EXCEPT !.phase = "chosen", !.at = first + 1]),
                                Frame(Rule.of[first]))
        PROVE  CallsInv'
    <3>1. Top.at \in Nat \ {0}
        BY <1>1, AtTop DEF Fine
    <3>2. first \in DOMAIN Rule.of /\ Rule.of[first] \in DOMAIN Rules
        BY <1>3, <2>1, <2>3, <3>1 DEF RuleShape, IsList, Callable
    <3>3. Rule.of[first] \in Calls(Top.rule)
        BY <1>3, <2>1, <3>2 DEF Calls, Stepping
    <3>4. Unlisted([Top EXCEPT !.phase = "chosen", !.at = first + 1])
        BY <1>3 DEF Unlisted
    <3>. QED
        BY <1>1, <1>2, <2>3, <3>2, <3>3, <3>4, AsideFrames
  <2>. QED
      BY <1>4, <2>2, <2>3 DEF Choose, Call
<1>5. CASE TakeSuffix
  <2>1. Rule.form = "chain"
      BY <1>5 DEF TakeSuffix, In
  <2>2. CASE Goto(Done(Top.node))
      BY <1>1, <1>2, <1>3, <2>2, AsideFrames DEF Goto
  <2>3. ASSUME NEW r \in ToSet(Rule.of),
               frames' = Append(WithLast(frames, [Top EXCEPT !.phase = "suffixed", !.node = Null]),
                                [Frame(r) EXCEPT !.held = Top.node])
        PROVE  CallsInv'
    <3>1. r \in Calls(Top.rule) \cap DOMAIN Rules
        BY <1>3, <2>1, <2>3 DEF RuleShape, IsList, ToSet, Calls, Stepping
    <3>2. Unlisted([Top EXCEPT !.phase = "suffixed", !.node = Null])
        BY <1>3 DEF Unlisted
    <3>. QED
        BY <1>1, <1>2, <2>3, <3>1, <3>2, AsideFrames
  <2>. QED
      BY <1>5, <2>2, <2>3 DEF TakeSuffix, Call
<1>6. CASE CallOperand \/ TakeLeft
  <2>1. Rule.form = "level"
      BY <1>1, <1>6, FormOf DEF CallOperand, TakeLeft, In, At
  <2>2. {Rule.self, Rule.operand} \subseteq Calls(Top.rule) \cap DOMAIN Rules
      BY <1>3, <2>1 DEF RuleShape, Calls, Callable, Stepping
  <2>3. /\ Unlisted([Top EXCEPT !.phase = "left"])
        /\ \A h, t : Unlisted([Top EXCEPT !.phase = "right", !.held = h, !.text = t])
      BY <1>3 DEF Unlisted
  <2>4. \/ \E f : frames' = WithLast(frames, f) /\ Unlisted(f)
        \/ \E f : \E r \in Calls(Top.rule) \cap DOMAIN Rules :
              Unlisted(f) /\ frames' = Append(WithLast(frames, f), Frame(r))
      BY <1>3, <1>6, <2>2, <2>3 DEF CallOperand, TakeLeft, Call, Goto
  <2>. QED
      BY <1>1, <1>2, <2>4, AsideFrames
<1>7. CASE BeginMany \/ TakeItem \/ AppendItem
  <2>1. Rule.form = "many"
      BY <1>1, <1>7, FormOf DEF BeginMany, TakeItem, AppendItem, In, At
  <2>2. Rule.of \in Calls(Top.rule) \cap DOMAIN Rules
      BY <1>3, <2>1 DEF RuleShape, Calls, Callable, Stepping
  <2>3. /\ \A g : g.rule = Top.rule /\ DOMAIN g = DOMAIN Top => Unlisted([g EXCEPT !.phase = "item"])
        /\ \A m, c : /\ [Top EXCEPT !.node = m, !.calm = c].rule = Top.rule
                     /\ DOMAIN [Top EXCEPT !.node = m, !.calm = c] = DOMAIN Top
        /\ \A t : /\ [Top EXCEPT !.text = t].rule = Top.rule
                  /\ DOMAIN [Top EXCEPT !.text = t] = DOMAIN Top
        /\ \A h : /\ [Top EXCEPT !.held = h].rule = Top.rule
                  /\ DOMAIN [Top EXCEPT !.held = h] = DOMAIN Top
        /\ \A h : /\ Unlisted([[Top EXCEPT !.held = h] EXCEPT !.phase = "close"])
                  /\ Unlisted([Top EXCEPT !.phase = "append", !.held = h, !.text = "none"])
      BY <1>3 DEF Unlisted
  <2>4. \/ \E f : frames' = WithLast(frames, f) /\ Unlisted(f)
        \/ \E f : Unlisted(f) /\ frames' = Append(WithLast(frames, f), Frame(Rule.of))
    <3>1. CASE BeginMany
        BY <1>3, <2>3, <3>1 DEF BeginMany, CallItem, Call, Goto
    <3>2. CASE TakeItem
        BY <2>3, <3>2 DEF TakeItem, CallItem, Call, Goto
    <3>3. CASE AppendItem
        BY <2>3, <3>3 DEF AppendItem, CallItem, Call, Goto
    <3>. QED
        BY <1>7, <3>1, <3>2, <3>3
  <2>. QED
      BY <1>1, <1>2, <2>2, <2>4, AsideFrames
<1>8. CASE BeginAssign
  <2>1. "primary" \in Calls(Top.rule) \cap DOMAIN Rules
      BY <1>3, <1>8, RulesAssumption DEF BeginAssign, In, Calls, Stepping, Callable
  <2>2. Unlisted([Top EXCEPT !.phase = "target"])
      BY <1>3 DEF Unlisted
  <2>. QED
      BY <1>1, <1>2, <1>8, <2>1, <2>2, AsideFrames DEF BeginAssign, Call
<1>9. CASE OpenSlice
  <2>0. Rule.form = "fstring"
      BY <1>1, <1>9, FormOf DEF OpenSlice, At
  <2>1. "expression" \in Calls(Top.rule) \cap DOMAIN Rules
      BY <1>3, <2>0, RulesAssumption DEF Calls, Stepping, Callable
  <2>2. Unlisted([Top EXCEPT !.phase = "slice", !.held = created + 1])
      BY <1>3 DEF Unlisted
  <2>. QED
      BY <1>1, <1>2, <1>9, <2>1, <2>2, AsideFrames DEF OpenSlice, Call
<1>. QED
    BY <1>4, <1>5, <1>6, <1>7, <1>8, <1>9

LEMMA TargetCallsRules ==
    ASSUME ParserInv, CallsInv, ParserInv', TakeTarget
    PROVE  CallsInv'
PROOF
<1>1. Running /\ UNCHANGED within /\ Rule.form = "assign"
    BY FormOf DEF TakeTarget, At, SameScopes
<1>2. /\ ~InScope(Top) /\ Rule = Rules[Top.rule]
      /\ DOMAIN Top = {"rule", "at", "node", "held", "text", "phase", "calm"}
      /\ \A f : Unlisted(f) => Turns(f)
      /\ \A m : Unlisted(Done(m))
    BY <1>1, AsideTurns DEF Stepping
<1>3. ASSUME NEW m, frames' = WithLast(frames, Done(m)) PROVE CallsInv'
    BY <1>1, <1>2, <1>3, TurnCalls
<1>4. ASSUME NEW t, NEW r \in {"assignment", "compound"}, NEW h,
             frames' = Append(WithLast(frames, Assigned(t)), [Frame(r) EXCEPT !.held = h])
      PROVE  CallsInv'
  <2>1. Assigned(t).rule = Top.rule /\ Assigned(t).phase = "assigned"
      BY <1>2 DEF Assigned
  <2>2. Stays(Assigned(t)) /\ within'.class = within.class
      BY <1>1, <1>2, <2>1 DEF Stays, InScope, InStep
  <2>3. r \in DOMAIN Rules
      BY RulesAssumption
  <2>4. [Frame(r) EXCEPT !.held = h].rule = r /\ ~InScope([Frame(r) EXCEPT !.held = h])
      BY <2>3, NewFrame
  <2>5. CalledBy(Assigned(t), r)
      BY <1>1, <1>2, <2>1, <2>3 DEF CalledBy, Calls, Stepping
  <2>. QED
      BY <1>1, <1>4, <2>2, <2>4, <2>5, CallCalls
<1>5. \/ \E m : frames' = WithLast(frames, Done(m))
      \/ \E t : \E r \in {"assignment", "compound"} : \E h :
            frames' = Append(WithLast(frames, Assigned(t)), [Frame(r) EXCEPT !.held = h])
    BY DEF TakeTarget, Goto, Call
<1>. QED
    BY <1>3, <1>4, <1>5

(* A rule waits for the rule of its step, or for the one it starts with. *)
LEMMA ChildCalls ==
    ASSUME ParserInv, CallsInv, ParserInv', CallChild \/ CallFirst
    PROVE  CallsInv'
PROOF
<1>1. Running /\ UNCHANGED within
    BY DEF CallChild, CallFirst, In, At, AtStep, OnlyFrames, Otherwise, SameScopes
<1>2. Fine(Top) /\ Rule = Rules[Top.rule] /\ RuleShape(Top.rule) /\ Top.rule \in DOMAIN Rules
    BY <1>1, AtTop DEF Rule
<1>3. CASE CallChild
  <2>. DEFINE f == [Top EXCEPT !.phase = "child"]
  <2>1. /\ InStep(Top) /\ Top.phase = "steps" /\ Step.do \in {"child", "become"}
        /\ frames' = Append(WithLast(frames, f), Frame(Step.rule))
      BY <1>3 DEF CallChild, AtStep, At, InStep, Call
  <2>2. /\ Step = StepsOf(Top.rule)[Top.at] /\ StepShape(Top.rule, Top.at)
        /\ Top.at \in DOMAIN StepsOf(Top.rule)
      BY <1>1, <2>1, StepFacts
  <2>3. Step.rule \in DOMAIN Rules /\ Rules[Top.rule].form \in Stepping
      BY <1>2, <2>1, <2>2 DEF StepShape, Callable, Fine
  <2>4. Step.rule \in Calls(Top.rule)
    <3>1. PICK r : r = Step.rule
        OBVIOUS
    <3>2. /\ Top.at \in DOMAIN Rules[Top.rule].steps /\ r \in DOMAIN Rules
          /\ Rules[Top.rule].steps[Top.at].do \in {"child", "become"}
          /\ Rules[Top.rule].steps[Top.at].rule = r
        BY <2>1, <2>2, <2>3, <3>1 DEF StepsOf
    <3>3. r \in Calls(Top.rule)
        BY <2>3, <3>2 DEF Calls
    <3>. QED
        BY <3>1, <3>3
  <2>5. f.rule = Top.rule /\ f.at = Top.at /\ f.node = Top.node /\ f.phase = "child"
      BY <1>2 DEF Fine
  <2>. HIDE DEF f
  <2>6. Stays(f) /\ within'.class = within.class
      BY <1>1, <2>1, <2>5 DEF Stays, InScope, InStep
  <2>7. Frame(Step.rule).rule = Step.rule /\ ~InScope(Frame(Step.rule))
      BY <2>3, NewFrame
  <2>8. CalledBy(f, Step.rule)
      BY <2>2, <2>4, <2>5 DEF CalledBy
  <2>. QED
      BY <1>1, <2>1, <2>6, <2>7, <2>8, CallCalls
<1>4. CASE CallFirst
  <2>. DEFINE f == [Top EXCEPT !.phase = "first"]
  <2>1. /\ Top.phase = "enter" /\ Rule.form = "wrap"
        /\ frames' = Append(WithLast(frames, f), Frame(Rule.first))
      BY <1>4 DEF CallFirst, In, At, Call
  <2>2. f.rule = Top.rule /\ f.phase = "first"
      BY <1>2 DEF Fine
  <2>. HIDE DEF f
  <2>3. ~InScope(Top) /\ Turns(f)
      BY <2>1, <2>2 DEF Turns, InScope, InStep
  <2>4. Rule.first \in DOMAIN Rules /\ Rule.first \in Calls(Top.rule)
      BY <1>2, <2>1 DEF RuleShape, Callable, Calls, Stepping
  <2>5. Frame(Rule.first).rule = Rule.first /\ ~InScope(Frame(Rule.first))
      BY <2>4, NewFrame
  <2>. QED
      BY <1>1, <2>1, <2>2, <2>3, <2>4, <2>5, AsideCalls
<1>. QED
    BY <1>3, <1>4

LEMMA ChildTaken ==
    ASSUME ParserInv, CallsInv, TakeChild
    PROVE  CallsInv'
PROOF
<1>1. /\ Running /\ InStep(Top) /\ UNCHANGED within /\ Top.phase = "child"
      /\ Fine(Top) /\ Rule = Rules[Top.rule]
    BY AtTop DEF TakeChild, At, Taking, Otherwise, SameScopes, InStep, Rule
<1>2. /\ Step = StepsOf(Top.rule)[Top.at] /\ StepShape(Top.rule, Top.at)
      /\ \A i \in DOMAIN StepsOf(Top.rule) : StepShape(Top.rule, i)
    BY <1>1, StepFacts
<1>3. Step.do \in {"child", "become"} /\ Step.do \notin {"enter", "leave"}
    BY <1>1, <1>2 DEF Fine
<1>4. Top.at + 1 \in After(Top.rule, Top.at)
    BY DEF After
<1>5. CASE Step.do # "become"
  <2>1. frames' = WithLast(frames, Onward(Top, Top.at + 1))
      BY <1>5 DEF TakeChild, Goto, NextStep
  <2>. QED
      BY <1>1, <1>3, <1>4, <2>1, OnCalls
<1>6. CASE Step.do = "become"
  <2>. DEFINE f == Onward([Top EXCEPT !.node = answer], Top.at + 1)
  <2>1. frames' = WithLast(frames, f)
      BY <1>6 DEF TakeChild, Goto
  <2>2. f.rule = Top.rule
      BY <1>1 DEF Onward, Fine
  <2>. HIDE DEF f
  <2>3. \A i \in DOMAIN StepsOf(Top.rule) : StepsOf(Top.rule)[i].do # "enter"
      BY <1>2, <1>6 DEF StepShape
  <2>4. ~InScope(Top) /\ Turns(f)
      BY <2>2, <2>3 DEF Turns, InScope, Between
  <2>. QED
      BY <1>1, <2>1, <2>4, TurnCalls
<1>. QED
    BY <1>5, <1>6

(* A rule that returns leaves the others as they were. *)
LEMMA ReturnCalls ==
    ASSUME ParserInv, CallsInv, Return
    PROVE  CallsInv'
PROOF
<1>. DEFINE n == Len(frames)
<1>1. Running /\ frames' = Front(frames) /\ UNCHANGED within
    BY DEF Return, At
<1>2. frames # <<>> /\ IsSequence(frames) /\ n \in Nat \ {0}
    BY <1>1, AtTop
<1>3. Len(frames') = n - 1 /\ \A i \in 1 .. n - 1 : frames'[i] = frames[i]
    BY <1>1, <1>2, FrontFacts
<1>. HIDE DEF n
<1>4. \A i \in 1 .. n - 1 : i \in 1 .. n /\ i + 1 \in 1 .. n /\ \A j \in 1 .. i - 1 : j \in 1 .. n - 1
    BY <1>2
<1>5. \A i \in 1 .. Len(frames') - 1 : CalledBy(frames'[i], frames'[i + 1].rule)
  <2>1. SUFFICES ASSUME NEW i \in 1 .. Len(frames') - 1
                 PROVE  CalledBy(frames'[i], frames'[i + 1].rule)
      OBVIOUS
  <2>2. i \in 1 .. n - 1 /\ i + 1 \in 1 .. n - 1
      BY <1>2, <1>3
  <2>3. CalledBy(frames[i], frames[i + 1].rule)
      BY <2>2 DEF CallsInv, n
  <2>. QED
      BY <1>3, <2>2, <2>3
<1>6. ASSUME NEW i \in 1 .. n - 1, frames'[i].rule \in OfClass
      PROVE  \E j \in 1 .. i - 1 : frames'[j].rule = "class" /\ InScope(frames'[j])
  <2>1. PICK j \in 1 .. i - 1 : frames[j].rule = "class" /\ InScope(frames[j])
      BY <1>3, <1>4, <1>6 DEF CallsInv, n
  <2>. QED
      BY <1>3, <1>4, <2>1
<1>7. \A i, j \in 1 .. n - 1 :
          i < j /\ frames'[i].rule \notin ToClass => frames'[j].rule \notin Outer
    BY <1>3, <1>4 DEF CallsInv, n
<1>8. \A i \in 1 .. n - 1 :
          frames'[i].rule = "class" /\ InScope(frames'[i]) => within'.class = frames'[i].node
    BY <1>1, <1>3, <1>4 DEF CallsInv, n
<1>. QED
    BY <1>3, <1>5, <1>6, <1>7, <1>8 DEF CallsInv

(* The register of the class is set and cleared by the class alone. *)
LEMMA ScopeCalls ==
    ASSUME ParserInv, CallsInv, EnterScope \/ LeaveScope
    PROVE  CallsInv'
PROOF
<1>. DEFINE n == Len(frames)
<1>1. /\ Running /\ Top.phase = "steps" /\ Step.do \in {"enter", "leave"} /\ InStep(Top)
      /\ Step.do # "assign" /\ frames' = WithLast(frames, NextStep) /\ answer' = answer
      /\ UNCHANGED <<created, parsers, stage, streams>>
    BY DEF EnterScope, LeaveScope, AtStep, At, Goto, SameTree, SameFile, InStep
<1>2. /\ n \in Nat \ {0} /\ Len(frames') = n
      /\ \A i \in 1 .. n : frames'[i] = IF i = n THEN NextStep ELSE frames[i]
      /\ NextStep.rule = Top.rule /\ NextStep.node = Top.node
      /\ StepShape(Top.rule, Top.at) /\ Step = StepsOf(Top.rule)[Top.at]
      /\ Top.at + 1 \in After(Top.rule, Top.at)
      /\ InScope(NextStep) <=> Between(Top.rule, Top.at + 1, "enter", "leave")
    BY <1>1, OwnStep
<1>3. /\ Top = frames[n] /\ Rule = Rules[Top.rule] /\ Rule.form = "construct"
      /\ Top.rule \in DOMAIN Rules
    BY <1>1, <1>2, AtTop DEF StepShape, Rule
<1>4. Rule.kind = "Class" => Top.rule = "class"
    BY <1>3, NamesFit DEF NameShape, Making
<1>5. Rule.kind # "Class" => within'.class = within.class
  <2>1. within \in [function : Nat, class : Nat, loop : Nat]
      BY DEF ParserInv, WithinInv
  <2>2. within' \in {Registered(Rule.kind, Top.node), Registered(Rule.kind, Null)}
      BY DEF EnterScope, LeaveScope
  <2>. QED
      BY <2>1, <2>2 DEF Registered
<1>6. /\ Rule.kind = "Class" /\ EnterScope => within'.class = Top.node
      /\ LeaveScope => ~InScope(NextStep)
  <2>1. within \in [function : Nat, class : Nat, loop : Nat]
      BY DEF ParserInv, WithinInv
  <2>2. Rule.kind = "Class" /\ EnterScope => within'.class = Top.node
      BY <2>1 DEF EnterScope, Registered
  <2>3. LeaveScope => Step.do = "leave"
      BY DEF LeaveScope, AtStep
  <2>4. LeaveScope => ~InScope(NextStep)
      BY <1>2, <2>3 DEF StepShape, Brackets
  <2>. QED
      BY <2>2, <2>4
<1>7. Top.rule = "class" => Rule.kind = "Class"
    BY <1>3, NamesFit
<1>. HIDE DEF n
<1>8. \A i \in 1 .. n : i # n => i \in 1 .. n - 1 /\ i < n /\ n \in 1 .. n /\ frames'[i] = frames[i]
    BY <1>2
<1>9. \A i \in 1 .. n : frames'[i].rule = frames[i].rule
    BY <1>2, <1>3, <1>8
<1>10. \A i \in 1 .. Len(frames') - 1 : CalledBy(frames'[i], frames'[i + 1].rule)
  <2>1. SUFFICES ASSUME NEW i \in 1 .. n - 1
                 PROVE  CalledBy(frames'[i], frames'[i + 1].rule)
      BY <1>2
  <2>2. i \in 1 .. n /\ i # n /\ i + 1 \in 1 .. n
      BY <1>2
  <2>3. CalledBy(frames[i], frames[i + 1].rule)
      BY DEF CallsInv, n
  <2>. QED
      BY <1>8, <1>9, <2>2, <2>3
<1>11. \A i, j \in 1 .. n :
          i < j /\ frames'[i].rule \notin ToClass => frames'[j].rule \notin Outer
    BY <1>9 DEF CallsInv, n
<1>12. ASSUME NEW i \in 1 .. n, frames'[i].rule \in OfClass
       PROVE  \E j \in 1 .. i - 1 : frames'[j].rule = "class" /\ InScope(frames'[j])
  <2>1. frames[i].rule \in OfClass
      BY <1>9, <1>12
  <2>2. PICK j \in 1 .. i - 1 : frames[j].rule = "class" /\ InScope(frames[j])
      BY <2>1 DEF CallsInv, n
  <2>3. j \in 1 .. n /\ j # n
      BY <1>2, <2>2
  <2>. QED
      BY <1>8, <2>2, <2>3
<1>13. ASSUME NEW i \in 1 .. n, frames'[i].rule = "class", InScope(frames'[i])
       PROVE  within'.class = frames'[i].node
  <2>1. CASE i = n
    <3>1. frames'[i] = NextStep /\ Top.rule = "class"
        BY <1>2, <1>13, <2>1
    <3>. QED
        BY <1>2, <1>6, <1>7, <1>13, <3>1
  <2>2. CASE i # n
    <3>1. frames[i].rule = "class" /\ InScope(frames[i]) /\ i < n /\ n \in 1 .. n
        BY <1>8, <1>13, <2>2
    <3>2. within.class = frames[i].node
        BY <3>1 DEF CallsInv, n
    <3>3. Top.rule \notin Outer
        BY <1>3, <3>1 DEF CallsInv, ToClass, n
    <3>4. Rule.kind # "Class"
        BY <1>4, <3>3 DEF Outer
    <3>. QED
        BY <1>5, <1>8, <2>2, <3>2, <3>4
  <2>. QED
      BY <2>1, <2>2
<1>. QED
    BY <1>2, <1>10, <1>11, <1>12, <1>13 DEF CallsInv

(* The frames of x += e when it makes its assignment. *)
LEMMA AssignFrames ==
    ASSUME ParserInv, Assign
    PROVE  LET n == Len(frames)
               f == Onward([Top EXCEPT !.node = created + 1], Top.at + 1)
               e == [frames[n - 1] EXCEPT !.held = Null]
           IN  /\ n \in Nat /\ n > 1 /\ IsSequence(frames') /\ Len(frames') = n
               /\ \A i \in 1 .. n :
                     frames'[i] = IF i = n THEN f ELSE IF i = n - 1 THEN e ELSE frames[i]
               /\ Top = frames[n] /\ Top.rule = "compound" /\ Fine(Top) /\ InStep(Top)
               /\ f.rule = Top.rule /\ f.node = created + 1 /\ f.at = Top.at + 1
               /\ f.phase \in {"steps", "done"}
               /\ e.rule = frames[n - 1].rule /\ e.at = frames[n - 1].at
               /\ e.node = frames[n - 1].node /\ e.phase = "assigned"
               /\ frames[n - 1].phase = "assigned"
PROOF
<1>. DEFINE n == Len(frames)
            g == [Top EXCEPT !.node = created + 1]
            f == Onward(g, Top.at + 1)
            fs == WithLast(frames, f)
            c == frames[n - 1]
            e == [c EXCEPT !.held = Null]
<1>1. /\ Running /\ Top.phase = "steps" /\ Step.do = "assign" /\ InStep(Top)
      /\ frames' = [fs EXCEPT ![n - 1].held = Null]
    BY DEF Assign, AtStep, At, InStep
<1>2. /\ frames # <<>> /\ IsSequence(frames) /\ n \in Nat \ {0}
      /\ Fine(Top) /\ Top = frames[n]
    BY <1>1, AtTop
<1>3. Top.rule = "compound"
    BY <1>1, StepFacts DEF StepShape
<1>4. n > 1
  <2>1. "compound" # "module" /\ frames[1].rule = "module"
      BY <1>2 DEF ParserInv, FramesInv
  <2>2. n # 1
      BY <1>2, <1>3, <2>1
  <2>. HIDE DEF n
  <2>. QED
      BY <1>2, <2>2
<1>5. n - 1 \in 1 .. n - 1 /\ n - 1 \in 1 .. n /\ n \in 1 .. n
  <2>. HIDE DEF n
  <2>. QED
      BY <1>2, <1>4
<1>6. c.phase = "assigned" /\ Fine(c)
    BY <1>2, <1>3, <1>5 DEF ParserInv, FramesInv
<1>7. e.rule = c.rule /\ e.at = c.at /\ e.node = c.node /\ e.phase = "assigned"
    BY <1>6 DEF Fine
<1>8. /\ f.rule = Top.rule /\ f.at = Top.at + 1 /\ f.node = created + 1
      /\ f.phase \in {"steps", "done"}
    BY <1>2 DEF Fine, Onward
<1>. HIDE DEF f
<1>9. /\ IsSequence(fs) /\ Len(fs) = n
      /\ \A i \in 1 .. n : fs[i] = IF i = n THEN f ELSE frames[i]
    BY <1>2, WithLastFacts
<1>10. fs[n - 1] = c
    BY <1>5, <1>9
<1>11. frames' = [fs EXCEPT ![n - 1] = e]
    BY <1>1, <1>10
<1>. HIDE DEF fs, e, c
<1>12. /\ IsSequence(frames') /\ Len(frames') = n
       /\ \A i \in 1 .. n : frames'[i] = IF i = n THEN f ELSE IF i = n - 1 THEN e ELSE frames[i]
  <2>1. PICK S : fs \in Seq(S)
      BY <1>9 DEF IsSequence
  <2>2. fs \in Seq(S \cup {e}) /\ e \in S \cup {e} /\ n - 1 \in 1 .. Len(fs)
      BY <1>5, <1>9, <2>1
  <2>3. frames' \in Seq(S \cup {e}) /\ Len(frames') = Len(fs) /\ DOMAIN fs = 1 .. Len(fs)
      BY <1>11, <2>2
  <2>4. Len(frames') = n /\ DOMAIN fs = 1 .. n /\ IsSequence(frames')
      BY <1>9, <2>3 DEF IsSequence
  <2>. HIDE DEF n
  <2>. QED
      BY <1>5, <1>9, <1>11, <2>4
<1>. QED
    BY <1>1, <1>2, <1>3, <1>4, <1>6, <1>7, <1>8, <1>12 DEF f, e, c

LEMMA AssignCalls ==
    ASSUME ParserInv, CallsInv, Assign
    PROVE  CallsInv'
PROOF
<1>. DEFINE n == Len(frames)
            f == Onward([Top EXCEPT !.node = created + 1], Top.at + 1)
            e == [frames[n - 1] EXCEPT !.held = Null]
<1>1. /\ n \in Nat /\ n > 1 /\ Len(frames') = n
      /\ \A i \in 1 .. n :
            frames'[i] = IF i = n THEN f ELSE IF i = n - 1 THEN e ELSE frames[i]
      /\ Top = frames[n] /\ Top.rule = "compound" /\ Fine(Top) /\ InStep(Top)
      /\ f.rule = Top.rule
      /\ e.rule = frames[n - 1].rule /\ e.at = frames[n - 1].at
      /\ e.phase = "assigned" /\ frames[n - 1].phase = "assigned"
    BY AssignFrames
<1>. HIDE DEF f, e
<1>2. Running /\ UNCHANGED within
    BY DEF Assign, AtStep, At, OnlyFrames, Otherwise, SameScopes
<1>3. \A i \in DOMAIN StepsOf("compound") : StepsOf("compound")[i].do # "enter"
  <2>1. \A i \in DOMAIN StepsOf(Top.rule) : StepShape(Top.rule, i)
      BY <1>1, <1>2, StepFacts
  <2>. QED
      BY <1>1, <2>1, NamesFit DEF StepShape
<1>4. ~InScope(f) /\ ~InScope(Top) /\ ~InScope(e) /\ ~InScope(frames[n - 1])
    BY <1>1, <1>3 DEF InScope, InStep, Between
<1>. HIDE DEF n
<1>5. \A i \in 1 .. n : /\ i # n /\ i # n - 1 => frames'[i] = frames[i]
                        /\ i = n => frames'[i] = f /\ frames[i] = Top
                        /\ i = n - 1 => frames'[i] = e /\ frames[i] = frames[n - 1]
    BY <1>1
<1>6. ASSUME NEW i \in 1 .. n
      PROVE  /\ frames'[i].rule = frames[i].rule
             /\ InScope(frames'[i]) <=> InScope(frames[i])
             /\ InScope(frames'[i]) => frames'[i].node = frames[i].node
  <2>1. CASE i = n
      BY <1>1, <1>4, <1>5, <2>1
  <2>2. CASE i = n - 1
    <3>1. frames'[i] = e /\ frames[i] = frames[n - 1] /\ frames'[i].rule = frames[i].rule
        BY <1>1, <1>5, <2>2
    <3>. QED
        BY <1>4, <3>1
  <2>3. CASE i # n /\ i # n - 1
      BY <1>5, <2>3
  <2>. QED
      BY <2>1, <2>2, <2>3
<1>7. ASSUME NEW i \in 1 .. n - 1
      PROVE  frames'[i].phase = frames[i].phase /\ frames'[i].at = frames[i].at
  <2>1. i \in 1 .. n /\ i # n
      BY <1>1
  <2>. QED
      BY <1>1, <1>5, <2>1
<1>8. Len(frames) \in Nat /\ Len(frames') = Len(frames) /\ within'.class = within.class
    BY <1>1, <1>2 DEF n
<1>. QED
    BY <1>6, <1>7, <1>8, SameCalls DEF n

(* A file that is opened, closed or done with. *)
LEMMA EmptyCalls ==
    ASSUME frames = <<>>
    PROVE  CallsInv
PROOF
<1>1. Len(frames) = 0 /\ \A i \in 1 .. Len(frames) : FALSE
    BY EmptyFacts
<1>. QED
    BY <1>1 DEF CallsInv

LEMMA FileCalls ==
    ASSUME ParserInv, CallsInv,
           OpenFile \/ FailToOpen \/ CloseFile \/ Restart \/ UNCHANGED vars
    PROVE  CallsInv'
PROOF
<1>1. CASE OpenFile
  <2>. DEFINE m == Frame("module")
  <2>1. frames' = <<m>> /\ m.rule = "module"
      BY <1>1, NewFrame, RulesAssumption DEF OpenFile, Callable
  <2>. HIDE DEF m
  <2>2. Len(frames') = 1 /\ frames'[1] = m /\ \A i \in 1 .. 1 : i = 1
      BY <2>1, OneFacts
  <2>. QED
      BY <2>1, <2>2 DEF CallsInv, OfClass
<1>2. CASE FailToOpen \/ CloseFile \/ Restart
  <2>1. frames' = <<>>
      BY <1>2 DEF FailToOpen, CloseFile, Restart, Reset, ParserInv, Stages
  <2>2. (frames = <<>> => CallsInv)'
      BY EmptyCalls, PTL
  <2>. QED
      BY <2>1, <2>2
<1>3. CASE UNCHANGED vars
    BY <1>3, SameFramesCalls DEF vars
<1>. QED
    BY <1>1, <1>2, <1>3

LEMMA StepCalls ==
    ASSUME ParserInv, CallsInv, ParserInv', [Parsing \/ Restart]_vars
    PROVE  CallsInv'
PROOF
<1>1. CASE Syntax
  <2>1. CASE Begin \/ TakeFirst
      BY <2>1, BeginCalls
  <2>2. CASE Return
      BY <2>2, ReturnCalls
  <2>3. CASE ExpectToken \/ ReadText
      BY <2>3, NextCalls
  <2>4. CASE OptionalToken
      BY <2>4, JumpCalls
  <2>5. CASE CallChild \/ CallFirst
      BY <2>5, ChildCalls
  <2>6. CASE TakeChild
      BY <2>6, ChildTaken
  <2>7. CASE Choose \/ TakeSuffix \/ CallOperand \/ TakeLeft \/ BeginMany \/ TakeItem \/ AppendItem
      BY <2>7, AsideCallCalls
  <2>8. CASE TakeChosen \/ ReadVisibility \/ TakeSuffixed \/ TakeRight \/ EndMany
      BY <2>8, AsideGotoCalls
  <2>. QED
      BY <1>1, <2>1, <2>2, <2>3, <2>4, <2>5, <2>6, <2>7, <2>8 DEF Syntax
<1>2. CASE Semantics
  <2>1. CASE BeginAssign \/ OpenSlice
      BY <2>1, AsideCallCalls
  <2>2. CASE TakeTarget
      BY <2>2, TargetCallsRules
  <2>3. CASE TakeAssigned \/ BeginFString \/ EndFString \/ TextSlice \/ CloseSlice \/ Define
      BY <2>3, AsideGotoCalls
  <2>4. CASE Assign
      BY <2>4, AssignCalls
  <2>5. CASE Concat \/ Alias \/ TypeDefinition
      BY <2>5, JumpCalls
  <2>6. CASE \/ Declare \/ Constructor \/ Iterator \/ Loop
             \/ LinkJump \/ Check \/ IndexList \/ DefaultRange \/ MarkScoped
      BY <2>6, NextCalls
  <2>7. CASE EnterScope \/ LeaveScope
      BY <2>7, ScopeCalls
  <2>. QED
      BY <1>2, <2>1, <2>2, <2>3, <2>4, <2>5, <2>6, <2>7 DEF Semantics
<1>3. CASE OpenFile \/ FailToOpen \/ CloseFile \/ Restart \/ UNCHANGED vars
    BY <1>3, FileCalls
<1>. QED
    BY <1>1, <1>2, <1>3 DEF Parsing

-----------------------------------------------------------------------------
(* What the operations on nodes keep of their names and lists. *)
Nodes(h) ==
    /\ h = [n \in DOMAIN h |-> h[n]] /\ DOMAIN h \subseteq Nat \ {Null}
    /\ \A n \in DOMAIN h : IsNode(h[n]) /\ n \in h[n].below
Good(h) == Nodes(h) /\ HeapNamed(h)

\* The nodes of h are still there in g.
Keeps(h, g) == \A n \in DOMAIN h : n \in DOMAIN g /\ g[n].kind = h[n].kind

LEMMA KeepsTwice ==
    ASSUME NEW g, NEW h, NEW k, Keeps(g, h), Keeps(h, k)
    PROVE  Keeps(g, k)
PROOF
    BY DEF Keeps

LEMMA CreateGood ==
    ASSUME NEW h, Good(h), NEW id \in Nat \ {Null}, id \notin DOMAIN h, NEW kind, NEW text,
           kind \in Named => text # "none"
    PROVE  LET g == Create(h, id, kind, text)
           IN  Good(g) /\ Keeps(h, g) /\ id \in DOMAIN g /\ g[id].kind = kind
               /\ id \in g[id].below
PROOF
<1>. DEFINE g == Create(h, id, kind, text)
<1>1. /\ DOMAIN g = DOMAIN h \cup {id} /\ g = [n \in DOMAIN g |-> g[n]]
      /\ \A n \in DOMAIN h : g[n] = h[n]
      /\ g[id] = Fresh(id, kind, text)
    BY DEF Create
<1>2. /\ IsNode(g[id]) /\ g[id].below = {id} /\ g[id].kind = kind /\ g[id].text = text
      /\ g[id].kids = <<>>
    BY <1>1 DEF Fresh, IsNode
<1>. HIDE DEF g
<1>3. IsSequence(g[id].kids) /\ DOMAIN g[id].kids = {}
    BY <1>2, EmptyFacts
<1>4. NodeNamed(g, id)
    BY <1>2, <1>3 DEF NodeNamed
<1>5. ASSUME NEW n \in DOMAIN h PROVE NodeNamed(g, n)
  <2>1. NodeNamed(h, n) /\ g[n] = h[n]
      BY <1>1 DEF Good, HeapNamed
  <2>2. \A m \in DOMAIN h : m \in DOMAIN g /\ g[m] = h[m]
      BY <1>1
  <2>. QED
      BY <2>1, <2>2 DEF NodeNamed
<1>6. HeapNamed(g)
    BY <1>1, <1>4, <1>5 DEF HeapNamed
<1>7. Nodes(g)
    BY <1>1, <1>2 DEF Good, Nodes
<1>. QED
    BY <1>1, <1>2, <1>6, <1>7 DEF Good, Keeps, g

LEMMA AttachGood ==
    ASSUME NEW h, Good(h), NEW node \in DOMAIN h, NEW field, NEW kid,
           kid # Null => kid \in DOMAIN h,
           kid # Null /\ h[node].kind = "Import" /\ field = "identifier" => h[kid].kind \in Named
    PROVE  LET g == Attach(h, node, field, kid)
           IN  /\ Good(g) /\ Keeps(h, g) /\ DOMAIN g = DOMAIN h
               /\ kid # Null => \E k \in DOMAIN g[node].kids : g[node].kids[k].field = field
PROOF
<1>. DEFINE g == Attach(h, node, field, kid)
            e == [field |-> field, node |-> kid]
<1>1. CASE kid = Null
  <2>1. g = h
      BY <1>1 DEF Attach
  <2>. QED
      BY <1>1, <2>1 DEF Keeps
<1>2. CASE kid # Null
  <2>1. /\ h = [n \in DOMAIN h |-> h[n]] /\ \A n \in DOMAIN h : IsNode(h[n]) /\ n \in h[n].below
        /\ kid \in DOMAIN h /\ kid \in Nat \ {Null} /\ DOMAIN h \subseteq Nat \ {Null}
      BY <1>2 DEF Good, Nodes
  <2>2. /\ DOMAIN g = DOMAIN h /\ g = [n \in DOMAIN g |-> g[n]]
        /\ \A n \in DOMAIN h \ {node} : g[n] = h[n]
        /\ DOMAIN g[node] = DOMAIN h[node]
        /\ g[node].kind = h[node].kind /\ g[node].text = h[node].text
        /\ g[node].kids = Append(h[node].kids, e)
        /\ g[node].below = IF IsTraversed(h[node].kind, field)
                           THEN h[node].below \cup h[kid].below ELSE h[node].below
      BY <1>2, <2>1 DEF Attach, IsNode
  <2>3. NodeNamed(h, node)
      BY DEF Good, HeapNamed
  <2>4. e.field = field /\ e.node = kid /\ DOMAIN e = {"field", "node"}
      OBVIOUS
  <2>. HIDE DEF g, e
  <2>5. PICK s : s = h[node].kids
      OBVIOUS
  <2>6. IsSequence(s)
      BY <2>3, <2>5 DEF NodeNamed
  <2>7. /\ IsSequence(Append(s, e)) /\ Len(Append(s, e)) = Len(s) + 1
        /\ \A i \in 1 .. Len(s) : Append(s, e)[i] = s[i]
        /\ Append(s, e)[Len(s) + 1] = e
      BY <2>6, AppendFacts
  <2>8. /\ DOMAIN s = 1 .. Len(s) /\ DOMAIN Append(s, e) = 1 .. Len(s) + 1 /\ Len(s) \in Nat
      BY <2>6, <2>7, SequenceFacts
  <2>9. \A i \in 1 .. Len(s) + 1 : i \in 1 .. Len(s) \/ i = Len(s) + 1
      BY <2>8
  <2>10. \A n \in DOMAIN h : g[n].kind = h[n].kind
      BY <2>2
  <2>11. NodeNamed(g, node)
    <3>1. h[node].kind \in Named => g[node].text # "none"
        BY <2>2, <2>3 DEF NodeNamed
    <3>2. h[node].kind \notin DOMAIN Traversed => g[node].below = {node}
        BY <2>2, <2>3 DEF NodeNamed, IsTraversed
    <3>3. ASSUME NEW i \in 1 .. Len(s) + 1
          PROVE  /\ DOMAIN Append(s, e)[i] = {"field", "node"}
                 /\ Append(s, e)[i].node \in Nat \ {Null}
                 /\ h[node].kind = "Import" /\ Append(s, e)[i].field = "identifier" =>
                       /\ Append(s, e)[i].node \in g[node].below \cap DOMAIN h
                       /\ h[Append(s, e)[i].node].kind \in Named
      <4>1. CASE i \in 1 .. Len(s)
        <5>1. Append(s, e)[i] = s[i] /\ i \in DOMAIN s
            BY <2>7, <2>8, <4>1
        <5>2. h[node].below \subseteq g[node].below
            BY <2>2
        <5>. QED
            BY <2>3, <2>5, <5>1, <5>2 DEF NodeNamed
      <4>2. CASE i = Len(s) + 1
        <5>1. Append(s, e)[i] = e
            BY <2>7, <4>2
        <5>2. h[node].kind = "Import" /\ field = "identifier" => kid \in g[node].below
            BY <2>1, <2>2, NamesFit
        <5>. QED
            BY <1>2, <2>1, <2>4, <5>1, <5>2
      <4>. QED
          BY <2>9, <4>1, <4>2
    <3>4. g[node].kids = Append(s, e)
        BY <2>2, <2>5
    <3>5. \A i \in DOMAIN g[node].kids :
            /\ DOMAIN g[node].kids[i] = {"field", "node"} /\ g[node].kids[i].node \in Nat \ {Null}
            /\ g[node].kind = "Import" /\ g[node].kids[i].field = "identifier" =>
                /\ g[node].kids[i].node \in g[node].below \cap DOMAIN g
                /\ g[g[node].kids[i].node].kind \in Named
        BY <2>2, <2>8, <2>10, <3>3, <3>4
    <3>. QED
        BY <2>2, <2>7, <3>1, <3>2, <3>4, <3>5 DEF NodeNamed
  <2>12. ASSUME NEW n \in DOMAIN h, n # node PROVE NodeNamed(g, n)
    <3>1. NodeNamed(h, n) /\ g[n] = h[n]
        BY <2>2, <2>12 DEF Good, HeapNamed
    <3>. QED
        BY <2>2, <2>10, <3>1 DEF NodeNamed
  <2>13. HeapNamed(g)
      BY <2>2, <2>11, <2>12 DEF HeapNamed
  <2>14. Nodes(g)
    <3>1. ASSUME NEW n \in DOMAIN h PROVE IsNode(g[n]) /\ n \in g[n].below
        BY <2>1, <2>2 DEF IsNode
    <3>. QED
        BY <2>1, <2>2, <3>1 DEF Nodes
  <2>15. \E k \in DOMAIN g[node].kids : g[node].kids[k].field = field
    <3>1. Len(s) + 1 \in DOMAIN Append(s, e) /\ Append(s, e)[Len(s) + 1].field = field
        BY <2>4, <2>7, <2>8
    <3>. QED
        BY <2>2, <2>5, <3>1
  <2>. QED
      BY <2>2, <2>10, <2>13, <2>14, <2>15 DEF Good, Keeps, g
<1>. QED
    BY <1>1, <1>2

\* g is h but for texts, notes and links, and names are still names.
Reworded(h, g) ==
    /\ DOMAIN g = DOMAIN h /\ g = [n \in DOMAIN g |-> g[n]]
    /\ \A n \in DOMAIN h :
          /\ IsNode(g[n]) /\ g[n].below = h[n].below /\ g[n].kind = h[n].kind
          /\ g[n].kids = h[n].kids
          /\ h[n].kind \in Named => g[n].text = h[n].text \/ g[n].text # "none"

LEMMA RewordedGood ==
    ASSUME NEW h, NEW g, Good(h), Reworded(h, g)
    PROVE  Good(g) /\ Keeps(h, g)
PROOF
<1>1. ASSUME NEW n \in DOMAIN h PROVE NodeNamed(g, n)
  <2>1. NodeNamed(h, n)
      BY DEF Good, HeapNamed
  <2>2. \A m \in DOMAIN h : g[m].kind = h[m].kind
      BY DEF Reworded
  <2>3. /\ DOMAIN g = DOMAIN h /\ g[n].below = h[n].below /\ g[n].kind = h[n].kind
        /\ g[n].kids = h[n].kids
        /\ h[n].kind \in Named => g[n].text = h[n].text \/ g[n].text # "none"
      BY DEF Reworded
  <2>. QED
      BY <2>1, <2>2, <2>3 DEF NodeNamed
<1>2. Nodes(g)
    BY DEF Good, Nodes, Reworded
<1>. QED
    BY <1>1, <1>2 DEF Good, HeapNamed, Keeps, Reworded

LEMMA Rewords ==
    ASSUME NEW h, Good(h), NEW x, NEW v
    PROVE  /\ Reworded(h, h) /\ Reworded(h, [h EXCEPT ![x].note = v])
           /\ Reworded(h, [h EXCEPT ![x].link = v])
           /\ (x \in DOMAIN h => h[x].kind \notin Named) \/ v # "none" =>
                 Reworded(h, [h EXCEPT ![x].text = v])
PROOF
<1>1. h = [n \in DOMAIN h |-> h[n]] /\ \A n \in DOMAIN h : IsNode(h[n])
    BY DEF Good, Nodes
<1>2. Reworded(h, h)
    BY <1>1 DEF Reworded
<1>3. Reworded(h, [h EXCEPT ![x].note = v])
    BY <1>1 DEF Reworded, IsNode
<1>4. Reworded(h, [h EXCEPT ![x].link = v])
    BY <1>1 DEF Reworded, IsNode
<1>5. ASSUME (x \in DOMAIN h => h[x].kind \notin Named) \/ v # "none"
      PROVE  Reworded(h, [h EXCEPT ![x].text = v])
    BY <1>1, <1>5 DEF Reworded, IsNode
<1>. QED
    BY <1>2, <1>3, <1>4, <1>5

(* What is freed is not what an import that stays names. *)
LEMMA FreeGood ==
    ASSUME NEW h, NEW R, Forest(h, R), Good(h), NEW node \in R, h[node].below = {node}
    PROVE  LET g == Free(h, node)
           IN  /\ Good(g) /\ DOMAIN g = DOMAIN h \ {node}
               /\ \A n \in DOMAIN g : g[n] = h[n]
PROOF
<1>. DEFINE g == Free(h, node)
<1>1. DOMAIN g = DOMAIN h \ {node} /\ \A n \in DOMAIN g : g[n] = h[n]
    BY DEF Free
<1>2. g = [n \in DOMAIN g |-> g[n]]
    BY DEF Free
<1>. HIDE DEF g
<1>3. ASSUME NEW n \in DOMAIN g PROVE NodeNamed(g, n)
  <2>1. NodeNamed(h, n) /\ g[n] = h[n] /\ n \in DOMAIN h /\ n # node
      BY <1>1 DEF Good, HeapNamed
  <2>2. PICK x \in R : n \in h[x].below
      BY <2>1 DEF Forest
  <2>3. x # node
      BY <2>1, <2>2
  <2>4. node \notin h[x].below
    <3>1. h[x].below \cap h[node].below = {}
        BY <2>3 DEF Forest
    <3>. QED
        BY <3>1
  <2>5. node \notin h[n].below
      BY <2>2, <2>4 DEF Forest
  <2>6. \A m \in DOMAIN h \cap h[n].below : m \in DOMAIN g /\ g[m] = h[m]
      BY <1>1, <2>5
  <2>. QED
      BY <2>1, <2>6 DEF NodeNamed
<1>4. Nodes(g)
    BY <1>1, <1>2 DEF Good, Nodes
<1>. QED
    BY <1>1, <1>3, <1>4 DEF Good, HeapNamed, g

LEMMA CopyGood ==
    ASSUME NEW h, NEW R, Forest(h, R), Good(h), NEW node \in R, NEW shift \in Nat,
           DOMAIN h \subseteq 1 .. shift
    PROVE  LET g == Copy(h, node, shift)
           IN  Good(g) /\ Keeps(h, g)
PROOF
<1>. DEFINE g == Copy(h, node, shift)
            B == h[node].below
            copies == {b + shift : b \in B}
            Moved(k, kind) == IF IsTraversed(kind, k.field) THEN [k EXCEPT !.node = @ + shift]
                              ELSE k
            Copied(n) == [h[n] EXCEPT
                            !.below = {b + shift : b \in @},
                            !.kids = [i \in DOMAIN @ |-> Moved(@[i], h[n].kind)]]
<1>1. /\ B \subseteq DOMAIN h /\ \A n \in B : h[n].below \subseteq B
      /\ \A n \in DOMAIN h : IsNode(h[n]) /\ n \in h[n].below /\ n \in Nat \ {Null} /\ n <= shift
    BY DEF Forest, Good, Nodes
<1>2. /\ DOMAIN g = DOMAIN h \cup copies /\ g = [n \in DOMAIN g |-> g[n]]
      /\ \A n \in DOMAIN g : g[n] = IF n \in copies THEN Copied(n - shift) ELSE h[n]
    BY DEF Copy
<1>3. \A n \in DOMAIN h : n \notin copies
    BY <1>1
<1>4. \A b \in B : b + shift \in copies /\ b + shift - shift = b
    BY <1>1
<1>5. /\ \A n \in DOMAIN h : n \in DOMAIN g /\ g[n] = h[n]
      /\ \A b \in B : b + shift \in DOMAIN g /\ g[b + shift] = Copied(b)
  <2>. HIDE DEF g, copies, Copied, B
  <2>1. \A n \in DOMAIN h : n \in DOMAIN g /\ g[n] = h[n]
      BY <1>2, <1>3
  <2>2. ASSUME NEW b \in B PROVE b + shift \in DOMAIN g /\ g[b + shift] = Copied(b)
    <3>1. PICK m : m = b + shift
        OBVIOUS
    <3>2. m \in copies
        BY <1>4, <3>1
    <3>4. m - shift = b
      <4>1. b \in Nat
          BY <1>1
      <4>. QED
          BY <3>1, <4>1
    <3>3. m \in DOMAIN g /\ g[m] = Copied(m - shift)
        BY <1>2, <3>2
    <3>. QED
        BY <3>1, <3>3, <3>4
  <2>. QED
      BY <2>1, <2>2
<1>6. \A n \in copies : \E b \in B : n = b + shift
    OBVIOUS
<1>7. ASSUME NEW b \in B
      PROVE  /\ DOMAIN Copied(b) = DOMAIN h[b]
             /\ Copied(b).kind = h[b].kind /\ Copied(b).text = h[b].text
             /\ Copied(b).below = {c + shift : c \in h[b].below}
             /\ Copied(b).kids = [i \in DOMAIN h[b].kids |-> Moved(h[b].kids[i], h[b].kind)]
    BY <1>1 DEF IsNode
<1>. HIDE DEF g, copies, Copied, B
<1>8. ASSUME NEW n \in DOMAIN h PROVE NodeNamed(g, n)
  <2>1. NodeNamed(h, n) /\ g[n] = h[n]
      BY <1>5 DEF Good, HeapNamed
  <2>. QED
      BY <1>5, <2>1 DEF NodeNamed
<1>9. ASSUME NEW b \in B PROVE NodeNamed(g, b + shift)
  <2>1. NodeNamed(h, b)
      BY <1>1 DEF Good, HeapNamed
  <2>2. g[b + shift] = Copied(b)
      BY <1>5
  <2>3. h[b].kind \notin DOMAIN Traversed => g[b + shift].below = {b + shift}
    <3>1. g[b + shift].below = {c + shift : c \in h[b].below}
        BY <1>7, <2>2
    <3>2. h[b].kind \notin DOMAIN Traversed => h[b].below = {b}
        BY <2>1 DEF NodeNamed
    <3>3. h[b].below = {b} => {c + shift : c \in h[b].below} = {b + shift}
        OBVIOUS
    <3>. QED
        BY <3>1, <3>2, <3>3
  <2>4. PICK s : s = h[b].kids
      OBVIOUS
  <2>5. PICK t : t = [i \in DOMAIN s |-> Moved(s[i], h[b].kind)]
      OBVIOUS
  <2>6. g[b + shift].kids = t
      BY <1>7, <2>2, <2>4, <2>5
  <2>7. IsSequence(t) /\ DOMAIN t = DOMAIN s
    <3>1. IsSequence(s)
        BY <2>1, <2>4 DEF NodeNamed
    <3>2. Len(s) \in Nat /\ DOMAIN s = 1 .. Len(s)
        BY <3>1, SequenceFacts
    <3>3. t \in Seq({t[i] : i \in 1 .. Len(s)})
        BY <2>5, <3>2
    <3>. QED
        BY <2>5, <3>3 DEF IsSequence
  <2>8. ASSUME NEW i \in DOMAIN s
        PROVE  /\ DOMAIN t[i] = {"field", "node"} /\ t[i].node \in Nat \ {Null}
               /\ h[b].kind = "Import" /\ t[i].field = "identifier" =>
                    /\ t[i].node \in g[b + shift].below \cap DOMAIN g
                    /\ g[t[i].node].kind \in Named
    <3>1. /\ t[i] = Moved(s[i], h[b].kind)
          /\ s[i].node \in Nat \ {Null} /\ DOMAIN s[i] = {"field", "node"}
          /\ h[b].kind = "Import" /\ s[i].field = "identifier" =>
                s[i].node \in h[b].below /\ h[s[i].node].kind \in Named
        BY <2>1, <2>4, <2>5 DEF NodeNamed
    <3>2. /\ t[i].field = s[i].field /\ DOMAIN t[i] = {"field", "node"}
          /\ t[i].node = s[i].node \/ t[i].node = s[i].node + shift
          /\ h[b].kind = "Import" /\ s[i].field = "identifier" => t[i].node = s[i].node + shift
      <4>1. PICK k : k = s[i]
          OBVIOUS
      <4>2. DOMAIN k = {"field", "node"}
          BY <3>1, <4>1
      <4>3. CASE IsTraversed(h[b].kind, k.field)
        <5>1. t[i] = [k EXCEPT !.node = @ + shift]
            BY <3>1, <4>1, <4>3
        <5>. QED
            BY <4>1, <4>2, <5>1
      <4>4. CASE ~IsTraversed(h[b].kind, k.field)
        <5>1. t[i] = k
            BY <3>1, <4>1, <4>4
        <5>. QED
            BY <4>1, <4>2, <4>4, <5>1, NamesFit
      <4>. QED
          BY <4>3, <4>4
    <3>3. t[i].node \in Nat \ {Null} /\ DOMAIN t[i] = {"field", "node"}
        BY <3>1, <3>2 DEF Null
    <3>4. ASSUME h[b].kind = "Import", t[i].field = "identifier"
          PROVE  /\ t[i].node \in g[b + shift].below \cap DOMAIN g
                 /\ g[t[i].node].kind \in Named
      <4>1. PICK c : c = s[i].node
          OBVIOUS
      <4>2. c \in h[b].below /\ h[c].kind \in Named /\ t[i].node = c + shift
          BY <3>1, <3>2, <3>4, <4>1
      <4>3. c \in B
          BY <1>1, <4>2
      <4>4. c + shift \in DOMAIN g /\ g[c + shift] = Copied(c) /\ Copied(c).kind = h[c].kind
          BY <1>5, <1>7, <4>3
      <4>5. g[b + shift].below = {d + shift : d \in h[b].below}
          BY <1>7, <2>2
      <4>6. c + shift \in g[b + shift].below
          BY <4>2, <4>5
      <4>. QED
          BY <4>2, <4>4, <4>6
    <3>. QED
        BY <3>3, <3>4
  <2>9. \A i \in DOMAIN t :
            /\ DOMAIN t[i] = {"field", "node"} /\ t[i].node \in Nat \ {Null}
            /\ g[b + shift].kind = "Import" /\ t[i].field = "identifier" =>
                    /\ t[i].node \in g[b + shift].below \cap DOMAIN g
                    /\ g[t[i].node].kind \in Named
      BY <1>7, <2>2, <2>7, <2>8
  <2>. QED
      BY <1>7, <2>1, <2>2, <2>3, <2>6, <2>7, <2>9 DEF NodeNamed
<1>. QED
  <2>1. HeapNamed(g)
    <3>1. ASSUME NEW n \in DOMAIN g PROVE NodeNamed(g, n)
      <4>1. n \in DOMAIN h \/ n \in copies
          BY <1>2
      <4>. QED
          BY <1>6, <1>8, <1>9, <4>1
    <3>. QED
        BY <3>1 DEF HeapNamed
  <2>2. Keeps(h, g)
      BY <1>5 DEF Keeps
  <2>3. ASSUME NEW n \in DOMAIN g PROVE IsNode(g[n]) /\ n \in g[n].below /\ n \in Nat \ {Null}
    <3>1. CASE n \in DOMAIN h
      <4>1. g[n] = h[n]
          BY <1>5, <3>1
      <4>. QED
          BY <1>1, <3>1, <4>1
    <3>2. CASE n \in copies
      <4>1. PICK b \in B : n = b + shift
          BY <1>6, <3>2
      <4>2. g[n] = Copied(b) /\ b \in DOMAIN h
          BY <1>1, <1>5, <4>1
      <4>3. IsNode(h[b]) /\ b \in h[b].below /\ b \in Nat \ {Null}
          BY <1>1, <4>2
      <4>4. IsNode(g[n])
          BY <1>7, <4>1, <4>2, <4>3 DEF IsNode
      <4>5. n \in g[n].below
        <5>1. g[n].below = {c + shift : c \in h[b].below}
            BY <1>7, <4>2
        <5>. QED
            BY <4>1, <4>3, <5>1
      <4>6. n \in Nat \ {Null}
          BY <4>1, <4>3 DEF Null
      <4>. QED
          BY <4>4, <4>5, <4>6
    <3>. QED
        BY <1>2, <3>1, <3>2
  <2>4. Nodes(g)
      BY <1>2, <2>3 DEF Nodes
  <2>. QED
      BY <2>1, <2>2, <2>4 DEF Good, g

-----------------------------------------------------------------------------
(* What a step finds in a file without errors, and what it has to leave.   *)
Ready ==
    /\ ParserInv /\ TreeInv /\ SymbolsInv /\ CallsInv /\ NamesRight
    /\ Running /\ Calm

LEMMA Quiet ==
    ASSUME ParserInv, Running, Errors = 0
    PROVE  Calm
PROOF
<1>1. ParsersFine(parsers) /\ AllReported(parsers) /\ Errors = parsers[1].errors
    BY AtTop
<1>2. Len(parsers) \in 1 .. Len(parsers) /\ Last(parsers) = parsers[Len(parsers)]
    BY <1>1, ParsersFineFacts
<1>. QED
    BY <1>1, <1>2 DEF AllReported, Calm

\* Errors are not taken back.
LEMMA ErrorsStay ==
    ASSUME ParserInv, Running, NEW qs, Forward(parsers, qs), qs[1].errors = 0
    PROVE  Errors = 0
PROOF
<1>1. ParsersFine(parsers) /\ Errors = parsers[1].errors
    BY AtTop
<1>2. parsers[1].errors \in Nat /\ qs[1].errors >= parsers[1].errors
    BY <1>1, ParsersFineFacts DEF Forward, Shifts, ParserFine
<1>. QED
    BY <1>1, <1>2

LEMMA ReadyHeap ==
    ASSUME Ready
    PROVE  /\ Good(heap) /\ SymbolsNamed(heap, symbols) /\ Placed(heap, Top)
           /\ Fine(Top) /\ RuleShape(Top.rule) /\ NameShape(Top.rule)
           /\ Rule = Rules[Top.rule] /\ Top.rule \in DOMAIN Rules
           /\ created \in Nat /\ created + 1 \in Nat \ {Null} /\ created + 1 \notin DOMAIN heap
           /\ Top.node \in DOMAIN heap \cup {Null} /\ Top.held \in DOMAIN heap \cup {Null}
           /\ answer \in DOMAIN heap \cup {Null}
           /\ Rest(frames) \subseteq DOMAIN heap
PROOF
<1>1. /\ ParserInv /\ TreeInv /\ Running /\ NamesRight
    BY DEF Ready
<1>2. /\ frames # <<>> /\ Len(frames) \in Nat \ {0} /\ Top = frames[Len(frames)]
      /\ Fine(Top) /\ RuleShape(Top.rule) /\ Top.rule \in DOMAIN Rules
      /\ created \in Nat
    BY <1>1, AtTop
<1>3. Placed(heap, Top)
    BY <1>1, <1>2 DEF NamesRight
<1>4. /\ Rest(frames) \cup Own(Top) \cup ({answer} \ {Null}) \subseteq DOMAIN heap
      /\ DOMAIN heap \subseteq 1 .. created /\ created + 1 \notin DOMAIN heap
      /\ Forest(heap, Rest(frames) \cup Own(Top) \cup ({answer} \ {Null}))
  <2>1. \A k \in 1 .. 3 : created + k \notin DOMAIN heap
      BY <1>1, TopTree
  <2>2. 1 \in 1 .. 3
      OBVIOUS
  <2>. QED
      BY <1>1, <2>1, <2>2, TopTree
<1>5. Top.node \in DOMAIN heap \cup {Null} /\ Top.held \in DOMAIN heap \cup {Null}
    BY <1>4 DEF Own
<1>6. Nodes(heap)
  <2>1. /\ heap = [n \in DOMAIN heap |-> heap[n]]
        /\ \A n \in DOMAIN heap : IsNode(heap[n]) /\ n \in heap[n].below
      BY <1>4 DEF Forest
  <2>2. DOMAIN heap \subseteq Nat \ {Null}
      BY <1>2, <1>4 DEF Null
  <2>. QED
      BY <2>1, <2>2 DEF Nodes
<1>7. Good(heap) /\ SymbolsNamed(heap, symbols)
    BY <1>1, <1>6 DEF Good, NamesRight
<1>8. created + 1 \in Nat \ {Null}
    BY <1>2 DEF Null
<1>. QED
    BY <1>2, <1>3, <1>4, <1>5, <1>7, <1>8, NamesFit DEF Rule

LEMMA SymbolsKept ==
    ASSUME NEW g, NEW h, NEW s, Keeps(g, h), SymbolsNamed(g, s)
    PROVE  SymbolsNamed(h, s)
PROOF
    BY DEF Keeps, SymbolsNamed

\* A frame that is neither at a step nor at one of its other places.
LEMMA PlacedFree ==
    ASSUME NEW h, NEW f, f.phase \notin {"steps", "child", "suffixes", "define", "done"}
    PROVE  Placed(h, f)
PROOF
    BY DEF Placed, InStep

LEMMA PlacedNull ==
    ASSUME NEW h, NEW f, f.phase = "done", f.node = Null, ~Solid(f.rule)
    PROVE  Placed(h, f)
PROOF
    BY DEF Placed, InStep, Gives

LEMMA FrameFields ==
    ASSUME NEW r, NEW k
    PROVE  LET f == [Frame(r) EXCEPT !.held = k]
           IN  /\ f.rule = r /\ f.at = 1 /\ f.phase = Frame(r).phase
               /\ Frame(r).rule = r /\ Frame(r).at = 1
               /\ Frame(r).phase = IF Rules[r].form = "scoped" THEN "steps" ELSE "enter"
PROOF
    BY DEF Frame

LEMMA FreshPlaced ==
    ASSUME NEW h, NEW r \in DOMAIN Rules, NEW k
    PROVE  /\ Placed(h, Frame(r)) /\ Frame(r).phase \notin Waiting
           /\ Placed(h, [Frame(r) EXCEPT !.held = k])
           /\ [Frame(r) EXCEPT !.held = k].phase \notin Waiting
PROOF
<1>1. ASSUME NEW f, f.rule = r, f.at = 1,
             f.phase = IF Rules[r].form = "scoped" THEN "steps" ELSE "enter"
      PROVE  Placed(h, f) /\ f.phase \notin Waiting
  <2>1. f.phase \notin Waiting
      BY <1>1 DEF Waiting
  <2>2. CASE Rules[r].form # "scoped"
      BY <1>1, <2>1, <2>2, PlacedFree
  <2>3. CASE Rules[r].form = "scoped"
    <3>1. StepsOf(r)[1].do \notin {"index", "handlers"}
      <4>1. /\ IsList(StepsOf(r)) /\ \A i \in DOMAIN StepsOf(r) : StepShape(r, i)
            /\ Len(StepsOf(r)) > 0
          BY <2>3, RulesAssumption DEF RuleShape, StepsOf, Stepping
      <4>2. 1 \in DOMAIN StepsOf(r)
          BY <4>1 DEF IsList
      <4>. QED
          BY <2>3, <4>1, <4>2 DEF StepShape
    <3>. QED
        BY <1>1, <2>1, <2>3, <3>1 DEF Placed, InStep
  <2>. QED
      BY <2>2, <2>3
<1>2. PICK f : f = [Frame(r) EXCEPT !.held = k]
    OBVIOUS
<1>3. /\ f.rule = r /\ f.at = 1
      /\ f.phase = IF Rules[r].form = "scoped" THEN "steps" ELSE "enter"
    BY <1>2, FrameFields
<1>4. PICK g : g = Frame(r)
    OBVIOUS
<1>5. /\ g.rule = r /\ g.at = 1
      /\ g.phase = IF Rules[r].form = "scoped" THEN "steps" ELSE "enter"
    BY <1>4, FrameFields
<1>. QED
    BY <1>1, <1>2, <1>3, <1>4, <1>5

\* A frame at step n, or behind the last one.
LEMMA OnPlaced ==
    ASSUME NEW h, NEW t, {"rule", "at", "node", "phase"} \subseteq DOMAIN t,
           t.rule \in DOMAIN Rules, NEW n,
           Rules[t.rule].form \in Stepping,
           Rules[t.rule].form # "scoped" =>
              /\ t.node # Null
              /\ IF t.rule = "compound" THEN h[t.node].kind \notin Named
                 ELSE h[t.node].kind = Rules[t.rule].kind,
           n > Len(StepsOf(t.rule)) => t.rule # "typedef",
           ~(n > Len(StepsOf(t.rule))) /\ StepsOf(t.rule)[n].do \in {"index", "handlers"} =>
              \E k \in DOMAIN h[t.node].kids :
                  h[t.node].kids[k].field = ListOf[StepsOf(t.rule)[n].do]
    PROVE  Placed(h, Onward(t, n)) /\ Onward(t, n).phase \notin Waiting
PROOF
<1>1. PICK f : f = Onward(t, n)
    OBVIOUS
<1>2. /\ f.rule = t.rule /\ f.at = n /\ f.node = t.node
      /\ f.phase = IF n > Len(StepsOf(t.rule)) THEN "done" ELSE "steps"
    BY <1>1 DEF Onward, StepsOf
<1>3. f.phase \notin Waiting
    BY <1>2 DEF Waiting
<1>4. CASE n > Len(StepsOf(t.rule))
  <2>1. Gives(h, f.rule, f.node)
    <3>1. f.node = Null => ~Solid(f.rule)
        BY <1>2 DEF Solid, Stepping
    <3>2. f.node # Null /\ f.rule # "compound"
            /\ Rules[f.rule].form \in {"construct", "suffix", "chain"} =>
              h[f.node].kind \in Results(f.rule)
        BY <1>2 DEF Results, Stepping
    <3>. QED
        BY <1>2, <1>4, <3>1, <3>2 DEF Gives
  <2>. QED
      BY <1>1, <1>2, <1>3, <1>4, <2>1 DEF Placed, InStep
<1>5. CASE ~(n > Len(StepsOf(t.rule)))
    BY <1>1, <1>2, <1>3, <1>5 DEF Placed, InStep
<1>. QED
    BY <1>4, <1>5

\* From a step to one that it leads to, and no list is looked into there
\* unless the step has parsed one.
LEMMA StepPlaced ==
    ASSUME Ready, InStep(Top), Step.do # "typedef", NEW n \in After(Top.rule, Top.at), NEW h,
           Rule.form # "scoped" => h[Top.node].kind = heap[Top.node].kind,
           Step.do # "child"
    PROVE  Placed(h, Onward(Top, n)) /\ Onward(Top, n).phase \notin Waiting
PROOF
<1>1. /\ Step = StepsOf(Top.rule)[Top.at] /\ Rule = Rules[Top.rule]
      /\ Top.at \in DOMAIN StepsOf(Top.rule)
      /\ Rule.form # "scoped" => Top.node # Null
    BY StepFacts DEF Ready
<1>2. /\ Fine(Top) /\ RuleShape(Top.rule) /\ NameShape(Top.rule) /\ Placed(heap, Top)
      /\ Top.rule \in DOMAIN Rules
    BY ReadyHeap
<1>3. Rules[Top.rule].form \in Stepping /\ {"rule", "at", "node", "phase"} \subseteq DOMAIN Top
    BY <1>2 DEF Fine, InStep
<1>4. \A i \in DOMAIN StepsOf(Top.rule) : NameStep(Top.rule, i)
    BY <1>2, <1>3 DEF NameShape, StepsOf
<1>5. Top.rule # "typedef"
    BY <1>1, <1>4 DEF NameStep
<1>6. ~(n > Len(StepsOf(Top.rule))) =>
          StepsOf(Top.rule)[n].do \notin {"index", "handlers"}
  <2>1. SUFFICES ASSUME ~(n > Len(StepsOf(Top.rule))),
                        StepsOf(Top.rule)[n].do \in {"index", "handlers"}
                 PROVE  FALSE
      OBVIOUS
  <2>2. IsList(StepsOf(Top.rule)) /\ StepShape(Top.rule, Top.at)
      BY <1>1, <1>2, <1>3 DEF RuleShape, StepsOf
  <2>3. n \in Nat /\ n > Top.at /\ Top.at \in 1 .. Len(StepsOf(Top.rule))
      BY <1>1, <2>2 DEF After, StepShape, IsList
  <2>4. n \in DOMAIN StepsOf(Top.rule)
      BY <2>1, <2>2, <2>3 DEF IsList
  <2>5. Top.at = n - 1 /\ StepsOf(Top.rule)[n - 1].do = "child"
      BY <1>1, <1>4, <2>1, <2>4 DEF NameStep
  <2>. QED
      BY <1>1, <2>5
<1>7. Rules[Top.rule].form # "scoped" =>
              /\ Top.node # Null
              /\ IF Top.rule = "compound" THEN h[Top.node].kind \notin Named
                 ELSE h[Top.node].kind = Rules[Top.rule].kind
    BY <1>1, <1>2 DEF Placed
<1>. QED
    BY <1>2, <1>3, <1>5, <1>6, <1>7, OnPlaced

-----------------------------------------------------------------------------
(* The last frame changes, calls a rule or returns. *)
LEMMA RestPlaced ==
    ASSUME Ready, NEW h, \A n \in Rest(frames) : h[n].kind = heap[n].kind,
           NEW i \in 1 .. Len(frames) - 1
    PROVE  Placed(h, frames[i])
PROOF
<1>1. frames[i].phase \in Waiting /\ Fine(frames[i]) /\ Placed(heap, frames[i])
  <2>1. Len(frames) \in Nat
      BY AtTop DEF Ready
  <2>. QED
      BY <2>1 DEF Ready, ParserInv, FramesInv, NamesRight
<1>2. frames[i].phase \notin {"steps", "suffixes", "define", "done"}
    BY <1>1 DEF Waiting
<1>3. CASE InStep(frames[i]) /\ Rules[frames[i].rule].form # "scoped"
  <2>1. frames[i].node # Null
      BY <1>1, <1>3 DEF Fine, InStep
  <2>2. frames[i].node \in Rest(frames)
      BY <2>1 DEF Rest, Own
  <2>3. h[frames[i].node].kind = heap[frames[i].node].kind
      BY <2>2
  <2>. QED
      BY <1>1, <1>2, <1>3, <2>3 DEF Placed
<1>4. CASE ~(InStep(frames[i]) /\ Rules[frames[i].rule].form # "scoped")
    BY <1>2, <1>4 DEF Placed
<1>. QED
    BY <1>3, <1>4

LEMMA GotoRight ==
    ASSUME Ready, NEW f, frames' = WithLast(frames, f), f.phase \notin Waiting,
           Placed(heap', f), HeapNamed(heap'), SymbolsNamed(heap', symbols'),
           \A n \in Rest(frames) : heap'[n].kind = heap[n].kind
    PROVE  NamesRight'
PROOF
<1>1. /\ frames # <<>> /\ IsSequence(frames) /\ Len(frames) \in Nat \ {0}
    BY AtTop DEF Ready
<1>2. /\ IsSequence(frames') /\ Len(frames') = Len(frames)
      /\ \A i \in 1 .. Len(frames) : frames'[i] = IF i = Len(frames) THEN f ELSE frames[i]
    BY <1>1, WithLastFacts
<1>3. \A i \in 1 .. Len(frames) - 1 : Placed(heap', frames[i])
    BY RestPlaced
<1>4. \A i \in 1 .. Len(frames') : Placed(heap', frames'[i])
    BY <1>1, <1>2, <1>3
<1>5. Last(frames') = f
    BY <1>1, <1>2, SequenceFacts
<1>6. Top'.phase \notin Waiting
    BY <1>5 DEF Top
<1>. QED
    BY <1>4, <1>6 DEF NamesRight

LEMMA CallRight ==
    ASSUME Ready, NEW f, NEW g, frames' = Append(WithLast(frames, f), g),
           g.phase \notin Waiting,
           Placed(heap', f), Placed(heap', g), HeapNamed(heap'), SymbolsNamed(heap', symbols'),
           \A n \in Rest(frames) : heap'[n].kind = heap[n].kind
    PROVE  NamesRight'
PROOF
<1>. DEFINE n == Len(frames)
            hs == WithLast(frames, f)
<1>1. /\ frames # <<>> /\ IsSequence(frames) /\ n \in Nat \ {0}
    BY AtTop DEF Ready
<1>2. /\ IsSequence(hs) /\ Len(hs) = n
      /\ \A i \in 1 .. n : hs[i] = IF i = n THEN f ELSE frames[i]
    BY <1>1, WithLastFacts
<1>. HIDE DEF hs
<1>3. frames' = Append(hs, g)
    BY DEF hs
<1>4. /\ IsSequence(frames') /\ Len(frames') = n + 1 /\ frames'[n + 1] = g
      /\ \A i \in 1 .. n : frames'[i] = hs[i]
    BY <1>2, <1>3, AppendFacts
<1>5. \A i \in 1 .. Len(frames) - 1 : Placed(heap', frames[i])
    BY RestPlaced
<1>. HIDE DEF n
<1>6. \A i \in 1 .. n : Placed(heap', frames'[i])
    BY <1>1, <1>2, <1>4, <1>5 DEF n
<1>7. \A i \in 1 .. n + 1 : i \in 1 .. n \/ i = n + 1
    BY <1>1
<1>8. \A i \in 1 .. Len(frames') : Placed(heap', frames'[i])
    BY <1>4, <1>6, <1>7
<1>9. frames' # <<>>
    BY <1>1, <1>4, EmptyFacts
<1>10. Last(frames') = g
    BY <1>4, <1>9, SequenceFacts
<1>11. Top'.phase \notin Waiting
    BY <1>10 DEF Top
<1>. QED
    BY <1>8, <1>11 DEF NamesRight

\* The usual cases: what was there is kept, and so are the symbols.
LEMMA KeepsRest ==
    ASSUME Ready, NEW h, Keeps(heap, h)
    PROVE  /\ \A n \in Rest(frames) : h[n].kind = heap[n].kind
           /\ SymbolsNamed(h, symbols)
PROOF
<1>1. Rest(frames) \subseteq DOMAIN heap /\ SymbolsNamed(heap, symbols)
    BY ReadyHeap
<1>. QED
    BY <1>1, SymbolsKept DEF Keeps

LEMMA GotoNames ==
    ASSUME Ready, NEW f, frames' = WithLast(frames, f), f.phase \notin Waiting,
           Placed(heap', f), Good(heap'), Keeps(heap, heap'), symbols' = symbols
    PROVE  NamesRight'
PROOF
<1>1. /\ \A n \in Rest(frames) : heap'[n].kind = heap[n].kind
      /\ SymbolsNamed(heap', symbols) /\ HeapNamed(heap')
    BY KeepsRest DEF Good
<1>2. SymbolsNamed(heap', symbols')
    BY <1>1
<1>. QED
    BY <1>1, <1>2, GotoRight

LEMMA CallNames ==
    ASSUME Ready, NEW f, NEW g, frames' = Append(WithLast(frames, f), g),
           g.phase \notin Waiting, Placed(heap', f), Placed(heap', g),
           Good(heap'), Keeps(heap, heap'), symbols' = symbols
    PROVE  NamesRight'
PROOF
<1>1. /\ \A n \in Rest(frames) : heap'[n].kind = heap[n].kind
      /\ SymbolsNamed(heap', symbols) /\ HeapNamed(heap')
    BY KeepsRest DEF Good
<1>2. SymbolsNamed(heap', symbols')
    BY <1>1
<1>. QED
    BY <1>1, <1>2, CallRight

LEMMA SameHeap ==
    ASSUME Ready, heap' = heap
    PROVE  Good(heap') /\ Keeps(heap, heap')
PROOF
<1>1. Good(heap)
    BY ReadyHeap
<1>. QED
    BY <1>1 DEF Keeps

\* What the frame that waits has been given.
LEMMA Given ==
    ASSUME Ready, Top.phase \in Waiting
    PROVE  \E r \in DOMAIN Rules : CalledBy(Top, r) /\ Gives(heap, r, answer)
PROOF
<1>1. frames # <<>>
    BY AtTop DEF Ready
<1>. QED
    BY <1>1 DEF Ready, NamesRight

LEMMA ReturnNames ==
    ASSUME Ready, Return
    PROVE  NamesRight'
PROOF
<1>. DEFINE n == Len(frames)
<1>1. /\ frames' = Front(frames) /\ answer' = Top.node /\ heap' = heap /\ Top.phase = "done"
      /\ symbols' = [o \in DOMAIN symbols \cap DOMAIN heap |-> symbols[o]]
    BY DEF Return, At, Ready
<1>2. frames # <<>> /\ IsSequence(frames) /\ n \in Nat \ {0} /\ Top = frames[n]
    BY AtTop DEF Ready
<1>3. /\ IsSequence(frames') /\ Len(frames') = n - 1
      /\ \A i \in 1 .. n - 1 : frames'[i] = frames[i]
    BY <1>1, <1>2, FrontFacts
<1>4. HeapNamed(heap') /\ SymbolsNamed(heap', symbols')
  <2>1. HeapNamed(heap) /\ SymbolsNamed(heap, symbols)
      BY DEF Ready, NamesRight
  <2>2. \A o \in DOMAIN symbols' : o \in DOMAIN symbols /\ symbols'[o] = symbols[o]
      BY <1>1
  <2>. QED
      BY <1>1, <2>1, <2>2 DEF SymbolsNamed
<1>. HIDE DEF n
<1>5. \A i \in 1 .. n - 1 : i \in 1 .. n
    BY <1>2
<1>6. \A i \in 1 .. Len(frames') : Placed(heap', frames'[i])
  <2>1. \A i \in 1 .. n : Placed(heap, frames[i])
      BY DEF Ready, NamesRight, n
  <2>. QED
      BY <1>1, <1>3, <1>5, <2>1
<1>7. ASSUME frames' # <<>>
      PROVE  \E r \in DOMAIN Rules : CalledBy(Top', r) /\ Gives(heap', r, answer')
  <2>1. n - 1 \in 1 .. n - 1 /\ Top' = frames[n - 1]
    <3>1. Last(frames') = frames'[Len(frames')] /\ Len(frames') \in 1 .. Len(frames')
        BY <1>3, <1>7, SequenceFacts
    <3>. QED
        BY <1>2, <1>3, <3>1 DEF Top
  <2>2. CalledBy(frames[n - 1], frames[n - 1 + 1].rule)
      BY <2>1 DEF Ready, CallsInv, n
  <2>3. n - 1 + 1 = n
      BY <1>2
  <2>4. CalledBy(Top', Top.rule)
      BY <1>2, <2>1, <2>2, <2>3
  <2>5. Gives(heap', Top.rule, answer') /\ Top.rule \in DOMAIN Rules
    <3>1. Placed(heap, Top) /\ Top.rule \in DOMAIN Rules
        BY ReadyHeap
    <3>. QED
        BY <1>1, <3>1 DEF Placed
  <2>. QED
      BY <2>4, <2>5
<1>. QED
    BY <1>4, <1>6, <1>7 DEF NamesRight

-----------------------------------------------------------------------------
(* Tokens, the nodes in fields, and the steps that stay in their frame.    *)
LEMMA TokenNamed ==
    ASSUME NEW token, NEW kind, kind # "none", IsOf(token, kind)
    PROVE  token # "none"
PROOF
    BY NamesAssumption DEF IsOf

LEMMA RaisedErrors ==
    ASSUME NEW ps, NEW qs, ParsersFine(ps), Shifts(ps, qs)
    PROVE  Raised(qs)[1].errors > 0
PROOF
<1>1. ParsersFine(qs)
    BY ParsersFineFacts, SequenceFacts DEF ParsersFine, Shifts
<1>. QED
    BY <1>1, RaisedForward

LEMMA ExpectedFits ==
    ASSUME ParserInv, Running, Calm, NEW kind, Expected(parsers, kind)[1].errors = 0
    PROVE  Fits(kind)
PROOF
<1>1. ParsersFine(parsers)
    BY AtTop
<1>2. Raised(Uncalm(parsers))[1].errors > 0
    BY <1>1, UncalmShifts, RaisedErrors
<1>3. ~IsOf(Current, kind) => Expected(parsers, kind) = Raised(Uncalm(parsers))
    BY DEF Expected, Calm, Current
<1>. QED
    BY <1>2, <1>3 DEF Fits

LEMMA KidOne ==
    ASSUME NEW h, NEW n, IsSequence(h[n].kids), NEW field
    PROVE  LET set == {i \in DOMAIN h[n].kids : h[n].kids[i].field = field}
           IN  /\ set = {} => Kid(h, n, field) = Null
               /\ set # {} => \E i \in set : Kid(h, n, field) = h[n].kids[i].node
PROOF
<1>. DEFINE less == OpToRel(<, Nat)
<1>1. IsWellFoundedOn(less, Nat)
    BY NatLessThanWellFounded, Zenon
<1>2. \A i, j \in Nat : j < i => <<j, i>> \in less
    BY Zenon DEF OpToRel
<1>. HIDE DEF less
<1>3. PICK s : s = h[n].kids
    OBVIOUS
<1>4. PICK T : T = {i \in DOMAIN s : s[i].field = field}
    OBVIOUS
<1>5. Kid(h, n, field) = IF T = {} THEN Null
                         ELSE s[CHOOSE i \in T : \A j \in T : i <= j].node
    BY <1>3, <1>4 DEF Kid
<1>6. Len(s) \in Nat /\ DOMAIN s = 1 .. Len(s)
    BY <1>3, SequenceFacts
<1>7. T \subseteq Nat
    BY <1>4, <1>6
<1>8. ASSUME T # {}
      PROVE  \E i \in T : Kid(h, n, field) = s[i].node
  <2>1. PICK i \in T : \A j \in T : <<j, i>> \notin less
      BY <1>1, <1>7, <1>8, WFMin
  <2>2. \A j \in T : ~(j < i)
      BY <1>2, <1>7, <2>1
  <2>3. \A j \in T : i <= j
      BY <1>7, <2>2
  <2>4. (CHOOSE k \in T : \A j \in T : k <= j) \in T
      BY <2>1, <2>3
  <2>. QED
      BY <1>5, <1>8, <2>4
<1>9. T = {} => Kid(h, n, field) = Null
    BY <1>5
<1>. QED
    BY <1>3, <1>4, <1>8, <1>9

LEMMA KidFacts ==
    ASSUME NEW h, NEW n, NodeNamed(h, n), NEW field
    PROVE  LET kid == Kid(h, n, field)
           IN  /\ (\E i \in DOMAIN h[n].kids : h[n].kids[i].field = field) => kid # Null
               /\ kid # Null => \E i \in DOMAIN h[n].kids :
                     h[n].kids[i].field = field /\ kid = h[n].kids[i].node
PROOF
<1>1. /\ IsSequence(h[n].kids)
      /\ \A i \in DOMAIN h[n].kids : h[n].kids[i].node \in Nat \ {Null}
    BY DEF NodeNamed
<1>2. PICK T : T = {i \in DOMAIN h[n].kids : h[n].kids[i].field = field}
    OBVIOUS
<1>3. /\ T = {} => Kid(h, n, field) = Null
      /\ T # {} => \E i \in T : Kid(h, n, field) = h[n].kids[i].node
    BY <1>1, <1>2, KidOne
<1>. QED
    BY <1>1, <1>2, <1>3

\* The node of a frame at a step.
LEMMA StepNode ==
    ASSUME Ready, InStep(Top), Rule.form # "scoped"
    PROVE  /\ Top.node \in DOMAIN heap /\ NodeNamed(heap, Top.node)
           /\ IF Top.rule = "compound" THEN heap[Top.node].kind \notin Named
              ELSE heap[Top.node].kind = Rule.kind
PROOF
<1>1. Top.node # Null
    BY StepFacts DEF Ready
<1>2. Top.node \in DOMAIN heap /\ Placed(heap, Top) /\ Good(heap) /\ Rule = Rules[Top.rule]
    BY <1>1, ReadyHeap
<1>. QED
    BY <1>2 DEF Good, HeapNamed, Placed

LEMMA StepRight ==
    ASSUME Ready, InStep(Top), Step.do \notin {"typedef", "child"},
           NEW n \in After(Top.rule, Top.at), frames' = WithLast(frames, Onward(Top, n)),
           Good(heap'), Keeps(heap, heap'), SymbolsNamed(heap', symbols')
    PROVE  NamesRight'
PROOF
<1>1. Rule.form # "scoped" => heap'[Top.node].kind = heap[Top.node].kind
    BY StepNode DEF Keeps
<1>2. Placed(heap', Onward(Top, n)) /\ Onward(Top, n).phase \notin Waiting
    BY <1>1, StepPlaced
<1>3. \A m \in Rest(frames) : heap'[m].kind = heap[m].kind
    BY KeepsRest
<1>. QED
    BY <1>2, <1>3, GotoRight DEF Good

LEMMA StepNames ==
    ASSUME Ready, InStep(Top), Step.do \notin {"typedef", "child"},
           NEW n \in After(Top.rule, Top.at), frames' = WithLast(frames, Onward(Top, n)),
           Reworded(heap, heap'), symbols' = symbols
    PROVE  NamesRight'
PROOF
<1>1. Good(heap)
    BY ReadyHeap
<1>2. Good(heap') /\ Keeps(heap, heap')
    BY <1>1, RewordedGood
<1>3. SymbolsNamed(heap', symbols)
    BY <1>2, KeepsRest
<1>4. SymbolsNamed(heap', symbols')
    BY <1>3
<1>. QED
    BY <1>2, <1>4, StepRight

LEMMA NextPlace ==
    Top.at + 1 \in After(Top.rule, Top.at)
PROOF
    BY DEF After

LEMMA PlainNames ==
    ASSUME Ready,
           \/ ExpectToken \/ OptionalToken \/ LeaveScope \/ Loop \/ LinkJump \/ Check \/ MarkScoped
    PROVE  NamesRight'
PROOF
<1>1. /\ InStep(Top) /\ Step.do \notin {"typedef", "child"} /\ symbols' = symbols
      /\ Good(heap) /\ Step = StepsOf(Top.rule)[Top.at]
  <2>1. InStep(Top) /\ Step.do \notin {"typedef", "child"} /\ symbols' = symbols
      BY DEF ExpectToken, OptionalToken, LeaveScope, Loop, LinkJump, Check, MarkScoped, AtStep, At,
             InStep, OnlyFrames, Otherwise, SameScopes
  <2>. QED
      BY <2>1, ReadyHeap, StepFacts DEF Ready
<1>2. \E n \in After(Top.rule, Top.at) : frames' = WithLast(frames, Onward(Top, n))
  <2>1. CASE OptionalToken
    <3>1. Step.do = "maybe"
        BY <2>1 DEF OptionalToken, AtStep
    <3>2. {Top.at + 1, Top.at + 1 + Step.over} \subseteq After(Top.rule, Top.at)
        BY <1>1, <3>1 DEF After
    <3>3. frames' \in {WithLast(frames, Onward(Top, n)) : n \in {Top.at + 1, Top.at + 1 + Step.over}}
        BY <2>1 DEF OptionalToken, Goto, NextStep
    <3>. QED
        BY <3>2, <3>3
  <2>2. CASE ExpectToken \/ LeaveScope \/ Loop \/ LinkJump \/ Check \/ MarkScoped
    <3>1. frames' = WithLast(frames, Onward(Top, Top.at + 1))
        BY <2>2 DEF ExpectToken, LeaveScope, Loop, LinkJump, Check, MarkScoped, Goto, NextStep
    <3>. QED
        BY <3>1, NextPlace
  <2>. QED
      BY <2>1, <2>2
<1>3. Reworded(heap, heap')
  <2>1. CASE ExpectToken \/ OptionalToken \/ LeaveScope \/ Loop \/ Check
    <3>1. heap' = heap
        BY <2>1 DEF ExpectToken, OptionalToken, LeaveScope, Loop, Check, SameTree
    <3>2. Reworded(heap, heap)
        BY <1>1, Rewords
    <3>. QED
        BY <3>1, <3>2
  <2>2. CASE LinkJump
    <3>1. PICK x : heap' = [heap EXCEPT ![Top.node].link = x]
        BY <2>2 DEF LinkJump
    <3>2. Reworded(heap, [heap EXCEPT ![Top.node].link = x])
        BY <1>1, Rewords
    <3>. QED
        BY <3>1, <3>2
  <2>3. CASE MarkScoped
    <3>1. heap' \in {heap, [heap EXCEPT ![Top.node].note = "scoped"]}
        BY <2>3 DEF MarkScoped
    <3>2. Reworded(heap, heap) /\ Reworded(heap, [heap EXCEPT ![Top.node].note = "scoped"])
        BY <1>1, Rewords
    <3>. QED
        BY <3>1, <3>2
  <2>. QED
      BY <2>1, <2>2, <2>3
<1>. QED
    BY <1>1, <1>2, <1>3, StepNames

LEMMA ReadTextNames ==
    ASSUME Ready, ReadText, parsers'[1].errors = 0
    PROVE  NamesRight'
PROOF
<1>1. PICK kind : /\ kind = IF Step.do = "name" THEN "identifier" ELSE "string"
                  /\ parsers' = Expected(parsers, kind)
                  /\ heap' = IF Step.do = "name"
                             THEN [heap EXCEPT ![Top.node].text = IF Fits(kind) THEN Current ELSE "none"]
                             ELSE [heap EXCEPT ![Top.node].note = IF Fits(kind) THEN Current ELSE "none"]
    BY DEF ReadText
<1>2. /\ InStep(Top) /\ Step.do \notin {"typedef", "child"} /\ symbols' = symbols
      /\ frames' = WithLast(frames, Onward(Top, Top.at + 1))
    BY DEF ReadText, AtStep, At, InStep, OnlyFrames, Otherwise, SameScopes, Goto, NextStep
<1>3. Expected(parsers, kind)[1].errors = 0
    BY <1>1
<1>4. Fits(kind)
    BY <1>3, ExpectedFits DEF Ready
<1>5. Current # "none"
    BY <1>1, <1>4, TokenNamed DEF Fits
<1>6. Good(heap)
    BY ReadyHeap
<1>7. Reworded(heap, heap')
  <2>1. /\ Reworded(heap, [heap EXCEPT ![Top.node].text = Current])
        /\ Reworded(heap, [heap EXCEPT ![Top.node].note = Current])
      BY <1>5, <1>6, Rewords
  <2>. QED
      BY <1>1, <1>4, <2>1
<1>. QED
    BY <1>2, <1>7, NextPlace, StepNames

-----------------------------------------------------------------------------
(* Lists, aliases and declarations. *)
LEMMA AtNamed ==
    ASSUME Ready, InStep(Top)
    PROVE  NameStep(Top.rule, Top.at) /\ Step = StepsOf(Top.rule)[Top.at]
PROOF
<1>1. Step = StepsOf(Top.rule)[Top.at] /\ Top.at \in DOMAIN StepsOf(Top.rule)
    BY StepFacts DEF Ready
<1>2. Fine(Top) /\ NameShape(Top.rule)
    BY ReadyHeap
<1>3. Rules[Top.rule].form \in Stepping
    BY <1>2 DEF Fine, InStep
<1>. QED
    BY <1>1, <1>2, <1>3 DEF NameShape, StepsOf

LEMMA AliasNames ==
    ASSUME Ready, Alias
    PROVE  NamesRight'
PROOF
<1>1. /\ InStep(Top) /\ Step.do = "alias" /\ symbols' = symbols
      /\ \/ frames' = WithLast(frames, Onward(Top, Top.at + 1))
         \/ frames' = WithLast(frames, Onward(Top, Top.at + 2))
      /\ LET named == Kid(heap, Top.node, "identifier")
         IN  \/ heap' = heap
             \/ named # Null /\ heap' = [heap EXCEPT ![Top.node].text = heap[named].text]
    BY DEF Alias, AtStep, At, InStep, SameScopes, Goto, NextStep
<1>2. Top.rule = "import" /\ Step = StepsOf(Top.rule)[Top.at]
    BY <1>1, AtNamed DEF NameStep
<1>3. {Top.at + 1, Top.at + 2} \subseteq After(Top.rule, Top.at)
    BY <1>1, <1>2 DEF After
<1>4. Rule.form = "construct" /\ Rule.kind = "Import" /\ Top.rule # "compound"
    BY <1>2, NamesFit DEF Rule
<1>5. NodeNamed(heap, Top.node) /\ heap[Top.node].kind = "Import" /\ Good(heap)
    BY <1>1, <1>4, StepNode, ReadyHeap
<1>6. Reworded(heap, heap')
  <2>1. CASE heap' = heap
    <3>1. Reworded(heap, heap)
        BY <1>5, Rewords
    <3>. QED
        BY <2>1, <3>1
  <2>2. ASSUME NEW named, named = Kid(heap, Top.node, "identifier"), named # Null,
               heap' = [heap EXCEPT ![Top.node].text = heap[named].text]
        PROVE  Reworded(heap, heap')
    <3>1. PICK i \in DOMAIN heap[Top.node].kids :
              /\ heap[Top.node].kids[i].field = "identifier"
              /\ named = heap[Top.node].kids[i].node
        BY <1>5, <2>2, KidFacts
    <3>2. named \in DOMAIN heap /\ heap[named].kind \in Named
        BY <1>5, <3>1 DEF NodeNamed
    <3>3. heap[named].text # "none"
        BY <1>5, <3>2 DEF Good, HeapNamed, NodeNamed
    <3>4. PICK x : x = heap[named].text
        OBVIOUS
    <3>5. Reworded(heap, [heap EXCEPT ![Top.node].text = x])
        BY <1>5, <3>3, <3>4, Rewords
    <3>. QED
        BY <2>2, <3>4, <3>5
  <2>. QED
      BY <1>1, <2>1, <2>2
<1>7. \E n \in After(Top.rule, Top.at) : frames' = WithLast(frames, Onward(Top, n))
    BY <1>1, <1>3
<1>. QED
    BY <1>1, <1>6, <1>7, StepNames

LEMMA IndexListNames ==
    ASSUME Ready, IndexList
    PROVE  NamesRight' /\ fault' = fault
PROOF
<1>1. /\ InStep(Top) /\ Top.phase = "steps" /\ Step.do \in {"index", "handlers", "enumerators"}
      /\ symbols' = symbols /\ frames' = WithLast(frames, Onward(Top, Top.at + 1))
    BY DEF IndexList, AtStep, At, InStep, SameScopes, Goto, NextStep
<1>2. PICK field : field = ListOf[Step.do]
    OBVIOUS
<1>3. /\ fault' = IF Kid(heap, Top.node, field) = Null /\ Step.do # "enumerators"
                  THEN "assert" ELSE fault
      /\ heap' = IF Step.do = "index" THEN heap
                 ELSE [n \in DOMAIN heap |->
                         IF n \in Elements(field)
                         THEN [heap[n] EXCEPT !.link = Top.node] ELSE heap[n]]
    BY <1>2 DEF IndexList
<1>4. Good(heap) /\ Placed(heap, Top) /\ Top.rule \in DOMAIN Rules /\ Rule = Rules[Top.rule]
      /\ RuleShape(Top.rule) /\ Fine(Top)
    BY ReadyHeap
<1>5. Reworded(heap, heap')
  <2>1. \A n \in DOMAIN heap : IsNode(heap[n]) /\ IsNode([heap[n] EXCEPT !.link = Top.node])
                               /\ [heap[n] EXCEPT !.link = Top.node].below = heap[n].below
                               /\ [heap[n] EXCEPT !.link = Top.node].kind = heap[n].kind
                               /\ [heap[n] EXCEPT !.link = Top.node].text = heap[n].text
                               /\ [heap[n] EXCEPT !.link = Top.node].kids = heap[n].kids
      BY <1>4 DEF Good, Nodes, IsNode
  <2>2. heap = [n \in DOMAIN heap |-> heap[n]]
      BY <1>4 DEF Good, Nodes
  <2>3. PICK E : E = Elements(field)
      OBVIOUS
  <2>4. Step.do = "index" \/ heap' = [n \in DOMAIN heap |->
                         IF n \in E THEN [heap[n] EXCEPT !.link = Top.node] ELSE heap[n]]
      BY <1>3, <2>3
  <2>5. CASE Step.do = "index"
    <3>1. heap' = heap /\ Reworded(heap, heap)
        BY <1>3, <1>4, <2>5, Rewords
    <3>. QED
        BY <3>1
  <2>6. ASSUME NEW g, g = [n \in DOMAIN heap |->
                         IF n \in E THEN [heap[n] EXCEPT !.link = Top.node] ELSE heap[n]]
        PROVE  Reworded(heap, g)
    <3>1. /\ DOMAIN g = DOMAIN heap /\ g = [n \in DOMAIN g |-> g[n]]
          /\ \A n \in DOMAIN heap : g[n] = heap[n] \/ g[n] = [heap[n] EXCEPT !.link = Top.node]
        BY <2>6
    <3>. QED
        BY <2>1, <3>1 DEF Reworded
  <2>. QED
      BY <2>4, <2>5, <2>6
<1>6. NamesRight'
    BY <1>1, <1>5, NextPlace, StepNames
<1>7. Step.do # "enumerators" => Kid(heap, Top.node, field) # Null
  <2>1. SUFFICES ASSUME Step.do \in {"index", "handlers"}
                 PROVE  Kid(heap, Top.node, field) # Null
      BY <1>1
  <2>2. Step = StepsOf(Top.rule)[Top.at] /\ NameStep(Top.rule, Top.at)
      BY <1>1, AtNamed
  <2>3. \E k \in DOMAIN heap[Top.node].kids : heap[Top.node].kids[k].field = field
      BY <1>1, <1>2, <1>4, <2>1, <2>2 DEF Placed
  <2>4. StepShape(Top.rule, Top.at)
      BY <1>1, StepFacts DEF Ready
  <2>5. Rule.form # "scoped"
      BY <1>4, <2>1, <2>2, <2>4 DEF StepShape
  <2>6. NodeNamed(heap, Top.node)
      BY <1>1, <2>5, StepNode
  <2>. QED
      BY <2>3, <2>6, KidFacts
<1>8. fault' = fault
    BY <1>3, <1>7
<1>. QED
    BY <1>6, <1>8

LEMMA DefaultRangeNames ==
    ASSUME Ready, DefaultRange
    PROVE  NamesRight'
PROOF
<1>. DEFINE s == created + 1
            one == Create(heap, s, "Literal", "1")
            two == Create(one, s + 1, "Literal", "1")
            three == Attach(two, Top.node, "start", s)
            four == Attach(three, Top.node, "stepsize", s + 1)
<1>1. /\ InStep(Top) /\ Step.do = "range" /\ symbols' = symbols /\ heap' = four
      /\ frames' = WithLast(frames, Onward(Top, Top.at + 1))
    BY DEF DefaultRange, AtStep, At, InStep, OnlyFrames, Otherwise, SameScopes, Goto, NextStep
<1>2. /\ Good(heap) /\ s \in Nat \ {Null} /\ s \notin DOMAIN heap
    BY ReadyHeap
<1>3. s + 1 \in Nat \ {Null} /\ s + 1 # s /\ s + 1 \notin DOMAIN heap
  <2>1. created + 2 \notin DOMAIN heap /\ created \in Nat
    <3>1. 2 \in 1 .. 3 /\ \A k \in 1 .. 3 : created + k \notin DOMAIN heap
        BY TopTree DEF Ready
    <3>. QED
        BY <3>1, ReadyHeap
  <2>. QED
      BY <2>1 DEF Null
<1>. HIDE DEF s
<1>4. "Literal" \notin Named
    BY DEF Named, Declaring
<1>5. Good(one) /\ Keeps(heap, one) /\ s \in DOMAIN one /\ DOMAIN one = DOMAIN heap \cup {s}
  <2>1. DOMAIN one = DOMAIN heap \cup {s}
      BY DEF Create
  <2>. QED
      BY <1>2, <1>4, <2>1, CreateGood
<1>. HIDE DEF one
<1>6. Good(two) /\ Keeps(one, two) /\ s + 1 \in DOMAIN two /\ s \in DOMAIN two
  <2>1. s + 1 \notin DOMAIN one
      BY <1>3, <1>5
  <2>2. Good(two) /\ Keeps(one, two) /\ s + 1 \in DOMAIN two
      BY <1>3, <1>4, <1>5, <2>1, CreateGood
  <2>. QED
      BY <1>5, <2>2 DEF Keeps
<1>. HIDE DEF two
<1>7. Top.node \in DOMAIN heap
  <2>1. Step = StepsOf(Top.rule)[Top.at] /\ StepShape(Top.rule, Top.at) /\ Rule = Rules[Top.rule]
      BY <1>1, StepFacts DEF Ready
  <2>2. Rule.form # "scoped"
      BY <1>1, <2>1 DEF StepShape
  <2>. QED
      BY <1>1, <2>2, StepNode
<1>8. Top.node \in DOMAIN two
    BY <1>5, <1>6, <1>7 DEF Keeps
<1>9. Good(three) /\ Keeps(two, three) /\ DOMAIN three = DOMAIN two
    BY <1>6, <1>8, AttachGood
<1>. HIDE DEF three
<1>10. Good(four) /\ Keeps(three, four)
    BY <1>6, <1>8, <1>9, AttachGood
<1>. HIDE DEF four
<1>11. Keeps(heap, four)
    BY <1>5, <1>6, <1>9, <1>10, KeepsTwice
<1>12. Good(heap') /\ Keeps(heap, heap')
    BY <1>1, <1>10, <1>11
<1>13. SymbolsNamed(heap', symbols)
    BY <1>12, KeepsRest
<1>14. SymbolsNamed(heap', symbols')
    BY <1>1, <1>13
<1>. QED
    BY <1>1, <1>12, <1>14, NextPlace, StepRight

LEMMA AddedNames ==
    ASSUME Ready, NEW h, Good(h), Keeps(heap, h), NEW node \in DOMAIN h,
           h[node].kind \in Declaring, Added(h, node)
    PROVE  fault' = fault /\ SymbolsNamed(h, symbols')
PROOF
<1>1. SymbolsNamed(h, symbols) /\ Calm
    BY KeepsRest DEF Ready
<1>2. \A n \in DOMAIN h : h[n].kind \in Declaring => h[n].text # "none"
    BY DEF Good, HeapNamed, NodeNamed, Named
<1>3. PICK name : name = h[node].text /\ name # "none"
    BY <1>2
<1>4. ASSUME NEW p \in Visible PROVE Compared(h, SymbolAt(p), name) \in {"equal", "different"}
  <2>0. PICK k \in DOMAIN scopes : p \in {<<k, i>> : i \in DOMAIN symbols[scopes[k]]}
      BY DEF Visible
  <2>1. PICK i \in DOMAIN symbols[scopes[k]] : p = <<k, i>>
      BY <2>0
  <2>2. scopes[k] \in DOMAIN symbols
    <3>1. IsSequence(scopes)
        BY AtTop DEF Ready
    <3>2. DOMAIN scopes = 1 .. Len(scopes)
        BY <3>1, SequenceFacts
    <3>. QED
        BY <3>2 DEF Ready, SymbolsInv
  <2>3. SymbolAt(p) = symbols[scopes[k]][i]
      BY <2>1 DEF SymbolAt
  <2>4. SymbolAt(p) \in DOMAIN h /\ h[SymbolAt(p)].kind \in Declaring
      BY <1>1, <2>2, <2>3 DEF SymbolsNamed
  <2>. QED
      BY <1>2, <1>3, <2>4 DEF Compared
<1>5. \A p \in Met(h, name) : Compared(h, SymbolAt(p), name) = "equal"
    BY <1>4 DEF Met
<1>6. CASE Met(h, name) = {}
  <2>1. fault' = fault /\ symbols' = [symbols EXCEPT ![Last(scopes)] = Append(@, node)]
      BY <1>1, <1>3, <1>6 DEF Added
  <2>2. PICK l : l = Last(scopes)
      OBVIOUS
  <2>3. ASSUME NEW o \in DOMAIN symbols'
        PROVE  /\ IsSequence(symbols'[o])
               /\ \A i \in DOMAIN symbols'[o] :
                     symbols'[o][i] \in DOMAIN h /\ h[symbols'[o][i]].kind \in Declaring
    <3>1. o \in DOMAIN symbols /\ symbols'[o] = IF o = l THEN Append(symbols[o], node) ELSE symbols[o]
        BY <2>1, <2>2, <2>3
    <3>2. PICK s : s = symbols[o]
        OBVIOUS
    <3>3. IsSequence(s) /\ \A i \in DOMAIN s : s[i] \in DOMAIN h /\ h[s[i]].kind \in Declaring
        BY <1>1, <3>1, <3>2 DEF SymbolsNamed
    <3>4. PICK t : t = Append(s, node)
        OBVIOUS
    <3>5. /\ IsSequence(t) /\ Len(t) = Len(s) + 1
          /\ \A i \in 1 .. Len(s) : t[i] = s[i]
          /\ t[Len(s) + 1] = node
        BY <3>3, <3>4, AppendFacts
    <3>6. DOMAIN s = 1 .. Len(s) /\ DOMAIN t = 1 .. Len(s) + 1 /\ Len(s) \in Nat
        BY <3>3, <3>5, SequenceFacts
    <3>7. \A i \in DOMAIN t : i \in DOMAIN s \/ i = Len(s) + 1
        BY <3>6
    <3>8. \A i \in DOMAIN t : t[i] \in DOMAIN h /\ h[t[i]].kind \in Declaring
        BY <3>3, <3>5, <3>6, <3>7
    <3>. QED
        BY <3>1, <3>2, <3>3, <3>4, <3>5, <3>8
  <2>4. SymbolsNamed(h, symbols')
      BY <2>3 DEF SymbolsNamed
  <2>. QED
      BY <2>1, <2>4
<1>7. CASE Met(h, name) # {}
  <2>1. PICK first \in Met(h, name) :
            IF Compared(h, SymbolAt(first), name) = "equal"
            THEN UNCHANGED <<symbols, fault>> ELSE UNCHANGED symbols
      BY <1>1, <1>3, <1>7 DEF Added
  <2>2. UNCHANGED <<symbols, fault>>
      BY <1>5, <2>1
  <2>. QED
      BY <1>1, <2>2
<1>. QED
    BY <1>6, <1>7

LEMMA DeclareNames ==
    ASSUME Ready, Declare
    PROVE  NamesRight' /\ fault' = fault
PROOF
<1>1. /\ InStep(Top) /\ Step.do = "declare" /\ heap' = heap /\ Added(heap, Top.node)
      /\ frames' = WithLast(frames, Onward(Top, Top.at + 1))
    BY DEF Declare, AtStep, At, InStep, SameTree, Goto, NextStep
<1>2. NameStep(Top.rule, Top.at) /\ Step = StepsOf(Top.rule)[Top.at] /\ Rule = Rules[Top.rule]
    BY <1>1, AtNamed, ReadyHeap
<1>3. Rule.form = "construct" /\ Rule.kind \in Declaring
    BY <1>1, <1>2 DEF NameStep
<1>4. Top.node \in DOMAIN heap /\ heap[Top.node].kind \in Declaring
  <2>1. Top.rule # "compound"
      BY <1>2, <1>3, NamesFit
  <2>. QED
      BY <1>1, <1>3, <2>1, StepNode
<1>5. Good(heap') /\ Keeps(heap, heap') /\ Good(heap) /\ Keeps(heap, heap)
    BY <1>1, SameHeap
<1>6. fault' = fault /\ SymbolsNamed(heap, symbols')
    BY <1>1, <1>4, <1>5, AddedNames
<1>7. SymbolsNamed(heap', symbols')
    BY <1>1, <1>6
<1>. QED
    BY <1>1, <1>5, <1>6, <1>7, NextPlace, StepRight

LEMMA DefineNames ==
    ASSUME Ready, Define
    PROVE  NamesRight' /\ fault' = fault
PROOF
<1>1. /\ Top.phase = "define" /\ Added(heap, Top.node) /\ Running
      /\ heap' = [heap EXCEPT ![Top.node].note = Top.text]
      /\ frames' = WithLast(frames, Done(Top.node))
    BY DEF Define, At, Goto
<1>2. /\ Good(heap) /\ Placed(heap, Top) /\ Fine(Top) /\ Rule = Rules[Top.rule]
      /\ Top.node \in DOMAIN heap \cup {Null}
    BY ReadyHeap
<1>3. /\ Top.node # Null /\ Rule.form = "definition"
      /\ DOMAIN Top = {"rule", "at", "node", "held", "text", "phase", "calm"}
    BY <1>1, <1>2 DEF Fine, Building
<1>4. Top.node \in DOMAIN heap /\ heap[Top.node].kind \in Declaring
    BY <1>1, <1>2, <1>3 DEF Placed
<1>5. Good(heap') /\ Keeps(heap, heap') /\ Keeps(heap, heap)
  <2>1. PICK x : x = Top.text
      OBVIOUS
  <2>2. PICK g : g = [heap EXCEPT ![Top.node].note = x]
      OBVIOUS
  <2>3. Reworded(heap, g)
      BY <1>2, <2>2, Rewords
  <2>4. Good(g) /\ Keeps(heap, g)
      BY <1>2, <2>3, RewordedGood
  <2>. QED
      BY <1>1, <2>1, <2>2, <2>4 DEF Keeps
<1>6. fault' = fault /\ SymbolsNamed(heap, symbols')
    BY <1>1, <1>2, <1>4, <1>5, AddedNames
<1>7. SymbolsNamed(heap', symbols')
    BY <1>5, <1>6, SymbolsKept
<1>8. PICK f : f = Done(Top.node)
    OBVIOUS
<1>9. f.phase = "done" /\ f.rule = Top.rule /\ f.node = Top.node
    BY <1>3, <1>8 DEF Done
<1>10. Placed(heap', f) /\ f.phase \notin Waiting
  <2>1. Gives(heap', f.rule, f.node)
    <3>1. f.rule # "typedef" /\ Rules[f.rule].form = "definition"
        BY <1>2, <1>3, <1>9, NamesFit
    <3>. QED
        BY <1>3, <1>9, <3>1 DEF Gives
  <2>. QED
      BY <1>9, <2>1 DEF Placed, InStep, Waiting
<1>11. \A n \in Rest(frames) : heap'[n].kind = heap[n].kind
    BY <1>5, KeepsRest
<1>12. NamesRight'
    BY <1>1, <1>5, <1>7, <1>8, <1>10, <1>11, GotoRight DEF Good
<1>. QED
    BY <1>6, <1>12

LEMMA ConstructorNames ==
    ASSUME Ready, Constructor
    PROVE  NamesRight' /\ fault' = fault
PROOF
<1>1. PICK class : class = within.class
    OBVIOUS
<1>2. PICK name : name = heap[within.class].text
    OBVIOUS
<1>3. /\ InStep(Top) /\ Step.do = "constructor" /\ Added(heap', Top.node)
      /\ heap' = [heap EXCEPT ![Top.node].link = class, ![Top.node].text = name]
      /\ frames' = WithLast(frames, Onward(Top, Top.at + 1))
    BY <1>1, <1>2 DEF Constructor, AtStep, At, InStep, Goto, NextStep
<1>4. NameStep(Top.rule, Top.at) /\ Step = StepsOf(Top.rule)[Top.at] /\ Rule = Rules[Top.rule]
    BY <1>3, AtNamed, ReadyHeap
<1>5. Top.rule = "constructor"
    BY <1>3, <1>4 DEF NameStep
<1>6. Top.node \in DOMAIN heap /\ heap[Top.node].kind \in Declaring
  <2>1. Rule.form = "construct" /\ Rule.kind \in Declaring /\ Top.rule # "compound"
      BY <1>4, <1>5, NamesFit
  <2>. QED
      BY <1>3, <2>1, StepNode
<1>7. Good(heap)
    BY ReadyHeap
<1>8. name # "none"
  <2>1. /\ Len(frames) \in Nat \ {0} /\ Top = frames[Len(frames)] /\ Len(frames) \in 1 .. Len(frames)
      BY AtTop DEF Ready
  <2>2. PICK j \in 1 .. Len(frames) - 1 : frames[j].rule = "class" /\ InScope(frames[j])
      BY <1>5, <2>1 DEF Ready, CallsInv, OfClass
  <2>3. j \in 1 .. Len(frames)
      BY <2>1
  <2>4. class = frames[j].node
      BY <1>1, <2>2, <2>3 DEF Ready, CallsInv
  <2>5. Fine(frames[j]) /\ Placed(heap, frames[j])
      BY <2>3 DEF Ready, ParserInv, FramesInv, NamesRight
  <2>6. frames[j].node # Null /\ heap[frames[j].node].kind = "Class"
      BY <2>2, <2>5, NamesFit DEF Fine, Placed, InScope, InStep
  <2>7. frames[j].node \in Rest(frames)
      BY <2>2, <2>6 DEF Rest, Own
  <2>8. class \in DOMAIN heap /\ heap[class].kind = "Class"
      BY <2>4, <2>6, <2>7, ReadyHeap
  <2>. QED
      BY <1>1, <1>2, <1>7, <2>8 DEF Good, HeapNamed, NodeNamed, Named, Declaring
<1>9. Good(heap') /\ Keeps(heap, heap')
  <2>1. PICK g : g = [heap EXCEPT ![Top.node].link = class]
      OBVIOUS
  <2>2. Good(g) /\ Keeps(heap, g)
      BY <1>7, <2>1, Rewords, RewordedGood
  <2>3. PICK h : h = [g EXCEPT ![Top.node].text = name]
      OBVIOUS
  <2>4. Good(h) /\ Keeps(g, h)
      BY <1>8, <2>2, <2>3, Rewords, RewordedGood
  <2>5. heap' = h
      BY <1>3, <2>1, <2>3
  <2>. QED
      BY <2>2, <2>4, <2>5, KeepsTwice
<1>10. Top.node \in DOMAIN heap' /\ heap'[Top.node].kind \in Declaring
    BY <1>6, <1>9 DEF Keeps
<1>11. fault' = fault /\ SymbolsNamed(heap', symbols')
  <2>1. PICK h : h = heap'
      OBVIOUS
  <2>. QED
      BY <1>3, <1>9, <1>10, <2>1, AddedNames
<1>. QED
    BY <1>3, <1>9, <1>11, NextPlace, StepRight

LEMMA IteratorNames ==
    ASSUME Ready, Iterator
    PROVE  NamesRight' /\ fault' = fault
PROOF
<1>. DEFINE i == created + 1
            one == Create(heap, i, "Variable", heap[Top.node].text)
            type == Create(one, i + 1, "Type", "Integer")
            two == Attach(type, i, "type", i + 1)
            value == Create(two, i + 2, "Literal", "0")
            all == Attach(value, i, "value", i + 2)
            named == [all EXCEPT ![Top.node].text = "for"]
            last == Attach(named, Top.node, "identifier", i)
<1>1. /\ InStep(Top) /\ Step.do = "iterator" /\ heap' = last /\ Added(all, i)
      /\ frames' = WithLast(frames, Onward(Top, Top.at + 1))
    BY DEF Iterator, AtStep, At, InStep, Goto, NextStep
<1>2. /\ Good(heap) /\ i \in Nat \ {Null} /\ i \notin DOMAIN heap /\ Rule = Rules[Top.rule]
      /\ created \in Nat
    BY ReadyHeap
<1>3. /\ i + 1 \in Nat \ {Null} /\ i + 1 # i /\ i + 1 \notin DOMAIN heap
      /\ i + 2 \in Nat \ {Null} /\ i + 2 # i /\ i + 2 # i + 1 /\ i + 2 \notin DOMAIN heap
  <2>1. \A k \in 1 .. 3 : created + k \notin DOMAIN heap
      BY TopTree DEF Ready
  <2>2. 2 \in 1 .. 3 /\ 3 \in 1 .. 3 /\ i + 1 = created + 2 /\ i + 2 = created + 3
      BY <1>2
  <2>. QED
      BY <1>2, <2>1, <2>2 DEF Null
<1>. HIDE DEF i
<1>4. NameStep(Top.rule, Top.at) /\ Step = StepsOf(Top.rule)[Top.at]
    BY <1>1, AtNamed
<1>5. Rule.kind = "For" /\ Top.rule # "compound"
    BY <1>1, <1>2, <1>4 DEF NameStep
<1>6. Top.node \in DOMAIN heap /\ heap[Top.node].kind = "For"
  <2>1. StepShape(Top.rule, Top.at)
      BY <1>1, StepFacts DEF Ready
  <2>2. Rule.form # "scoped"
      BY <1>1, <1>2, <1>4, <2>1 DEF StepShape
  <2>. QED
      BY <1>1, <1>5, <2>2, StepNode
<1>7. heap[Top.node].text # "none"
    BY <1>2, <1>6 DEF Good, HeapNamed, NodeNamed, Named
<1>8. "Variable" \in Declaring /\ "Type" \notin Named /\ "Literal" \notin Named
    BY DEF Named, Declaring
<1>9. /\ Good(one) /\ Keeps(heap, one) /\ DOMAIN one = DOMAIN heap \cup {i}
      /\ one[i].kind = "Variable"
  <2>1. DOMAIN one = DOMAIN heap \cup {i}
      BY DEF Create
  <2>. QED
      BY <1>2, <1>7, <2>1, CreateGood
<1>. HIDE DEF one
<1>10. /\ Good(type) /\ Keeps(one, type) /\ DOMAIN type = DOMAIN one \cup {i + 1}
  <2>1. DOMAIN type = DOMAIN one \cup {i + 1} /\ i + 1 \notin DOMAIN one
      BY <1>3, <1>9 DEF Create
  <2>. QED
      BY <1>3, <1>8, <1>9, <2>1, CreateGood
<1>. HIDE DEF type
<1>11. Good(two) /\ Keeps(type, two) /\ DOMAIN two = DOMAIN type
  <2>1. i \in DOMAIN type /\ i + 1 \in DOMAIN type
      BY <1>9, <1>10
  <2>. QED
      BY <1>10, <2>1, AttachGood
<1>. HIDE DEF two
<1>12. /\ Good(value) /\ Keeps(two, value) /\ DOMAIN value = DOMAIN two \cup {i + 2}
  <2>1. DOMAIN value = DOMAIN two \cup {i + 2} /\ i + 2 \notin DOMAIN two
      BY <1>3, <1>9, <1>10, <1>11 DEF Create
  <2>. QED
      BY <1>3, <1>8, <1>11, <2>1, CreateGood
<1>. HIDE DEF value
<1>13. Good(all) /\ Keeps(value, all) /\ DOMAIN all = DOMAIN value
  <2>1. i \in DOMAIN value /\ i + 2 \in DOMAIN value
      BY <1>9, <1>10, <1>11, <1>12
  <2>. QED
      BY <1>12, <2>1, AttachGood
<1>. HIDE DEF all
<1>14. Keeps(one, all) /\ Keeps(heap, all)
    BY <1>9, <1>10, <1>11, <1>12, <1>13, KeepsTwice
<1>15. i \in DOMAIN all /\ all[i].kind = "Variable"
    BY <1>9, <1>14 DEF Keeps
<1>16. fault' = fault /\ SymbolsNamed(all, symbols')
    BY <1>1, <1>8, <1>13, <1>14, <1>15, AddedNames
<1>17. Good(named) /\ Keeps(all, named)
    BY <1>13, Rewords, RewordedGood
<1>18. i \in DOMAIN named /\ Top.node \in DOMAIN named /\ named[Top.node].kind = "For"
    BY <1>6, <1>14, <1>15, <1>17 DEF Keeps
<1>. HIDE DEF named
<1>19. Good(last) /\ Keeps(named, last)
    BY <1>17, <1>18, AttachGood
<1>. HIDE DEF last
<1>20. Keeps(heap, last) /\ Keeps(all, last)
    BY <1>14, <1>17, <1>19, KeepsTwice
<1>21. SymbolsNamed(last, symbols')
    BY <1>16, <1>20, SymbolsKept
<1>22. Good(heap') /\ Keeps(heap, heap') /\ SymbolsNamed(heap', symbols')
    BY <1>1, <1>19, <1>20, <1>21
<1>. QED
    BY <1>1, <1>16, <1>22, NextPlace, StepRight

-----------------------------------------------------------------------------
(* The rules that are entered, called and left. *)
LEMMA EnterNames ==
    ASSUME Ready, EnterScope
    PROVE  NamesRight'
PROOF
<1>1. /\ InStep(Top) /\ Step.do = "enter" /\ heap' = heap
      /\ symbols' = [o \in DOMAIN symbols \cup {Top.node} |->
                        IF o = Top.node THEN <<>> ELSE symbols[o]]
      /\ frames' = WithLast(frames, Onward(Top, Top.at + 1))
    BY DEF EnterScope, AtStep, At, InStep, SameTree, Goto, NextStep
<1>2. Good(heap') /\ Keeps(heap, heap') /\ SymbolsNamed(heap, symbols)
    BY <1>1, SameHeap, ReadyHeap
<1>3. ASSUME NEW o \in DOMAIN symbols'
      PROVE  /\ IsSequence(symbols'[o])
             /\ \A i \in DOMAIN symbols'[o] :
                   symbols'[o][i] \in DOMAIN heap /\ heap[symbols'[o][i]].kind \in Declaring
  <2>1. CASE o = Top.node
    <3>1. symbols'[o] = <<>>
        BY <1>1, <2>1
    <3>2. IsSequence(<<>>) /\ DOMAIN <<>> = {}
        BY EmptyFacts
    <3>. QED
        BY <3>1, <3>2
  <2>2. CASE o # Top.node
    <3>1. o \in DOMAIN symbols /\ symbols'[o] = symbols[o]
        BY <1>1, <1>3, <2>2
    <3>. QED
        BY <1>2, <3>1 DEF SymbolsNamed
  <2>. QED
      BY <2>1, <2>2
<1>4. SymbolsNamed(heap', symbols')
    BY <1>1, <1>3 DEF SymbolsNamed
<1>. QED
    BY <1>1, <1>2, <1>4, NextPlace, StepRight

LEMMA SameFramesNames ==
    ASSUME NamesRight, UNCHANGED <<heap, frames, symbols, answer>>
    PROVE  NamesRight'
PROOF
<1>1. Top' = Top
    BY DEF Top
<1>. QED
    BY <1>1 DEF NamesRight

LEMMA ConcatNames ==
    ASSUME Ready, Concat
    PROVE  NamesRight'
PROOF
<1>1. /\ InStep(Top) /\ Top.phase = "steps" /\ Step.do = "concat" /\ symbols' = symbols
      /\ \/ heap' = heap /\ frames' = WithLast(frames, Onward(Top, Top.at + 1))
         \/ /\ heap' = [heap EXCEPT ![Top.node].text = @ \o Current]
            /\ frames' = frames
    BY DEF Concat, AtStep, At, InStep, OnlyFrames, Otherwise, SameScopes, Goto, NextStep
<1>2. NameStep(Top.rule, Top.at) /\ Step = StepsOf(Top.rule)[Top.at]
    BY <1>1, AtNamed
<1>3. Good(heap) /\ Placed(heap, Top) /\ Rule = Rules[Top.rule]
    BY ReadyHeap
<1>4. CASE heap' = heap /\ frames' = WithLast(frames, Onward(Top, Top.at + 1))
  <2>1. Reworded(heap, heap')
      BY <1>3, <1>4, Rewords
  <2>. QED
      BY <1>1, <1>4, <2>1, NextPlace, StepNames
<1>5. ASSUME heap' = [heap EXCEPT ![Top.node].text = @ \o Current], frames' = frames
      PROVE  NamesRight'
  <2>1. Rule.kind \notin Named
      BY <1>1, <1>2, <1>3 DEF NameStep
  <2>2. StepShape(Top.rule, Top.at)
      BY <1>1, StepFacts DEF Ready
  <2>3. Rule.form # "scoped"
      BY <1>1, <1>2, <1>3, <2>2 DEF StepShape
  <2>4. Top.node \in DOMAIN heap /\ heap[Top.node].kind \notin Named
      BY <1>1, <2>1, <2>3, StepNode
  <2>5. PICK text : text = heap[Top.node].text \o Current
      OBVIOUS
  <2>6. heap' = [heap EXCEPT ![Top.node].text = text]
      BY <1>5, <2>5
  <2>7. Good(heap') /\ Keeps(heap, heap')
    <3>1. PICK g : g = [heap EXCEPT ![Top.node].text = text]
        OBVIOUS
    <3>2. Good(g) /\ Keeps(heap, g)
        BY <1>3, <2>4, <3>1, Rewords, RewordedGood
    <3>. QED
        BY <2>6, <3>1, <3>2
  <2>8. frames' = WithLast(frames, Top)
    <3>1. /\ IsSequence(frames) /\ Top = frames[Len(frames)]
        BY AtTop DEF Ready
    <3>2. PICK S : frames \in Seq(S)
        BY <3>1 DEF IsSequence
    <3>3. frames = [i \in DOMAIN frames |-> frames[i]]
        BY <3>2
    <3>. QED
        BY <1>5, <3>1, <3>3 DEF WithLast
  <2>9. Placed(heap', Top)
    <3>1. heap'[Top.node].kind = heap[Top.node].kind
        BY <2>4, <2>7 DEF Keeps
    <3>. QED
        BY <1>1, <1>2, <1>3, <3>1 DEF Placed
  <2>10. Top.phase \notin Waiting
      BY <1>1 DEF Waiting
  <2>. QED
      BY <1>1, <2>7, <2>8, <2>9, <2>10, GotoNames
<1>. QED
    BY <1>1, <1>4, <1>5

LEMMA GivesNull ==
    ASSUME NEW h, NEW r, ~Solid(r)
    PROVE  Gives(h, r, Null)
PROOF
    BY DEF Gives

LEMMA GivesOther ==
    ASSUME NEW h, NEW r \in DOMAIN Rules, NEW n,
           Rules[r].form \notin {"construct", "suffix", "chain"}, n # Null \/ ~Solid(r)
    PROVE  Gives(h, r, n)
PROOF
<1>1. r # "typedef"
    BY NamesFit
<1>. QED
    BY <1>1 DEF Gives

LEMMA DonePlaced ==
    ASSUME Ready, NEW h, NEW m, Gives(h, Top.rule, m)
    PROVE  Placed(h, Done(m)) /\ Done(m).phase \notin Waiting
PROOF
<1>1. DOMAIN Top = {"rule", "at", "node", "held", "text", "phase", "calm"}
    BY ReadyHeap DEF Fine
<1>2. PICK f : f = Done(m)
    OBVIOUS
<1>3. f.phase = "done" /\ f.rule = Top.rule /\ f.node = m
    BY <1>1, <1>2 DEF Done
<1>. QED
    BY <1>2, <1>3 DEF Placed, InStep, Waiting

LEMMA FirstPlaced ==
    ASSUME NEW h, NEW t, {"rule", "at", "node", "phase"} \subseteq DOMAIN t,
           t.rule \in DOMAIN Rules, Rules[t.rule].form \in Stepping, Rules[t.rule].form # "scoped",
           t.node # Null, h[t.node].kind = Rules[t.rule].kind
    PROVE  Placed(h, Onward(t, 1)) /\ Onward(t, 1).phase \notin Waiting
PROOF
<1>1. RuleShape(t.rule) /\ NameShape(t.rule)
    BY NamesFit, RulesAssumption
<1>2. IsList(StepsOf(t.rule)) /\ \A i \in DOMAIN StepsOf(t.rule) : NameStep(t.rule, i)
    BY <1>1 DEF RuleShape, NameShape, StepsOf
<1>3. ~(1 > Len(StepsOf(t.rule))) => StepsOf(t.rule)[1].do \notin {"index", "handlers"}
  <2>1. SUFFICES ASSUME ~(1 > Len(StepsOf(t.rule))), StepsOf(t.rule)[1].do \in {"index", "handlers"}
                 PROVE  FALSE
      OBVIOUS
  <2>2. 1 \in DOMAIN StepsOf(t.rule) /\ 1 - 1 \notin DOMAIN StepsOf(t.rule)
      BY <1>2, <2>1 DEF IsList
  <2>. QED
      BY <1>2, <2>1, <2>2 DEF NameStep
<1>4. 1 > Len(StepsOf(t.rule)) => t.rule # "typedef"
    BY <1>2, NamesFit DEF IsList
<1>5. t.rule = "compound" => h[t.node].kind \notin Named
    BY NamesFit
<1>. QED
    BY <1>3, <1>4, <1>5, OnPlaced

LEMMA AroundGood ==
    ASSUME NEW h, Good(h), NEW id \in Nat \ {Null}, id \notin DOMAIN h, NEW kind, NEW text,
           kind \in Named => text # "none", NEW field, NEW kid \in DOMAIN h \cup {Null},
           kid # Null /\ kind = "Import" /\ field = "identifier" => h[kid].kind \in Named
    PROVE  LET g == Attach(Create(h, id, kind, text), id, field, kid)
           IN  Good(g) /\ Keeps(h, g) /\ id \in DOMAIN g /\ g[id].kind = kind
PROOF
<1>1. PICK f : f = Create(h, id, kind, text)
    OBVIOUS
<1>2. Good(f) /\ Keeps(h, f) /\ id \in DOMAIN f /\ f[id].kind = kind
    BY <1>1, CreateGood
<1>3. kid # Null => kid \in DOMAIN f /\ f[kid].kind = h[kid].kind
    BY <1>2 DEF Keeps
<1>4. PICK g : g = Attach(f, id, field, kid)
    OBVIOUS
<1>5. Good(g) /\ Keeps(f, g)
    BY <1>2, <1>3, <1>4, AttachGood
<1>6. Keeps(h, g) /\ id \in DOMAIN g /\ g[id].kind = kind
    BY <1>2, <1>5, KeepsTwice DEF Keeps
<1>. QED
    BY <1>1, <1>4, <1>5, <1>6

LEMMA TopFields ==
    ASSUME Ready
    PROVE  DOMAIN Top = {"rule", "at", "node", "held", "text", "phase", "calm"}
PROOF
    BY ReadyHeap DEF Fine

\* The rule returns, and the heap is as it was.
LEMMA DoneNames ==
    ASSUME Ready, NEW m, Gives(heap', Top.rule, m), frames' = WithLast(frames, Done(m)),
           Good(heap'), Keeps(heap, heap'), symbols' = symbols
    PROVE  NamesRight'
PROOF
<1>1. Placed(heap', Done(m)) /\ Done(m).phase \notin Waiting
    BY DonePlaced
<1>. QED
    BY <1>1, GotoNames

\* The rule waits for another one, or goes on at a place of its own.
LEMMA CallsRule ==
    ASSUME Ready, NEW f, f.phase \notin {"steps", "child", "suffixes", "define", "done"},
           NEW r \in DOMAIN Rules, NEW k,
           \/ frames' = Append(WithLast(frames, f), Frame(r))
           \/ frames' = Append(WithLast(frames, f), [Frame(r) EXCEPT !.held = k]),
           Good(heap'), Keeps(heap, heap'), symbols' = symbols
    PROVE  NamesRight'
PROOF
<1>1. Placed(heap', f)
    BY PlacedFree
<1>2. /\ Placed(heap', Frame(r)) /\ Frame(r).phase \notin Waiting
      /\ Placed(heap', [Frame(r) EXCEPT !.held = k])
      /\ [Frame(r) EXCEPT !.held = k].phase \notin Waiting
    BY FreshPlaced
<1>3. CASE frames' = Append(WithLast(frames, f), Frame(r))
    BY <1>1, <1>2, <1>3, CallNames
<1>4. CASE frames' = Append(WithLast(frames, f), [Frame(r) EXCEPT !.held = k])
  <2>1. PICK g : g = [Frame(r) EXCEPT !.held = k]
      OBVIOUS
  <2>2. Placed(heap', g) /\ g.phase \notin Waiting /\ frames' = Append(WithLast(frames, f), g)
      BY <1>2, <1>4, <2>1
  <2>. QED
      BY <1>1, <2>2, CallNames
<1>. QED
    BY <1>3, <1>4

LEMMA FreeNames ==
    ASSUME Ready, NEW f,
           f.phase \in {"enter", "choose", "append", "close", "slices"},
           frames' = WithLast(frames, f),
           Good(heap'), Keeps(heap, heap'), symbols' = symbols
    PROVE  NamesRight'
PROOF
<1>1. f.phase \notin {"steps", "child", "suffixes", "define", "done"} /\ f.phase \notin Waiting
    BY DEF Waiting
<1>2. Placed(heap', f)
    BY <1>1, PlacedFree
<1>. QED
    BY <1>1, <1>2, GotoNames

LEMMA BeginNames ==
    ASSUME Ready, Begin
    PROVE  NamesRight'
PROOF
<1>. DEFINE id == created + 1
            kid == IF Rule.form = "suffix" THEN Top.held ELSE Null
            field == IF Rule.form = "suffix" THEN Rule.field ELSE "none"
            text == IF Rule.form # "suffix" /\ Rule.start = {} THEN "none" ELSE Current
<1>1. /\ Top.phase = "enter" /\ Rule.form \in {"construct", "suffix", "chain"}
      /\ symbols' = symbols /\ Running
    BY DEF Begin, In, At, OnlyFrames, Otherwise, SameScopes
<1>2. /\ Good(heap) /\ id \in Nat \ {Null} /\ id \notin DOMAIN heap
      /\ Rule = Rules[Top.rule] /\ NameShape(Top.rule) /\ Top.rule \in DOMAIN Rules
      /\ Top.held \in DOMAIN heap \cup {Null}
    BY ReadyHeap
<1>3. DOMAIN Top = {"rule", "at", "node", "held", "text", "phase", "calm"}
    BY TopFields
<1>4. CASE ~Starts(Rule.start)
  <2>1. heap' = heap /\ frames' = WithLast(frames, Done(Null))
      BY <1>4 DEF Begin, SameTree, Goto
  <2>2. Rule.form # "suffix"
      BY <1>1, <1>4 DEF Ready, ParserInv, FramesInv, Running
  <2>3. ~Solid(Top.rule)
      BY <1>1, <1>2, <2>2 DEF Solid
  <2>4. Gives(heap', Top.rule, Null)
      BY <2>3, GivesNull
  <2>5. Good(heap') /\ Keeps(heap, heap')
      BY <2>1, SameHeap
  <2>. QED
      BY <1>1, <2>1, <2>4, <2>5, DoneNames
<1>5. CASE Starts(Rule.start)
  <2>1. heap' = Attach(Create(heap, id, Rule.kind, text), id, field, kid)
      BY <1>5 DEF Begin, NewAround
  <2>2. Rule.kind \in Named => text # "none"
    <3>1. SUFFICES ASSUME Rule.kind \in Named PROVE Current # "none" /\ Rule.start # {}
        OBVIOUS
    <3>2. Rule.start # {} /\ "none" \notin Rule.start
        BY <1>1, <1>2, <3>1 DEF NameShape
    <3>3. PICK k \in Rule.start : Fits(k)
        BY <1>5, <3>2 DEF Starts
    <3>4. k # "none" /\ IsOf(Current, k)
        BY <3>2, <3>3 DEF Fits
    <3>. QED
        BY <3>2, <3>4, TokenNamed
  <2>3. kid \in DOMAIN heap \cup {Null}
      BY <1>2
  <2>4. kid # Null /\ Rule.kind = "Import" /\ field = "identifier" => heap[kid].kind \in Named
    <3>1. Rule.form = "suffix" => Rule.kind # "Import"
        BY <1>2, NamesFit DEF NameShape, Making
    <3>. QED
        BY <3>1
  <2>5. PICK m : m = id
      OBVIOUS
  <2>. HIDE DEF text, kid, field
  <2>6. Good(heap') /\ Keeps(heap, heap') /\ m \in DOMAIN heap' /\ heap'[m].kind = Rule.kind
    <3>1. PICK g : g = Attach(Create(heap, id, Rule.kind, text), id, field, kid)
        OBVIOUS
    <3>2. Good(g) /\ Keeps(heap, g) /\ id \in DOMAIN g /\ g[id].kind = Rule.kind
        BY <1>2, <2>2, <2>3, <2>4, <3>1, AroundGood
    <3>. QED
        BY <2>1, <2>5, <3>1, <3>2
  <2>7. CASE Rule.form = "chain"
    <3>1. PICK f : f = [Top EXCEPT !.phase = "suffixes", !.node = m]
        OBVIOUS
    <3>2. frames' = WithLast(frames, f)
        BY <1>5, <2>5, <2>7, <3>1 DEF Begin, Goto
    <3>3. f.phase = "suffixes" /\ f.node = m /\ f.rule = Top.rule
        BY <1>3, <3>1
    <3>4. Placed(heap', f) /\ f.phase \notin Waiting
        BY <1>2, <2>6, <3>3 DEF Placed, InStep, Waiting, Results
    <3>. QED
        BY <1>1, <2>6, <3>2, <3>4, GotoNames
  <2>8. CASE Rule.form # "chain"
    <3>1. PICK t : t = [Top EXCEPT !.node = m, !.held = Null]
        OBVIOUS
    <3>2. frames' = WithLast(frames, Onward(t, 1))
        BY <1>5, <2>5, <2>8, <3>1 DEF Begin, Goto
    <3>3. t.node = m /\ t.rule = Top.rule /\ DOMAIN t = DOMAIN Top
        BY <1>3, <3>1
    <3>4. Rule.form \in Stepping /\ Rule.form # "scoped"
        BY <1>1, <2>8 DEF Stepping
    <3>5. {"rule", "at", "node", "phase"} \subseteq DOMAIN t /\ t.node # Null
        BY <1>2, <1>3, <2>5, <3>3
    <3>6. Placed(heap', Onward(t, 1)) /\ Onward(t, 1).phase \notin Waiting
        BY <1>2, <2>6, <3>3, <3>4, <3>5, FirstPlaced
    <3>. QED
        BY <1>1, <2>6, <3>2, <3>6, GotoNames
  <2>. QED
      BY <2>7, <2>8
<1>. QED
    BY <1>4, <1>5

LEMMA CallChildNames ==
    ASSUME Ready, CallChild
    PROVE  NamesRight'
PROOF
<1>1. PICK f : f = [Top EXCEPT !.phase = "child"]
    OBVIOUS
<1>2. /\ InStep(Top) /\ Step.do \in {"child", "become"} /\ symbols' = symbols /\ heap' = heap
      /\ frames' = Append(WithLast(frames, f), Frame(Step.rule))
    BY <1>1 DEF CallChild, AtStep, At, InStep, OnlyFrames, Otherwise, SameScopes, SameTree, Call
<1>3. Step = StepsOf(Top.rule)[Top.at] /\ StepShape(Top.rule, Top.at)
    BY <1>2, StepFacts DEF Ready
<1>4. Step.rule \in DOMAIN Rules
    BY <1>2, <1>3 DEF StepShape, Callable
<1>5. Placed(heap, Top)
    BY ReadyHeap
<1>6. f.phase = "child" /\ f.rule = Top.rule /\ f.node = Top.node /\ f.at = Top.at
    BY <1>1, TopFields
<1>7. Placed(heap', f)
    BY <1>2, <1>5, <1>6 DEF Placed, InStep
<1>8. Placed(heap', Frame(Step.rule)) /\ Frame(Step.rule).phase \notin Waiting
    BY <1>4, FreshPlaced
<1>9. Good(heap') /\ Keeps(heap, heap')
    BY <1>2, SameHeap
<1>. QED
    BY <1>2, <1>7, <1>8, <1>9, CallNames

LEMMA TakeChildNames ==
    ASSUME Ready, TakeChild
    PROVE  NamesRight'
PROOF
<1>1. InStep(Top) /\ Top.phase = "child" /\ symbols' = symbols
    BY DEF TakeChild, At, InStep, Taking, Otherwise, SameScopes
<1>2. /\ Step = StepsOf(Top.rule)[Top.at] /\ StepShape(Top.rule, Top.at)
      /\ Top.at \in DOMAIN StepsOf(Top.rule) /\ Rule = Rules[Top.rule]
      /\ \A i \in DOMAIN StepsOf(Top.rule) : StepShape(Top.rule, i)
      /\ Rule.form # "scoped" => Top.node # Null
    BY <1>1, StepFacts DEF Ready
<1>3. /\ Good(heap) /\ Fine(Top) /\ NameShape(Top.rule) /\ RuleShape(Top.rule)
      /\ Placed(heap, Top) /\ answer \in DOMAIN heap \cup {Null} /\ Top.rule \in DOMAIN Rules
    BY ReadyHeap
<1>4. /\ Rule.form \in Stepping /\ Step.do \in {"child", "become"}
      /\ DOMAIN Top = {"rule", "at", "node", "held", "text", "phase", "calm"}
    BY <1>1, <1>2, <1>3 DEF Fine
<1>5. /\ IsList(StepsOf(Top.rule)) /\ \A i \in DOMAIN StepsOf(Top.rule) : NameStep(Top.rule, i)
    BY <1>2, <1>3, <1>4 DEF RuleShape, NameShape, StepsOf
<1>6. Top.at + 1 > Len(StepsOf(Top.rule)) \/ Top.at + 1 \in DOMAIN StepsOf(Top.rule)
    BY <1>2, <1>5 DEF IsList
<1>7. CASE Step.do = "become"
  <2>1. Rule.form = "scoped"
      BY <1>2, <1>7 DEF StepShape
  <2>2. PICK t : t = [Top EXCEPT !.node = answer]
      OBVIOUS
  <2>3. heap' = heap /\ frames' = WithLast(frames, Onward(t, Top.at + 1))
      BY <1>7, <2>2 DEF TakeChild, Goto
  <2>4. t.rule = Top.rule /\ DOMAIN t = DOMAIN Top
      BY <1>4, <2>2
  <2>5. ~(Top.at + 1 > Len(StepsOf(Top.rule))) =>
            StepsOf(Top.rule)[Top.at + 1].do \notin {"index", "handlers"}
      BY <1>2, <1>6, <2>1 DEF StepShape
  <2>6. Top.rule # "typedef"
      BY <1>2, <2>1, NamesFit
  <2>7. {"rule", "at", "node", "phase"} \subseteq DOMAIN t
      BY <1>4, <2>4
  <2>8. Placed(heap', Onward(t, Top.at + 1)) /\ Onward(t, Top.at + 1).phase \notin Waiting
      BY <1>2, <1>3, <1>4, <2>1, <2>4, <2>5, <2>6, <2>7, OnPlaced
  <2>9. Good(heap') /\ Keeps(heap, heap')
      BY <2>3, SameHeap
  <2>. QED
      BY <1>1, <2>3, <2>8, <2>9, GotoNames
<1>8. CASE Step.do = "child"
  <2>1. /\ heap' = Attach(heap, Top.node, Step.field, answer)
        /\ frames' = WithLast(frames, Onward(Top, Top.at + 1))
      BY <1>8 DEF TakeChild, Goto, NextStep
  <2>2. Rule.form # "scoped"
      BY <1>2, <1>8 DEF StepShape
  <2>3. /\ Top.node \in DOMAIN heap
        /\ IF Top.rule = "compound" THEN heap[Top.node].kind \notin Named
           ELSE heap[Top.node].kind = Rule.kind
      BY <1>1, <2>2, StepNode
  <2>4. Gives(heap, Step.rule, answer)
    <3>1. PICK r \in DOMAIN Rules : CalledBy(Top, r) /\ Gives(heap, r, answer)
        BY <1>1, Given DEF Waiting
    <3>2. r = Step.rule
        BY <1>1, <1>2, <3>1 DEF CalledBy
    <3>. QED
        BY <3>1, <3>2
  <2>5. answer # Null /\ heap[Top.node].kind = "Import" /\ Step.field = "identifier" =>
            heap[answer].kind \in Named
    <3>1. SUFFICES ASSUME answer # Null, heap[Top.node].kind = "Import", Step.field = "identifier"
                   PROVE  heap[answer].kind \in Named
        OBVIOUS
    <3>2. Top.rule # "compound"
        BY <2>3, <3>1 DEF Named, Declaring
    <3>3. Top.rule = "import"
        BY <1>2, <1>3, <1>4, <2>2, <2>3, <3>1, <3>2 DEF NameShape, Making, Stepping
    <3>4. Step.rule = "relation"
        BY <1>2, <1>5, <1>8, <3>1, <3>3 DEF NameStep
    <3>5. "relation" # "compound" /\ Rules["relation"].form = "chain"
          /\ Results("relation") \subseteq Named
        BY NamesFit
    <3>. QED
        BY <2>4, <3>1, <3>4, <3>5 DEF Gives
  <2>6. PICK g : g = Attach(heap, Top.node, Step.field, answer)
      OBVIOUS
  <2>7. /\ Good(g) /\ Keeps(heap, g)
        /\ answer # Null =>
              \E k \in DOMAIN g[Top.node].kids : g[Top.node].kids[k].field = Step.field
      BY <1>3, <2>3, <2>5, <2>6, AttachGood
  <2>8. g[Top.node].kind = heap[Top.node].kind
      BY <2>3, <2>7 DEF Keeps
  <2>9. Top.rule # "typedef"
      BY <1>2, <1>5, <1>8 DEF NameStep
  <2>10. ~(Top.at + 1 > Len(StepsOf(Top.rule)))
         /\ StepsOf(Top.rule)[Top.at + 1].do \in {"index", "handlers"} =>
              \E k \in DOMAIN g[Top.node].kids :
                  g[Top.node].kids[k].field = ListOf[StepsOf(Top.rule)[Top.at + 1].do]
    <3>1. SUFFICES ASSUME ~(Top.at + 1 > Len(StepsOf(Top.rule))),
                          StepsOf(Top.rule)[Top.at + 1].do \in {"index", "handlers"}
                   PROVE  \E k \in DOMAIN g[Top.node].kids :
                            g[Top.node].kids[k].field = ListOf[StepsOf(Top.rule)[Top.at + 1].do]
        OBVIOUS
    <3>2. Top.at + 1 \in DOMAIN StepsOf(Top.rule) /\ Top.at + 1 - 1 = Top.at
        BY <1>2, <1>5, <1>6, <3>1 DEF IsList
    <3>3. PICK i : i = Top.at + 1
        OBVIOUS
    <3>4. NameStep(Top.rule, i) /\ StepsOf(Top.rule)[i].do \in {"index", "handlers"}
          /\ StepsOf(Top.rule)[i - 1] = Step
        BY <1>2, <1>5, <3>1, <3>2, <3>3
    <3>5. /\ Solid(Step.rule)
          /\ Step.field = (IF StepsOf(Top.rule)[i].do = "index" THEN "parameters" ELSE "handlers")
        BY <3>4 DEF NameStep
    <3>6. Step.field = ListOf[StepsOf(Top.rule)[i].do]
        BY <3>4, <3>5 DEF ListOf
    <3>7. answer # Null
        BY <2>4, <3>5 DEF Gives
    <3>. QED
        BY <2>7, <3>3, <3>6, <3>7
  <2>11. IF Top.rule = "compound" THEN g[Top.node].kind \notin Named
         ELSE g[Top.node].kind = Rules[Top.rule].kind
      BY <1>2, <2>3, <2>8
  <2>12. {"rule", "at", "node", "phase"} \subseteq DOMAIN Top
      BY <1>4
  <2>13. Placed(g, Onward(Top, Top.at + 1)) /\ Onward(Top, Top.at + 1).phase \notin Waiting
      BY <1>2, <1>3, <1>4, <2>2, <2>9, <2>10, <2>11, <2>12, OnPlaced
  <2>. QED
      BY <1>1, <2>1, <2>6, <2>7, <2>13, GotoNames
<1>. QED
    BY <1>4, <1>7, <1>8

LEMMA ChooseNames ==
    ASSUME Ready, Choose
    PROVE  NamesRight'
PROOF
<1>1. Running /\ Rule.form \in {"choice", "definition"} /\ symbols' = symbols /\ heap' = heap
    BY DEF Choose, In, At, OnlyFrames, Otherwise, SameScopes, SameTree
<1>2. Good(heap') /\ Keeps(heap, heap')
    BY <1>1, SameHeap
<1>3. RuleShape(Top.rule) /\ Rule = Rules[Top.rule] /\ Top.rule \in DOMAIN Rules
    BY ReadyHeap
<1>4. \/ \E first \in Top.at .. Len(Rule.of) :
            frames' = Append(WithLast(frames, [Top EXCEPT !.phase = "chosen", !.at = first + 1]),
                             Frame(Rule.of[first]))
      \/ frames' = WithLast(frames, Done(Null))
    BY DEF Choose, Call, Goto
<1>5. CASE frames' = WithLast(frames, Done(Null))
  <2>1. ~Solid(Top.rule)
      BY <1>1, <1>3 DEF Solid
  <2>. QED
      BY <1>1, <1>2, <1>5, <2>1, GivesNull, DoneNames
<1>6. ASSUME NEW first \in Top.at .. Len(Rule.of),
             frames' = Append(WithLast(frames, [Top EXCEPT !.phase = "chosen", !.at = first + 1]),
                              Frame(Rule.of[first]))
      PROVE  NamesRight'
  <2>1. Top.at \in Nat \ {0} /\ DOMAIN Top = {"rule", "at", "node", "held", "text", "phase", "calm"}
      BY ReadyHeap DEF Fine
  <2>2. IsList(Rule.of) /\ \A i \in DOMAIN Rule.of : Rule.of[i] \in Callable
      BY <1>1, <1>3 DEF RuleShape
  <2>3. first \in DOMAIN Rule.of
      BY <2>1, <2>2 DEF IsList
  <2>4. Rule.of[first] \in DOMAIN Rules
      BY <2>2, <2>3 DEF Callable
  <2>5. PICK f : f = [Top EXCEPT !.phase = "chosen", !.at = first + 1]
      OBVIOUS
  <2>6. f.phase = "chosen"
      BY <2>1, <2>5
  <2>7. f.phase \notin {"steps", "child", "suffixes", "define", "done"}
      BY <2>6
  <2>. QED
      BY <1>1, <1>2, <1>6, <2>4, <2>5, <2>7, CallsRule
<1>. QED
    BY <1>4, <1>5, <1>6

LEMMA TakeChosenNames ==
    ASSUME Ready, TakeChosen
    PROVE  NamesRight'
PROOF
<1>1. Running /\ Top.phase = "chosen" /\ symbols' = symbols /\ heap' = heap
    BY DEF TakeChosen, At, Taking, Otherwise, SameScopes, SameTree
<1>2. Good(heap') /\ Keeps(heap, heap')
    BY <1>1, SameHeap
<1>3. /\ Rule = Rules[Top.rule] /\ Top.rule \in DOMAIN Rules /\ NameShape(Top.rule)
      /\ Rule.form \in {"choice", "definition"} /\ RuleShape(Top.rule)
    BY <1>1, ReadyHeap, FormOf DEF Ready
<1>4. DOMAIN Top = {"rule", "at", "node", "held", "text", "phase", "calm"}
    BY TopFields
<1>5. CASE Rule.form = "choice" /\ answer = Null
  <2>1. PICK f : f = [Top EXCEPT !.phase = "enter"]
      OBVIOUS
  <2>2. frames' = WithLast(frames, f) /\ f.phase = "enter"
      BY <1>4, <1>5, <2>1 DEF TakeChosen, Goto
  <2>. QED
      BY <1>1, <1>2, <2>2, FreeNames
<1>6. CASE Rule.form = "choice" /\ answer # Null
  <2>1. frames' = WithLast(frames, Done(answer))
      BY <1>6 DEF TakeChosen, Goto
  <2>2. Gives(heap', Top.rule, answer)
      BY <1>3, <1>6, GivesOther
  <2>. QED
      BY <1>1, <1>2, <2>1, <2>2, DoneNames
<1>7. CASE Rule.form = "definition" /\ answer = Null
  <2>1. PICK f : f = [Top EXCEPT !.phase = "choose", !.node = answer]
      OBVIOUS
  <2>2. frames' = WithLast(frames, f) /\ f.phase = "choose"
      BY <1>4, <1>7, <2>1 DEF TakeChosen, Goto
  <2>. QED
      BY <1>1, <1>2, <2>2, FreeNames
<1>8. CASE Rule.form = "definition" /\ answer # Null
  <2>1. PICK f : f = [Top EXCEPT !.phase = "define", !.node = answer]
      OBVIOUS
  <2>2. frames' = WithLast(frames, f) /\ f.phase = "define" /\ f.node = answer
      BY <1>4, <1>8, <2>1 DEF TakeChosen, Goto
  <2>3. PICK r \in DOMAIN Rules : CalledBy(Top, r) /\ Gives(heap, r, answer)
      BY <1>1, Given DEF Waiting
  <2>4. r \in Calls(Top.rule) \ {"typedef"}
      BY <1>8, <2>3 DEF CalledBy, Gives
  <2>5. Rules[r].form = "construct" /\ Rules[r].kind \in Declaring
      BY <1>3, <1>8, <2>4 DEF NameShape
  <2>6. Results(r) = {Rules[r].kind} /\ r # "compound"
      BY <2>5, NamesFit DEF Results
  <2>7. heap[answer].kind \in Declaring
      BY <1>8, <2>3, <2>5, <2>6 DEF Gives
  <2>8. Placed(heap', f) /\ f.phase \notin Waiting
      BY <1>1, <2>2, <2>7 DEF Placed, InStep, Waiting
  <2>. QED
      BY <1>1, <1>2, <2>2, <2>8, GotoNames
<1>. QED
    BY <1>3, <1>5, <1>6, <1>7, <1>8

LEMMA ReadVisibilityNames ==
    ASSUME Ready, ReadVisibility
    PROVE  NamesRight'
PROOF
<1>1. symbols' = symbols /\ heap' = heap
    BY DEF ReadVisibility, OnlyFrames, Otherwise, SameScopes, SameTree
<1>2. Good(heap') /\ Keeps(heap, heap')
    BY <1>1, SameHeap
<1>3. PICK f : frames' = WithLast(frames, f) /\ f.phase = "choose"
  <2>1. [Top EXCEPT !.phase = "choose", !.text = Current].phase = "choose"
        /\ [Top EXCEPT !.phase = "choose"].phase = "choose"
      BY TopFields
  <2>. QED
      BY <2>1 DEF ReadVisibility, Goto
<1>. QED
    BY <1>1, <1>2, <1>3, FreeNames

LEMMA TakeSuffixNames ==
    ASSUME Ready, TakeSuffix
    PROVE  NamesRight'
PROOF
<1>1. /\ Running /\ Top.phase = "suffixes" /\ Rule.form = "chain"
      /\ symbols' = symbols /\ heap' = heap
    BY DEF TakeSuffix, In, At, OnlyFrames, Otherwise, SameScopes, SameTree
<1>2. Good(heap') /\ Keeps(heap, heap')
    BY <1>1, SameHeap
<1>3. /\ Rule = Rules[Top.rule] /\ Top.rule \in DOMAIN Rules /\ RuleShape(Top.rule)
      /\ Placed(heap, Top) /\ Fine(Top)
    BY ReadyHeap
<1>4. DOMAIN Top = {"rule", "at", "node", "held", "text", "phase", "calm"}
    BY TopFields
<1>5. \/ frames' = WithLast(frames, Done(Top.node))
      \/ \E r \in ToSet(Rule.of) :
            frames' = Append(WithLast(frames, [Top EXCEPT !.phase = "suffixed", !.node = Null]),
                             [Frame(r) EXCEPT !.held = Top.node])
    BY DEF TakeSuffix, Goto, Call
<1>6. CASE frames' = WithLast(frames, Done(Top.node))
  <2>1. Top.rule # "typedef" /\ ~Solid(Top.rule)
      BY <1>1, <1>3, NamesFit DEF Solid
  <2>2. Gives(heap', Top.rule, Top.node)
      BY <1>1, <1>3, <2>1 DEF Placed, Gives, Fine, Building
  <2>. QED
      BY <1>1, <1>2, <1>6, <2>2, DoneNames
<1>7. ASSUME NEW r \in ToSet(Rule.of),
             frames' = Append(WithLast(frames, [Top EXCEPT !.phase = "suffixed", !.node = Null]),
                              [Frame(r) EXCEPT !.held = Top.node])
      PROVE  NamesRight'
  <2>1. IsList(Rule.of) /\ \A i \in DOMAIN Rule.of : Rule.of[i] \in DOMAIN Rules
      BY <1>1, <1>3 DEF RuleShape
  <2>2. r \in DOMAIN Rules
      BY <2>1 DEF ToSet
  <2>3. PICK f : f = [Top EXCEPT !.phase = "suffixed", !.node = Null]
      OBVIOUS
  <2>4. f.phase = "suffixed"
      BY <1>4, <2>3
  <2>5. f.phase \notin {"steps", "child", "suffixes", "define", "done"}
      BY <2>4
  <2>. QED
      BY <1>1, <1>2, <1>7, <2>2, <2>3, <2>5, CallsRule
<1>. QED
    BY <1>5, <1>6, <1>7

LEMMA TakeSuffixedNames ==
    ASSUME Ready, TakeSuffixed
    PROVE  NamesRight'
PROOF
<1>1. /\ Running /\ Top.phase = "suffixed" /\ symbols' = symbols /\ heap' = heap
    BY DEF TakeSuffixed, At, Taking, Otherwise, SameScopes, SameTree
<1>2. Good(heap') /\ Keeps(heap, heap')
    BY <1>1, SameHeap
<1>3. /\ Rule = Rules[Top.rule] /\ Top.rule \in DOMAIN Rules /\ RuleShape(Top.rule)
      /\ Rule.form = "chain"
    BY <1>1, ReadyHeap, FormOf DEF Ready
<1>4. DOMAIN Top = {"rule", "at", "node", "held", "text", "phase", "calm"}
    BY TopFields
<1>5. CASE answer = Null
  <2>1. frames' = WithLast(frames, Done(Null))
      BY <1>5 DEF TakeSuffixed, Goto
  <2>2. ~Solid(Top.rule)
      BY <1>3 DEF Solid
  <2>. QED
      BY <1>1, <1>2, <2>1, <2>2, GivesNull, DoneNames
<1>6. CASE answer # Null
  <2>1. PICK f : f = [Top EXCEPT !.phase = "suffixes", !.node = answer]
      OBVIOUS
  <2>2. /\ frames' = WithLast(frames, f) /\ f.phase = "suffixes" /\ f.node = answer
        /\ f.rule = Top.rule
      BY <1>4, <1>6, <2>1 DEF TakeSuffixed, Goto
  <2>3. PICK r \in DOMAIN Rules : CalledBy(Top, r) /\ Gives(heap, r, answer)
      BY <1>1, Given DEF Waiting
  <2>4. r \in Calls(Top.rule)
      BY <2>3 DEF CalledBy
  <2>5. PICK i \in DOMAIN Rule.of : Rule.of[i] = r
      BY <1>3, <2>4 DEF Calls, Stepping
  <2>6. r # "compound" /\ Rules[r].form = "suffix"
      BY <1>3, <2>5 DEF RuleShape
  <2>7. heap[answer].kind = Rules[r].kind
      BY <1>6, <2>3, <2>6 DEF Gives, Results
  <2>8. heap[answer].kind \in Results(Top.rule)
      BY <1>3, <2>4, <2>7 DEF Results
  <2>9. Placed(heap', f) /\ f.phase \notin Waiting
      BY <1>1, <2>2, <2>8 DEF Placed, InStep, Waiting
  <2>. QED
      BY <1>1, <1>2, <2>2, <2>9, GotoNames
<1>. QED
    BY <1>5, <1>6

LEMMA OperandNames ==
    ASSUME Ready, CallOperand \/ CallFirst \/ BeginAssign
    PROVE  NamesRight'
PROOF
<1>1. symbols' = symbols /\ heap' = heap
    BY DEF CallOperand, CallFirst, BeginAssign, OnlyFrames, Otherwise, SameScopes, SameTree
<1>2. Good(heap') /\ Keeps(heap, heap')
    BY <1>1, SameHeap
<1>3. /\ Rule = Rules[Top.rule] /\ Top.rule \in DOMAIN Rules /\ RuleShape(Top.rule)
    BY ReadyHeap
<1>4. PICK f, r : /\ frames' = Append(WithLast(frames, f), Frame(r)) /\ r \in DOMAIN Rules
                  /\ f.phase \in {"left", "first", "target"}
  <2>1. /\ [Top EXCEPT !.phase = "left"].phase = "left"
        /\ [Top EXCEPT !.phase = "first"].phase = "first"
        /\ [Top EXCEPT !.phase = "target"].phase = "target"
      BY TopFields
  <2>2. CASE CallOperand
    <3>1. Rule.operand \in DOMAIN Rules
        BY <1>3, <2>2 DEF CallOperand, In, RuleShape, Callable
    <3>. QED
        BY <2>1, <2>2, <3>1 DEF CallOperand, Call
  <2>3. CASE CallFirst
    <3>1. Rule.first \in DOMAIN Rules
        BY <1>3, <2>3 DEF CallFirst, In, RuleShape, Callable
    <3>. QED
        BY <2>1, <2>3, <3>1 DEF CallFirst, Call
  <2>4. CASE BeginAssign
    <3>1. "primary" \in DOMAIN Rules
        BY RulesAssumption DEF Callable
    <3>. QED
        BY <2>1, <2>4, <3>1 DEF BeginAssign, Call
  <2>. QED
      BY <2>2, <2>3, <2>4
<1>5. f.phase \notin {"steps", "child", "suffixes", "define", "done"}
    BY <1>4
<1>. QED
    BY <1>1, <1>2, <1>4, <1>5, CallsRule

LEMMA TakeLeftNames ==
    ASSUME Ready, TakeLeft
    PROVE  NamesRight'
PROOF
<1>1. Running /\ Top.phase = "left" /\ symbols' = symbols /\ heap' = heap
    BY DEF TakeLeft, At, Taking, Otherwise, SameScopes, SameTree
<1>2. Good(heap') /\ Keeps(heap, heap')
    BY <1>1, SameHeap
<1>3. /\ Rule = Rules[Top.rule] /\ Top.rule \in DOMAIN Rules /\ RuleShape(Top.rule)
      /\ Rule.form = "level"
    BY <1>1, ReadyHeap, FormOf DEF Ready
<1>4. \/ frames' = WithLast(frames, Done(answer))
      \/ frames' = Append(WithLast(frames, [Top EXCEPT !.phase = "right", !.held = answer,
                                                       !.text = Current]), Frame(Rule.self))
    BY DEF TakeLeft, Call, Goto
<1>5. CASE frames' = WithLast(frames, Done(answer))
  <2>1. ~Solid(Top.rule)
      BY <1>3 DEF Solid
  <2>2. Gives(heap', Top.rule, answer)
      BY <1>3, <2>1, GivesOther
  <2>. QED
      BY <1>1, <1>2, <1>5, <2>2, DoneNames
<1>6. CASE frames' = Append(WithLast(frames, [Top EXCEPT !.phase = "right", !.held = answer,
                                                         !.text = Current]), Frame(Rule.self))
  <2>1. PICK f : f = [Top EXCEPT !.phase = "right", !.held = answer, !.text = Current]
      OBVIOUS
  <2>2. f.phase \notin {"steps", "child", "suffixes", "define", "done"}
      BY <2>1, TopFields
  <2>3. Rule.self \in DOMAIN Rules
      BY <1>3 DEF RuleShape, Callable
  <2>. QED
      BY <1>1, <1>2, <1>6, <2>1, <2>2, <2>3, CallsRule
<1>. QED
    BY <1>4, <1>5, <1>6

LEMMA TakeRightNames ==
    ASSUME Ready, TakeRight
    PROVE  NamesRight'
PROOF
<1>. DEFINE id == created + 1
            made == Create(heap, id, Rule.kind, Top.text)
            one == Attach(made, id, "left_operand", Top.held)
            two == Attach(one, id, "right_operand", answer)
<1>1. /\ Running /\ Top.phase = "right" /\ symbols' = symbols /\ heap' = two
      /\ frames' = WithLast(frames, Done(id))
    BY DEF TakeRight, At, Taking, Otherwise, SameScopes, Goto
<1>2. /\ Good(heap) /\ id \in Nat \ {Null} /\ id \notin DOMAIN heap
      /\ Rule = Rules[Top.rule] /\ Top.rule \in DOMAIN Rules /\ NameShape(Top.rule)
      /\ Top.held \in DOMAIN heap \cup {Null} /\ answer \in DOMAIN heap \cup {Null}
    BY ReadyHeap
<1>3. Rule.form = "level"
    BY <1>1, FormOf DEF Ready
<1>4. Rule.kind \notin Named
    BY <1>2, <1>3 DEF NameShape
<1>. HIDE DEF id
<1>5. Good(made) /\ Keeps(heap, made) /\ id \in DOMAIN made
    BY <1>2, <1>4, CreateGood
<1>. HIDE DEF made
<1>6. Top.held \in DOMAIN made \cup {Null} /\ answer \in DOMAIN made \cup {Null}
    BY <1>2, <1>5 DEF Keeps
<1>7. Good(one) /\ Keeps(made, one) /\ DOMAIN one = DOMAIN made
    BY <1>5, <1>6, AttachGood
<1>. HIDE DEF one
<1>8. Good(two) /\ Keeps(one, two)
    BY <1>5, <1>6, <1>7, AttachGood
<1>. HIDE DEF two
<1>9. Good(heap') /\ Keeps(heap, heap')
    BY <1>1, <1>5, <1>7, <1>8, KeepsTwice
<1>10. Gives(heap', Top.rule, id)
    BY <1>2, <1>3, GivesOther
<1>. QED
    BY <1>1, <1>9, <1>10, DoneNames

LEMMA TakeFirstNames ==
    ASSUME Ready, TakeFirst
    PROVE  NamesRight'
PROOF
<1>. DEFINE id == created + 1
            named == heap[answer].kind = "Identifier"
                     /\ heap' = Create(Free(heap, answer), id, "Type", heap[answer].text)
<1>1. Running /\ Top.phase = "first" /\ symbols' = symbols
    BY DEF TakeFirst, At, Taking, Otherwise, SameScopes
<1>2. /\ Good(heap) /\ id \in Nat \ {Null} /\ id \notin DOMAIN heap
      /\ Rule = Rules[Top.rule] /\ Top.rule \in DOMAIN Rules /\ NameShape(Top.rule)
      /\ answer \in DOMAIN heap \cup {Null} /\ SymbolsNamed(heap, symbols)
      /\ Rest(frames) \subseteq DOMAIN heap
    BY ReadyHeap
<1>3. Rule.form = "wrap"
    BY <1>1, FormOf DEF Ready
<1>4. Rule.kind \notin Named /\ Rule.kind # "Import"
    BY <1>2, <1>3 DEF NameShape, Named, Declaring
<1>5. CASE answer = Null
  <2>1. heap' = heap /\ frames' = WithLast(frames, Done(Null))
      BY <1>5 DEF TakeFirst, Goto, SameTree
  <2>2. Gives(heap', Top.rule, Null)
      BY <1>2, <1>3, GivesNull DEF Solid
  <2>3. Good(heap') /\ Keeps(heap, heap')
      BY <2>1, SameHeap
  <2>. QED
      BY <1>1, <2>1, <2>2, <2>3, DoneNames
<1>6. CASE answer # Null
  <2>1. PICK m : m = id
      OBVIOUS
  <2>2. PICK t : t = [Top EXCEPT !.node = m]
      OBVIOUS
  <2>3. frames' = WithLast(frames, Onward(t, 1))
      BY <1>6, <2>1, <2>2 DEF TakeFirst, Goto
  <2>4. /\ t.node = m /\ t.rule = Top.rule /\ t.node # Null
        /\ {"rule", "at", "node", "phase"} \subseteq DOMAIN t
      BY <1>2, <2>1, <2>2, TopFields
  <2>5. /\ HeapNamed(heap') /\ heap'[m].kind = Rule.kind /\ SymbolsNamed(heap', symbols)
        /\ \A n \in Rest(frames) : heap'[n].kind = heap[n].kind
    <3>1. \/ heap' = Attach(Create(heap, id, Rule.kind, "none"), id, Rule.field, answer)
          \/ named /\ Rule.kind = "Type"
        BY <1>6 DEF TakeFirst, NewAround
    <3>2. CASE heap' = Attach(Create(heap, id, Rule.kind, "none"), id, Rule.field, answer)
      <4>1. PICK g : g = Attach(Create(heap, id, Rule.kind, "none"), id, Rule.field, answer)
          OBVIOUS
      <4>2. Good(g) /\ Keeps(heap, g) /\ id \in DOMAIN g /\ g[id].kind = Rule.kind
          BY <1>2, <1>4, <4>1, AroundGood
      <4>3. Good(heap') /\ Keeps(heap, heap') /\ heap'[m].kind = Rule.kind
          BY <2>1, <3>2, <4>1, <4>2
      <4>. QED
          BY <4>3, KeepsRest DEF Good
    <3>3. CASE named /\ Rule.kind = "Type"
      <4>1. PICK R : R = Rest(frames) \cup Own(Top) \cup ({answer} \ {Null})
          OBVIOUS
      <4>2. Forest(heap, R) /\ answer \in R /\ answer \notin Rest(frames)
          BY <1>6, <4>1, TopTree DEF Ready
      <4>3. heap[answer].below = {answer}
          BY <1>2, <1>6, <3>3, NamesFit DEF Good, HeapNamed, NodeNamed
      <4>4. PICK h : h = Free(heap, answer)
          OBVIOUS
      <4>5. Good(h) /\ DOMAIN h = DOMAIN heap \ {answer} /\ \A n \in DOMAIN h : h[n] = heap[n]
        <5>1. PICK x : x = heap
            OBVIOUS
        <5>2. PICK a : a = answer
            OBVIOUS
        <5>3. Forest(x, R) /\ Good(x) /\ a \in R /\ x[a].below = {a} /\ h = Free(x, a)
            BY <1>2, <4>2, <4>3, <4>4, <5>1, <5>2
        <5>. HIDE DEF id, named
        <5>4. Good(h) /\ DOMAIN h = DOMAIN x \ {a} /\ \A n \in DOMAIN h : h[n] = x[n]
            BY <5>3, FreeGood
        <5>. QED
            BY <5>1, <5>2, <5>4
      <4>6. id \notin DOMAIN h
          BY <1>2, <4>5
      <4>7. "Type" \notin Named
          BY DEF Named, Declaring
      <4>8. PICK g : g = Create(h, id, "Type", heap[answer].text)
          OBVIOUS
      <4>9. Good(g) /\ Keeps(h, g) /\ g[id].kind = "Type"
          BY <1>2, <4>5, <4>6, <4>7, <4>8, CreateGood
      <4>10. heap' = g
          BY <3>3, <4>4, <4>8
      <4>11. SymbolsNamed(h, symbols)
        <5>1. \A n \in DOMAIN heap : heap[n].kind \in Declaring => n # answer
            BY <3>3 DEF Declaring
        <5>. QED
            BY <1>2, <4>5, <5>1 DEF SymbolsNamed
      <4>12. \A n \in Rest(frames) : n \in DOMAIN h
          BY <1>2, <4>2, <4>5
      <4>13. SymbolsNamed(g, symbols)
          BY <4>9, <4>11, SymbolsKept
      <4>14. \A n \in Rest(frames) : g[n].kind = heap[n].kind
          BY <4>5, <4>9, <4>12 DEF Keeps
      <4>. QED
          BY <2>1, <3>3, <4>9, <4>10, <4>13, <4>14 DEF Good
    <3>. QED
        BY <3>1, <3>2, <3>3
  <2>6. Placed(heap', Onward(t, 1)) /\ Onward(t, 1).phase \notin Waiting
    <3>1. Rules[t.rule].form \in Stepping /\ Rules[t.rule].form # "scoped"
        BY <1>2, <1>3, <2>4 DEF Stepping
    <3>. QED
        BY <1>2, <2>4, <2>5, <3>1, FirstPlaced
  <2>7. SymbolsNamed(heap', symbols')
      BY <1>1, <2>5
  <2>. QED
      BY <2>3, <2>5, <2>6, <2>7, GotoRight
<1>. QED
    BY <1>5, <1>6

LEMMA BeginManyNames ==
    ASSUME Ready, BeginMany
    PROVE  NamesRight'
PROOF
<1>. DEFINE id == created + 1
<1>1. Running /\ Rule.form = "many" /\ symbols' = symbols
    BY DEF BeginMany, In, At, OnlyFrames, Otherwise, SameScopes
<1>2. /\ Good(heap) /\ id \in Nat \ {Null} /\ id \notin DOMAIN heap
      /\ Rule = Rules[Top.rule] /\ Top.rule \in DOMAIN Rules /\ NameShape(Top.rule)
      /\ RuleShape(Top.rule)
    BY ReadyHeap
<1>3. Rule.kind \notin Named
    BY <1>1, <1>2 DEF NameShape
<1>4. CASE ~Starts(Rule.start)
  <2>1. heap' = heap /\ frames' = WithLast(frames, Done(Null))
      BY <1>4 DEF BeginMany, SameTree, Goto
  <2>2. ~Solid(Top.rule)
      BY <1>1, <1>2, <1>4 DEF Solid, Starts
  <2>3. Good(heap') /\ Keeps(heap, heap')
      BY <2>1, SameHeap
  <2>. QED
      BY <1>1, <2>1, <2>2, <2>3, GivesNull, DoneNames
<1>5. CASE Starts(Rule.start)
  <2>1. PICK f : f = [[Top EXCEPT !.node = id, !.calm = Last(parsers').calm]
                            EXCEPT !.phase = "item"]
      OBVIOUS
  <2>2. f.phase = "item"
      BY <2>1, TopFields
  <2>3. frames' = Append(WithLast(frames, f), Frame(Rule.of))
      BY <1>5, <2>1 DEF BeginMany, CallItem, Call
  <2>4. Rule.of \in DOMAIN Rules
      BY <1>1, <1>2 DEF RuleShape, Callable
  <2>5. PICK g : g = Create(heap, id, Rule.kind, "none")
      OBVIOUS
  <2>6. Good(g) /\ Keeps(heap, g)
      BY <1>2, <1>3, <2>5, CreateGood
  <2>7. PICK k : k = [g EXCEPT ![id].note = Rule.note]
      OBVIOUS
  <2>8. Good(k) /\ Keeps(g, k)
    <3>1. Reworded(g, k)
        BY <2>6, <2>7, Rewords
    <3>. QED
        BY <2>6, <3>1, RewordedGood
  <2>9. heap' = k
      BY <1>5, <2>5, <2>7 DEF BeginMany
  <2>10. Good(heap') /\ Keeps(heap, heap')
      BY <2>6, <2>8, <2>9, KeepsTwice
  <2>11. f.phase \notin {"steps", "child", "suffixes", "define", "done"}
      BY <2>2
  <2>. QED
      BY <1>1, <2>3, <2>4, <2>10, <2>11, CallsRule
<1>. QED
    BY <1>4, <1>5

LEMMA TakeItemNames ==
    ASSUME Ready, TakeItem
    PROVE  NamesRight'
PROOF
<1>1. Running /\ Top.phase = "item" /\ symbols' = symbols /\ heap' = heap
    BY DEF TakeItem, At, Taking, Otherwise, SameScopes, SameTree
<1>2. Good(heap') /\ Keeps(heap, heap')
    BY <1>1, SameHeap
<1>3. RuleShape(Top.rule) /\ Rule = Rules[Top.rule] /\ Rule.form = "many"
    BY <1>1, ReadyHeap, FormOf DEF Ready
<1>4. \/ frames' = WithLast(frames, [Top EXCEPT !.phase = "append", !.held = answer,
                                               !.text = "none"])
      \/ frames' = Append(WithLast(frames, [[Top EXCEPT !.text = "recover"]
                                               EXCEPT !.phase = "item"]), Frame(Rule.of))
    BY DEF TakeItem, Goto, CallItem, Call
<1>5. CASE frames' = WithLast(frames, [Top EXCEPT !.phase = "append", !.held = answer,
                                                 !.text = "none"])
  <2>1. PICK f : f = [Top EXCEPT !.phase = "append", !.held = answer, !.text = "none"]
      OBVIOUS
  <2>2. frames' = WithLast(frames, f) /\ f.phase = "append"
      BY <1>5, <2>1, TopFields
  <2>. QED
      BY <1>1, <1>2, <2>2, FreeNames
<1>6. CASE frames' = Append(WithLast(frames, [[Top EXCEPT !.text = "recover"]
                                                 EXCEPT !.phase = "item"]), Frame(Rule.of))
  <2>1. PICK f : f = [[Top EXCEPT !.text = "recover"] EXCEPT !.phase = "item"]
      OBVIOUS
  <2>2. f.phase \notin {"steps", "child", "suffixes", "define", "done"}
      BY <2>1, TopFields
  <2>3. Rule.of \in DOMAIN Rules
      BY <1>3 DEF RuleShape, Callable
  <2>. QED
      BY <1>1, <1>2, <1>6, <2>1, <2>2, <2>3, CallsRule
<1>. QED
    BY <1>4, <1>5, <1>6

LEMMA AppendItemNames ==
    ASSUME Ready, AppendItem
    PROVE  NamesRight'
PROOF
<1>. DEFINE kept == [Top EXCEPT !.held = Null]
<1>1. /\ Running /\ Top.phase = "append" /\ symbols' = symbols
      /\ heap' = Attach(heap, Top.node, "element", Top.held)
    BY DEF AppendItem, At, OnlyFrames, Otherwise, SameScopes
<1>2. /\ RuleShape(Top.rule) /\ Rule = Rules[Top.rule] /\ Rule.form = "many" /\ Good(heap)
      /\ Top.node \in DOMAIN heap /\ Top.held \in DOMAIN heap \cup {Null}
  <2>1. Top.node # Null
      BY <1>1, Owns DEF Ready, Building
  <2>. QED
      BY <1>1, <2>1, ReadyHeap, FormOf DEF Ready
<1>3. Good(heap') /\ Keeps(heap, heap')
  <2>1. PICK g : g = Attach(heap, Top.node, "element", Top.held)
      OBVIOUS
  <2>2. Good(g) /\ Keeps(heap, g)
      BY <1>2, <2>1, AttachGood
  <2>. QED
      BY <1>1, <2>1, <2>2
<1>4. \/ frames' = WithLast(frames, [kept EXCEPT !.phase = "close"])
      \/ frames' = Append(WithLast(frames, [kept EXCEPT !.phase = "item"]), Frame(Rule.of))
    BY DEF AppendItem, Goto, CallItem, Call
<1>5. CASE frames' = WithLast(frames, [kept EXCEPT !.phase = "close"])
  <2>1. PICK f : f = [kept EXCEPT !.phase = "close"]
      OBVIOUS
  <2>2. frames' = WithLast(frames, f) /\ f.phase = "close"
      BY <1>5, <2>1, TopFields
  <2>. QED
      BY <1>1, <1>3, <2>2, FreeNames
<1>6. CASE frames' = Append(WithLast(frames, [kept EXCEPT !.phase = "item"]), Frame(Rule.of))
  <2>1. PICK f : f = [kept EXCEPT !.phase = "item"]
      OBVIOUS
  <2>2. f.phase \notin {"steps", "child", "suffixes", "define", "done"}
      BY <2>1, TopFields
  <2>3. Rule.of \in DOMAIN Rules
      BY <1>2 DEF RuleShape, Callable
  <2>4. frames' = Append(WithLast(frames, f), Frame(Rule.of))
      BY <1>6, <2>1
  <2>. QED
      BY <1>1, <1>3, <2>2, <2>3, <2>4, CallsRule
<1>. QED
    BY <1>4, <1>5, <1>6

LEMMA EndManyNames ==
    ASSUME Ready, EndMany
    PROVE  NamesRight'
PROOF
<1>1. /\ Running /\ Top.phase = "close" /\ symbols' = symbols /\ heap' = heap
      /\ frames' = WithLast(frames, Done(Top.node))
    BY DEF EndMany, At, OnlyFrames, Otherwise, SameScopes, SameTree, Goto
<1>2. Good(heap') /\ Keeps(heap, heap')
    BY <1>1, SameHeap
<1>3. /\ Top.rule \in DOMAIN Rules /\ Rules[Top.rule].form = "many" /\ Top.node # Null
    BY <1>1, ReadyHeap, FormOf, Owns DEF Ready, Building
<1>4. Gives(heap', Top.rule, Top.node)
    BY <1>3, GivesOther
<1>. QED
    BY <1>1, <1>2, <1>4, DoneNames

LEMMA TakeTargetNames ==
    ASSUME Ready, TakeTarget
    PROVE  NamesRight'
PROOF
<1>. DEFINE id == created + 1
<1>1. Running /\ Top.phase = "target" /\ symbols' = symbols
    BY DEF TakeTarget, At, SameScopes
<1>2. /\ Good(heap) /\ id \in Nat \ {Null} /\ id \notin DOMAIN heap /\ created \in Nat
      /\ Rule = Rules[Top.rule] /\ Top.rule \in DOMAIN Rules
      /\ answer \in DOMAIN heap \cup {Null}
    BY ReadyHeap
<1>3. Rule.form = "assign"
    BY <1>1, FormOf DEF Ready
<1>4. \A m : Gives(heap', Top.rule, m)
    BY <1>2, <1>3, GivesOther DEF Solid
<1>5. {"assignment", "compound"} \subseteq DOMAIN Rules
    BY RulesAssumption
<1>6. \A m : Assigned(m).phase \notin {"steps", "child", "suffixes", "define", "done"}
    BY TopFields DEF Assigned
<1>7. CASE answer = Null
  <2>1. heap' = heap /\ frames' = WithLast(frames, Done(Null))
      BY <1>7 DEF TakeTarget, Goto, SameTree
  <2>2. Good(heap') /\ Keeps(heap, heap')
      BY <2>1, SameHeap
  <2>. QED
      BY <1>1, <1>4, <2>1, <2>2, DoneNames
<1>8. CASE answer # Null /\ Fits("=")
  <2>1. /\ heap' = heap
        /\ frames' = Append(WithLast(frames, Assigned(Null)),
                            [Frame("assignment") EXCEPT !.held = answer])
      BY <1>8 DEF TakeTarget, Call, SameTree
  <2>2. Good(heap') /\ Keeps(heap, heap')
      BY <2>1, SameHeap
  <2>3. PICK f : f = Assigned(Null)
      OBVIOUS
  <2>4. f.phase \notin {"steps", "child", "suffixes", "define", "done"}
      BY <1>6, <2>3
  <2>. QED
      BY <1>1, <1>5, <2>1, <2>2, <2>3, <2>4, CallsRule
<1>9. CASE answer # Null /\ ~Fits("=") /\ Compound
  <2>1. PICK k, f : k = answer + created /\ f = Assigned(answer)
      OBVIOUS
  <2>2. /\ heap' = Copy(heap, answer, created)
        /\ frames' = Append(WithLast(frames, f), [Frame("compound") EXCEPT !.held = k])
      BY <1>9, <2>1 DEF TakeTarget, Call
  <2>3. PICK R : R = Rest(frames) \cup Own(Top) \cup ({answer} \ {Null})
      OBVIOUS
  <2>4. Forest(heap, R) /\ answer \in R /\ DOMAIN heap \subseteq 1 .. created
      BY <1>9, <2>3, TopTree DEF Ready
  <2>5. PICK g : g = Copy(heap, answer, created)
      OBVIOUS
  <2>6. Good(g) /\ Keeps(heap, g)
    <3>1. PICK x, a : x = heap /\ a = answer
        OBVIOUS
    <3>2. /\ Forest(x, R) /\ Good(x) /\ a \in R /\ created \in Nat /\ DOMAIN x \subseteq 1 .. created
          /\ g = Copy(x, a, created)
        BY <1>2, <2>4, <2>5, <3>1
    <3>3. Good(g) /\ Keeps(x, g)
        BY <3>2, CopyGood
    <3>. QED
        BY <3>1, <3>3
  <2>7. Good(heap') /\ Keeps(heap, heap')
      BY <2>2, <2>5, <2>6
  <2>8. f.phase \notin {"steps", "child", "suffixes", "define", "done"}
      BY <1>6, <2>1
  <2>. QED
      BY <1>1, <1>5, <2>2, <2>7, <2>8, CallsRule
<1>10. CASE answer # Null /\ ~Fits("=") /\ ~Compound
  <2>1. PICK m : m = id
      OBVIOUS
  <2>2. /\ heap' = Attach(Create(heap, id, "ExpressionStatement", ";"), id, "expression", answer)
        /\ frames' = WithLast(frames, Done(m))
      BY <1>10, <2>1 DEF TakeTarget, Goto
  <2>3. "ExpressionStatement" \notin Named
      BY DEF Named, Declaring
  <2>4. PICK g : g = Attach(Create(heap, id, "ExpressionStatement", ";"), id, "expression", answer)
      OBVIOUS
  <2>5. Good(g) /\ Keeps(heap, g)
      BY <1>2, <2>3, <2>4, AroundGood
  <2>6. Good(heap') /\ Keeps(heap, heap')
      BY <2>2, <2>4, <2>5
  <2>. QED
      BY <1>1, <1>4, <2>2, <2>6, DoneNames
<1>. QED
    BY <1>7, <1>8, <1>9, <1>10

LEMMA TakeAssignedNames ==
    ASSUME Ready, TakeAssigned
    PROVE  NamesRight' /\ fault' = fault
PROOF
<1>1. /\ Running /\ Top.phase = "assigned" /\ symbols' = symbols /\ heap' = heap
      /\ frames' = WithLast(frames, Done(answer))
      /\ fault' = IF answer = Null THEN "stale" ELSE fault
    BY DEF TakeAssigned, At, SameScopes, SameTree, Goto
<1>2. Good(heap') /\ Keeps(heap, heap')
    BY <1>1, SameHeap
<1>3. /\ Top.rule \in DOMAIN Rules /\ Rules[Top.rule].form = "assign"
    BY <1>1, ReadyHeap, FormOf DEF Ready
<1>4. Gives(heap', Top.rule, answer)
    BY <1>3, GivesOther DEF Solid
<1>5. answer # Null
  <2>1. PICK r \in DOMAIN Rules : CalledBy(Top, r) /\ Gives(heap, r, answer)
      BY <1>1, Given DEF Waiting
  <2>2. r \in {"assignment", "compound"}
      BY <1>1, <2>1 DEF CalledBy
  <2>3. Solid(r)
      BY <2>2, RulesAssumption DEF Solid, Callable
  <2>. QED
      BY <2>1, <2>3 DEF Gives
<1>. QED
    BY <1>1, <1>2, <1>4, <1>5, DoneNames

LEMMA AssignGood ==
    ASSUME Ready, Assign
    PROVE  /\ Good(heap') /\ Keeps(heap, heap')
           /\ heap'[created + 1].kind = "Assignment" /\ created + 1 # Null
PROOF
<1>. DEFINE id == created + 1
            c == Len(frames) - 1
            operation == [heap EXCEPT ![Top.node].text = OperatorOf[@]]
            made == Create(operation, id, "Assignment", "=")
            one == Attach(made, id, "identifier", frames[c].held)
            two == Attach(one, id, "value", Top.node)
<1>1. /\ heap' = two /\ InStep(Top)
    BY DEF Assign, AtStep, At, InStep
<1>2. /\ Good(heap) /\ id \in Nat \ {Null} /\ id \notin DOMAIN heap
      /\ Rule = Rules[Top.rule] /\ Rest(frames) \subseteq DOMAIN heap
    BY ReadyHeap
<1>3. /\ Len(frames) \in Nat /\ Len(frames) > 1 /\ Top.rule = "compound"
    BY AssignFrames DEF Ready
<1>4. Top.node \in DOMAIN heap /\ heap[Top.node].kind \notin Named
    BY <1>1, <1>2, <1>3, StepNode, NamesFit
<1>5. PICK text : text = OperatorOf[heap[Top.node].text]
    OBVIOUS
<1>6. operation = [heap EXCEPT ![Top.node].text = text]
    BY <1>5
<1>. HIDE DEF operation
<1>7. Good(operation) /\ Keeps(heap, operation) /\ DOMAIN operation = DOMAIN heap
  <2>1. Reworded(heap, [heap EXCEPT ![Top.node].text = text])
      BY <1>2, <1>4, Rewords
  <2>2. Reworded(heap, operation)
      BY <1>6, <2>1
  <2>. QED
      BY <1>2, <2>2, RewordedGood DEF Reworded
<1>8. "Assignment" \notin Named
    BY DEF Named, Declaring
<1>. HIDE DEF id
<1>9. Good(made) /\ Keeps(operation, made) /\ id \in DOMAIN made /\ made[id].kind = "Assignment"
    BY <1>2, <1>7, <1>8, CreateGood
<1>. HIDE DEF made
<1>10. frames[c].held # Null => frames[c].held \in DOMAIN made
  <2>1. SUFFICES ASSUME frames[c].held # Null PROVE frames[c].held \in DOMAIN heap
      BY <1>7, <1>9 DEF Keeps
  <2>2. c \in 1 .. Len(frames) - 1
      BY <1>3
  <2>3. frames[c].held \in Rest(frames)
      BY <2>1, <2>2 DEF Rest, Own
  <2>. QED
      BY <1>2, <2>3
<1>. HIDE DEF c
<1>11. Good(one) /\ Keeps(made, one) /\ DOMAIN one = DOMAIN made
    BY <1>9, <1>10, AttachGood
<1>. HIDE DEF one
<1>12. Top.node \in DOMAIN one /\ id \in DOMAIN one /\ one[id].kind = "Assignment"
    BY <1>4, <1>7, <1>9, <1>11 DEF Keeps
<1>13. Good(two) /\ Keeps(one, two)
    BY <1>11, <1>12, AttachGood
<1>. HIDE DEF two
<1>14. Keeps(heap, two) /\ two[id].kind = "Assignment"
    BY <1>7, <1>9, <1>11, <1>12, <1>13, KeepsTwice DEF Keeps
<1>. QED
    BY <1>1, <1>2, <1>13, <1>14 DEF id

LEMMA AssignNames ==
    ASSUME Ready, Assign
    PROVE  NamesRight'
PROOF
<1>. DEFINE n == Len(frames)
<1>1. PICK t : t = [Top EXCEPT !.node = created + 1]
    OBVIOUS
<1>2. PICK f, e : f = Onward(t, Top.at + 1) /\ e = [frames[n - 1] EXCEPT !.held = Null]
    OBVIOUS
<1>3. /\ n \in Nat /\ n > 1 /\ IsSequence(frames') /\ Len(frames') = n
      /\ \A i \in 1 .. n :
            frames'[i] = IF i = n THEN f ELSE IF i = n - 1 THEN e ELSE frames[i]
      /\ Top.rule = "compound" /\ InStep(Top)
      /\ f.phase \in {"steps", "done"} /\ e.phase = "assigned"
    BY <1>1, <1>2, AssignFrames DEF Ready
<1>4. Step.do = "assign" /\ symbols' = symbols
    BY DEF Assign, AtStep, OnlyFrames, Otherwise, SameScopes
<1>5. PICK id : id = created + 1
    OBVIOUS
<1>6. /\ Good(heap') /\ Keeps(heap, heap') /\ heap'[id].kind = "Assignment" /\ id # Null
    BY <1>5, AssignGood
<1>7. /\ \A m \in Rest(frames) : heap'[m].kind = heap[m].kind
      /\ SymbolsNamed(heap', symbols') /\ HeapNamed(heap')
  <2>1. SymbolsNamed(heap', symbols)
      BY <1>6, KeepsRest
  <2>. QED
      BY <1>4, <1>6, <2>1, KeepsRest DEF Good
<1>8. /\ t.node = id /\ t.rule = "compound" /\ {"rule", "at", "node", "phase"} \subseteq DOMAIN t
    BY <1>1, <1>3, <1>5, TopFields
<1>9. Placed(heap', f)
  <2>1. /\ Step = StepsOf("compound")[Top.at] /\ Top.at \in DOMAIN StepsOf("compound")
        /\ NameShape("compound") /\ RuleShape("compound") /\ "compound" \in DOMAIN Rules
        /\ Rules["compound"].form = "suffix"
      BY <1>3, StepFacts, ReadyHeap, NamesFit DEF Ready
  <2>2. /\ IsList(StepsOf("compound")) /\ Rules["compound"].form \in Stepping
        /\ \A i \in DOMAIN StepsOf("compound") : NameStep("compound", i)
      BY <2>1 DEF RuleShape, NameShape, StepsOf, Stepping
  <2>3. PICK k : k = Top.at + 1
      OBVIOUS
  <2>4. ~(k > Len(StepsOf("compound"))) => StepsOf("compound")[k].do \notin {"index", "handlers"}
    <3>1. SUFFICES ASSUME ~(k > Len(StepsOf("compound"))),
                          StepsOf("compound")[k].do \in {"index", "handlers"}
                   PROVE  FALSE
        OBVIOUS
    <3>2. k \in DOMAIN StepsOf("compound") /\ k - 1 = Top.at
        BY <2>1, <2>2, <2>3, <3>1 DEF IsList
    <3>3. StepsOf("compound")[k - 1].do = "child"
        BY <2>2, <3>1, <3>2 DEF NameStep
    <3>. QED
        BY <1>4, <2>1, <3>2, <3>3
  <2>5. "Assignment" \notin Named
      BY DEF Named, Declaring
  <2>6. Placed(heap', Onward(t, k))
      BY <1>6, <1>8, <2>1, <2>2, <2>4, <2>5, OnPlaced
  <2>. QED
      BY <1>2, <2>3, <2>6
<1>10. Placed(heap', e)
  <2>1. e.phase \notin {"steps", "child", "suffixes", "define", "done"}
      BY <1>3
  <2>. QED
      BY <2>1, PlacedFree
<1>11. \A i \in 1 .. n - 1 : Placed(heap', frames[i])
    BY <1>7, RestPlaced
<1>. HIDE DEF n
<1>12. \A i \in 1 .. n : i = n \/ i = n - 1 \/ i \in 1 .. n - 1
    BY <1>3
<1>13. \A i \in 1 .. Len(frames') : Placed(heap', frames'[i])
    BY <1>3, <1>9, <1>10, <1>11, <1>12
<1>14. Top' = f
  <2>1. frames' # <<>> /\ n \in 1 .. n /\ Last(frames') = frames'[n]
      BY <1>3, SequenceFacts
  <2>. QED
      BY <1>3, <2>1 DEF Top
<1>15. Top'.phase \notin Waiting
    BY <1>3, <1>14 DEF Waiting
<1>. QED
    BY <1>7, <1>13, <1>15 DEF NamesRight

LEMMA BeginFStringNames ==
    ASSUME Ready, BeginFString
    PROVE  NamesRight'
PROOF
<1>. DEFINE id == created + 1
<1>1. Running /\ Rule.form = "fstring" /\ symbols' = symbols
    BY DEF BeginFString, In, At, OnlyFrames, Otherwise, SameScopes
<1>2. /\ Good(heap) /\ id \in Nat \ {Null} /\ id \notin DOMAIN heap
      /\ Rule = Rules[Top.rule] /\ Top.rule \in DOMAIN Rules
    BY ReadyHeap
<1>3. CASE ~Starts(Rule.start)
  <2>1. heap' = heap /\ frames' = WithLast(frames, Done(Null))
      BY <1>3 DEF BeginFString, SameTree, Goto
  <2>2. Gives(heap', Top.rule, Null)
      BY <1>1, <1>2, GivesNull DEF Solid
  <2>3. Good(heap') /\ Keeps(heap, heap')
      BY <2>1, SameHeap
  <2>. QED
      BY <1>1, <2>1, <2>2, <2>3, DoneNames
<1>4. CASE Starts(Rule.start)
  <2>1. PICK f : f = [Top EXCEPT !.phase = "slices", !.node = id, !.text = Current]
      OBVIOUS
  <2>2. frames' = WithLast(frames, f) /\ f.phase = "slices"
      BY <1>4, <2>1, TopFields DEF BeginFString, Goto
  <2>3. "FString" \notin Named
      BY DEF Named, Declaring
  <2>4. PICK g : g = Create(heap, id, "FString", Current)
      OBVIOUS
  <2>5. Good(g) /\ Keeps(heap, g)
      BY <1>2, <2>3, <2>4, CreateGood
  <2>6. heap' = g
      BY <1>4, <2>4 DEF BeginFString
  <2>. QED
      BY <1>1, <2>2, <2>5, <2>6, FreeNames
<1>. QED
    BY <1>3, <1>4

LEMMA EndFStringNames ==
    ASSUME Ready, EndFString
    PROVE  NamesRight'
PROOF
<1>1. /\ Running /\ Top.phase = "slices" /\ symbols' = symbols /\ heap' = heap
      /\ frames' = WithLast(frames, Done(Top.node))
    BY DEF EndFString, At, OnlyFrames, Otherwise, SameScopes, SameTree, Goto
<1>2. Good(heap') /\ Keeps(heap, heap')
    BY <1>1, SameHeap
<1>3. /\ Top.rule \in DOMAIN Rules /\ Rules[Top.rule].form = "fstring" /\ Top.node # Null
    BY <1>1, ReadyHeap, FormOf, Owns DEF Ready, Building
<1>4. Gives(heap', Top.rule, Top.node)
    BY <1>3, GivesOther
<1>. QED
    BY <1>1, <1>2, <1>4, DoneNames

LEMMA TextSliceNames ==
    ASSUME Ready, TextSlice
    PROVE  NamesRight'
PROOF
<1>. DEFINE id == created + 1
<1>1. /\ Running /\ Top.phase = "slices" /\ symbols' = symbols
      /\ heap' = Attach(Create(heap, id, "FStringString", Slice.text), Top.node, "element", id)
    BY DEF TextSlice, At, OnlyFrames, Otherwise, SameScopes
<1>2. /\ Good(heap) /\ id \in Nat \ {Null} /\ id \notin DOMAIN heap
      /\ Top.node \in DOMAIN heap
  <2>1. Top.node # Null
      BY <1>1, Owns DEF Ready, Building
  <2>. QED
      BY <2>1, ReadyHeap
<1>3. PICK f : frames' = WithLast(frames, f) /\ f.phase = "slices"
  <2>1. [Top EXCEPT !.at = @ + 1].phase = "slices"
      BY <1>1, TopFields
  <2>. QED
      BY <2>1 DEF TextSlice, Goto
<1>4. "FStringString" \notin Named
    BY DEF Named, Declaring
<1>5. PICK g : g = Create(heap, id, "FStringString", Slice.text)
    OBVIOUS
<1>6. Good(g) /\ Keeps(heap, g) /\ id \in DOMAIN g /\ g[id].kind = "FStringString"
    BY <1>2, <1>4, <1>5, CreateGood
<1>7. Top.node \in DOMAIN g
    BY <1>2, <1>6 DEF Keeps
<1>8. PICK k : k = Attach(g, Top.node, "element", id)
    OBVIOUS
<1>9. Good(k) /\ Keeps(g, k)
    BY <1>6, <1>7, <1>8, AttachGood
<1>10. Good(heap') /\ Keeps(heap, heap')
    BY <1>1, <1>5, <1>6, <1>8, <1>9, KeepsTwice
<1>. QED
    BY <1>1, <1>3, <1>10, FreeNames

LEMMA OpenSliceNames ==
    ASSUME Ready, OpenSlice
    PROVE  NamesRight'
PROOF
<1>. DEFINE id == created + 1
<1>1. /\ Running /\ Top.phase = "slices" /\ symbols' = symbols
      /\ heap' = Create(heap, id, "FStringExpression", "none")
      /\ frames' = Append(WithLast(frames, [Top EXCEPT !.phase = "slice", !.held = id]),
                          Frame("expression"))
    BY DEF OpenSlice, At, SameScopes, Call
<1>2. /\ Good(heap) /\ id \in Nat \ {Null} /\ id \notin DOMAIN heap
    BY ReadyHeap
<1>3. PICK f : f = [Top EXCEPT !.phase = "slice", !.held = id]
    OBVIOUS
<1>4. f.phase \notin {"steps", "child", "suffixes", "define", "done"}
    BY <1>3, TopFields
<1>5. "FStringExpression" \notin Named
    BY DEF Named, Declaring
<1>6. PICK g : g = Create(heap, id, "FStringExpression", "none")
    OBVIOUS
<1>7. Good(g) /\ Keeps(heap, g)
    BY <1>2, <1>5, <1>6, CreateGood
<1>8. "expression" \in DOMAIN Rules
    BY RulesAssumption DEF Callable
<1>. QED
    BY <1>1, <1>3, <1>4, <1>6, <1>7, <1>8, CallsRule

LEMMA CloseSliceNames ==
    ASSUME Ready, CloseSlice
    PROVE  NamesRight'
PROOF
<1>1. /\ Running /\ Top.phase = "slice" /\ symbols' = symbols
      /\ heap' = Attach(Attach(heap, Top.held, "expression", answer),
                        Top.node, "element", Top.held)
    BY DEF CloseSlice, At, SameScopes
<1>2. /\ Good(heap) /\ Top.node \in DOMAIN heap /\ Top.held \in DOMAIN heap
      /\ answer \in DOMAIN heap \cup {Null}
  <2>1. Top.node # Null /\ Top.held # Null
      BY <1>1, ReadyHeap DEF Fine, Building
  <2>. QED
      BY <2>1, ReadyHeap
<1>3. PICK f : frames' = WithLast(frames, f) /\ f.phase = "slices"
  <2>1. [Top EXCEPT !.phase = "slices", !.at = @ + 1, !.held = Null].phase = "slices"
      BY TopFields
  <2>. QED
      BY <2>1 DEF CloseSlice, Goto
<1>4. PICK g : g = Attach(heap, Top.held, "expression", answer)
    OBVIOUS
<1>5. Good(g) /\ Keeps(heap, g) /\ DOMAIN g = DOMAIN heap
  <2>1. "expression" # "identifier"
      OBVIOUS
  <2>. QED
      BY <1>2, <1>4, <2>1, AttachGood
<1>6. PICK k : k = Attach(g, Top.node, "element", Top.held)
    OBVIOUS
<1>7. Good(k) /\ Keeps(g, k)
  <2>1. "element" # "identifier" /\ Top.node \in DOMAIN g /\ Top.held \in DOMAIN g
      BY <1>2, <1>5
  <2>. QED
      BY <1>5, <1>6, <2>1, AttachGood
<1>8. Good(heap') /\ Keeps(heap, heap')
    BY <1>1, <1>4, <1>5, <1>6, <1>7, KeepsTwice
<1>. QED
    BY <1>1, <1>3, <1>8, FreeNames

LEMMA TypeDefinitionNames ==
    ASSUME Ready, TypeDefinition
    PROVE  NamesRight'
PROOF
<1>1. UNCHANGED <<heap, frames, symbols, answer>>
    BY DEF TypeDefinition, SameTree, SameScopes
<1>. QED
    BY <1>1, SameFramesNames DEF Ready

-----------------------------------------------------------------------------
(* No step takes an error back. *)
LEMMA LookingOn ==
    ASSUME ParserInv, Running,
           \/ UNCHANGED parsers \/ parsers' \in {Advanced(parsers), Raised(parsers)}
           \/ \E kind : parsers' \in {Expected(parsers, kind), Matched(kind)}
    PROVE  Forward(parsers, parsers')
PROOF
    BY Looking

LEMMA RulesForward ==
    ASSUME ParserInv,
           \/ Begin \/ Return \/ ExpectToken \/ OptionalToken \/ ReadText
           \/ CallChild \/ TakeChild \/ Choose \/ TakeChosen \/ ReadVisibility
           \/ TakeSuffix \/ TakeSuffixed \/ CallOperand \/ TakeLeft \/ TakeRight
           \/ CallFirst \/ TakeFirst \/ BeginMany \/ AppendItem
    PROVE  Running /\ Forward(parsers, parsers')
PROOF
<1>1. CASE \/ Return \/ CallChild \/ TakeChild \/ TakeChosen \/ TakeSuffix \/ TakeSuffixed
           \/ CallOperand \/ TakeRight \/ CallFirst \/ TakeFirst
  <2>1. Running /\ UNCHANGED parsers
      BY <1>1 DEF Return, CallChild, TakeChild, TakeChosen, TakeSuffix, TakeSuffixed,
                  CallOperand, TakeRight, CallFirst, TakeFirst, AtStep, In, At
  <2>. QED
      BY <2>1, LookingOn
<1>2. CASE Begin \/ Choose \/ ReadVisibility \/ TakeLeft \/ BeginMany
  <2>1. Running
      BY <1>2 DEF Begin, Choose, ReadVisibility, TakeLeft, BeginMany, AtStep, In, At
  <2>2. UNCHANGED parsers \/ parsers' \in {Advanced(parsers), Raised(parsers)}
      BY <1>2 DEF Begin, Choose, ReadVisibility, TakeLeft, BeginMany, CallItem
  <2>. QED
      BY <2>1, <2>2, LookingOn
<1>3. CASE ExpectToken \/ OptionalToken \/ ReadText \/ AppendItem
  <2>1. Running
      BY <1>3 DEF ExpectToken, OptionalToken, ReadText, AppendItem, AtStep, In, At
  <2>2. \/ UNCHANGED parsers
        \/ \E kind : parsers' \in {Expected(parsers, kind), Matched(kind)}
      BY <1>3 DEF ExpectToken, OptionalToken, ReadText, AppendItem, CallItem
  <2>. QED
      BY <2>1, <2>2, LookingOn
<1>. QED
    BY <1>1, <1>2, <1>3

LEMMA ItemsForward ==
    ASSUME ParserInv, TakeItem \/ EndMany
    PROVE  Running /\ Forward(parsers, parsers')
PROOF
<1>1. /\ Running /\ Top.phase \in {"item", "close"}
      /\ ParsersFine(parsers) /\ AllReported(parsers)
    BY AtTop DEF TakeItem, EndMany, At
<1>2. Rules[Top.rule].form = "many"
    BY <1>1, AtTop DEF Fine
<1>3. \/ ~Calm \/ ~Top.calm \/ Top.text = "recover"
      => parsers[1].errors > 0
  <2>1. ~Calm => parsers[1].errors > 0
      BY <1>1, ParsersFineFacts DEF Calm, AllReported
  <2>2. ~Top.calm \/ Top.text = "recover" => parsers[1].errors > 0
      BY <1>1, <1>2, AtTop DEF Noticed
  <2>. QED
      BY <2>1, <2>2
<1>4. parsers[1].errors > 0 => Forward(parsers, Uncalm(parsers))
    BY <1>1, UncalmForward
<1>5. Forward(parsers, parsers)
    BY <1>1, ForwardRefl
<1>6. CASE TakeItem
  <2>. DEFINE fine == answer # Null \/ (Calm /\ Top.text # "recover")
  <2>1. ~fine => parsers[1].errors > 0
      BY <1>3
  <2>2. CASE fine \/ IsOf(Current, "EOF")
    <3>1. parsers' = IF fine THEN parsers ELSE Uncalm(parsers)
        BY <1>6, <2>2 DEF TakeItem
    <3>. HIDE DEF fine
    <3>. QED
        BY <1>1, <1>4, <1>5, <2>1, <3>1
  <2>3. CASE ~(fine \/ IsOf(Current, "EOF"))
    <3>1. parsers' = Advanced(WithLast(parsers, [Last(parsers) EXCEPT !.calm = TRUE]))
        BY <1>6, <2>3 DEF TakeItem, CallItem
    <3>. QED
        BY <1>1, <2>1, <2>3, <3>1, CalmAgain
  <2>. QED
      BY <2>2, <2>3
<1>7. CASE EndMany
  <2>. DEFINE restored == IF Calm /\ ~Top.calm THEN Uncalm(parsers) ELSE parsers
  <2>1. parsers' \in {restored, Expected(restored, CHOOSE t \in Rule.close : TRUE)}
      BY <1>7 DEF EndMany
  <2>2. Forward(parsers, restored)
      BY <1>3, <1>4, <1>5
  <2>. HIDE DEF restored
  <2>3. ParsersFine(restored) /\ AllReported(restored)
      BY <1>1, <2>2, ParsersFineFacts, SequenceFacts DEF Forward, Shifts, ParsersFine
  <2>. QED
      BY <1>1, <2>1, <2>2, <2>3, ExpectedForward, ForwardTwice
<1>. QED
    BY <1>6, <1>7

LEMMA StepsForward ==
    ASSUME ParserInv,
           \/ BeginAssign \/ TakeTarget \/ TakeAssigned \/ Assign
           \/ BeginFString \/ EndFString \/ TextSlice
           \/ Concat \/ Declare \/ Define \/ Constructor \/ Iterator
           \/ EnterScope \/ LeaveScope \/ Loop \/ LinkJump \/ Check \/ IndexList
           \/ DefaultRange \/ Alias \/ MarkScoped \/ TypeDefinition
    PROVE  Running /\ Forward(parsers, parsers')
PROOF
<1>1. CASE \/ BeginAssign \/ TakeAssigned \/ Assign \/ EndFString \/ TextSlice
           \/ EnterScope \/ LeaveScope \/ Loop \/ LinkJump \/ IndexList \/ DefaultRange
           \/ MarkScoped \/ TypeDefinition
  <2>1. Running /\ UNCHANGED parsers
      BY <1>1 DEF BeginAssign, TakeAssigned, Assign, EndFString, TextSlice, EnterScope,
                  LeaveScope, Loop, LinkJump, IndexList, DefaultRange, MarkScoped,
                  TypeDefinition, AtStep, In, At
  <2>. QED
      BY <2>1, LookingOn
<1>2. CASE BeginFString \/ Concat \/ Check \/ Alias
  <2>1. Running
      BY <1>2 DEF BeginFString, Concat, Check, Alias, AtStep, In, At
  <2>2. UNCHANGED parsers \/ parsers' \in {Advanced(parsers), Raised(parsers)}
      BY <1>2 DEF BeginFString, Concat, Check, Alias
  <2>. QED
      BY <2>1, <2>2, LookingOn
<1>3. CASE TakeTarget
  <2>1. Running
      BY <1>3 DEF TakeTarget, At
  <2>2. UNCHANGED parsers \/ \E kind : parsers' \in {Expected(parsers, kind), Matched(kind)}
      BY <1>3 DEF TakeTarget
  <2>. QED
      BY <2>1, <2>2, LookingOn
<1>4. CASE Declare \/ Define \/ Constructor \/ Iterator
  <2>1. Running /\ \E h, node : Added(h, node)
      BY <1>4 DEF Declare, Define, Constructor, Iterator, AtStep, At
  <2>. QED
      BY <2>1, AddedForward
<1>. QED
    BY <1>1, <1>2, <1>3, <1>4

LEMMA SliceErrors ==
    ASSUME ParserInv, ParserInv', OpenSlice \/ CloseSlice
    PROVE  Running /\ parsers' # <<>> /\ parsers'[1].errors >= Errors
           /\ parsers'[1].errors \in Nat
PROOF
<1>1. /\ Running /\ stage' = "parsing"
    BY AtTop DEF OpenSlice, CloseSlice, At
<1>2. /\ ParsersFine(parsers) /\ AllReported(parsers) /\ Errors = parsers[1].errors
      /\ Len(parsers) \in Nat \ {0}
    BY <1>1, AtTop, ParsersFineFacts
<1>3. IsSequence(parsers') /\ parsers' # <<>> /\ Len(parsers') \in Nat \ {0}
    BY <1>1, SequenceFacts DEF ParserInv, ParsersInv
<1>4. parsers'[1].errors \in Nat
  <2>1. 1 \in 1 .. Len(parsers')
      BY <1>3
  <2>. QED
      BY <2>1 DEF ParserInv, ParsersInv, ParserFine
<1>5. CASE OpenSlice
  <2>1. PICK stream : stream = NewStream
      OBVIOUS
  <2>2. stream \in Nat
    <3>1. IsSequence(streams) /\ streams # <<>> /\ \A k \in 1 .. Len(streams) : streams[k] \in Nat
        BY <1>1, AtTop DEF ParserInv, StreamsInv
    <3>2. Last(streams) \in Nat
        BY <3>1, SequenceFacts
    <3>. QED
        BY <2>1, <3>2 DEF NewStream
  <2>3. PICK tokens : tokens = Slice.code
      OBVIOUS
  <2>4. parsers' = Opened(parsers, tokens, stream)
      BY <1>5, <2>1, <2>3 DEF OpenSlice
  <2>5. parsers # <<>> /\ IsSequence(parsers) /\ \A k \in 1 .. Len(parsers) : ParserFine(parsers[k])
      BY <1>2 DEF ParsersFine
  <2>6. parsers'[1].errors >= parsers[1].errors
      BY <1>2, <2>2, <2>4, <2>5, OpenedFacts
  <2>. QED
      BY <1>1, <1>2, <1>3, <1>4, <2>6
<1>6. CASE CloseSlice
  <2>1. PICK ended : ended = Expected(parsers, "EOF")
      OBVIOUS
  <2>2. PICK qs : qs = IF answer = Null THEN Raised(ended) ELSE ended
      OBVIOUS
  <2>3. parsers' = Front(qs)
      BY <1>6, <2>1, <2>2 DEF CloseSlice
  <2>4. Forward(parsers, ended)
      BY <1>2, <2>1, ExpectedForward
  <2>5. Forward(parsers, qs)
      BY <1>2, <2>2, <2>4, RaisedAfter DEF Forward
  <2>6. IsSequence(qs) /\ Len(qs) = Len(parsers) /\ qs # <<>>
        /\ qs[1].errors >= parsers[1].errors
      BY <1>2, <2>5, SequenceFacts DEF Forward, Shifts
  <2>7. Len(parsers') = Len(qs) - 1 /\ \A i \in 1 .. Len(qs) - 1 : parsers'[i] = qs[i]
      BY <2>3, <2>6, FrontFacts
  <2>8. 1 \in 1 .. Len(qs) - 1
      BY <1>2, <1>3, <2>6, <2>7
  <2>. QED
      BY <1>1, <1>2, <1>3, <1>4, <2>6, <2>7, <2>8
<1>. QED
    BY <1>5, <1>6

LEMMA ErrorsGrow ==
    ASSUME ParserInv, ParserInv', Syntax \/ Semantics
    PROVE  /\ Running /\ stage' # "closed" /\ Errors' \in Nat
           /\ Errors' = 0 => Errors = 0 /\ parsers'[1].errors = 0
PROOF
<1>1. \/ Running /\ Forward(parsers, parsers')
      \/ OpenSlice \/ CloseSlice
    BY RulesForward, ItemsForward, StepsForward DEF Syntax, Semantics
<1>2. Running /\ parsers' # <<>> /\ parsers'[1].errors >= Errors
      /\ parsers'[1].errors \in Nat
  <2>1. CASE OpenSlice \/ CloseSlice
      BY <2>1, SliceErrors
  <2>2. CASE Running /\ Forward(parsers, parsers')
    <3>1. /\ ParsersFine(parsers) /\ Len(parsers) \in Nat \ {0}
          /\ 1 \in 1 .. Len(parsers) /\ Errors = parsers[1].errors
        BY <2>2, AtTop, ParsersFineFacts
    <3>2. IsSequence(parsers') /\ Len(parsers') = Len(parsers)
        BY <2>2 DEF Forward, Shifts
    <3>3. parsers' # <<>>
        BY <3>1, <3>2, SequenceFacts
    <3>. QED
        BY <2>2, <3>1, <3>3 DEF Forward, Shifts, ParserFine
  <2>. QED
      BY <1>1, <2>1, <2>2
<1>3. Errors \in Nat
    BY <1>2, AtTop, ParsersFineFacts DEF ParserFine
<1>4. Errors' = parsers'[1].errors
    BY <1>2 DEF Errors
<1>5. stage' # "closed"
    BY <1>2 DEF ParserInv, Stages
<1>. QED
    BY <1>2, <1>3, <1>4, <1>5

-----------------------------------------------------------------------------
(* The names stay right from step to step, until an error is reported. *)
LEMMA StepReady ==
    ASSUME ParserInv, TreeInv, SymbolsInv, NamesInv, ParserInv', Syntax \/ Semantics,
           Errors' = 0
    PROVE  Ready /\ parsers'[1].errors = 0
PROOF
<1>1. Running /\ Errors = 0 /\ parsers'[1].errors = 0
    BY ErrorsGrow
<1>2. Calm
    BY <1>1, Quiet
<1>. QED
    BY <1>1, <1>2 DEF Ready, NamesInv

LEMMA SyntaxNames ==
    ASSUME Ready, Syntax, parsers'[1].errors = 0
    PROVE  NamesRight'
PROOF
<1>1. CASE Begin \/ Return \/ ExpectToken \/ OptionalToken \/ ReadText \/ CallChild \/ TakeChild
    BY <1>1, BeginNames, ReturnNames, PlainNames, ReadTextNames, CallChildNames,
       TakeChildNames
<1>2. CASE Choose \/ TakeChosen \/ ReadVisibility \/ TakeSuffix \/ TakeSuffixed
    BY <1>2, ChooseNames, TakeChosenNames, ReadVisibilityNames, TakeSuffixNames,
       TakeSuffixedNames
<1>3. CASE CallOperand \/ TakeLeft \/ TakeRight \/ CallFirst \/ TakeFirst
    BY <1>3, OperandNames, TakeLeftNames, TakeRightNames, TakeFirstNames
<1>4. CASE BeginMany \/ TakeItem \/ AppendItem \/ EndMany
    BY <1>4, BeginManyNames, TakeItemNames, AppendItemNames, EndManyNames
<1>. QED
    BY <1>1, <1>2, <1>3, <1>4 DEF Syntax

LEMMA SemanticsNames ==
    ASSUME Ready, Semantics
    PROVE  NamesRight'
PROOF
<1>1. CASE BeginAssign \/ TakeTarget \/ TakeAssigned \/ Assign
    BY <1>1, OperandNames, TakeTargetNames, TakeAssignedNames, AssignNames
<1>2. CASE BeginFString \/ EndFString \/ TextSlice \/ OpenSlice \/ CloseSlice
    BY <1>2, BeginFStringNames, EndFStringNames, TextSliceNames, OpenSliceNames,
       CloseSliceNames
<1>3. CASE Concat \/ Declare \/ Define \/ Constructor \/ Iterator
    BY <1>3, ConcatNames, DeclareNames, DefineNames, ConstructorNames, IteratorNames
<1>4. CASE EnterScope \/ LeaveScope \/ Loop \/ LinkJump \/ Check \/ IndexList
    BY <1>4, EnterNames, PlainNames, IndexListNames
<1>5. CASE DefaultRange \/ Alias \/ MarkScoped \/ TypeDefinition
    BY <1>5, DefaultRangeNames, AliasNames, PlainNames, TypeDefinitionNames
<1>. QED
    BY <1>1, <1>2, <1>3, <1>4, <1>5 DEF Semantics

\* What holds as long as there are no errors.
RightSoFar == Errors = 0 => NamesRight

LEMMA FileNames ==
    ASSUME ParserInv, NamesInv,
           OpenFile \/ FailToOpen \/ CloseFile \/ Restart \/ UNCHANGED vars
    PROVE  RightSoFar'
PROOF
<1>1. CASE OpenFile
  <2>. DEFINE m == Frame("module")
  <2>1. parsers = <<>> /\ UNCHANGED <<heap, symbols>> /\ frames' = <<m>>
      BY <1>1 DEF OpenFile, ParserInv, Stages
  <2>2. NamesRight
      BY <2>1 DEF NamesInv, Errors
  <2>3. HeapNamed(heap') /\ SymbolsNamed(heap', symbols')
      BY <2>1, <2>2 DEF NamesRight
  <2>4. "module" \in DOMAIN Rules
      BY RulesAssumption DEF Callable
  <2>5. Placed(heap', m) /\ m.phase \notin Waiting
      BY <2>4, FreshPlaced
  <2>. HIDE DEF m
  <2>6. Len(frames') = 1 /\ frames'[1] = m /\ Last(frames') = m
      BY <2>1, OneFacts
  <2>7. \A i \in 1 .. 1 : i = 1
      OBVIOUS
  <2>8. \A i \in 1 .. Len(frames') : Placed(heap', frames'[i])
      BY <2>5, <2>6, <2>7
  <2>9. Top'.phase \notin Waiting
      BY <2>5, <2>6 DEF Top
  <2>. QED
      BY <2>3, <2>8, <2>9 DEF NamesRight, RightSoFar
<1>2. CASE FailToOpen
  <2>1. parsers' = <<[Nothing EXCEPT !.errors = 1]>>
      BY <1>2 DEF FailToOpen
  <2>2. [Nothing EXCEPT !.errors = 1].errors = 1
      BY DEF Nothing
  <2>3. Errors' = 1
      BY <2>1, <2>2, OneFacts DEF Errors
  <2>. QED
      BY <2>3 DEF RightSoFar
<1>3. CASE Restart
  <2>1. frames' = <<>> /\ heap' = <<>> /\ symbols' = <<>>
      BY <1>3 DEF Restart, Reset
  <2>2. DOMAIN heap' = {} /\ DOMAIN symbols' = {} /\ Len(frames') = 0
      BY <2>1
  <2>3. HeapNamed(heap') /\ SymbolsNamed(heap', symbols')
      BY <2>2 DEF HeapNamed, SymbolsNamed
  <2>4. \A i \in 1 .. Len(frames') : FALSE
      BY <2>2
  <2>. QED
      BY <2>1, <2>3, <2>4 DEF NamesRight, RightSoFar
<1>4. CASE CloseFile \/ UNCHANGED vars
  <2>1. UNCHANGED <<parsers, heap, frames, symbols, answer>>
      BY <1>4 DEF CloseFile, vars
  <2>2. Errors' = Errors
      BY <2>1 DEF Errors
  <2>. QED
      BY <2>1, <2>2, SameFramesNames DEF NamesInv, RightSoFar
<1>. QED
    BY <1>1, <1>2, <1>3, <1>4

LEMMA StepNamed ==
    ASSUME ParserInv, TreeInv, SymbolsInv, NamesInv, ParserInv', [Parsing \/ Restart]_vars
    PROVE  NamesInv'
PROOF
<1>1. CallsInv'
    BY StepCalls DEF NamesInv
<1>2. CASE OpenFile \/ FailToOpen \/ CloseFile \/ Restart \/ UNCHANGED vars
  <2>1. RightSoFar'
      BY <1>2, FileNames
  <2>2. stage' = "closed" => fault' = "none"
      BY <1>2 DEF OpenFile, FailToOpen, CloseFile, Restart, Reset, vars, NamesInv
  <2>. QED
      BY <1>1, <2>1, <2>2 DEF NamesInv, RightSoFar
<1>3. CASE Syntax \/ Semantics
  <2>1. stage' # "closed"
      BY <1>3, ErrorsGrow
  <2>2. RightSoFar'
    <3>1. SUFFICES ASSUME Errors' = 0 PROVE NamesRight'
        BY DEF RightSoFar
    <3>2. Ready /\ parsers'[1].errors = 0
        BY <1>3, <3>1, StepReady
    <3>. QED
        BY <1>3, <3>2, SyntaxNames, SemanticsNames
  <2>. QED
      BY <1>1, <2>1, <2>2 DEF NamesInv, RightSoFar
<1>. QED
    BY <1>2, <1>3 DEF Parsing

LEMMA InitNamed ==
    ASSUME Init
    PROVE  NamesInv
PROOF
<1>1. frames = <<>> /\ heap = <<>> /\ symbols = <<>> /\ fault = "none"
    BY DEF Init
<1>2. DOMAIN heap = {} /\ DOMAIN symbols = {} /\ Len(frames) = 0
    BY <1>1
<1>3. HeapNamed(heap) /\ SymbolsNamed(heap, symbols)
    BY <1>2 DEF HeapNamed, SymbolsNamed
<1>4. \A i \in 1 .. Len(frames) : FALSE
    BY <1>2
<1>. QED
    BY <1>1, <1>3, <1>4, EmptyCalls DEF NamesRight, NamesInv

-----------------------------------------------------------------------------
(* Which steps fail an assertion. *)
Blameless == fault' = fault

LEMMA LeaveRight ==
    ASSUME ParserInv, LeaveScope
    PROVE  Blameless
PROOF
<1>. DEFINE n == Len(frames)
<1>1. /\ Running /\ Top.phase = "steps" /\ Step.do = "leave"
      /\ frames' = WithLast(frames, NextStep) /\ answer' = answer
      /\ UNCHANGED <<created, parsers, stage, streams>>
    BY DEF LeaveScope, AtStep, At, Goto, SameTree, SameFile
<1>2. /\ n \in Nat \ {0}
      /\ StepShape(Top.rule, Top.at) /\ Step = StepsOf(Top.rule)[Top.at]
    BY <1>1, OwnStep
<1>3. Between(Top.rule, Top.at, "enter", "leave")
    BY <1>1, <1>2 DEF StepShape, Brackets
<1>4. /\ Top = frames[n] /\ Top = Last(frames) /\ IsSequence(frames) /\ frames # <<>>
      /\ IsSequence(scopes) /\ scopes # <<>>
    BY <1>1, AtTop, LeavesEntered DEF Top
<1>5. n \in Entered(frames) /\ Entered(frames) \subseteq 1 .. n
    BY <1>1, <1>3, <1>4, SetsFacts DEF InScope, InStep
<1>6. PICK p : /\ Orders(p, Len(scopes), Entered(frames))
               /\ \A k \in 1 .. Len(scopes) : scopes[k] = frames[p[k]].node
    BY DEF ParserInv, ScopesInv
<1>7. PICK m : m = Len(scopes)
    OBVIOUS
<1>8. m \in Nat \ {0} /\ Last(scopes) = scopes[m]
    BY <1>4, <1>7, SequenceFacts
<1>9. p[m] = n
  <2>1. Orders(p, m, Entered(frames)) /\ \A i \in Entered(frames) : i <= n
      BY <1>5, <1>6, <1>7
  <2>2. Entered(frames) \subseteq Nat /\ m \in Nat
      BY <1>5, <1>8
  <2>. QED
      BY <1>5, <2>1, <2>2, OrdersLess
<1>10. Last(scopes) = Top.node
  <2>1. m \in 1 .. Len(scopes)
      BY <1>7, <1>8
  <2>2. scopes[m] = frames[p[m]].node
      BY <1>6, <2>1
  <2>. QED
      BY <1>4, <1>8, <1>9, <2>2
<1>. QED
    BY <1>4, <1>10 DEF LeaveScope, Blameless

LEMMA CloseRight ==
    ASSUME ParserInv, CloseSlice \/ CloseFile
    PROVE  Blameless
PROOF
<1>1. stage = "parsing"
    BY DEF CloseSlice, CloseFile, At, Running
<1>2. /\ IsSequence(streams) /\ streams # <<>> /\ Len(parsers) = Len(streams)
      /\ IsSequence(parsers) /\ parsers # <<>>
      /\ \A k \in 1 .. Len(streams) : parsers[k].stream = streams[k]
    BY <1>1 DEF ParserInv, StreamsInv, ParsersInv
<1>3. Len(streams) \in 1 .. Len(streams) /\ Last(streams) = streams[Len(streams)]
      /\ Last(parsers) = parsers[Len(parsers)]
  <2>1. Len(streams) \in Nat \ {0}
      BY <1>2, SequenceFacts
  <2>. QED
      BY <1>2, <2>1, SequenceFacts
<1>4. Last(streams) = Last(parsers).stream
    BY <1>2, <1>3
<1>. QED
    BY <1>4 DEF CloseSlice, CloseFile, Blameless

LEMMA SyntaxBlameless ==
    ASSUME Syntax
    PROVE  Blameless
PROOF
<1>1. CASE Return
    BY <1>1 DEF Return, Blameless
<1>2. CASE \/ Begin \/ ExpectToken \/ OptionalToken \/ ReadText \/ CallChild \/ TakeChild
           \/ Choose \/ TakeChosen \/ ReadVisibility \/ TakeSuffix \/ TakeSuffixed
           \/ CallOperand \/ TakeLeft \/ TakeRight \/ CallFirst \/ TakeFirst
           \/ BeginMany \/ TakeItem \/ AppendItem \/ EndMany
  <2>1. Otherwise
      BY <1>2 DEF OnlyFrames, Taking,
           Begin, ExpectToken, OptionalToken, ReadText, CallChild, TakeChild,
           Choose, TakeChosen, ReadVisibility, TakeSuffix, TakeSuffixed,
           CallOperand, TakeLeft, TakeRight, CallFirst, TakeFirst,
           BeginMany, TakeItem, AppendItem, EndMany
  <2>. QED
      BY <2>1 DEF Otherwise, Blameless
<1>. QED
    BY <1>1, <1>2 DEF Syntax

\* The faults that FaultsReported allows in a file without errors.
Aborted ==
    /\ fault = "assert"
    /\ \/ Top.rule \in {"typedef", "import", "compound"}
       \/ Len(scopes) > NestingLimit \/ Len(streams) > Limit

LEMMA LimitFaults ==
    ASSUME ParserInv, EnterScope \/ OpenSlice
    PROVE  Blameless \/ Aborted'
PROOF
<1>1. Running /\ IsSequence(scopes) /\ IsSequence(streams)
    BY AtTop DEF EnterScope, OpenSlice, AtStep, At
<1>2. CASE EnterScope
  <2>1. /\ scopes' = Append(scopes, Top.node)
        /\ fault' = IF Len(scopes) = NestingLimit THEN "assert" ELSE fault
      BY <1>2 DEF EnterScope
  <2>2. Len(scopes') = Len(scopes) + 1
      BY <1>1, <2>1, AppendFacts
  <2>3. Len(scopes) = NestingLimit => Len(scopes') > NestingLimit
      BY <2>2 DEF NestingLimit
  <2>. QED
      BY <2>1, <2>3 DEF Blameless, Aborted
<1>3. CASE OpenSlice
  <2>1. /\ streams' = Append(streams, NewStream)
        /\ fault' = IF Len(streams) = Limit THEN "assert" ELSE fault
      BY <1>3 DEF OpenSlice
  <2>2. Len(streams') = Len(streams) + 1
      BY <1>1, <2>1, AppendFacts
  <2>3. Len(streams) = Limit => Len(streams') > Limit
      BY <2>2 DEF Limit
  <2>. QED
      BY <2>1, <2>3 DEF Blameless, Aborted
<1>. QED
    BY <1>2, <1>3

LEMMA CopyFaults ==
    ASSUME ParserInv, TakeTarget
    PROVE  Blameless \/ Aborted'
PROOF
<1>1. SUFFICES ASSUME ~Blameless PROVE Aborted'
    OBVIOUS
<1>2. /\ answer # Null /\ ~Fits("=") /\ Compound /\ fault' = "assert"
    BY <1>1 DEF TakeTarget, Blameless
<1>3. PICK g : g = [Frame("compound") EXCEPT !.held = answer + created]
    OBVIOUS
<1>4. g.rule = "compound"
    BY <1>3, FrameFields
<1>5. PICK f : f = Assigned(answer)
    OBVIOUS
<1>6. frames' = Append(WithLast(frames, f), g)
    BY <1>2, <1>3, <1>5 DEF TakeTarget, Call
<1>7. /\ IsSequence(frames) /\ frames # <<>>
    BY AtTop DEF TakeTarget, At
<1>8. IsSequence(WithLast(frames, f))
    BY <1>7, WithLastFacts
<1>9. Last(frames') = g
    BY <1>6, <1>8, AppendFacts
<1>10. Top'.rule = "compound"
    BY <1>4, <1>9 DEF Top
<1>. QED
    BY <1>2, <1>10 DEF Aborted

LEMMA RuleFaults ==
    ASSUME ParserInv, Alias \/ TypeDefinition
    PROVE  Blameless \/ Aborted'
PROOF
<1>1. /\ Running /\ Top.phase = "steps" /\ Step.do \in {"alias", "typedef"}
      /\ fault' \in {fault, "assert"}
    BY DEF Alias, TypeDefinition, AtStep, At
<1>2. /\ IsSequence(frames) /\ frames # <<>> /\ Fine(Top) /\ RuleShape(Top.rule)
      /\ Top.rule \in DOMAIN Rules
    BY <1>1, AtTop
<1>3. /\ Rules[Top.rule].form \in Stepping /\ Top.at \in 1 .. Len(Rules[Top.rule].steps)
    BY <1>1, <1>2 DEF Fine
<1>4. Top.at \in DOMAIN Rules[Top.rule].steps
    BY <1>2, <1>3 DEF RuleShape, IsList
<1>5. NameStep(Top.rule, Top.at)
    BY <1>2, <1>3, <1>4, NamesFit DEF NameShape
<1>6. Step = StepsOf(Top.rule)[Top.at]
    BY DEF Step, Rule, StepsOf
<1>7. Top.rule \in {"import", "typedef"}
    BY <1>1, <1>5, <1>6 DEF NameStep
<1>8. Top'.rule = Top.rule
  <2>1. CASE TypeDefinition
      BY <2>1 DEF TypeDefinition, Top
  <2>2. CASE Alias
    <3>1. PICK f : frames' = WithLast(frames, f) /\ f.rule = Top.rule
      <4>1. \A i : Onward(Top, i).rule = Top.rule
          BY <1>2 DEF Onward, Fine
      <4>. QED
          BY <2>2, <4>1 DEF Alias, Goto, NextStep
    <3>2. Last(frames') = f
        BY <1>2, <3>1, WithLastFacts
    <3>. QED
        BY <3>1, <3>2 DEF Top
  <2>. QED
      BY <2>1, <2>2
<1>. QED
    BY <1>1, <1>7, <1>8 DEF Aborted, Blameless

LEMMA SemanticsFaults ==
    ASSUME ParserInv, Semantics, Ready \/ Errors' > 0
    PROVE  Blameless \/ Aborted' \/ Errors' > 0
PROOF
<1>1. CASE BeginAssign \/ Assign \/ BeginFString \/ EndFString \/ TextSlice \/ Concat
  <2>1. Otherwise
      BY <1>1 DEF BeginAssign, Assign, BeginFString, EndFString, TextSlice, Concat, OnlyFrames
  <2>. QED
      BY <2>1 DEF Otherwise, Blameless
<1>2. CASE Loop \/ LinkJump \/ Check \/ DefaultRange \/ MarkScoped
  <2>1. Otherwise \/ fault' = fault
      BY <1>2 DEF Loop, LinkJump, Check, DefaultRange, MarkScoped, OnlyFrames
  <2>. QED
      BY <2>1 DEF Otherwise, Blameless
<1>3. CASE TakeAssigned \/ Declare \/ Define \/ Constructor \/ Iterator \/ IndexList
  <2>1. CASE Ready
      BY <1>3, <2>1, TakeAssignedNames, DeclareNames, DefineNames, ConstructorNames,
         IteratorNames, IndexListNames DEF Blameless
  <2>. QED
      BY <2>1
<1>4. CASE LeaveScope \/ CloseSlice
    BY <1>4, LeaveRight, CloseRight
<1>5. CASE EnterScope \/ OpenSlice \/ TakeTarget \/ Alias \/ TypeDefinition
    BY <1>5, LimitFaults, CopyFaults, RuleFaults
<1>. QED
    BY <1>1, <1>2, <1>3, <1>4, <1>5 DEF Semantics

LEMMA StepFaults ==
    ASSUME ParserInv, TreeInv, SymbolsInv, NamesInv, FaultsReported,
           ParserInv', [Parsing \/ Restart]_vars
    PROVE  FaultsReported'
PROOF
<1>1. CASE UNCHANGED vars
  <2>1. UNCHANGED <<fault, parsers, frames, scopes, streams>>
      BY <1>1 DEF vars
  <2>. QED
      BY <2>1 DEF FaultsReported, Errors, Top
<1>2. CASE OpenFile \/ FailToOpen \/ CloseFile \/ Restart
  <2>1. fault = "none"
      BY <1>2 DEF OpenFile, FailToOpen, CloseFile, Restart, Finished, NamesInv
  <2>2. fault' = "none"
      BY <1>2, <2>1, CloseRight DEF OpenFile, FailToOpen, Restart, Reset, Blameless
  <2>. QED
      BY <2>2 DEF FaultsReported
<1>3. CASE Syntax \/ Semantics
  <2>1. fault = "none"
      BY <1>3, SyntaxRuns, SemanticsRuns
  <2>2. Errors' \in Nat
      BY <1>3, ErrorsGrow
  <2>3. Ready \/ Errors' > 0
    <3>1. CASE Errors' = 0
        BY <1>3, <3>1, StepReady
    <3>2. CASE Errors' # 0
        BY <2>2, <3>2
    <3>. QED
        BY <3>1, <3>2
  <2>4. Blameless \/ Aborted' \/ Errors' > 0
      BY <1>3, <2>3, SyntaxBlameless, SemanticsFaults
  <2>. QED
      BY <2>1, <2>4 DEF FaultsReported, Blameless, Aborted
<1>. QED
    BY <1>1, <1>2, <1>3 DEF Parsing

-----------------------------------------------------------------------------
(* Whatever the text: as long as no error was reported, every name that is *)
(* compared has been read, every list that is looked into is there and a   *)
(* symbol outlives its uses, so that the parser fails an assertion in a    *)
(* file with errors only, and in the statements that abort on their own    *)
(* (parse.c:1160, 1372, 1458, scope.c:83-133, iostream.c:23).              *)
THEOREM FaultsOnlyAfterErrors == Spec => []FaultsReported
PROOF
<1>. DEFINE Inv == /\ ParserInv /\ TreeInv
                   /\ SymbolsInv /\ NamesInv /\ FaultsReported
<1>1. Init => Inv
  <2>1. SUFFICES ASSUME Init PROVE Inv
      OBVIOUS
  <2>2. ParserInv /\ TreeInv /\ NamesInv
      BY <2>1, InitControl, EmptyTree, InitNamed DEF Init
  <2>3. Len(scopes) = 0 /\ Len(streams) = 0 /\ fault = "none"
      BY <2>1 DEF Init
  <2>4. \A k \in 1 .. Len(scopes) : FALSE
      BY <2>3
  <2>5. SymbolsInv
      BY <2>3, <2>4 DEF SymbolsInv, Limit
  <2>. QED
      BY <2>2, <2>3, <2>5 DEF FaultsReported
<1>2. Inv /\ [Parsing \/ Restart]_vars => Inv'
  <2>1. SUFFICES ASSUME Inv, [Parsing \/ Restart]_vars PROVE Inv'
      OBVIOUS
  <2>2. ParserInv' /\ TreeInv'
      BY <2>1, StepControl, ParsingTree
  <2>3. SymbolsInv'
      BY <2>1, <2>2, StepSymbols
  <2>4. NamesInv' /\ FaultsReported'
      BY <2>1, <2>2, StepNamed, StepFaults
  <2>. QED
      BY <2>2, <2>3, <2>4
<1>. QED
    BY <1>1, <1>2, PTL DEF Spec
=============================================================================
