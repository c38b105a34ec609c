---------------------------- MODULE ParserProofs ----------------------------
(***************************************************************************)
(* What the parser keeps in order while it runs, for every source text:    *)
(* the frames, the parsers, the streams and the scopes fit each other.     *)
(***************************************************************************)
EXTENDS Parser, TLAPS

IsSequence(s) == \E S : s \in Seq(S)

\* A frame in one of these phases waits for the rule that it has called.
Waiting == {"child", "chosen", "suffixed", "left", "right", "first", "item",
            "target", "assigned", "slice"}

\* The phases in which a frame owns no node, and those in which it has one.
Bare == {"enter", "choose", "chosen", "suffixed", "left", "right", "first",
         "target", "assigned"}
Building == {"define", "suffixes", "item", "append", "close", "slices", "slice"}

\* A frame waits or works at a place its rule has, with the nodes of that place.
Fine(f) ==
    LET rule == Rules[f.rule]
        suffix == f.phase = "enter" /\ rule.form = "suffix"
    IN  /\ DOMAIN f = {"rule", "at", "node", "held", "text", "phase", "calm"}
        /\ f.rule \in DOMAIN Rules
        /\ f.at \in Nat \ {0} /\ f.node \in Nat /\ f.held \in Nat /\ f.calm \in BOOLEAN
        /\ f.phase \in Waiting \cup Bare \cup Building \cup {"steps", "done"}
        /\ f.phase \in {"steps", "child"} =>
              /\ rule.form \in Stepping
              /\ f.at \in 1 .. Len(rule.steps)
              /\ rule.form # "scoped" => f.node # Null
              /\ rule.form = "scoped" /\ f.at <= 2 => f.node = Null
        /\ f.phase = "child" => StepsOf(f.rule)[f.at].do \in {"child", "become"}
        /\ f.phase = "chosen" => rule.form \in {"choice", "definition"}
        /\ f.phase \in {"choose", "define"} => rule.form = "definition"
        /\ f.phase \in {"suffixes", "suffixed"} => rule.form = "chain"
        /\ f.phase \in {"left", "right"} => rule.form = "level"
        /\ f.phase = "first" => rule.form = "wrap"
        /\ f.phase \in {"item", "append", "close"} => rule.form = "many"
        /\ f.phase \in {"target", "assigned"} => rule.form = "assign"
        /\ f.phase \in {"slices", "slice"} => rule.form = "fstring"
        /\ f.phase \in Bare => f.node = Null
        /\ f.phase \in Building => f.node # Null
        /\ f.held # Null => f.phase \in {"right", "append", "assigned", "slice"} \/ suffix
        /\ suffix \/ f.phase = "slice" => f.held # Null
        /\ f.rule = "module" /\ f.phase = "done" => f.node # Null

InStep(f) == f.phase \in {"steps", "child"}
InScope(f) == InStep(f) /\ Between(f.rule, f.at, "enter", "leave")
InLoop(f) == InStep(f) /\ Between(f.rule, f.at, "loop", "unloop")

\* The frame of x += e that has not yet made x = x + e.
Ahead(f) ==
    /\ f.rule = "compound"
    /\ f.phase = "enter" \/ (InStep(f) /\ AssignAhead(f.rule, f.at))

FramesInv ==
    /\ IsSequence(frames)
    /\ \A i \in 1 .. Len(frames) : Fine(frames[i])
    /\ frames # <<>> => frames[1].rule = "module"
    /\ \A i \in 1 .. Len(frames) : i < Len(frames) => frames[i].phase \in Waiting
    /\ \A i \in 1 .. Len(frames) :
          frames[i].phase = "assigned" /\ frames[i].held # Null =>
              i < Len(frames) /\ Ahead(frames[i + 1])
    /\ \A i \in 1 .. Len(frames) - 1 :
          frames[i + 1].rule = "compound" => frames[i].phase = "assigned"
    /\ answer # Null /\ frames # <<>> => Top.phase \in Waiting
    /\ frames # <<>> /\ Top.phase = "enter" /\ Rule.form = "suffix" => Starts(Rule.start)

ParserFine(p) ==
    /\ DOMAIN p = {"tokens", "at", "calm", "errors", "stream"}
    /\ p.at \in Nat /\ p.calm \in BOOLEAN /\ p.errors \in Nat /\ p.stream \in Nat

\* A parser that is not calm has reported an error; so has recovery.
AllReported(ps) == \A k \in 1 .. Len(ps) : ~ps[k].calm => ps[1].errors > 0
Noticed(f) == f.calm /\ ~(f.text = "recover" /\ Rules[f.rule].form = "many")

ParsersInv ==
    /\ IsSequence(parsers)
    /\ \A k \in 1 .. Len(parsers) : ParserFine(parsers[k])
    /\ AllReported(parsers)
    /\ stage # "closed" => parsers # <<>>
    /\ \A i \in 1 .. Len(frames) : ~Noticed(frames[i]) => Errors > 0
    /\ stage # "closed" /\ frames = <<>> /\ answer = Null => Errors > 0

\* p gives the members of I, in their order.
Orders(p, n, I) ==
    /\ p \in [1 .. n -> I]
    /\ \A j, k \in 1 .. n : j < k => p[j] < p[k]
    /\ \A i \in I : \E k \in 1 .. n : p[k] = i

Slicing(fs) == {i \in 1 .. Len(fs) : fs[i].phase = "slice"}
Entered(fs) == {i \in 1 .. Len(fs) : InScope(fs[i])}

\* A stream and a parser for the file, and for every f-string under way.
StreamsInv ==
    /\ IsSequence(streams)
    /\ \A k \in 1 .. Len(streams) : streams[k] \in Nat
    /\ stage = "parsing" =>
        /\ Len(parsers) = Len(streams) /\ streams # <<>>
        /\ \A k \in 1 .. Len(streams) : parsers[k].stream = streams[k]
        /\ \E p : Orders(p, Len(streams) - 1, Slicing(frames))

\* The scopes are those of the frames that have entered theirs.
ScopesInv ==
    /\ IsSequence(scopes)
    /\ \E p : /\ Orders(p, Len(scopes), Entered(frames))
              /\ \A k \in 1 .. Len(scopes) : scopes[k] = frames[p[k]].node

EnteredAs(kinds) ==
    \E i \in 1 .. Len(frames) : InScope(frames[i]) /\ Rules[frames[i].rule].kind \in kinds
WithinInv ==
    /\ within \in [function : Nat, class : Nat, loop : Nat]
    /\ within.function # Null => EnteredAs({"Function", "Method"})
    /\ within.class # Null => EnteredAs({"Class"})
    /\ within.loop # Null => \E i \in 1 .. Len(frames) : InLoop(frames[i])

Stages ==
    /\ stage \in {"closed", "parsing", "parsed"}
    /\ created \in Nat /\ answer \in Nat
    /\ stage # "parsing" => frames = <<>> /\ streams = <<>>
    /\ stage = "closed" => parsers = <<>> /\ answer = Null
    /\ stage = "parsed" => Len(parsers) = 1

ParserInv == Stages /\ FramesInv /\ ParsersInv /\ StreamsInv /\ ScopesInv /\ WithinInv

-----------------------------------------------------------------------------
(* Sequences of anything: what a change of the last element, one more and  *)
(* one less make of them.                                                  *)
LEMMA SequenceFacts ==
    ASSUME NEW s, IsSequence(s)
    PROVE  /\ Len(s) \in Nat /\ DOMAIN s = 1 .. Len(s)
           /\ (s = <<>>) <=> (Len(s) = 0)
           /\ Last(s) = s[Len(s)]
PROOF
    BY DEF IsSequence, Last

LEMMA WithLastFacts ==
    ASSUME NEW s, IsSequence(s), s # <<>>, NEW e
    PROVE  /\ IsSequence(WithLast(s, e)) /\ Len(WithLast(s, e)) = Len(s)
           /\ WithLast(s, e) # <<>>
           /\ \A i \in 1 .. Len(s) :
                 WithLast(s, e)[i] = IF i = Len(s) THEN e ELSE s[i]
           /\ Last(WithLast(s, e)) = e
PROOF
<1>1. PICK S : s \in Seq(S)
    BY DEF IsSequence
<1>2. s \in Seq(S \cup {e})
    BY <1>1
<1>3. WithLast(s, e) \in Seq(S \cup {e}) /\ Len(WithLast(s, e)) = Len(s)
    BY <1>2 DEF WithLast
<1>4. Len(s) \in Nat \ {0} /\ DOMAIN s = 1 .. Len(s)
    BY <1>1
<1>5. \A i \in 1 .. Len(s) : WithLast(s, e)[i] = IF i = Len(s) THEN e ELSE s[i]
    BY <1>2, <1>4 DEF WithLast
<1>. QED
    BY <1>3, <1>4, <1>5 DEF IsSequence, Last

LEMMA AppendFacts ==
    ASSUME NEW s, IsSequence(s), NEW e
    PROVE  /\ IsSequence(Append(s, e)) /\ Len(Append(s, e)) = Len(s) + 1
           /\ Append(s, e) # <<>>
           /\ \A i \in 1 .. Len(s) : Append(s, e)[i] = s[i]
           /\ Append(s, e)[Len(s) + 1] = e
           /\ Last(Append(s, e)) = e
PROOF
<1>1. PICK S : s \in Seq(S)
    BY DEF IsSequence
<1>2. s \in Seq(S \cup {e}) /\ e \in S \cup {e}
    BY <1>1
<1>. QED
    BY <1>2 DEF IsSequence, Last

LEMMA FrontFacts ==
    ASSUME NEW s, IsSequence(s), s # <<>>
    PROVE  /\ IsSequence(Front(s)) /\ Len(Front(s)) = Len(s) - 1
           /\ \A i \in 1 .. Len(s) - 1 : Front(s)[i] = s[i]
PROOF
<1>1. PICK S : s \in Seq(S)
    BY DEF IsSequence
<1>2. Len(s) \in Nat \ {0} /\ \A i \in 1 .. Len(s) : s[i] \in S
    BY <1>1
<1>3. Front(s) = [i \in 1 .. Len(s) - 1 |-> s[i]]
    BY <1>1, <1>2 DEF Front
<1>4. Front(s) \in Seq(S) /\ Len(Front(s)) = Len(s) - 1
    BY <1>2, <1>3
<1>. QED
    BY <1>3, <1>4 DEF IsSequence

(* One more index behind the others, and the last one less. *)
LEMMA OrdersMore ==
    ASSUME NEW p, NEW n \in Nat, NEW I, I \subseteq Nat, Orders(p, n, I),
           NEW m \in Nat, \A i \in I : i < m
    PROVE  Orders([k \in 1 .. n + 1 |-> IF k = n + 1 THEN m ELSE p[k]], n + 1, I \cup {m})
PROOF
<1>. DEFINE q == [k \in 1 .. n + 1 |-> IF k = n + 1 THEN m ELSE p[k]]
<1>1. \A k \in 1 .. n : k \in 1 .. n + 1 /\ k # n + 1 /\ q[k] = p[k] /\ p[k] \in I
    BY DEF Orders
<1>2. n + 1 \in 1 .. n + 1 /\ q[n + 1] = m
    OBVIOUS
<1>3. \A k \in 1 .. n + 1 : k \in 1 .. n \/ k = n + 1
    OBVIOUS
<1>. HIDE DEF q
<1>4. \A j, k \in 1 .. n + 1 : j < k => q[j] < q[k]
  <2>1. SUFFICES ASSUME NEW j \in 1 .. n + 1, NEW k \in 1 .. n + 1, j < k
                 PROVE  q[j] < q[k]
      OBVIOUS
  <2>2. j \in 1 .. n
      BY <2>1
  <2>. QED
      BY <1>1, <1>2, <1>3, <2>1, <2>2 DEF Orders
<1>5. q \in [1 .. n + 1 -> I \cup {m}]
    BY <1>1, <1>2, <1>3 DEF q
<1>6. \A i \in I \cup {m} : \E k \in 1 .. n + 1 : q[k] = i
    BY <1>1, <1>2 DEF Orders
<1>. QED
    BY <1>4, <1>5, <1>6 DEF Orders, q

LEMMA OrdersLess ==
    ASSUME NEW p, NEW n \in Nat, NEW I, I \subseteq Nat, Orders(p, n, I),
           NEW m \in I, \A i \in I : i <= m
    PROVE  /\ n \in Nat \ {0} /\ p[n] = m
           /\ Orders([k \in 1 .. n - 1 |-> p[k]], n - 1, I \ {m})
PROOF
<1>1. PICK k \in 1 .. n : p[k] = m
    BY DEF Orders
<1>2. n \in 1 .. n /\ p[n] \in I
    BY <1>1 DEF Orders
<1>3. k = n
  <2>1. p[n] <= m /\ p[n] \in Nat /\ p[k] \in Nat
      BY <1>1, <1>2
  <2>2. k < n => p[k] < p[n]
      BY <1>1, <1>2 DEF Orders
  <2>. QED
      BY <1>1, <2>1, <2>2
<1>4. \A j \in 1 .. n - 1 : p[j] \in I \ {m}
    BY <1>1, <1>2, <1>3 DEF Orders
<1>. QED
    BY <1>1, <1>2, <1>3, <1>4 DEF Orders

-----------------------------------------------------------------------------
(* The last frame changes, *)
LEMMA GotoFrames ==
    ASSUME FramesInv, frames # <<>>, NEW f, Fine(f), f.rule = Top.rule,
           Ahead(Top) => Ahead(f),
           f.phase = "assigned" => f.held = Null,
           ~(f.phase = "enter" /\ Rules[f.rule].form = "suffix"),
           frames' = WithLast(frames, f), answer' = Null
    PROVE  FramesInv'
PROOF
<1>. DEFINE n == Len(frames)
<1>1. n \in Nat \ {0} /\ Top = frames[n]
    BY SequenceFacts DEF FramesInv, Top
<1>2. /\ IsSequence(frames') /\ Len(frames') = n /\ frames' # <<>>
      /\ \A i \in 1 .. n : frames'[i] = IF i = n THEN f ELSE frames[i]
      /\ Last(frames') = f
    BY WithLastFacts DEF FramesInv
<1>. HIDE DEF n
<1>3. \A i \in 1 .. n : /\ frames'[i].rule = frames[i].rule
                        /\ Fine(frames'[i])
                        /\ i < n => frames'[i] = frames[i]
    BY <1>1, <1>2 DEF FramesInv, n
<1>4. \A i \in 1 .. n : i < n => i + 1 \in 1 .. n /\ (Ahead(frames[i + 1]) => Ahead(frames'[i + 1]))
    BY <1>1, <1>2
<1>5. \A i \in 1 .. n : i < n => frames'[i].phase \in Waiting
    BY <1>3 DEF FramesInv, n
<1>6. \A i \in 1 .. n : frames'[i].phase = "assigned" /\ frames'[i].held # Null =>
                           i < n /\ Ahead(frames'[i + 1])
  <2>1. SUFFICES ASSUME NEW i \in 1 .. n, frames'[i].phase = "assigned",
                        frames'[i].held # Null
                 PROVE  i < n /\ Ahead(frames'[i + 1])
      OBVIOUS
  <2>2. i # n
      BY <1>1, <1>2, <2>1
  <2>3. i < n
      BY <1>1, <2>2
  <2>4. frames'[i] = frames[i]
      BY <1>3, <2>3
  <2>. QED
      BY <1>4, <2>1, <2>3, <2>4 DEF FramesInv, n
<1>7. \A i \in 1 .. n - 1 : frames'[i + 1].rule = "compound" => frames'[i].phase = "assigned"
  <2>1. SUFFICES ASSUME NEW i \in 1 .. n - 1, frames'[i + 1].rule = "compound"
                 PROVE  frames'[i].phase = "assigned"
      OBVIOUS
  <2>2. i \in 1 .. n /\ i + 1 \in 1 .. n /\ i < n
      BY <1>1
  <2>. QED
      BY <1>3, <2>1, <2>2 DEF FramesInv, n
<1>8. frames'[1].rule = "module"
    BY <1>1, <1>3 DEF FramesInv
<1>. QED
    BY <1>1, <1>2, <1>3, <1>5, <1>6, <1>7, <1>8 DEF FramesInv, Top, Rule

(* it calls a rule, *)
LEMMA CallFrames ==
    ASSUME FramesInv, frames # <<>>, NEW f, NEW g, Fine(f), Fine(g), f.rule = Top.rule,
           f.phase \in Waiting, Ahead(Top) => Ahead(f),
           f.phase = "assigned" /\ f.held # Null => Ahead(g),
           g.rule = "compound" => f.phase = "assigned",
           g.phase \in {"enter", "steps"},
           (Rules[g.rule].form = "suffix" => Starts(Rules[g.rule].start))',
           frames' = Append(WithLast(frames, f), g), answer' = Null
    PROVE  FramesInv'
PROOF
<1>. DEFINE n == Len(frames)
            fs == WithLast(frames, f)
<1>1. n \in Nat \ {0} /\ Top = frames[n]
    BY SequenceFacts DEF FramesInv, Top
<1>2. /\ IsSequence(fs) /\ Len(fs) = n
      /\ \A i \in 1 .. n : fs[i] = IF i = n THEN f ELSE frames[i]
    BY WithLastFacts DEF FramesInv
<1>. HIDE DEF fs
<1>3. /\ IsSequence(frames') /\ Len(frames') = n + 1 /\ frames' # <<>>
      /\ \A i \in 1 .. n : frames'[i] = fs[i]
      /\ frames'[n + 1] = g /\ Last(frames') = g
  <2>1. frames' = Append(fs, g)
      BY DEF fs
  <2>. QED
      BY <1>2, <2>1, AppendFacts
<1>. HIDE DEF n
<1>4. \A i \in 1 .. n : /\ frames'[i].rule = frames[i].rule
                        /\ Fine(frames'[i])
                        /\ i < n => frames'[i] = frames[i]
    BY <1>1, <1>2, <1>3 DEF FramesInv, n
<1>5. frames'[n] = f
    BY <1>1, <1>2, <1>3
<1>6. \A i \in 1 .. n + 1 : i \in 1 .. n \/ i = n + 1
    BY <1>1
<1>7. \A i \in 1 .. n + 1 : i < n + 1 => frames'[i].phase \in Waiting
  <2>1. \A i \in 1 .. n : i < n => frames'[i].phase \in Waiting
      BY <1>4 DEF FramesInv, n
  <2>. QED
      <3>1. SUFFICES ASSUME NEW i \in 1 .. n + 1, i < n + 1
                     PROVE  frames'[i].phase \in Waiting
          OBVIOUS
      <3>2. i \in 1 .. n /\ (i < n \/ i = n)
          BY <1>1, <3>1
      <3>. QED
          BY <1>5, <2>1, <3>2
<1>8. \A i \in 1 .. n + 1 : frames'[i].phase = "assigned" /\ frames'[i].held # Null =>
                               i < n + 1 /\ Ahead(frames'[i + 1])
  <2>1. SUFFICES ASSUME NEW i \in 1 .. n + 1, frames'[i].phase = "assigned",
                        frames'[i].held # Null
                 PROVE  i < n + 1 /\ Ahead(frames'[i + 1])
      OBVIOUS
  <2>2. i # n + 1
      BY <1>3, <2>1
  <2>3. CASE i = n
      BY <1>1, <1>3, <1>5, <2>1, <2>3
  <2>4. CASE i # n
    <3>1. i \in 1 .. n /\ i < n /\ i + 1 \in 1 .. n
        BY <1>1, <2>2, <2>4
    <3>2. frames'[i] = frames[i]
        BY <1>4, <3>1
    <3>3. Ahead(frames[i + 1])
        BY <2>1, <3>1, <3>2 DEF FramesInv, n
    <3>4. CASE i + 1 < n
      <4>1. frames'[i + 1] = frames[i + 1]
          BY <1>4, <3>1, <3>4
      <4>. QED
          BY <1>1, <3>1, <3>3, <4>1
    <3>5. CASE i + 1 = n
      <4>1. Ahead(frames'[i + 1])
          BY <1>1, <1>5, <3>3, <3>5
      <4>. QED
          BY <1>1, <3>1, <4>1
    <3>6. i + 1 < n \/ i + 1 = n
        BY <1>1, <3>1
    <3>. QED
        BY <3>4, <3>5, <3>6
  <2>. QED
      BY <2>3, <2>4
<1>9. \A i \in 1 .. n : frames'[i + 1].rule = "compound" => frames'[i].phase = "assigned"
  <2>1. SUFFICES ASSUME NEW i \in 1 .. n, frames'[i + 1].rule = "compound"
                 PROVE  frames'[i].phase = "assigned"
      OBVIOUS
  <2>2. CASE i = n
      BY <1>3, <1>5, <2>1, <2>2
  <2>3. CASE i # n
    <3>1. i + 1 \in 1 .. n /\ i < n /\ i \in 1 .. n - 1
        BY <1>1, <2>3
    <3>. QED
        BY <1>4, <2>1, <3>1 DEF FramesInv, n
  <2>. QED
      BY <2>2, <2>3
<1>10. frames'[1].rule = "module"
    BY <1>1, <1>4 DEF FramesInv
<1>11. \A i \in 1 .. n + 1 : Fine(frames'[i])
    BY <1>3, <1>4, <1>6
<1>12. Len(frames') - 1 = n
    BY <1>1, <1>3
<1>. QED
    BY <1>3, <1>7, <1>8, <1>9, <1>10, <1>11, <1>12 DEF FramesInv, Top, Rule

(* it returns. *)
LEMMA PopFrames ==
    ASSUME FramesInv, frames # <<>>, Top.phase = "done",
           frames' = Front(frames), answer' \in Nat
    PROVE  FramesInv'
PROOF
<1>. DEFINE n == Len(frames)
<1>1. n \in Nat \ {0} /\ Top = frames[n]
    BY SequenceFacts DEF FramesInv, Top
<1>2. /\ IsSequence(frames') /\ Len(frames') = n - 1
      /\ \A i \in 1 .. n - 1 : frames'[i] = frames[i]
    BY FrontFacts DEF FramesInv
<1>. HIDE DEF n
<1>3. \A i \in 1 .. n - 1 : i \in 1 .. n /\ i + 1 \in 1 .. n /\ i < n
    BY <1>1
<1>4. \A i \in 1 .. n - 1 : Fine(frames'[i]) /\ frames'[i].phase \in Waiting
    BY <1>2, <1>3 DEF FramesInv, n
<1>5. \A i \in 1 .. n - 1 : frames'[i].phase = "assigned" /\ frames'[i].held # Null =>
                               i < n - 1 /\ Ahead(frames'[i + 1])
  <2>1. SUFFICES ASSUME NEW i \in 1 .. n - 1, frames'[i].phase = "assigned",
                        frames'[i].held # Null
                 PROVE  i < n - 1 /\ Ahead(frames'[i + 1])
      OBVIOUS
  <2>2. Ahead(frames[i + 1])
      BY <1>2, <1>3, <2>1 DEF FramesInv, n
  <2>3. i + 1 # n
      BY <1>1, <2>2 DEF Ahead, InStep
  <2>4. i < n - 1 /\ i + 1 \in 1 .. n - 1
      BY <1>1, <2>3
  <2>. QED
      BY <1>2, <2>2, <2>4
<1>6. \A i \in 1 .. n - 1 - 1 : frames'[i + 1].rule = "compound" => frames'[i].phase = "assigned"
  <2>1. \A i \in 1 .. n - 1 - 1 : i \in 1 .. n - 1 /\ i + 1 \in 1 .. n - 1
      BY <1>1
  <2>. QED
      BY <1>2, <2>1 DEF FramesInv, n
<1>7. frames' # <<>> => n - 1 \in 1 .. n - 1 /\ 1 \in 1 .. n - 1 /\ Last(frames') = frames'[n - 1]
    BY <1>1, <1>2, SequenceFacts
<1>8. frames' # <<>> => /\ frames'[1].rule = "module"
                        /\ Last(frames').phase \in Waiting
    BY <1>1, <1>2, <1>4, <1>7 DEF FramesInv
<1>9. "enter" \notin Waiting
    BY DEF Waiting
<1>. QED
    BY <1>2, <1>4, <1>5, <1>6, <1>8, <1>9 DEF FramesInv, Top, Rule

-----------------------------------------------------------------------------
(* Which frames have a stream and which a scope, after each kind of change. *)
LEMMA WithLastSets ==
    ASSUME NEW fs, IsSequence(fs), fs # <<>>, NEW f
    PROVE  /\ Slicing(WithLast(fs, f)) = (Slicing(fs) \ {Len(fs)})
                 \cup (IF f.phase = "slice" THEN {Len(fs)} ELSE {})
           /\ Entered(WithLast(fs, f)) = (Entered(fs) \ {Len(fs)})
                 \cup (IF InScope(f) THEN {Len(fs)} ELSE {})
PROOF
<1>1. /\ Len(WithLast(fs, f)) = Len(fs) /\ Len(fs) \in Nat \ {0}
      /\ \A i \in 1 .. Len(fs) : WithLast(fs, f)[i] = IF i = Len(fs) THEN f ELSE fs[i]
    BY WithLastFacts, SequenceFacts
<1>. QED
    BY <1>1 DEF Slicing, Entered

LEMMA AppendSets ==
    ASSUME NEW fs, IsSequence(fs), NEW g
    PROVE  /\ Slicing(Append(fs, g)) = Slicing(fs)
                 \cup (IF g.phase = "slice" THEN {Len(fs) + 1} ELSE {})
           /\ Entered(Append(fs, g)) = Entered(fs)
                 \cup (IF InScope(g) THEN {Len(fs) + 1} ELSE {})
PROOF
<1>1. /\ Len(Append(fs, g)) = Len(fs) + 1 /\ Len(fs) \in Nat
      /\ \A i \in 1 .. Len(fs) : Append(fs, g)[i] = fs[i]
      /\ Append(fs, g)[Len(fs) + 1] = g
    BY AppendFacts, SequenceFacts
<1>2. 1 .. Len(fs) + 1 = (1 .. Len(fs)) \cup {Len(fs) + 1}
    BY <1>1
<1>. QED
    BY <1>1, <1>2 DEF Slicing, Entered

LEMMA FrontSets ==
    ASSUME NEW fs, IsSequence(fs), fs # <<>>
    PROVE  /\ Slicing(Front(fs)) = Slicing(fs) \ {Len(fs)}
           /\ Entered(Front(fs)) = Entered(fs) \ {Len(fs)}
PROOF
<1>1. /\ Len(Front(fs)) = Len(fs) - 1 /\ Len(fs) \in Nat \ {0}
      /\ \A i \in 1 .. Len(fs) - 1 : Front(fs)[i] = fs[i]
    BY FrontFacts, SequenceFacts
<1>2. 1 .. Len(fs) - 1 = (1 .. Len(fs)) \ {Len(fs)}
    BY <1>1
<1>. QED
    BY <1>1, <1>2 DEF Slicing, Entered

LEMMA SetsFacts ==
    ASSUME NEW fs, IsSequence(fs)
    PROVE  /\ Slicing(fs) \subseteq 1 .. Len(fs) /\ Entered(fs) \subseteq 1 .. Len(fs)
           /\ fs # <<>> => /\ Len(fs) \in Slicing(fs) <=> Last(fs).phase = "slice"
                           /\ Len(fs) \in Entered(fs) <=> InScope(Last(fs))
PROOF
    BY SequenceFacts DEF Slicing, Entered

\* gs stands where fs stands, in streams, scopes and loops.
SameStanding(fs, gs) ==
    /\ Slicing(gs) = Slicing(fs) /\ Entered(gs) = Entered(fs)
    /\ \A i \in Entered(fs) : gs[i].node = fs[i].node /\ gs[i].rule = fs[i].rule
    /\ \A i \in 1 .. Len(fs) : InLoop(fs[i]) => i \in 1 .. Len(gs) /\ InLoop(gs[i])

SameEntered(fs, gs) ==
    /\ Entered(gs) = Entered(fs)
    /\ \A i \in Entered(fs) : gs[i].node = fs[i].node /\ gs[i].rule = fs[i].rule
    /\ \A i \in 1 .. Len(fs) : InLoop(fs[i]) => i \in 1 .. Len(gs) /\ InLoop(gs[i])

Alike(f, t) ==
    /\ f.rule = t.rule
    /\ f.phase = "slice" <=> t.phase = "slice"
    /\ InScope(f) <=> InScope(t)
    /\ InScope(f) => f.node = t.node
    /\ InLoop(t) => InLoop(f)

LEMMA GotoStanding ==
    ASSUME NEW fs, IsSequence(fs), fs # <<>>, NEW f, Alike(f, Last(fs))
    PROVE  SameStanding(fs, WithLast(fs, f))
PROOF
<1>1. Len(fs) \in Nat \ {0} /\ Last(fs) = fs[Len(fs)]
    BY SequenceFacts
<1>2. /\ Slicing(WithLast(fs, f)) = Slicing(fs)
      /\ Entered(WithLast(fs, f)) = Entered(fs)
  <2>1. /\ Len(fs) \in Slicing(fs) <=> f.phase = "slice"
        /\ Len(fs) \in Entered(fs) <=> InScope(f)
      BY SetsFacts DEF Alike
  <2>2. Slicing(WithLast(fs, f)) = Slicing(fs)
    <3>1. CASE f.phase = "slice"
      <4>1. Slicing(WithLast(fs, f)) = (Slicing(fs) \ {Len(fs)}) \cup {Len(fs)}
          BY <3>1, WithLastSets
      <4>. QED
          BY <2>1, <3>1, <4>1
    <3>2. CASE ~(f.phase = "slice")
      <4>1. Slicing(WithLast(fs, f)) = Slicing(fs) \ {Len(fs)}
          BY <3>2, WithLastSets
      <4>. QED
          BY <2>1, <3>2, <4>1
    <3>. QED
        BY <3>1, <3>2
  <2>3. Entered(WithLast(fs, f)) = Entered(fs)
    <3>1. CASE InScope(f)
      <4>1. Entered(WithLast(fs, f)) = (Entered(fs) \ {Len(fs)}) \cup {Len(fs)}
          BY <3>1, WithLastSets
      <4>. QED
          BY <2>1, <3>1, <4>1
    <3>2. CASE ~(InScope(f))
      <4>1. Entered(WithLast(fs, f)) = Entered(fs) \ {Len(fs)}
          BY <3>2, WithLastSets
      <4>. QED
          BY <2>1, <3>2, <4>1
    <3>. QED
        BY <3>1, <3>2
  <2>. QED
      BY <2>2, <2>3
<1>3. /\ Len(WithLast(fs, f)) = Len(fs)
      /\ \A i \in 1 .. Len(fs) : WithLast(fs, f)[i] = IF i = Len(fs) THEN f ELSE fs[i]
    BY WithLastFacts
<1>4. \A i \in 1 .. Len(fs) : InLoop(fs[i]) => InLoop(WithLast(fs, f)[i])
    BY <1>1, <1>3 DEF Alike
<1>5. \A i \in Entered(fs) : /\ WithLast(fs, f)[i].node = fs[i].node
                             /\ WithLast(fs, f)[i].rule = fs[i].rule
    BY <1>1, <1>3, SetsFacts DEF Alike, Entered
<1>. QED
    BY <1>2, <1>3, <1>4, <1>5 DEF SameStanding

LEMMA CallStanding ==
    ASSUME NEW fs, IsSequence(fs), fs # <<>>, NEW f, NEW g, Alike(f, Last(fs)),
           g.phase # "slice", ~InScope(g)
    PROVE  SameStanding(fs, Append(WithLast(fs, f), g))
PROOF
<1>. DEFINE hs == WithLast(fs, f)
<1>1. SameStanding(fs, hs) /\ IsSequence(hs) /\ Len(hs) = Len(fs)
    BY GotoStanding, WithLastFacts
<1>. HIDE DEF hs
<1>2. /\ Slicing(Append(hs, g)) = Slicing(hs) /\ Entered(Append(hs, g)) = Entered(hs)
      /\ Len(Append(hs, g)) = Len(hs) + 1
      /\ \A i \in 1 .. Len(hs) : Append(hs, g)[i] = hs[i]
  <2>1. Slicing(Append(hs, g)) = Slicing(hs)
      BY <1>1, AppendSets
  <2>2. Entered(Append(hs, g)) = Entered(hs)
      BY <1>1, AppendSets
  <2>. QED
      BY <1>1, <2>1, <2>2, AppendFacts
<1>3. Entered(fs) \subseteq 1 .. Len(fs) /\ Len(fs) \in Nat
    BY SetsFacts, SequenceFacts
<1>4. SameStanding(fs, Append(hs, g))
    BY <1>1, <1>2, <1>3 DEF SameStanding
<1>. QED
    BY <1>4 DEF hs

LEMMA PopStanding ==
    ASSUME NEW fs, IsSequence(fs), fs # <<>>, Last(fs).phase = "done"
    PROVE  SameStanding(fs, Front(fs))
PROOF
<1>1. ~InScope(Last(fs)) /\ ~InLoop(Last(fs)) /\ Last(fs) = fs[Len(fs)] /\ Len(fs) \in Nat \ {0}
    BY SequenceFacts DEF InScope, InLoop, InStep
<1>2. Slicing(Front(fs)) = Slicing(fs) /\ Entered(Front(fs)) = Entered(fs)
  <2>1. Len(fs) \notin Slicing(fs) /\ Len(fs) \notin Entered(fs)
      BY <1>1, SetsFacts
  <2>2. Slicing(Front(fs)) = Slicing(fs)
      BY <2>1, FrontSets
  <2>3. Entered(Front(fs)) = Entered(fs)
      BY <2>1, FrontSets
  <2>. QED
      BY <2>2, <2>3
<1>3. /\ Len(Front(fs)) = Len(fs) - 1
      /\ \A i \in 1 .. Len(fs) - 1 : Front(fs)[i] = fs[i]
    BY FrontFacts
<1>4. \A i \in 1 .. Len(fs) : i # Len(fs) => i \in 1 .. Len(fs) - 1
    BY <1>1
<1>5. \A i \in Entered(fs) : i \in 1 .. Len(fs) - 1
    BY <1>1, <1>4, SetsFacts
<1>6. \A i \in 1 .. Len(fs) : InLoop(fs[i]) => i \in 1 .. Len(fs) - 1
    BY <1>1, <1>4
<1>. QED
    BY <1>2, <1>3, <1>5, <1>6 DEF SameStanding

-----------------------------------------------------------------------------
(* Whatever a parser does to its window and its calm, and the handler to   *)
(* the outermost one, errors are counted up and streams stay where they    *)
(* are.                                                                    *)
Shifts(ps, qs) ==
    /\ IsSequence(qs) /\ Len(qs) = Len(ps)
    /\ \A k \in 1 .. Len(ps) : ParserFine(qs[k]) /\ qs[k].stream = ps[k].stream
    /\ qs[1].errors >= ps[1].errors

ParsersFine(ps) ==
    /\ IsSequence(ps) /\ ps # <<>>
    /\ \A k \in 1 .. Len(ps) : ParserFine(ps[k])

Forward(ps, qs) == Shifts(ps, qs) /\ AllReported(qs)

LEMMA ParsersFineFacts ==
    ASSUME NEW ps, ParsersFine(ps)
    PROVE  /\ Len(ps) \in Nat \ {0} /\ DOMAIN ps = 1 .. Len(ps)
           /\ 1 \in 1 .. Len(ps) /\ Len(ps) \in 1 .. Len(ps)
           /\ Last(ps) = ps[Len(ps)] /\ ParserFine(Last(ps)) /\ ParserFine(ps[1])
PROOF
    BY SequenceFacts DEF ParsersFine

LEMMA ShiftsTwice ==
    ASSUME NEW ps, NEW qs, NEW rs, ParsersFine(ps), Shifts(ps, qs), Shifts(qs, rs)
    PROVE  ParsersFine(qs) /\ Shifts(ps, rs)
PROOF
<1>1. ParsersFine(qs)
    BY ParsersFineFacts, SequenceFacts DEF ParsersFine, Shifts
<1>2. rs[1].errors >= ps[1].errors
  <2>1. /\ ps[1].errors \in Nat /\ qs[1].errors \in Nat
      BY <1>1, ParsersFineFacts DEF ParserFine
  <2>2. rs[1].errors \in Nat
      BY <1>1, ParsersFineFacts DEF Shifts, ParserFine
  <2>. QED
      BY <2>1, <2>2 DEF Shifts
<1>. QED
    BY <1>1, <1>2 DEF Shifts

LEMMA LastShifts ==
    ASSUME NEW ps, ParsersFine(ps), NEW p, ParserFine(p),
           p.stream = Last(ps).stream, p.errors = Last(ps).errors
    PROVE  Shifts(ps, WithLast(ps, p))
PROOF
<1>1. /\ IsSequence(WithLast(ps, p)) /\ Len(WithLast(ps, p)) = Len(ps)
      /\ \A k \in 1 .. Len(ps) : WithLast(ps, p)[k] = IF k = Len(ps) THEN p ELSE ps[k]
    BY WithLastFacts DEF ParsersFine
<1>2. Last(ps) = ps[Len(ps)] /\ 1 \in 1 .. Len(ps) /\ ps[1].errors \in Nat
    BY ParsersFineFacts DEF ParserFine
<1>3. \A k \in 1 .. Len(ps) : /\ ParserFine(WithLast(ps, p)[k])
                              /\ WithLast(ps, p)[k].stream = ps[k].stream
    BY <1>1, <1>2 DEF ParsersFine
<1>4. WithLast(ps, p)[1].errors = ps[1].errors
    BY <1>1, <1>2
<1>. QED
    BY <1>1, <1>2, <1>3, <1>4 DEF Shifts

LEMMA UncalmShifts ==
    ASSUME NEW ps, ParsersFine(ps)
    PROVE  Shifts(ps, Uncalm(ps))
PROOF
<1>1. ParserFine([Last(ps) EXCEPT !.calm = FALSE])
    BY ParsersFineFacts DEF ParserFine
<1>2. /\ [Last(ps) EXCEPT !.calm = FALSE].stream = Last(ps).stream
      /\ [Last(ps) EXCEPT !.calm = FALSE].errors = Last(ps).errors
    BY ParsersFineFacts DEF ParserFine
<1>. QED
    BY <1>1, <1>2, LastShifts DEF Uncalm

LEMMA RaisedForward ==
    ASSUME NEW ps, ParsersFine(ps)
    PROVE  Forward(ps, Raised(ps)) /\ Raised(ps)[1].errors > 0
PROOF
<1>. DEFINE first == [ps[1] EXCEPT !.calm = FALSE, !.errors = @ + 1]
<1>1. /\ ParserFine(first) /\ first.errors = ps[1].errors + 1
      /\ first.stream = ps[1].stream
    BY ParsersFineFacts DEF ParserFine
<1>. HIDE DEF first
<1>2. Raised(ps) = [ps EXCEPT ![1] = first]
    BY ParsersFineFacts DEF Raised, first, ParserFine
<1>3. PICK S : ps \in Seq(S)
    BY DEF ParsersFine, IsSequence
<1>4. Raised(ps) \in Seq(S \cup {first}) /\ Len(Raised(ps)) = Len(ps)
  <2>1. ps \in Seq(S \cup {first}) /\ first \in S \cup {first} /\ 1 \in 1 .. Len(ps)
      BY <1>3, ParsersFineFacts
  <2>. QED
      BY <1>2, <2>1
<1>5. \A k \in 1 .. Len(ps) : Raised(ps)[k] = IF k = 1 THEN first ELSE ps[k]
    BY <1>2, ParsersFineFacts
<1>6. Raised(ps)[1].errors > 0 /\ Raised(ps)[1].errors >= ps[1].errors
    BY <1>1, <1>5, ParsersFineFacts DEF ParserFine
<1>7. \A k \in 1 .. Len(ps) : ParserFine(Raised(ps)[k]) /\ Raised(ps)[k].stream = ps[k].stream
    BY <1>1, <1>5 DEF ParsersFine
<1>. QED
    BY <1>4, <1>6, <1>7 DEF Forward, Shifts, AllReported, IsSequence

LEMMA ForwardRefl ==
    ASSUME NEW ps, ParsersFine(ps), AllReported(ps)
    PROVE  Forward(ps, ps)
PROOF
    BY ParsersFineFacts DEF Forward, Shifts, ParsersFine, ParserFine

LEMMA RaisedAfter ==
    ASSUME NEW ps, NEW qs, ParsersFine(ps), Shifts(ps, qs)
    PROVE  Forward(ps, Raised(qs))
PROOF
<1>1. ParsersFine(qs)
    BY ParsersFineFacts, SequenceFacts DEF ParsersFine, Shifts
<1>. QED
    BY <1>1, ShiftsTwice, RaisedForward DEF Forward

LEMMA AdvancedForward ==
    ASSUME NEW ps, ParsersFine(ps), AllReported(ps)
    PROVE  Forward(ps, Advanced(ps))
PROOF
<1>. DEFINE p == [Last(ps) EXCEPT !.at = @ + 1]
            qs == WithLast(ps, p)
<1>1. ParserFine(p) /\ p.stream = Last(ps).stream /\ p.errors = Last(ps).errors
      /\ p.calm = Last(ps).calm
    BY ParsersFineFacts DEF ParserFine
<1>. HIDE DEF p
<1>2. Shifts(ps, qs)
    BY <1>1, LastShifts
<1>3. AllReported(qs)
  <2>1. \A k \in 1 .. Len(ps) : qs[k].calm = ps[k].calm /\ qs[k].errors = ps[k].errors
      BY <1>1, WithLastFacts, ParsersFineFacts DEF ParsersFine
  <2>. QED
      BY <1>2, <2>1, ParsersFineFacts DEF AllReported, Shifts
<1>. HIDE DEF qs
<1>4. Forward(ps, Raised(Uncalm(ps)))
    BY UncalmShifts, RaisedAfter
<1>5. Forward(ps, Raised(qs))
    BY <1>2, RaisedAfter
<1>6. Forward(ps, qs)
    BY <1>2, <1>3 DEF Forward
<1>7. Advanced(ps) \in {Raised(Uncalm(ps)), Raised(qs), qs}
    BY DEF Advanced, Scanned, qs, p
<1>. QED
    BY <1>4, <1>5, <1>6, <1>7

LEMMA ExpectedForward ==
    ASSUME NEW ps, ParsersFine(ps), AllReported(ps), NEW kind
    PROVE  Forward(ps, Expected(ps, kind))
PROOF
<1>1. Expected(ps, kind) \in {ps, Raised(Uncalm(ps)), Advanced(ps)}
    BY DEF Expected
<1>2. Forward(ps, Raised(Uncalm(ps)))
    BY UncalmShifts, RaisedAfter
<1>. QED
    BY <1>1, <1>2, ForwardRefl, AdvancedForward

LEMMA UncalmForward ==
    ASSUME NEW ps, ParsersFine(ps), ps[1].errors > 0
    PROVE  Forward(ps, Uncalm(ps))
PROOF
<1>1. Shifts(ps, Uncalm(ps))
    BY UncalmShifts
<1>2. Uncalm(ps)[1].errors > 0
    BY <1>1, ParsersFineFacts DEF Shifts, ParserFine
<1>. QED
    BY <1>1, <1>2 DEF Forward, AllReported

LEMMA ForwardTwice ==
    ASSUME NEW ps, NEW qs, NEW rs, ParsersFine(ps), Forward(ps, qs), Forward(qs, rs)
    PROVE  Forward(ps, rs)
PROOF
    BY ShiftsTwice DEF Forward

-----------------------------------------------------------------------------
(* What every step of a rule finds. *)
LEMMA AtTop ==
    ASSUME ParserInv, Running
    PROVE  /\ stage = "parsing" /\ frames # <<>>
           /\ Len(frames) \in Nat \ {0} /\ Top = frames[Len(frames)]
           /\ Fine(Top) /\ Top.rule \in DOMAIN Rules /\ RuleShape(Top.rule)
           /\ Top.phase \notin Waiting => answer = Null
           /\ Top.phase = "assigned" => Top.held = Null
           /\ ParsersFine(parsers) /\ AllReported(parsers) /\ Errors = parsers[1].errors
           /\ ~Noticed(Top) => parsers[1].errors > 0
           /\ created \in Nat /\ answer \in Nat /\ created + 1 # Null
           /\ IsSequence(frames) /\ IsSequence(streams) /\ IsSequence(scopes)
PROOF
<1>1. stage = "parsing" /\ frames # <<>>
    BY DEF Running
<1>2. Len(frames) \in Nat \ {0} /\ Top = frames[Len(frames)] /\ Len(frames) \in 1 .. Len(frames)
    BY <1>1, SequenceFacts DEF ParserInv, FramesInv, Top
<1>3. Fine(Top) /\ Top.rule \in DOMAIN Rules /\ RuleShape(Top.rule)
  <2>1. Fine(Top)
      BY <1>2 DEF ParserInv, FramesInv
  <2>2. Top.rule \in DOMAIN Rules
      BY <2>1 DEF Fine
  <2>. QED
      BY <2>1, <2>2, RulesAssumption
<1>4. Top.phase \notin Waiting => answer = Null
    BY <1>1 DEF ParserInv, FramesInv
<1>5. ParsersFine(parsers) /\ AllReported(parsers) /\ Errors = parsers[1].errors
    BY <1>1 DEF ParserInv, ParsersInv, ParsersFine, Errors
<1>6. ~Noticed(Top) => parsers[1].errors > 0
    BY <1>2, <1>5 DEF ParserInv, ParsersInv
<1>7. Top.phase = "assigned" => Top.held = Null
    BY <1>2 DEF ParserInv, FramesInv
<1>8. created \in Nat /\ answer \in Nat /\ created + 1 # Null
    BY DEF ParserInv, Stages, Null
<1>9. IsSequence(frames) /\ IsSequence(streams) /\ IsSequence(scopes)
    BY DEF ParserInv, FramesInv, StreamsInv, ScopesInv
<1>. QED
    BY <1>1, <1>2, <1>3, <1>4, <1>5, <1>6, <1>7, <1>8, <1>9

LEMMA EnteredKept ==
    ASSUME ParserInv, SameEntered(frames, frames'), UNCHANGED <<scopes, within>>
    PROVE  ScopesInv' /\ WithinInv'
PROOF
<1>1. ScopesInv'
  <2>1. PICK p : /\ Orders(p, Len(scopes), Entered(frames))
                 /\ \A k \in 1 .. Len(scopes) : scopes[k] = frames[p[k]].node
      BY DEF ParserInv, ScopesInv
  <2>2. Orders(p, Len(scopes'), Entered(frames'))
      BY <2>1 DEF SameEntered
  <2>3. \A k \in 1 .. Len(scopes) : p[k] \in Entered(frames)
      BY <2>1 DEF Orders
  <2>4. \A k \in 1 .. Len(scopes') : scopes'[k] = frames'[p[k]].node
      BY <2>1, <2>3 DEF SameEntered
  <2>5. IsSequence(scopes')
      BY DEF ParserInv, ScopesInv
  <2>. QED
      BY <2>2, <2>4, <2>5 DEF ScopesInv
<1>2. \A i \in 1 .. Len(frames) : InScope(frames[i]) =>
          i \in 1 .. Len(frames') /\ InScope(frames'[i]) /\ frames'[i].rule = frames[i].rule
    BY DEF SameEntered, Entered
<1>3. WithinInv
    BY DEF ParserInv
<1>4. ASSUME NEW kinds, EnteredAs(kinds)
      PROVE  EnteredAs(kinds)'
    BY <1>2, <1>4 DEF EnteredAs
<1>5. (\E i \in 1 .. Len(frames) : InLoop(frames[i]))
          => \E i \in 1 .. Len(frames') : InLoop(frames'[i])
    BY DEF SameEntered
<1>6. WithinInv'
    BY <1>3, <1>4, <1>5 DEF WithinInv
<1>. QED
    BY <1>1, <1>6

LEMMA StandingKept ==
    ASSUME ParserInv, SameStanding(frames, frames'), UNCHANGED <<scopes, within>>
    PROVE  ScopesInv' /\ WithinInv'
PROOF
    BY EnteredKept DEF SameStanding, SameEntered

LEMMA StreamsKept ==
    ASSUME ParserInv, SameStanding(frames, frames'), UNCHANGED <<streams, stage>>,
           Shifts(parsers, parsers')
    PROVE  StreamsInv'
PROOF
    BY DEF ParserInv, StreamsInv, SameStanding, Shifts

LEMMA ParsersKept ==
    ASSUME ParserInv, Running, frames' # <<>>, UNCHANGED stage,
           Forward(parsers, parsers'),
           \A i \in 1 .. Len(frames') :
               \/ Noticed(frames'[i]) \/ parsers'[1].errors > 0
               \/ i \in 1 .. Len(frames) /\ frames'[i] = frames[i]
    PROVE  ParsersInv'
PROOF
<1>1. /\ ParsersFine(parsers) /\ Errors = parsers[1].errors
      /\ parsers[1].errors \in Nat /\ parsers'[1].errors \in Nat
      /\ parsers'[1].errors >= parsers[1].errors
    BY AtTop, ParsersFineFacts DEF Forward, Shifts, ParserFine
<1>2. IsSequence(parsers') /\ Len(parsers') = Len(parsers) /\ parsers' # <<>>
    BY <1>1, ParsersFineFacts, SequenceFacts DEF Forward, Shifts
<1>3. Errors' = parsers'[1].errors
    BY <1>2 DEF Errors
<1>4. \A i \in 1 .. Len(frames') : ~Noticed(frames'[i]) => Errors' > 0
    BY <1>1, <1>3 DEF ParserInv, ParsersInv
<1>5. \A k \in 1 .. Len(parsers') : ParserFine(parsers'[k])
    BY <1>2 DEF Forward, Shifts
<1>. QED
    BY <1>2, <1>4, <1>5 DEF ParsersInv, Forward

\* A step that leaves scopes, streams and registers alone.
Steady == UNCHANGED <<scopes, within, stage, streams>>

(* A step to another place in the rule. *)
LEMMA GotoStep ==
    ASSUME ParserInv, Running, NEW f, Fine(f), Alike(f, Top), Ahead(Top) => Ahead(f),
           f.phase = "assigned" => f.held = Null,
           ~(f.phase = "enter" /\ Rules[f.rule].form = "suffix"),
           Noticed(f) \/ parsers'[1].errors > 0,
           frames' = WithLast(frames, f), answer' = Null, created' \in Nat,
           Forward(parsers, parsers'), Steady
    PROVE  ParserInv'
PROOF
<1>1. /\ stage = "parsing" /\ frames # <<>> /\ IsSequence(frames) /\ Top = Last(frames)
      /\ Len(frames) \in Nat \ {0}
    BY AtTop DEF Top
<1>2. /\ frames' # <<>> /\ Len(frames') = Len(frames)
      /\ \A i \in 1 .. Len(frames) : frames'[i] = IF i = Len(frames) THEN f ELSE frames[i]
    BY <1>1, WithLastFacts
<1>3. FramesInv'
    BY <1>1, GotoFrames DEF ParserInv, Alike
<1>4. SameStanding(frames, frames')
    BY <1>1, GotoStanding
<1>5. ParsersInv'
  <2>1. stage' = stage
      BY DEF Steady
  <2>. QED
      BY <1>2, <2>1, ParsersKept
<1>6. StreamsInv' /\ ScopesInv' /\ WithinInv'
    BY <1>4, StandingKept, StreamsKept DEF Steady, Forward
<1>7. Stages'
    BY <1>1 DEF Steady, ParserInv, Stages, Null
<1>. QED
    BY <1>3, <1>5, <1>6, <1>7 DEF ParserInv

(* A step that calls a rule. *)
LEMMA CallStep ==
    ASSUME ParserInv, Running, NEW f, NEW g, Fine(f), Fine(g), Alike(f, Top),
           Ahead(Top) => Ahead(f), f.phase \in Waiting,
           f.phase = "assigned" /\ f.held # Null => Ahead(g),
           g.rule = "compound" => f.phase = "assigned",
           g.phase \in {"enter", "steps"}, ~InScope(g), Noticed(g),
           Rules[g.rule].form = "suffix" =>
               Starts(Rules[g.rule].start) /\ UNCHANGED parsers,
           Noticed(f) \/ parsers'[1].errors > 0,
           frames' = Append(WithLast(frames, f), g), answer' = Null, created' \in Nat,
           Forward(parsers, parsers'), Steady
    PROVE  ParserInv'
PROOF
<1>1. /\ stage = "parsing" /\ frames # <<>> /\ IsSequence(frames) /\ Top = Last(frames)
      /\ Len(frames) \in Nat \ {0}
    BY AtTop DEF Top
<1>2. /\ frames' # <<>> /\ Len(frames') = Len(frames) + 1 /\ frames'[Len(frames) + 1] = g
      /\ \A i \in 1 .. Len(frames) : frames'[i] = IF i = Len(frames) THEN f ELSE frames[i]
  <2>1. /\ IsSequence(WithLast(frames, f)) /\ Len(WithLast(frames, f)) = Len(frames)
        /\ \A i \in 1 .. Len(frames) :
              WithLast(frames, f)[i] = IF i = Len(frames) THEN f ELSE frames[i]
      BY <1>1, WithLastFacts
  <2>2. /\ frames' # <<>> /\ Len(frames') = Len(WithLast(frames, f)) + 1
        /\ frames'[Len(WithLast(frames, f)) + 1] = g
        /\ \A i \in 1 .. Len(WithLast(frames, f)) : frames'[i] = WithLast(frames, f)[i]
      BY <2>1, AppendFacts
  <2>. QED
      BY <2>1, <2>2
<1>3. FramesInv'
  <2>1. (Rules[g.rule].form = "suffix" => Starts(Rules[g.rule].start))'
      BY DEF Starts, Fits, Calm, Current
  <2>. QED
      BY <1>1, <2>1, CallFrames DEF ParserInv, Alike
<1>4. SameStanding(frames, frames')
    BY <1>1, CallStanding
<1>5. ParsersInv'
  <2>1. stage' = stage
      BY DEF Steady
  <2>2. \A i \in 1 .. Len(frames') :
            \/ Noticed(frames'[i]) \/ parsers'[1].errors > 0
            \/ i \in 1 .. Len(frames) /\ frames'[i] = frames[i]
    <3>1. SUFFICES ASSUME NEW i \in 1 .. Len(frames')
                   PROVE  \/ Noticed(frames'[i]) \/ parsers'[1].errors > 0
                          \/ i \in 1 .. Len(frames) /\ frames'[i] = frames[i]
        OBVIOUS
    <3>2. i \in 1 .. Len(frames) \/ i = Len(frames) + 1
        BY <1>1, <1>2
    <3>. QED
        BY <1>2, <3>2
  <2>. QED
      BY <1>2, <2>1, <2>2, ParsersKept
<1>6. StreamsInv' /\ ScopesInv' /\ WithinInv'
    BY <1>4, StandingKept, StreamsKept DEF Steady, Forward
<1>7. Stages'
    BY <1>1 DEF Steady, ParserInv, Stages, Null
<1>. QED
    BY <1>3, <1>5, <1>6, <1>7 DEF ParserInv

(* The frame of a rule that may be called by name. *)
LEMMA FrameFine ==
    ASSUME NEW r \in Callable
    PROVE  /\ Fine(Frame(r)) /\ Frame(r).rule = r /\ Rules[r].form # "suffix"
           /\ r # "compound" /\ Frame(r).phase \in {"enter", "steps"}
           /\ ~InScope(Frame(r)) /\ Noticed(Frame(r))
PROOF
<1>1. r \in DOMAIN Rules /\ Rules[r].form # "suffix" /\ RuleShape(r) /\ r # "compound"
    BY RulesAssumption DEF Callable
<1>2. Rules[r].form = "scoped" => 1 \in 1 .. Len(Rules[r].steps)
  <2>1. SUFFICES ASSUME Rules[r].form = "scoped"
                 PROVE  1 \in 1 .. Len(Rules[r].steps)
      OBVIOUS
  <2>2. /\ Len(Rules[r].steps) \in Nat /\ DOMAIN Rules[r].steps = 1 .. Len(Rules[r].steps)
        /\ \A i \in DOMAIN Rules[r].steps : StepShape(r, i)
        /\ Len(Rules[r].steps) > 0
      BY <1>1, <2>1 DEF RuleShape, IsList, Stepping
  <2>. QED
      BY <2>2
<1>3. Rules[r].form = "scoped" => Rules[r].form \in Stepping
    BY DEF Stepping
<1>4. Fine(Frame(r))
    BY <1>1, <1>2, <1>3 DEF Fine, Frame, Null, Waiting, Bare, Building, Stepping
<1>5. ~InScope(Frame(r))
  <2>1. Rules[r].form = "scoped" => ~Between(r, 1, "enter", "leave")
    <3>1. Rules[r].form = "scoped" => DOMAIN StepsOf(r) = 1 .. Len(StepsOf(r))
        BY <1>1, <1>3 DEF RuleShape, IsList, StepsOf
    <3>. QED
        BY <3>1 DEF Between
  <2>. QED
      BY <2>1 DEF InScope, InStep, Frame
<1>. QED
    BY <1>1, <1>4, <1>5 DEF Frame, Noticed

LEMMA CallRule ==
    ASSUME ParserInv, Running, NEW f, NEW r \in Callable, Fine(f), Alike(f, Top),
           Ahead(Top) => Ahead(f), f.phase \in Waiting,
           ~(f.phase = "assigned" /\ f.held # Null),
           Noticed(f) \/ parsers'[1].errors > 0,
           frames' = Append(WithLast(frames, f), Frame(r)), answer' = Null,
           created' \in Nat, Forward(parsers, parsers'), Steady
    PROVE  ParserInv'
PROOF
<1>1. /\ Fine(Frame(r)) /\ Frame(r).rule = r /\ Rules[r].form # "suffix"
      /\ r # "compound" /\ Frame(r).phase \in {"enter", "steps"}
      /\ ~InScope(Frame(r)) /\ Noticed(Frame(r))
    BY FrameFine
<1>. DEFINE g == Frame(r)
<1>. HIDE DEF g
<1>2. /\ Fine(g) /\ Rules[g.rule].form # "suffix" /\ g.rule # "compound"
      /\ g.phase \in {"enter", "steps"} /\ ~InScope(g) /\ Noticed(g)
      /\ frames' = Append(WithLast(frames, f), g)
    BY <1>1 DEF g
<1>. QED
    BY <1>2, CallStep

(* A step on in a list of steps, to one of the places it leads to. *)
LEMMA OnwardFine ==
    ASSUME NEW t, Fine(t), InStep(t), RuleShape(t.rule), NEW n \in After(t.rule, t.at),
           NEW g, DOMAIN g = DOMAIN t, g.rule = t.rule, g.held = Null, g.calm = t.calm,
           g.text = t.text, g.node \in Nat,
           Rules[t.rule].form # "scoped" => g.node # Null,
           Rules[t.rule].form = "scoped" /\ n <= 2 => g.node = Null
    PROVE  LET f == Onward(g, n)
           IN  /\ Fine(f) /\ f.rule = t.rule /\ f.phase \in {"steps", "done"}
               /\ f.node = g.node /\ f.calm = t.calm /\ f.text = t.text
               /\ InScope(f) <=> Between(t.rule, n, "enter", "leave")
               /\ InLoop(f) <=> Between(t.rule, n, "loop", "unloop")
               /\ InStep(f) /\ AssignAhead(f.rule, f.at) <=> AssignAhead(t.rule, n)
PROOF
<1>. DEFINE f == Onward(g, n)
<1>1. /\ Rules[t.rule].form \in Stepping /\ t.at \in 1 .. Len(StepsOf(t.rule))
      /\ Len(StepsOf(t.rule)) \in Nat /\ DOMAIN StepsOf(t.rule) = 1 .. Len(StepsOf(t.rule))
      /\ StepShape(t.rule, t.at)
    BY DEF Fine, InStep, RuleShape, IsList, StepsOf
<1>2. n \in Nat /\ n > t.at
    BY <1>1 DEF After, StepShape
<1>3. /\ DOMAIN f = DOMAIN t /\ f.rule = t.rule /\ f.at = n /\ f.node = g.node
      /\ f.held = Null /\ f.text = t.text /\ f.calm = t.calm
      /\ f.phase = IF n > Len(StepsOf(t.rule)) THEN "done" ELSE "steps"
    BY DEF Onward, Fine, StepsOf
<1>. HIDE DEF f
<1>4. InStep(f) <=> n <= Len(StepsOf(t.rule))
    BY <1>1, <1>2, <1>3 DEF InStep
<1>5. InScope(f) <=> Between(t.rule, n, "enter", "leave")
    BY <1>1, <1>2, <1>3, <1>4 DEF InScope, Between
<1>6. InLoop(f) <=> Between(t.rule, n, "loop", "unloop")
    BY <1>1, <1>2, <1>3, <1>4 DEF InLoop, Between
<1>7. InStep(f) /\ AssignAhead(f.rule, f.at) <=> AssignAhead(t.rule, n)
    BY <1>1, <1>2, <1>3, <1>4 DEF AssignAhead
<1>8. Fine(f)
  <2>1. CASE n > Len(StepsOf(t.rule))
    <3>1. Rules[t.rule].form = "scoped" \/ g.node # Null
        OBVIOUS
    <3>2. t.rule = "module" => Rules[t.rule].form # "scoped"
        BY RulesAssumption
    <3>. QED
        BY <1>2, <1>3, <2>1, <3>1, <3>2 DEF Fine, Null, Waiting, Bare, Building
  <2>2. CASE n \in 1 .. Len(StepsOf(t.rule))
      BY <1>1, <1>2, <1>3, <2>2 DEF Fine, Null, Waiting, Bare, Building, StepsOf
  <2>. QED
      BY <1>1, <1>2, <2>1, <2>2
<1>. QED
    BY <1>3, <1>5, <1>6, <1>7, <1>8 DEF f

Plain(do) == do \notin {"enter", "leave", "loop", "unloop", "assign"}

LEMMA StepOn ==
    ASSUME ParserInv, Running, InStep(Top), Plain(Step.do),
           NEW n \in After(Top.rule, Top.at),
           frames' = WithLast(frames, Onward(Top, n)), answer' = Null, created' \in Nat,
           Forward(parsers, parsers'), Steady
    PROVE  ParserInv'
PROOF
<1>. DEFINE f == Onward(Top, n)
<1>1. /\ Fine(Top) /\ RuleShape(Top.rule)
      /\ ~Noticed(Top) => parsers[1].errors > 0
      /\ ParsersFine(parsers)
    BY AtTop
<1>2. /\ Top.held = Null /\ Top.node \in Nat
      /\ Rules[Top.rule].form \in Stepping /\ Top.at \in 1 .. Len(StepsOf(Top.rule))
      /\ Rules[Top.rule].form # "scoped" => Top.node # Null
      /\ Rules[Top.rule].form = "scoped" /\ Top.at <= 2 => Top.node = Null
    BY <1>1 DEF Fine, InStep, StepsOf
<1>3. StepShape(Top.rule, Top.at) /\ Top.at \in Nat
    BY <1>1, <1>2 DEF RuleShape, IsList, StepsOf
<1>4. n \in Nat /\ n > Top.at
    BY <1>3 DEF After, StepShape
<1>5. /\ Fine(f) /\ f.rule = Top.rule /\ f.phase \in {"steps", "done"}
      /\ f.node = Top.node /\ f.calm = Top.calm /\ f.text = Top.text
      /\ InScope(f) <=> Between(Top.rule, n, "enter", "leave")
      /\ InLoop(f) <=> Between(Top.rule, n, "loop", "unloop")
      /\ InStep(f) /\ AssignAhead(f.rule, f.at) <=> AssignAhead(Top.rule, n)
  <2>1. Rules[Top.rule].form = "scoped" /\ n <= 2 => Top.node = Null
      BY <1>2, <1>3, <1>4
  <2>. HIDE DEF InStep
  <2>. QED
      BY <1>1, <1>2, <2>1, OnwardFine
<1>. HIDE DEF f
<1>6. Step = StepsOf(Top.rule)[Top.at]
    BY DEF Step, Rule, StepsOf
<1>7. /\ Between(Top.rule, n, "enter", "leave") <=> Between(Top.rule, Top.at, "enter", "leave")
      /\ Between(Top.rule, n, "loop", "unloop") <=> Between(Top.rule, Top.at, "loop", "unloop")
      /\ AssignAhead(Top.rule, Top.at) => AssignAhead(Top.rule, n)
    BY <1>3, <1>6 DEF StepShape, Brackets, Plain
<1>8. Alike(f, Top)
    BY <1>5, <1>7 DEF Alike, InScope, InLoop, InStep
<1>9. Ahead(Top) => Ahead(f)
    BY <1>5, <1>7 DEF Ahead, InStep
<1>10. frames' = WithLast(frames, f)
    BY DEF f
<1>11. Noticed(f) \/ parsers'[1].errors > 0
  <2>1. parsers[1].errors \in Nat /\ parsers'[1].errors \in Nat
      BY <1>1, ParsersFineFacts DEF Forward, Shifts, ParserFine
  <2>. QED
      BY <1>1, <1>5, <2>1 DEF Noticed, Forward, Shifts
<1>. QED
    BY <1>5, <1>8, <1>9, <1>10, <1>11, GotoStep

(* A step of a rule that is no list of steps, or not yet in its list. *)
LEMMA Aside ==
    ASSUME ParserInv, Running, ~InStep(Top), Top.phase # "slice", ~Ahead(Top),
           NEW f, f.rule = Top.rule, ~InStep(f), f.phase # "slice"
    PROVE  Alike(f, Top) /\ (Ahead(Top) => Ahead(f))
PROOF
    BY DEF Alike, InScope, InLoop

LEMMA DoneStep ==
    ASSUME ParserInv, Running, ~InStep(Top), Top.phase # "slice", ~Ahead(Top),
           NEW m \in Nat, Top.rule = "module" => m # Null,
           frames' = WithLast(frames, Done(m)), answer' = Null, created' \in Nat,
           Forward(parsers, parsers'), Steady
    PROVE  ParserInv'
PROOF
<1>. DEFINE f == Done(m)
<1>1. Fine(Top) /\ ParsersFine(parsers) /\ (~Noticed(Top) => parsers[1].errors > 0)
    BY AtTop
<1>2. /\ DOMAIN f = DOMAIN Top /\ f.rule = Top.rule /\ f.at = Top.at /\ f.node = m
      /\ f.held = Null /\ f.phase = "done" /\ f.calm = Top.calm /\ f.text = Top.text
    BY <1>1 DEF Done, Fine
<1>3. frames' = WithLast(frames, f)
    BY DEF f
<1>. HIDE DEF f
<1>4. Fine(f)
    BY <1>1, <1>2 DEF Fine, Null, Waiting, Bare, Building
<1>5. Alike(f, Top) /\ (Ahead(Top) => Ahead(f))
    BY <1>2, Aside DEF InStep
<1>6. Noticed(f) \/ parsers'[1].errors > 0
  <2>1. parsers[1].errors \in Nat /\ parsers'[1].errors \in Nat
      BY <1>1, ParsersFineFacts DEF Forward, Shifts, ParserFine
  <2>. QED
      BY <1>1, <1>2, <2>1 DEF Noticed, Forward, Shifts
<1>. QED
    BY <1>2, <1>3, <1>4, <1>5, <1>6, GotoStep

(* A frame at the first step of its rule, with its node. *)
LEMMA FirstFine ==
    ASSUME NEW t, Fine(t), ~InStep(t), RuleShape(t.rule),
           Rules[t.rule].form \in {"construct", "suffix", "wrap"},
           NEW g, DOMAIN g = DOMAIN t, g.rule = t.rule, g.held = Null, g.calm = t.calm,
           g.text = t.text, g.node \in Nat, g.node # Null
    PROVE  LET f == Onward(g, 1)
           IN  /\ Fine(f) /\ f.rule = t.rule /\ f.phase \in {"steps", "done"}
               /\ f.node = g.node /\ f.calm = t.calm /\ f.text = t.text
               /\ ~InScope(f) /\ ~InLoop(f)
               /\ t.rule = "compound" => Ahead(f)
PROOF
<1>. DEFINE f == Onward(g, 1)
<1>1. /\ Len(StepsOf(t.rule)) \in Nat /\ DOMAIN StepsOf(t.rule) = 1 .. Len(StepsOf(t.rule))
    BY DEF RuleShape, IsList, StepsOf, Stepping
<1>2. /\ DOMAIN f = DOMAIN t /\ f.rule = t.rule /\ f.at = 1 /\ f.node = g.node
      /\ f.held = Null /\ f.text = t.text /\ f.calm = t.calm
      /\ f.phase = IF 1 > Len(StepsOf(t.rule)) THEN "done" ELSE "steps"
    BY DEF Onward, Fine, StepsOf
<1>. HIDE DEF f
<1>3. ~InScope(f) /\ ~InLoop(f)
    BY <1>1, <1>2 DEF InScope, InLoop, Between
<1>4. t.rule = "compound" => Ahead(f)
  <2>1. SUFFICES ASSUME t.rule = "compound" PROVE Ahead(f)
      OBVIOUS
  <2>2. AssignAhead(t.rule, 1) /\ 1 <= Len(StepsOf(t.rule))
      BY <1>1, <2>1, RulesAssumption DEF AssignAhead
  <2>. QED
      BY <1>1, <1>2, <2>1, <2>2 DEF Ahead, InStep
<1>5. Fine(f)
    BY <1>1, <1>2 DEF Fine, Null, Waiting, Bare, Building, StepsOf, Stepping
<1>. QED
    BY <1>2, <1>3, <1>4, <1>5 DEF f

\* What an action leaves alone.
LEMMA Idle ==
    ASSUME Otherwise
    PROVE  Steady /\ fault' = fault /\ UNCHANGED symbols
PROOF
    BY DEF Otherwise, SameScopes, SameFile, Steady

LEMMA BeginControl ==
    ASSUME ParserInv, Begin
    PROVE  ParserInv'
PROOF
<1>1. /\ Running /\ Top.phase = "enter" /\ Rule.form \in {"construct", "suffix", "chain"}
      /\ Otherwise /\ answer' = answer
    BY DEF Begin, In, At, OnlyFrames
<1>2. /\ Fine(Top) /\ RuleShape(Top.rule) /\ Top.rule \in DOMAIN Rules
      /\ created \in Nat /\ created + 1 # Null
      /\ answer = Null /\ ParsersFine(parsers) /\ AllReported(parsers) /\ frames # <<>>
      /\ ~Noticed(Top) => parsers[1].errors > 0
    BY <1>1, AtTop DEF Waiting
<1>3. Steady
    BY <1>1, Idle
<1>4. ~InStep(Top) /\ ~InScope(Top) /\ ~InLoop(Top) /\ Rule = Rules[Top.rule]
    BY <1>1 DEF InStep, InScope, InLoop, Rule
<1>5. CASE Starts(Rule.start)
  <2>1. Forward(parsers, parsers') /\ created' = created + 1
      BY <1>2, <1>5, ForwardRefl, AdvancedForward DEF Begin, NewAround
  <2>2. Noticed(Top) \/ parsers'[1].errors > 0
    <3>1. parsers[1].errors \in Nat /\ parsers'[1].errors \in Nat
        BY <1>2, <2>1, ParsersFineFacts DEF Forward, Shifts, ParserFine
    <3>. QED
        BY <1>2, <2>1, <3>1 DEF Forward, Shifts
  <2>3. CASE Rule.form = "chain"
    <3>. DEFINE f == [Top EXCEPT !.phase = "suffixes", !.node = created + 1]
    <3>1. frames' = WithLast(frames, f)
        BY <1>5, <2>3 DEF Begin, Goto
    <3>2. /\ DOMAIN f = DOMAIN Top /\ f.rule = Top.rule /\ f.at = Top.at
          /\ f.node = created + 1 /\ f.held = Top.held /\ f.phase = "suffixes"
          /\ f.calm = Top.calm /\ f.text = Top.text
        BY <1>2 DEF Fine
    <3>. HIDE DEF f
    <3>3. Fine(f)
        BY <1>1, <1>2, <1>4, <2>3, <3>2 DEF Fine, Null, Waiting, Bare, Building
    <3>4. Top.rule # "compound"
        BY <1>4, <2>3, RulesAssumption DEF Callable
    <3>5. Alike(f, Top) /\ (Ahead(Top) => Ahead(f))
        BY <1>1, <1>4, <3>2, <3>4, Aside DEF InStep, Ahead
    <3>6. Noticed(f) \/ parsers'[1].errors > 0
        BY <2>2, <3>2 DEF Noticed
    <3>. QED
        BY <1>1, <1>2, <1>3, <2>1, <3>1, <3>2, <3>3, <3>5, <3>6, GotoStep
  <2>4. CASE Rule.form # "chain"
    <3>. DEFINE g == [Top EXCEPT !.node = created + 1, !.held = Null]
                f == Onward(g, 1)
    <3>1. frames' = WithLast(frames, f)
        BY <1>5, <2>4 DEF Begin, Goto
    <3>2. /\ DOMAIN g = DOMAIN Top /\ g.rule = Top.rule /\ g.node = created + 1
          /\ g.held = Null /\ g.calm = Top.calm /\ g.text = Top.text
        BY <1>2 DEF Fine
    <3>. HIDE DEF g
    <3>3. /\ Fine(f) /\ f.rule = Top.rule /\ f.phase \in {"steps", "done"}
          /\ f.calm = Top.calm /\ f.text = Top.text /\ ~InScope(f) /\ ~InLoop(f)
          /\ Top.rule = "compound" => Ahead(f)
        BY <1>1, <1>2, <1>4, <2>4, <3>2, FirstFine
    <3>. HIDE DEF f
    <3>4. Alike(f, Top) /\ (Ahead(Top) => Ahead(f))
        BY <1>1, <1>4, <3>3 DEF Alike, Ahead
    <3>5. Noticed(f) \/ parsers'[1].errors > 0
        BY <2>2, <3>3 DEF Noticed
    <3>. QED
        BY <1>1, <1>2, <1>3, <2>1, <3>1, <3>3, <3>4, <3>5, GotoStep
  <2>. QED
      BY <2>3, <2>4
<1>6. CASE ~Starts(Rule.start)
  <2>1. /\ frames' = WithLast(frames, Done(Null)) /\ parsers' = parsers
        /\ created' = created
      BY <1>6 DEF Begin, Goto, SameTree
  <2>2. Rule.form # "suffix"
      BY <1>1, <1>2, <1>6 DEF ParserInv, FramesInv
  <2>3. Top.rule # "compound"
      BY <1>4, <2>2, RulesAssumption DEF Callable
  <2>4. Top.rule # "module"
      BY <1>4, <1>6, RulesAssumption DEF Starts
  <2>5. Forward(parsers, parsers')
      BY <1>2, <2>1, ForwardRefl
  <2>. QED
      BY <1>1, <1>2, <1>3, <1>4, <2>1, <2>3, <2>4, <2>5, DoneStep DEF Ahead, Null
<1>. QED
    BY <1>5, <1>6

LEMMA Looking ==
    ASSUME ParserInv, Running
    PROVE  /\ Forward(parsers, parsers) /\ Forward(parsers, Advanced(parsers))
           /\ Forward(parsers, Raised(parsers))
           /\ \A kind : Forward(parsers, Expected(parsers, kind))
           /\ \A kind : Forward(parsers, Matched(kind))
PROOF
<1>1. ParsersFine(parsers) /\ AllReported(parsers)
    BY AtTop
<1>2. Forward(parsers, parsers) /\ Forward(parsers, Advanced(parsers))
    BY <1>1, ForwardRefl, AdvancedForward
<1>. QED
    BY <1>1, <1>2, RaisedForward, ExpectedForward DEF Matched

LEMMA StillNoticed ==
    ASSUME ParserInv, Running, Forward(parsers, parsers')
    PROVE  Noticed(Top) \/ parsers'[1].errors > 0
PROOF
<1>1. ParsersFine(parsers) /\ (~Noticed(Top) => parsers[1].errors > 0)
    BY AtTop
<1>2. parsers[1].errors \in Nat /\ parsers'[1].errors \in Nat
    BY <1>1, ParsersFineFacts DEF Forward, Shifts, ParserFine
<1>. QED
    BY <1>1, <1>2 DEF Forward, Shifts

LEMMA AddedForward ==
    ASSUME ParserInv, Running, NEW h, NEW node, Added(h, node)
    PROVE  Forward(parsers, parsers')
PROOF
<1>1. parsers' \in {parsers, Raised(parsers)}
    BY DEF Added
<1>. QED
    BY <1>1, Looking

(* The actions that do one step of a list and go on to the next. *)
LEMMA NextControl ==
    ASSUME ParserInv, Running, Top.phase = "steps", Plain(Step.do),
           frames' = WithLast(frames, NextStep), answer' = answer,
           created' \in Nat, Forward(parsers, parsers'), Steady
    PROVE  ParserInv'
PROOF
<1>1. answer' = Null /\ InStep(Top)
    BY AtTop DEF Waiting, InStep
<1>2. Top.at + 1 \in After(Top.rule, Top.at)
    BY DEF After
<1>. QED
    BY <1>1, <1>2, StepOn DEF NextStep

LEMMA SameFramesStep ==
    ASSUME ParserInv, Running, Top.phase = "steps", UNCHANGED <<frames, answer>>,
           created' \in Nat, Forward(parsers, parsers'), Steady
    PROVE  ParserInv'
PROOF
<1>1. FramesInv'
    BY DEF ParserInv, FramesInv, Top, Rule
<1>2. SameStanding(frames, frames')
    BY DEF SameStanding
<1>3. frames' # <<>> /\ stage' = stage
    BY AtTop DEF Steady
<1>4. ParsersInv'
    BY <1>3, ParsersKept
<1>5. StreamsInv' /\ ScopesInv' /\ WithinInv'
    BY <1>2, StandingKept, StreamsKept DEF Steady, Forward
<1>6. Stages'
    BY AtTop DEF Steady, ParserInv, Stages
<1>. QED
    BY <1>1, <1>4, <1>5, <1>6 DEF ParserInv

LEMMA StepsControl ==
    ASSUME ParserInv,
           \/ ExpectToken \/ ReadText \/ LinkJump \/ Check \/ IndexList \/ DefaultRange
           \/ MarkScoped \/ Declare \/ Constructor \/ Iterator
    PROVE  ParserInv'
PROOF
<1>1. /\ Running /\ Top.phase = "steps" /\ Plain(Step.do)
      /\ frames' = WithLast(frames, NextStep) /\ answer' = answer
    BY DEF ExpectToken, ReadText, LinkJump, Check, IndexList, DefaultRange, MarkScoped,
           Declare, Constructor, Iterator, AtStep, At, Plain, Goto, OnlyFrames
<1>2. Steady
    BY DEF ExpectToken, ReadText, LinkJump, Check, IndexList, DefaultRange, MarkScoped,
           Declare, Constructor, Iterator, OnlyFrames, Otherwise, Steady, SameScopes, SameFile
<1>3. created \in Nat
    BY <1>1, AtTop
<1>4. created' \in Nat
    BY <1>3 DEF ExpectToken, ReadText, LinkJump, Check, IndexList, DefaultRange, MarkScoped,
           Declare, Constructor, Iterator, SameTree
<1>5. Forward(parsers, parsers')
  <2>1. CASE ExpectToken \/ ReadText
      BY <1>1, <2>1, Looking DEF ExpectToken, ReadText
  <2>2. CASE LinkJump \/ IndexList \/ DefaultRange \/ MarkScoped \/ Check
      BY <1>1, <2>2, Looking DEF LinkJump, IndexList, DefaultRange, MarkScoped, Check
  <2>3. CASE Declare \/ Constructor \/ Iterator
      BY <1>1, <2>3, AddedForward DEF Declare, Constructor, Iterator
  <2>. QED
      BY <2>1, <2>2, <2>3
<1>. QED
    BY <1>1, <1>2, <1>4, <1>5, NextControl

LEMMA JumpsControl ==
    ASSUME ParserInv, OptionalToken \/ Alias \/ Concat
    PROVE  ParserInv'
PROOF
<1>1. /\ Running /\ Top.phase = "steps" /\ Plain(Step.do) /\ answer' = answer
    BY DEF OptionalToken, Alias, Concat, AtStep, At, Plain, OnlyFrames
<1>2. Steady /\ created' = created
    BY DEF OptionalToken, Alias, Concat, OnlyFrames, Otherwise, Steady, SameScopes,
           SameFile, SameTree
<1>3. answer = Null /\ InStep(Top) /\ created \in Nat
    BY <1>1, AtTop DEF Waiting, InStep
<1>4. Forward(parsers, parsers')
    BY <1>1, Looking DEF OptionalToken, Alias, Concat
<1>5. CASE OptionalToken
  <2>1. {Top.at + 1, Top.at + 1 + Step.over} \subseteq After(Top.rule, Top.at)
      BY <1>5 DEF OptionalToken, AtStep, After, Step, Rule, StepsOf
  <2>2. \/ frames' = WithLast(frames, Onward(Top, Top.at + 1))
        \/ frames' = WithLast(frames, Onward(Top, Top.at + 1 + Step.over))
      BY <1>5 DEF OptionalToken, Goto, NextStep
  <2>. QED
      BY <1>1, <1>2, <1>3, <1>4, <2>1, <2>2, StepOn
<1>6. CASE Alias
  <2>1. {Top.at + 1, Top.at + 2} \subseteq After(Top.rule, Top.at)
      BY <1>6 DEF Alias, AtStep, After, Step, Rule, StepsOf
  <2>2. \/ frames' = WithLast(frames, Onward(Top, Top.at + 1))
        \/ frames' = WithLast(frames, Onward(Top, Top.at + 2))
      BY <1>6 DEF Alias, Goto, NextStep
  <2>. QED
      BY <1>1, <1>2, <1>3, <1>4, <2>1, <2>2, StepOn
<1>7. CASE Concat
  <2>1. CASE Fits("string")
    <3>1. frames' = frames
        BY <1>7, <2>1 DEF Concat
    <3>. QED
        BY <1>1, <1>2, <1>3, <1>4, <3>1, SameFramesStep
  <2>2. CASE ~Fits("string")
    <3>1. frames' = WithLast(frames, NextStep)
        BY <1>7, <2>2 DEF Concat, Goto
    <3>. QED
        BY <1>1, <1>2, <1>3, <1>4, <3>1, NextControl
  <2>. QED
      BY <2>1, <2>2
<1>. QED
    BY <1>5, <1>6, <1>7

LEMMA StepFacts ==
    ASSUME ParserInv, Running, InStep(Top)
    PROVE  /\ Step = StepsOf(Top.rule)[Top.at] /\ StepShape(Top.rule, Top.at)
           /\ Top.at \in Nat /\ Top.held = Null /\ Rule = Rules[Top.rule]
           /\ Top.at \in DOMAIN StepsOf(Top.rule)
           /\ \A i \in DOMAIN StepsOf(Top.rule) : StepShape(Top.rule, i)
           /\ Rule.form # "scoped" => Top.node # Null
PROOF
<1>1. Fine(Top) /\ RuleShape(Top.rule)
    BY AtTop
<1>2. /\ Rules[Top.rule].form \in Stepping /\ Top.at \in 1 .. Len(StepsOf(Top.rule))
      /\ Top.held = Null
    BY <1>1 DEF Fine, InStep, StepsOf
<1>. QED
    BY <1>1, <1>2 DEF RuleShape, IsList, StepsOf, Step, Rule, Fine, InStep

LEMMA CallChildControl ==
    ASSUME ParserInv, CallChild
    PROVE  ParserInv'
PROOF
<1>. DEFINE f == [Top EXCEPT !.phase = "child"]
<1>1. /\ Running /\ Top.phase = "steps" /\ Step.do \in {"child", "become"}
      /\ frames' = Append(WithLast(frames, f), Frame(Step.rule))
      /\ Otherwise /\ answer' = answer /\ created' = created /\ parsers' = parsers
    BY DEF CallChild, AtStep, At, OnlyFrames, SameTree, Call
<1>2. Steady /\ Forward(parsers, parsers') /\ InStep(Top)
    BY <1>1, Idle, Looking DEF InStep
<1>3. Fine(Top) /\ answer = Null /\ created \in Nat
    BY <1>1, AtTop DEF Waiting
<1>4. StepShape(Top.rule, Top.at) /\ Step = StepsOf(Top.rule)[Top.at]
    BY <1>1, <1>2, StepFacts
<1>5. Step.rule \in Callable
    BY <1>1, <1>4 DEF StepShape
<1>6. /\ DOMAIN f = DOMAIN Top /\ f.rule = Top.rule /\ f.at = Top.at
      /\ f.node = Top.node /\ f.held = Top.held /\ f.phase = "child"
      /\ f.calm = Top.calm /\ f.text = Top.text
    BY <1>3 DEF Fine
<1>. HIDE DEF f
<1>7. Fine(f)
    BY <1>1, <1>3, <1>4, <1>6 DEF Fine, Null, Waiting, Bare, Building
<1>8. Alike(f, Top) /\ (Ahead(Top) => Ahead(f))
    BY <1>1, <1>2, <1>6 DEF Alike, InScope, InLoop, InStep, Ahead
<1>9. Noticed(f) \/ parsers'[1].errors > 0
    BY <1>1, <1>2, <1>6, StillNoticed DEF Noticed
<1>. QED
    BY <1>1, <1>2, <1>3, <1>5, <1>6, <1>7, <1>8, <1>9, CallRule DEF Waiting

LEMMA TakeChildControl ==
    ASSUME ParserInv, TakeChild
    PROVE  ParserInv'
PROOF
<1>1. /\ Running /\ Top.phase = "child" /\ Otherwise /\ answer' = Null
      /\ created' = created /\ parsers' = parsers
    BY DEF TakeChild, At, Taking
<1>2. Steady /\ Forward(parsers, parsers') /\ InStep(Top) /\ created' \in Nat
    BY <1>1, Idle, Looking, AtTop DEF InStep
<1>3. Fine(Top) /\ RuleShape(Top.rule) /\ answer \in Nat
    BY <1>1, AtTop
<1>4. /\ StepShape(Top.rule, Top.at) /\ Step = StepsOf(Top.rule)[Top.at] /\ Top.at \in Nat
      /\ Top.held = Null /\ Rule = Rules[Top.rule]
      /\ Top.at \in DOMAIN StepsOf(Top.rule)
      /\ \A i \in DOMAIN StepsOf(Top.rule) : StepShape(Top.rule, i)
    BY <1>1, <1>2, StepFacts
<1>5. Step.do \in {"child", "become"} /\ Plain(Step.do)
    BY <1>1, <1>3, <1>4 DEF Fine, Plain
<1>6. Top.at + 1 \in After(Top.rule, Top.at)
    BY DEF After
<1>7. CASE Step.do # "become"
  <2>1. frames' = WithLast(frames, Onward(Top, Top.at + 1))
      BY <1>7 DEF TakeChild, Goto, NextStep
  <2>. QED
      BY <1>1, <1>2, <1>5, <1>6, <2>1, StepOn
<1>8. CASE Step.do = "become"
  <2>. DEFINE g == [Top EXCEPT !.node = answer]
              f == Onward(g, Top.at + 1)
  <2>1. frames' = WithLast(frames, f)
      BY <1>8 DEF TakeChild, Goto
  <2>2. /\ DOMAIN g = DOMAIN Top /\ g.rule = Top.rule /\ g.node = answer
        /\ g.held = Null /\ g.calm = Top.calm /\ g.text = Top.text
      BY <1>3, <1>4 DEF Fine
  <2>. HIDE DEF g
  <2>3. Rules[Top.rule].form = "scoped" /\ Top.at = 2
      BY <1>4, <1>8 DEF StepShape
  <2>4. /\ Fine(f) /\ f.rule = Top.rule /\ f.phase \in {"steps", "done"}
        /\ f.calm = Top.calm /\ f.text = Top.text
        /\ InScope(f) <=> Between(Top.rule, Top.at + 1, "enter", "leave")
        /\ InLoop(f) <=> Between(Top.rule, Top.at + 1, "loop", "unloop")
      BY <1>2, <1>3, <1>6, <2>2, <2>3, OnwardFine
  <2>. HIDE DEF f
  <2>5. /\ InScope(f) <=> InScope(Top)
        /\ InLoop(f) <=> InLoop(Top)
      BY <1>2, <1>4, <1>5, <1>6, <2>4 DEF StepShape, Brackets, Plain, InScope, InLoop
  <2>6. ~InScope(Top)
      BY <1>4, <2>3 DEF InScope, Between, StepShape
  <2>7. Top.rule # "compound"
      BY <2>3, RulesAssumption DEF Callable
  <2>8. Alike(f, Top) /\ (Ahead(Top) => Ahead(f))
      BY <1>1, <2>4, <2>5, <2>6, <2>7 DEF Alike, Ahead
  <2>9. Noticed(f) \/ parsers'[1].errors > 0
      BY <1>1, <1>2, <2>4, StillNoticed DEF Noticed
  <2>. QED
      BY <1>1, <1>2, <2>1, <2>4, <2>8, <2>9, GotoStep
<1>. QED
    BY <1>7, <1>8

(* Rules that are no lists of steps: what their frames have in common. *)
LEMMA AsideFacts ==
    ASSUME ParserInv, Running, Rule.form \notin {"construct", "suffix", "wrap", "scoped"}
    PROVE  /\ ~InStep(Top) /\ ~InScope(Top) /\ ~InLoop(Top) /\ ~Ahead(Top)
           /\ Top.rule \notin {"module", "compound"} /\ Rule = Rules[Top.rule]
           /\ RuleShape(Top.rule) /\ Fine(Top)
PROOF
<1>1. Fine(Top) /\ RuleShape(Top.rule) /\ Rule = Rules[Top.rule]
    BY AtTop DEF Rule
<1>2. ~InStep(Top)
    BY <1>1 DEF Fine, InStep, Stepping
<1>3. Top.rule \notin {"module", "compound"}
    BY <1>1, RulesAssumption DEF Callable
<1>. QED
    BY <1>1, <1>2, <1>3 DEF InScope, InLoop, Ahead

(* The changes of a frame whose rule is no list: it goes on, or calls. *)
LEMMA AsideGoto ==
    ASSUME ParserInv, Running, ~InStep(Top), ~Ahead(Top), Top.phase # "slice",
           NEW f, Fine(f), f.rule = Top.rule, f.calm = Top.calm,
           f.phase \notin {"steps", "child", "slice", "assigned"},
           ~(f.phase = "enter" /\ Rules[f.rule].form = "suffix"),
           Rules[f.rule].form = "many" => f.text = Top.text,
           frames' = WithLast(frames, f), answer' = Null, created' \in Nat,
           Forward(parsers, parsers'), Steady
    PROVE  ParserInv'
PROOF
<1>1. Alike(f, Top) /\ (Ahead(Top) => Ahead(f))
    BY Aside DEF InStep
<1>2. Noticed(f) \/ parsers'[1].errors > 0
    BY StillNoticed DEF Noticed
<1>. QED
    BY <1>1, <1>2, GotoStep

LEMMA AsideCall ==
    ASSUME ParserInv, Running, ~InStep(Top), ~Ahead(Top), Top.phase # "slice",
           NEW f, Fine(f), f.rule = Top.rule, f.calm = Top.calm,
           f.phase \in Waiting \ {"child", "slice"},
           ~(f.phase = "assigned" /\ f.held # Null),
           Rules[f.rule].form = "many" => f.text = Top.text,
           NEW r \in Callable,
           frames' = Append(WithLast(frames, f), Frame(r)), answer' = Null,
           created' \in Nat, Forward(parsers, parsers'), Steady
    PROVE  ParserInv'
PROOF
<1>1. Alike(f, Top) /\ (Ahead(Top) => Ahead(f))
    BY Aside DEF InStep, Waiting
<1>2. Noticed(f) \/ parsers'[1].errors > 0
    BY StillNoticed DEF Noticed
<1>. QED
    BY <1>1, <1>2, CallRule

LEMMA ChooseControl ==
    ASSUME ParserInv, Choose
    PROVE  ParserInv'
PROOF
<1>1. /\ Running
      /\ \/ Top.phase = "enter" /\ Rule.form = "choice"
         \/ Top.phase = "choose" /\ Rule.form = "definition"
      /\ Otherwise /\ answer' = answer /\ created' = created
    BY DEF Choose, In, At, OnlyFrames, SameTree
<1>2. /\ ~InStep(Top) /\ ~Ahead(Top) /\ Top.rule \notin {"module", "compound"}
      /\ Rule = Rules[Top.rule] /\ RuleShape(Top.rule) /\ Fine(Top)
    BY <1>1, AsideFacts
<1>3. Steady /\ answer' = Null /\ created' \in Nat
    BY <1>1, Idle, AtTop DEF Waiting
<1>4. Top.node = Null /\ Top.held = Null
    BY <1>1, <1>2 DEF Fine, Bare, Null
<1>. DEFINE left == {i \in Top.at .. Len(Rule.of) : Starts(Rules[Rule.of[i]].start)}
<1>5. ASSUME NEW first \in left,
             frames' = Append(WithLast(frames, [Top EXCEPT !.phase = "chosen", !.at = first + 1]),
                              Frame(Rule.of[first])),
             UNCHANGED parsers
      PROVE  ParserInv'
  <2>. DEFINE f == [Top EXCEPT !.phase = "chosen", !.at = first + 1]
  <2>1. /\ first \in Nat /\ first \in DOMAIN Rule.of /\ Rule.of[first] \in Callable
      BY <1>1, <1>2 DEF Fine, RuleShape, IsList
  <2>2. /\ DOMAIN f = DOMAIN Top /\ f.rule = Top.rule /\ f.at = first + 1
        /\ f.node = Top.node /\ f.held = Top.held /\ f.phase = "chosen"
        /\ f.calm = Top.calm /\ f.text = Top.text
      BY <1>2 DEF Fine
  <2>3. frames' = Append(WithLast(frames, f), Frame(Rule.of[first]))
      BY <1>5
  <2>. HIDE DEF f
  <2>4. Fine(f)
      BY <1>1, <1>2, <1>4, <2>1, <2>2 DEF Fine, Null, Waiting, Bare, Building
  <2>5. Forward(parsers, parsers')
      BY <1>1, <1>5, Looking
  <2>. QED
      BY <1>1, <1>2, <1>3, <2>1, <2>2, <2>3, <2>4, <2>5, AsideCall DEF Waiting
<1>6. CASE left = {} /\ frames' = WithLast(frames, Done(Null))
           /\ parsers' = IF Calm /\ Top.text # "none" THEN Raised(parsers) ELSE parsers
  <2>1. Forward(parsers, parsers')
      BY <1>1, <1>6, Looking
  <2>. QED
      BY <1>1, <1>2, <1>3, <1>6, <2>1, DoneStep DEF Null
<1>. QED
    BY <1>5, <1>6 DEF Choose, Call, Goto

LEMMA TakeChosenControl ==
    ASSUME ParserInv, TakeChosen
    PROVE  ParserInv'
PROOF
<1>1. /\ Running /\ Top.phase = "chosen" /\ Otherwise /\ answer' = Null
      /\ created' = created /\ parsers' = parsers
    BY DEF TakeChosen, At, Taking, SameTree
<1>2. Rule.form \in {"choice", "definition"}
    BY <1>1, AtTop DEF Fine, Rule
<1>3. /\ ~InStep(Top) /\ ~Ahead(Top) /\ Top.rule \notin {"module", "compound"}
      /\ Rule = Rules[Top.rule] /\ Fine(Top)
    BY <1>1, <1>2, AsideFacts
<1>4. Steady /\ created' \in Nat /\ Forward(parsers, parsers') /\ answer \in Nat
    BY <1>1, Idle, AtTop, Looking
<1>5. Top.node = Null /\ Top.held = Null
    BY <1>1, <1>3 DEF Fine, Bare, Null
<1>6. ASSUME NEW ph \in {"enter", "choose", "define"}, NEW m \in Nat,
             NEW f, f = [Top EXCEPT !.phase = ph, !.node = m],
             ph = "enter" => Rule.form = "choice", ph # "enter" => Rule.form = "definition",
             (ph = "define") <=> (m # Null), frames' = WithLast(frames, f)
      PROVE  ParserInv'
  <2>2. /\ DOMAIN f = DOMAIN Top /\ f.rule = Top.rule /\ f.at = Top.at
        /\ f.node = m /\ f.held = Top.held /\ f.phase = ph
        /\ f.calm = Top.calm /\ f.text = Top.text
      BY <1>3, <1>6 DEF Fine
  <2>4. Fine(f)
      BY <1>1, <1>3, <1>5, <1>6, <2>2 DEF Fine, Null, Waiting, Bare, Building
  <2>. QED
      BY <1>1, <1>2, <1>3, <1>4, <1>6, <2>2, <2>4, AsideGoto
<1>7. CASE frames' = WithLast(frames, Done(answer))
    BY <1>1, <1>3, <1>4, <1>7, DoneStep
<1>8. CASE Rule.form = "choice" /\ answer = Null
  <2>. DEFINE f == [Top EXCEPT !.phase = "enter", !.node = Null]
              e == [Top EXCEPT !.phase = "enter"]
  <2>1. frames' = WithLast(frames, e)
      BY <1>8 DEF TakeChosen, Goto
  <2>2. f = e
      BY <1>3, <1>5 DEF Fine
  <2>. HIDE DEF e
  <2>. QED
      BY <1>6, <1>8, <2>1, <2>2 DEF Null
<1>9. CASE Rule.form = "definition"
  <2>. DEFINE ph == IF answer = Null THEN "choose" ELSE "define"
  <2>1. frames' = WithLast(frames, [Top EXCEPT !.phase = ph, !.node = answer])
      BY <1>9 DEF TakeChosen, Goto
  <2>. QED
      BY <1>4, <1>6, <1>9, <2>1
<1>. QED
    BY <1>2, <1>7, <1>8, <1>9 DEF TakeChosen, Goto

LEMMA ReadVisibilityControl ==
    ASSUME ParserInv, ReadVisibility
    PROVE  ParserInv'
PROOF
<1>1. /\ Running /\ Top.phase = "enter" /\ Rule.form = "definition"
      /\ Otherwise /\ answer' = answer /\ created' = created
    BY DEF ReadVisibility, In, At, OnlyFrames, SameTree
<1>2. /\ ~InStep(Top) /\ ~Ahead(Top) /\ Rule = Rules[Top.rule] /\ Fine(Top)
    BY <1>1, AsideFacts
<1>3. Steady /\ answer' = Null /\ created' \in Nat
    BY <1>1, Idle, AtTop DEF Waiting
<1>4. Forward(parsers, parsers')
    BY <1>1, Looking DEF ReadVisibility
<1>5. PICK f : /\ frames' = WithLast(frames, f)
               /\ f \in {[Top EXCEPT !.phase = "choose", !.text = Current],
                         [Top EXCEPT !.phase = "choose"]}
    BY DEF ReadVisibility, Goto
<1>6. /\ DOMAIN f = DOMAIN Top /\ f.rule = Top.rule /\ f.at = Top.at
      /\ f.node = Top.node /\ f.held = Top.held /\ f.phase = "choose" /\ f.calm = Top.calm
    BY <1>2, <1>5 DEF Fine
<1>7. Fine(f)
    BY <1>1, <1>2, <1>6 DEF Fine, Null, Waiting, Bare, Building
<1>. QED
    BY <1>1, <1>2, <1>3, <1>4, <1>5, <1>6, <1>7, AsideGoto

(* The frame of a suffix, around the node it was called with. *)
LEMMA SuffixFine ==
    ASSUME NEW r \in DOMAIN Rules, Rules[r].form = "suffix", NEW h \in Nat, h # Null,
           NEW g, DOMAIN g = {"rule", "at", "node", "held", "text", "phase", "calm"},
           g.rule = r, g.at = 1, g.node = Null, g.held = h, g.phase = "enter",
           g.calm = TRUE, g.text = "none"
    PROVE  Fine(g) /\ ~InScope(g) /\ Noticed(g)
PROOF
<1>1. g.at \in Nat \ {0} /\ g.node \in Nat /\ g.calm \in BOOLEAN
  <2>1. g.calm \in BOOLEAN
      BY Zenon
  <2>. QED
      BY <2>1 DEF Null
<1>2. Fine(g)
    BY <1>1 DEF Fine, Waiting, Bare, Building
<1>. QED
    BY <1>2 DEF InScope, InStep, Noticed

LEMMA TakeSuffixControl ==
    ASSUME ParserInv, TakeSuffix
    PROVE  ParserInv'
PROOF
<1>1. /\ Running /\ Top.phase = "suffixes" /\ Rule.form = "chain"
      /\ Otherwise /\ answer' = answer /\ created' = created /\ parsers' = parsers
    BY DEF TakeSuffix, In, At, OnlyFrames, SameTree
<1>2. /\ ~InStep(Top) /\ ~Ahead(Top) /\ Rule = Rules[Top.rule] /\ Fine(Top)
      /\ RuleShape(Top.rule)
    BY <1>1, AsideFacts
<1>3. Steady /\ answer' = Null /\ created' \in Nat /\ Forward(parsers, parsers')
    BY <1>1, Idle, AtTop, Looking DEF Waiting
<1>4. Top.node \in Nat \ {Null} /\ Top.held = Null
    BY <1>1, <1>2 DEF Fine, Building
<1>5. CASE frames' = WithLast(frames, Done(Top.node))
    BY <1>1, <1>2, <1>3, <1>4, <1>5, DoneStep DEF InStep
<1>6. ASSUME NEW r \in ToSet(Rule.of), Starts(Rules[r].start),
             frames' = Append(WithLast(frames, [Top EXCEPT !.phase = "suffixed", !.node = Null]),
                              [Frame(r) EXCEPT !.held = Top.node])
      PROVE  ParserInv'
  <2>. DEFINE f == [Top EXCEPT !.phase = "suffixed", !.node = Null]
              g == [Frame(r) EXCEPT !.held = Top.node]
  <2>1. /\ DOMAIN f = DOMAIN Top /\ f.rule = Top.rule /\ f.at = Top.at
        /\ f.node = Null /\ f.held = Top.held /\ f.phase = "suffixed"
        /\ f.calm = Top.calm /\ f.text = Top.text
      BY <1>2 DEF Fine
  <2>2. r \in DOMAIN Rules /\ r # "compound" /\ Rules[r].form = "suffix"
      BY <1>1, <1>2 DEF RuleShape, IsList, ToSet
  <2>3. /\ DOMAIN g = {"rule", "at", "node", "held", "text", "phase", "calm"}
        /\ g.rule = r /\ g.at = 1 /\ g.node = Null /\ g.held = Top.node
        /\ g.phase = "enter" /\ g.calm = TRUE /\ g.text = "none"
      BY <2>2 DEF Frame
  <2>. HIDE DEF f, g
  <2>4. Fine(f)
      BY <1>1, <1>2, <1>4, <2>1 DEF Fine, Null, Waiting, Bare, Building
  <2>5. Fine(g) /\ ~InScope(g) /\ Noticed(g)
      BY <1>4, <2>2, <2>3, SuffixFine
  <2>7. Alike(f, Top) /\ (Ahead(Top) => Ahead(f))
      BY <1>1, <1>2, <2>1, Aside DEF InStep
  <2>8. Noticed(f) \/ parsers'[1].errors > 0
      BY <1>1, <1>3, <2>1, StillNoticed DEF Noticed
  <2>9. frames' = Append(WithLast(frames, f), g)
      BY <1>6 DEF f, g
  <2>10. /\ f.phase \in Waiting /\ ~(f.phase = "assigned" /\ f.held # Null)
         /\ g.rule # "compound" /\ g.phase \in {"enter", "steps"}
         /\ Rules[g.rule].form = "suffix" => Starts(Rules[g.rule].start) /\ UNCHANGED parsers
      BY <1>1, <1>6, <2>1, <2>2, <2>3 DEF Waiting
  <2>. QED
      BY <1>1, <1>3, <2>4, <2>5, <2>7, <2>8, <2>9, <2>10, CallStep
<1>. QED
    BY <1>5, <1>6 DEF TakeSuffix, Call, Goto

LEMMA TakeSuffixedControl ==
    ASSUME ParserInv, TakeSuffixed
    PROVE  ParserInv'
PROOF
<1>1. /\ Running /\ Top.phase = "suffixed" /\ Otherwise /\ answer' = Null
      /\ created' = created /\ parsers' = parsers
    BY DEF TakeSuffixed, At, Taking, SameTree
<1>2. Rule.form = "chain"
    BY <1>1, AtTop DEF Fine, Rule
<1>3. /\ ~InStep(Top) /\ ~Ahead(Top) /\ Top.rule \notin {"module", "compound"}
      /\ Rule = Rules[Top.rule] /\ Fine(Top)
    BY <1>1, <1>2, AsideFacts
<1>4. Steady /\ created' \in Nat /\ Forward(parsers, parsers') /\ answer \in Nat
    BY <1>1, Idle, AtTop, Looking
<1>5. CASE answer = Null
  <2>1. frames' = WithLast(frames, Done(Null))
      BY <1>5 DEF TakeSuffixed, Goto
  <2>. QED
      BY <1>1, <1>3, <1>4, <2>1, DoneStep DEF Null
<1>6. CASE answer # Null
  <2>. DEFINE f == [Top EXCEPT !.phase = "suffixes", !.node = answer]
  <2>1. frames' = WithLast(frames, f)
      BY <1>6 DEF TakeSuffixed, Goto
  <2>2. /\ DOMAIN f = DOMAIN Top /\ f.rule = Top.rule /\ f.at = Top.at
        /\ f.node = answer /\ f.held = Top.held /\ f.phase = "suffixes" /\ f.calm = Top.calm
      BY <1>3 DEF Fine
  <2>. HIDE DEF f
  <2>3. Fine(f)
      BY <1>1, <1>2, <1>3, <1>4, <1>6, <2>2 DEF Fine, Null, Waiting, Bare, Building
  <2>. QED
      BY <1>1, <1>2, <1>3, <1>4, <2>1, <2>2, <2>3, AsideGoto
<1>. QED
    BY <1>5, <1>6

LEMMA DefineControl ==
    ASSUME ParserInv, Define
    PROVE  ParserInv'
PROOF
<1>1. /\ Running /\ Top.phase = "define" /\ answer' = answer /\ created' = created
      /\ frames' = WithLast(frames, Done(Top.node)) /\ Added(heap, Top.node)
    BY DEF Define, At, Goto
<1>2. Rule.form = "definition"
    BY <1>1, AtTop DEF Fine, Rule
<1>3. /\ ~InStep(Top) /\ ~Ahead(Top) /\ Top.rule \notin {"module", "compound"} /\ Fine(Top)
    BY <1>1, <1>2, AsideFacts
<1>4. Steady
    BY DEF Define, Steady, SameFile
<1>5. answer' = Null /\ created' \in Nat /\ Forward(parsers, parsers')
    BY <1>1, AtTop, AddedForward DEF Waiting
<1>6. Top.node \in Nat
    BY <1>3 DEF Fine
<1>. QED
    BY <1>1, <1>3, <1>4, <1>5, <1>6, DoneStep

LEMMA CallOperandControl ==
    ASSUME ParserInv, CallOperand
    PROVE  ParserInv'
PROOF
<1>. DEFINE f == [Top EXCEPT !.phase = "left"]
<1>1. /\ Running /\ Top.phase = "enter" /\ Rule.form = "level" /\ Otherwise
      /\ answer' = answer /\ created' = created /\ parsers' = parsers
      /\ frames' = Append(WithLast(frames, f), Frame(Rule.operand))
    BY DEF CallOperand, In, At, OnlyFrames, SameTree, Call
<1>2. /\ ~InStep(Top) /\ ~Ahead(Top) /\ Rule = Rules[Top.rule] /\ Fine(Top)
      /\ RuleShape(Top.rule)
    BY <1>1, AsideFacts
<1>3. Steady /\ answer' = Null /\ created' \in Nat /\ Forward(parsers, parsers')
    BY <1>1, Idle, AtTop, Looking DEF Waiting
<1>4. Rule.operand \in Callable
    BY <1>1, <1>2 DEF RuleShape
<1>5. /\ DOMAIN f = DOMAIN Top /\ f.rule = Top.rule /\ f.at = Top.at
      /\ f.node = Top.node /\ f.held = Top.held /\ f.phase = "left"
      /\ f.calm = Top.calm /\ f.text = Top.text
    BY <1>2 DEF Fine
<1>. HIDE DEF f
<1>6. Fine(f)
    BY <1>1, <1>2, <1>5 DEF Fine, Null, Waiting, Bare, Building
<1>. QED
    BY <1>1, <1>2, <1>3, <1>4, <1>5, <1>6, AsideCall DEF Waiting

LEMMA TakeLeftControl ==
    ASSUME ParserInv, TakeLeft
    PROVE  ParserInv'
PROOF
<1>1. /\ Running /\ Top.phase = "left" /\ Otherwise /\ answer' = Null /\ created' = created
    BY DEF TakeLeft, At, Taking, SameTree
<1>2. Rule.form = "level"
    BY <1>1, AtTop DEF Fine, Rule
<1>3. /\ ~InStep(Top) /\ ~Ahead(Top) /\ Top.rule \notin {"module", "compound"}
      /\ Rule = Rules[Top.rule] /\ Fine(Top) /\ RuleShape(Top.rule)
    BY <1>1, <1>2, AsideFacts
<1>4. Steady /\ created' \in Nat /\ Forward(parsers, parsers') /\ answer \in Nat
    BY <1>1, Idle, AtTop, Looking DEF TakeLeft
<1>5. CASE \E operator \in Rule.operators : Fits(operator)
  <2>. DEFINE f == [Top EXCEPT !.phase = "right", !.held = answer, !.text = Current]
  <2>1. frames' = Append(WithLast(frames, f), Frame(Rule.self))
      BY <1>5 DEF TakeLeft, Call
  <2>2. Rule.self \in Callable
      BY <1>2, <1>3 DEF RuleShape
  <2>3. /\ DOMAIN f = DOMAIN Top /\ f.rule = Top.rule /\ f.at = Top.at
        /\ f.node = Top.node /\ f.held = answer /\ f.phase = "right" /\ f.calm = Top.calm
      BY <1>3 DEF Fine
  <2>. HIDE DEF f
  <2>4. Fine(f)
      BY <1>1, <1>2, <1>3, <1>4, <2>3 DEF Fine, Null, Waiting, Bare, Building
  <2>. QED
      BY <1>1, <1>2, <1>3, <1>4, <2>1, <2>2, <2>3, <2>4, AsideCall DEF Waiting
<1>6. CASE ~ \E operator \in Rule.operators : Fits(operator)
  <2>1. frames' = WithLast(frames, Done(answer))
      BY <1>6 DEF TakeLeft, Goto
  <2>. QED
      BY <1>1, <1>3, <1>4, <2>1, DoneStep
<1>. QED
    BY <1>5, <1>6

LEMMA TakeRightControl ==
    ASSUME ParserInv, TakeRight
    PROVE  ParserInv'
PROOF
<1>1. /\ Running /\ Top.phase = "right" /\ Otherwise /\ answer' = Null
      /\ created' = created + 1 /\ parsers' = parsers
      /\ frames' = WithLast(frames, Done(created + 1))
    BY DEF TakeRight, At, Taking, Goto
<1>2. Rule.form = "level"
    BY <1>1, AtTop DEF Fine, Rule
<1>3. ~InStep(Top) /\ ~Ahead(Top) /\ Top.rule \notin {"module", "compound"}
    BY <1>1, <1>2, AsideFacts
<1>4. Steady /\ created' \in Nat /\ Forward(parsers, parsers') /\ created + 1 \in Nat
    BY <1>1, Idle, AtTop, Looking
<1>. QED
    BY <1>1, <1>3, <1>4, DoneStep

LEMMA CallFirstControl ==
    ASSUME ParserInv, CallFirst
    PROVE  ParserInv'
PROOF
<1>. DEFINE f == [Top EXCEPT !.phase = "first"]
<1>1. /\ Running /\ Top.phase = "enter" /\ Rule.form = "wrap" /\ Otherwise
      /\ answer' = answer /\ created' = created /\ parsers' = parsers
      /\ frames' = Append(WithLast(frames, f), Frame(Rule.first))
    BY DEF CallFirst, In, At, OnlyFrames, SameTree, Call
<1>2. Fine(Top) /\ RuleShape(Top.rule) /\ Rule = Rules[Top.rule]
    BY <1>1, AtTop DEF Rule
<1>3. Steady /\ answer' = Null /\ created' \in Nat /\ Forward(parsers, parsers')
    BY <1>1, Idle, AtTop, Looking DEF Waiting
<1>4. Rule.first \in Callable /\ Top.rule # "compound"
    BY <1>1, <1>2, RulesAssumption DEF RuleShape, Callable
<1>5. /\ DOMAIN f = DOMAIN Top /\ f.rule = Top.rule /\ f.at = Top.at
      /\ f.node = Top.node /\ f.held = Top.held /\ f.phase = "first"
      /\ f.calm = Top.calm /\ f.text = Top.text
    BY <1>2 DEF Fine
<1>. HIDE DEF f
<1>6. Fine(f)
    BY <1>1, <1>2, <1>5 DEF Fine, Null, Waiting, Bare, Building
<1>7. ~InStep(Top) /\ ~Ahead(Top)
    BY <1>1, <1>4 DEF InStep, Ahead
<1>. QED
    BY <1>1, <1>3, <1>4, <1>5, <1>6, <1>7, AsideCall DEF Waiting

LEMMA TakeFirstControl ==
    ASSUME ParserInv, TakeFirst
    PROVE  ParserInv'
PROOF
<1>1. /\ Running /\ Top.phase = "first" /\ Otherwise /\ answer' = Null /\ parsers' = parsers
    BY DEF TakeFirst, At, Taking
<1>2. /\ Fine(Top) /\ RuleShape(Top.rule) /\ Rule = Rules[Top.rule] /\ Rule.form = "wrap"
      /\ created \in Nat /\ created + 1 # Null
    BY <1>1, AtTop DEF Rule, Fine
<1>3. Top.rule \notin {"module", "compound"}
    BY <1>2, RulesAssumption DEF Callable
<1>4. ~InStep(Top) /\ ~Ahead(Top) /\ ~InScope(Top) /\ ~InLoop(Top)
    BY <1>1, <1>3 DEF InStep, Ahead, InScope, InLoop
<1>5. Steady /\ Forward(parsers, parsers')
    BY <1>1, Idle, Looking
<1>6. CASE answer = Null
  <2>1. frames' = WithLast(frames, Done(Null)) /\ created' = created
      BY <1>6 DEF TakeFirst, Goto, SameTree
  <2>. QED
      BY <1>1, <1>2, <1>3, <1>4, <1>5, <2>1, DoneStep DEF Null
<1>7. CASE answer # Null
  <2>. DEFINE g == [Top EXCEPT !.node = created + 1]
              f == Onward(g, 1)
  <2>1. frames' = WithLast(frames, f) /\ created' = created + 1
      BY <1>7 DEF TakeFirst, Goto, NewAround
  <2>2. /\ DOMAIN g = DOMAIN Top /\ g.rule = Top.rule /\ g.node = created + 1
        /\ g.held = Null /\ g.calm = Top.calm /\ g.text = Top.text
      BY <1>1, <1>2 DEF Fine
  <2>. HIDE DEF g
  <2>3. /\ Fine(f) /\ f.rule = Top.rule /\ f.phase \in {"steps", "done"}
        /\ f.calm = Top.calm /\ f.text = Top.text /\ ~InScope(f) /\ ~InLoop(f)
      BY <1>2, <1>4, <2>2, FirstFine
  <2>. HIDE DEF f
  <2>4. Alike(f, Top) /\ (Ahead(Top) => Ahead(f))
      BY <1>1, <1>4, <2>3 DEF Alike
  <2>5. Noticed(f) \/ parsers'[1].errors > 0
      BY <1>1, <1>5, <2>3, StillNoticed DEF Noticed
  <2>. QED
      BY <1>1, <1>2, <1>5, <2>1, <2>3, <2>4, <2>5, GotoStep
<1>. QED
    BY <1>6, <1>7

LEMMA BeginManyControl ==
    ASSUME ParserInv, BeginMany
    PROVE  ParserInv'
PROOF
<1>1. /\ Running /\ Top.phase = "enter" /\ Rule.form = "many" /\ Otherwise
      /\ answer' = answer
    BY DEF BeginMany, In, At, OnlyFrames
<1>2. /\ ~InStep(Top) /\ ~Ahead(Top) /\ Top.rule \notin {"module", "compound"}
      /\ Rule = Rules[Top.rule] /\ Fine(Top) /\ RuleShape(Top.rule)
    BY <1>1, AsideFacts
<1>3. Steady /\ answer' = Null /\ created \in Nat /\ created + 1 # Null
    BY <1>1, Idle, AtTop DEF Waiting
<1>4. CASE Starts(Rule.start)
  <2>. DEFINE ff == [Top EXCEPT !.node = created + 1, !.calm = Last(parsers').calm]
              f == [ff EXCEPT !.phase = "item"]
  <2>1. /\ frames' = Append(WithLast(frames, f), Frame(Rule.of)) /\ created' = created + 1
        /\ parsers' \in {parsers, Advanced(parsers)}
      BY <1>4 DEF BeginMany, CallItem, Call
  <2>2. Rule.of \in Callable
      BY <1>1, <1>2 DEF RuleShape
  <2>4. /\ DOMAIN f = DOMAIN Top /\ f.rule = Top.rule /\ f.at = Top.at
        /\ f.node = created + 1 /\ f.held = Top.held /\ f.phase = "item"
        /\ f.calm = Last(parsers').calm /\ f.text = Top.text
      BY <1>2 DEF Fine
  <2>. HIDE DEF f
  <2>5. Forward(parsers, parsers')
      BY <1>1, <2>1, Looking
  <2>3. /\ Last(parsers').calm \in BOOLEAN
        /\ Last(parsers').calm \/ parsers'[1].errors > 0
    <3>1. ParsersFine(parsers')
        BY <1>1, <2>5, AtTop DEF Forward, Shifts, ParsersFine
    <3>. QED
        BY <2>5, <3>1, ParsersFineFacts DEF Forward, ParserFine, AllReported
  <2>6. Fine(f)
      BY <1>1, <1>2, <1>3, <2>3, <2>4 DEF Fine, Null, Waiting, Bare, Building
  <2>7. Alike(f, Top) /\ (Ahead(Top) => Ahead(f))
      BY <1>1, <1>2, <2>4, Aside DEF InStep
  <2>8. Noticed(f) \/ parsers'[1].errors > 0
      BY <1>1, <1>2, <2>3, <2>4, <2>5, StillNoticed DEF Noticed
  <2>. QED
      BY <1>1, <1>3, <2>1, <2>2, <2>4, <2>5, <2>6, <2>7, <2>8, CallRule DEF Waiting
<1>5. CASE ~Starts(Rule.start)
  <2>1. frames' = WithLast(frames, Done(Null)) /\ created' = created /\ parsers' = parsers
      BY <1>5 DEF BeginMany, Goto, SameTree
  <2>2. Forward(parsers, parsers')
      BY <1>1, <2>1, Looking
  <2>. QED
      BY <1>1, <1>2, <1>3, <2>1, <2>2, DoneStep DEF Null
<1>. QED
    BY <1>4, <1>5

(* Recovery makes the last parser calm again and skips a token. *)
LEMMA CalmAgain ==
    ASSUME NEW ps, ParsersFine(ps), ps[1].errors > 0
    PROVE  LET qs == Advanced(WithLast(ps, [Last(ps) EXCEPT !.calm = TRUE]))
           IN  Forward(ps, qs) /\ qs[1].errors > 0
PROOF
<1>. DEFINE p == [Last(ps) EXCEPT !.calm = TRUE]
            qs == WithLast(ps, p)
            rs == Advanced(qs)
<1>1. ParserFine(p) /\ p.stream = Last(ps).stream /\ p.errors = Last(ps).errors
    BY ParsersFineFacts DEF ParserFine
<1>. HIDE DEF p
<1>2. Shifts(ps, qs)
    BY <1>1, LastShifts
<1>. HIDE DEF qs
<1>3. ParsersFine(qs)
    BY <1>2, ParsersFineFacts, SequenceFacts DEF Shifts, ParsersFine
<1>4. /\ ps[1].errors \in Nat /\ qs[1].errors \in Nat
      /\ qs[1].errors >= ps[1].errors
    BY <1>2, <1>3, ParsersFineFacts DEF Shifts, ParserFine
<1>5. qs[1].errors > 0
    BY <1>4
<1>6. Forward(ps, qs)
    BY <1>2, <1>5 DEF Forward, AllReported
<1>7. Forward(qs, rs)
    BY <1>3, <1>6, AdvancedForward DEF Forward
<1>8. rs[1].errors > 0
  <2>1. rs[1].errors \in Nat
      BY <1>3, <1>7, ParsersFineFacts DEF Forward, Shifts, ParserFine
  <2>. QED
      BY <1>4, <1>5, <1>7, <2>1 DEF Forward, Shifts
<1>9. Forward(ps, rs)
    BY <1>6, <1>7, ForwardTwice
<1>. QED
    BY <1>8, <1>9 DEF p, qs

LEMMA TakeItemControl ==
    ASSUME ParserInv, TakeItem
    PROVE  ParserInv'
PROOF
<1>. DEFINE fine == answer # Null \/ (Calm /\ Top.text # "recover")
            qs == WithLast(parsers, [Last(parsers) EXCEPT !.calm = TRUE])
<1>1. /\ Running /\ Top.phase = "item" /\ Otherwise /\ answer' = Null /\ created' = created
    BY DEF TakeItem, At, Taking, SameTree
<1>2. Rule.form = "many"
    BY <1>1, AtTop DEF Fine, Rule
<1>3. /\ ~InStep(Top) /\ ~Ahead(Top) /\ Top.rule \notin {"module", "compound"}
      /\ Rule = Rules[Top.rule] /\ Fine(Top) /\ RuleShape(Top.rule)
    BY <1>1, <1>2, AsideFacts
<1>4. /\ Steady /\ created' \in Nat /\ answer \in Nat
      /\ ParsersFine(parsers) /\ AllReported(parsers)
    BY <1>1, Idle, AtTop
<1>5. ~fine => parsers[1].errors > 0
  <2>1. ~Calm => parsers[1].errors > 0
      BY <1>4, ParsersFineFacts DEF Calm, AllReported
  <2>2. Top.text = "recover" => parsers[1].errors > 0
      BY <1>1, <1>2, <1>3, AtTop DEF Noticed
  <2>. QED
      BY <2>1, <2>2
<1>6. CASE fine \/ IsOf(Current, "EOF")
  <2>. DEFINE f == [Top EXCEPT !.phase = "append", !.held = answer, !.text = "none"]
  <2>1. /\ frames' = WithLast(frames, f)
        /\ parsers' = IF fine THEN parsers ELSE Uncalm(parsers)
      BY <1>6 DEF TakeItem, Goto
  <2>2. Forward(parsers, parsers')
      BY <1>4, <1>5, <2>1, ForwardRefl, UncalmForward
  <2>3. /\ DOMAIN f = DOMAIN Top /\ f.rule = Top.rule /\ f.at = Top.at
        /\ f.node = Top.node /\ f.held = answer /\ f.phase = "append"
        /\ f.calm = Top.calm /\ f.text = "none"
      BY <1>3 DEF Fine
  <2>. HIDE DEF f
  <2>4. Fine(f)
      BY <1>1, <1>2, <1>3, <1>4, <2>3 DEF Fine, Null, Waiting, Bare, Building
  <2>5. Alike(f, Top) /\ (Ahead(Top) => Ahead(f))
      BY <1>1, <1>3, <2>3, Aside DEF InStep
  <2>6. Noticed(f) \/ parsers'[1].errors > 0
      BY <1>1, <2>2, <2>3, StillNoticed DEF Noticed
  <2>. QED
      BY <1>1, <1>4, <2>1, <2>2, <2>3, <2>4, <2>5, <2>6, GotoStep
<1>7. CASE ~(fine \/ IsOf(Current, "EOF"))
  <2>. DEFINE ff == [Top EXCEPT !.text = "recover"]
              f == [ff EXCEPT !.phase = "item"]
  <2>1. frames' = Append(WithLast(frames, f), Frame(Rule.of)) /\ parsers' = Advanced(qs)
      BY <1>7 DEF TakeItem, CallItem, Call
  <2>2. Rule.of \in Callable
      BY <1>2, <1>3 DEF RuleShape
  <2>3. Forward(parsers, parsers') /\ parsers'[1].errors > 0
      BY <1>4, <1>5, <1>7, <2>1, CalmAgain
  <2>4. /\ DOMAIN f = DOMAIN Top /\ f.rule = Top.rule /\ f.at = Top.at
        /\ f.node = Top.node /\ f.held = Top.held /\ f.phase = "item"
        /\ f.calm = Top.calm
      BY <1>3 DEF Fine
  <2>. HIDE DEF f
  <2>5. Fine(f)
      BY <1>1, <1>2, <1>3, <2>4 DEF Fine, Null, Waiting, Bare, Building
  <2>6. Alike(f, Top) /\ (Ahead(Top) => Ahead(f))
      BY <1>1, <1>3, <2>4, Aside DEF InStep
  <2>. QED
      BY <1>1, <1>4, <2>1, <2>2, <2>3, <2>4, <2>5, <2>6, CallRule DEF Waiting
<1>. QED
    BY <1>6, <1>7

LEMMA AppendItemControl ==
    ASSUME ParserInv, AppendItem
    PROVE  ParserInv'
PROOF
<1>. DEFINE kept == [Top EXCEPT !.held = Null]
<1>1. /\ Running /\ Top.phase = "append" /\ Otherwise /\ answer' = answer
      /\ created' = created /\ parsers' \in {parsers, Matched(",")}
      /\ \/ frames' = Append(WithLast(frames, [kept EXCEPT !.phase = "item"]), Frame(Rule.of))
         \/ frames' = WithLast(frames, [kept EXCEPT !.phase = "close"])
    BY DEF AppendItem, At, OnlyFrames, CallItem, Call, Goto
<1>2. Rule.form = "many"
    BY <1>1, AtTop DEF Fine, Rule
<1>3. /\ ~InStep(Top) /\ ~Ahead(Top) /\ Rule = Rules[Top.rule]
      /\ Fine(Top) /\ RuleShape(Top.rule)
    BY <1>1, <1>2, AsideFacts
<1>4. Steady /\ answer' = Null /\ created' \in Nat /\ Forward(parsers, parsers')
    BY <1>1, Idle, AtTop, Looking DEF Waiting
<1>5. Rule.of \in Callable
    BY <1>2, <1>3 DEF RuleShape
<1>6. ASSUME NEW ph \in {"item", "close"}, NEW f, f = [kept EXCEPT !.phase = ph]
      PROVE  /\ Fine(f) /\ f.rule = Top.rule /\ f.phase = ph /\ f.calm = Top.calm
             /\ f.text = Top.text
  <2>1. /\ DOMAIN f = DOMAIN Top /\ f.rule = Top.rule /\ f.at = Top.at
        /\ f.node = Top.node /\ f.held = Null /\ f.phase = ph
        /\ f.calm = Top.calm /\ f.text = Top.text
      BY <1>3, <1>6 DEF Fine
  <2>. HIDE DEF kept
  <2>2. Top.node \in Nat \ {Null} /\ Rules[f.rule].form = "many"
      BY <1>1, <1>2, <1>3, <2>1 DEF Fine, Building
  <2>3. Fine(f)
      BY <1>3, <2>1, <2>2 DEF Fine, Null, Waiting, Bare, Building
  <2>. QED
      BY <2>1, <2>2, <2>3
<1>7. CASE frames' = Append(WithLast(frames, [kept EXCEPT !.phase = "item"]), Frame(Rule.of))
  <2>. DEFINE f == [kept EXCEPT !.phase = "item"]
  <2>1. /\ Fine(f) /\ f.rule = Top.rule /\ f.phase = "item" /\ f.calm = Top.calm
        /\ f.text = Top.text
      BY <1>6
  <2>2. frames' = Append(WithLast(frames, f), Frame(Rule.of))
      BY <1>7
  <2>. HIDE DEF f
  <2>. QED
      BY <1>1, <1>3, <1>4, <1>5, <2>1, <2>2, AsideCall DEF Waiting
<1>8. CASE frames' = WithLast(frames, [kept EXCEPT !.phase = "close"])
  <2>. DEFINE f == [kept EXCEPT !.phase = "close"]
  <2>1. /\ Fine(f) /\ f.rule = Top.rule /\ f.phase = "close" /\ f.calm = Top.calm
        /\ f.text = Top.text
      BY <1>6
  <2>2. frames' = WithLast(frames, f)
      BY <1>8
  <2>. HIDE DEF f
  <2>. QED
      BY <1>1, <1>3, <1>4, <2>1, <2>2, AsideGoto
<1>. QED
    BY <1>1, <1>7, <1>8

LEMMA EndManyControl ==
    ASSUME ParserInv, EndMany
    PROVE  ParserInv'
PROOF
<1>. DEFINE restored == IF Calm /\ ~Top.calm THEN Uncalm(parsers) ELSE parsers
<1>1. /\ Running /\ Top.phase = "close" /\ Otherwise /\ answer' = answer
      /\ created' = created /\ frames' = WithLast(frames, Done(Top.node))
      /\ parsers' \in {restored, Expected(restored, CHOOSE t \in Rule.close : TRUE)}
    BY DEF EndMany, At, OnlyFrames, SameTree, Goto
<1>2. Rule.form = "many"
    BY <1>1, AtTop DEF Fine, Rule
<1>3. ~InStep(Top) /\ ~Ahead(Top) /\ Fine(Top) /\ Top.rule \notin {"module", "compound"}
    BY <1>1, <1>2, AsideFacts
<1>4. /\ Steady /\ answer' = Null /\ created' \in Nat /\ Top.node \in Nat
      /\ ParsersFine(parsers) /\ AllReported(parsers)
    BY <1>1, <1>3, Idle, AtTop DEF Waiting, Fine
<1>5. Forward(parsers, restored)
  <2>1. ~Top.calm => parsers[1].errors > 0
      BY <1>1, AtTop DEF Noticed
  <2>. QED
      BY <1>4, <2>1, UncalmForward, ForwardRefl
<1>. HIDE DEF restored
<1>6. Forward(parsers, parsers')
  <2>1. ParsersFine(restored) /\ AllReported(restored)
      BY <1>4, <1>5, ParsersFineFacts, SequenceFacts DEF Forward, Shifts, ParsersFine
  <2>. QED
      BY <1>1, <1>4, <1>5, <2>1, ExpectedForward, ForwardTwice
<1>. QED
    BY <1>1, <1>3, <1>4, <1>6, DoneStep

LEMMA BeginAssignControl ==
    ASSUME ParserInv, BeginAssign
    PROVE  ParserInv'
PROOF
<1>. DEFINE f == [Top EXCEPT !.phase = "target"]
<1>1. /\ Running /\ Top.phase = "enter" /\ Rule.form = "assign" /\ Otherwise
      /\ answer' = answer /\ created' = created /\ parsers' = parsers
      /\ frames' = Append(WithLast(frames, f), Frame("primary"))
    BY DEF BeginAssign, In, At, OnlyFrames, SameTree, Call
<1>2. /\ ~InStep(Top) /\ ~Ahead(Top) /\ Rule = Rules[Top.rule] /\ Fine(Top)
    BY <1>1, AsideFacts
<1>3. Steady /\ answer' = Null /\ created' \in Nat /\ Forward(parsers, parsers')
    BY <1>1, Idle, AtTop, Looking DEF Waiting
<1>4. "primary" \in Callable
    BY RulesAssumption
<1>5. /\ DOMAIN f = DOMAIN Top /\ f.rule = Top.rule /\ f.at = Top.at
      /\ f.node = Top.node /\ f.held = Top.held /\ f.phase = "target"
      /\ f.calm = Top.calm /\ f.text = Top.text
    BY <1>2 DEF Fine
<1>. HIDE DEF f
<1>6. Fine(f)
    BY <1>1, <1>2, <1>5 DEF Fine, Null, Waiting, Bare, Building
<1>. QED
    BY <1>1, <1>2, <1>3, <1>4, <1>5, <1>6, AsideCall DEF Waiting

(* The assignment, or x += e, around the target: the suffix that was seen. *)
LEMMA TargetCalls ==
    ASSUME ParserInv, Running, Top.phase = "target", NEW r \in {"assignment", "compound"},
           NEW h \in Nat \ {Null}, NEW t \in Nat, r = "assignment" => t = Null,
           Starts(Rules[r].start), UNCHANGED parsers, Steady, answer' = Null,
           created' \in Nat,
           frames' = Append(WithLast(frames, Assigned(t)), [Frame(r) EXCEPT !.held = h])
    PROVE  ParserInv'
PROOF
<1>. DEFINE f == Assigned(t)
            g == [Frame(r) EXCEPT !.held = h]
<1>1. Rule.form = "assign"
    BY AtTop DEF Fine, Rule
<1>2. /\ ~InStep(Top) /\ ~Ahead(Top) /\ Rule = Rules[Top.rule] /\ Fine(Top)
    BY <1>1, AsideFacts
<1>3. /\ DOMAIN f = DOMAIN Top /\ f.rule = Top.rule /\ f.at = Top.at
      /\ f.node = Top.node /\ f.held = t /\ f.phase = "assigned"
      /\ f.calm = Top.calm /\ f.text = Top.text
    BY <1>2 DEF Fine, Assigned
<1>4. r \in DOMAIN Rules /\ Rules[r].form = "suffix"
    BY RulesAssumption DEF Callable
<1>5. /\ DOMAIN g = {"rule", "at", "node", "held", "text", "phase", "calm"}
      /\ g.rule = r /\ g.at = 1 /\ g.node = Null /\ g.held = h
      /\ g.phase = "enter" /\ g.calm = TRUE /\ g.text = "none"
    BY <1>4 DEF Frame
<1>6. frames' = Append(WithLast(frames, f), g)
    OBVIOUS
<1>. HIDE DEF f, g
<1>7. Fine(f)
    BY <1>1, <1>2, <1>3 DEF Fine, Null, Waiting, Bare, Building
<1>8. Fine(g) /\ ~InScope(g) /\ Noticed(g)
    BY <1>4, <1>5, SuffixFine
<1>9. Alike(f, Top) /\ (Ahead(Top) => Ahead(f))
    BY <1>2, <1>3, Aside DEF InStep
<1>10. Forward(parsers, parsers')
    BY Looking
<1>11. Noticed(f) \/ parsers'[1].errors > 0
    BY <1>3, <1>10, StillNoticed DEF Noticed
<1>12. /\ f.phase \in Waiting /\ (f.phase = "assigned" /\ f.held # Null => Ahead(g))
       /\ (g.rule = "compound" => f.phase = "assigned") /\ g.phase \in {"enter", "steps"}
       /\ Rules[g.rule].form = "suffix" => Starts(Rules[g.rule].start) /\ UNCHANGED parsers
    BY <1>3, <1>5 DEF Waiting, Ahead
<1>. QED
    BY <1>6, <1>7, <1>8, <1>9, <1>10, <1>11, <1>12, CallStep

LEMMA TakeTargetControl ==
    ASSUME ParserInv, TakeTarget
    PROVE  ParserInv'
PROOF
<1>1. Running /\ Top.phase = "target" /\ Steady /\ answer' = Null
    BY DEF TakeTarget, At, SameScopes, SameFile, Steady
<1>2. Rule.form = "assign"
    BY <1>1, AtTop DEF Fine, Rule
<1>3. ~InStep(Top) /\ ~Ahead(Top) /\ Top.rule \notin {"module", "compound"}
    BY <1>1, <1>2, AsideFacts
<1>4. created \in Nat /\ answer \in Nat
    BY <1>1, AtTop
<1>5. CASE answer = Null
  <2>1. frames' = WithLast(frames, Done(Null)) /\ created' = created /\ parsers' = parsers
      BY <1>5 DEF TakeTarget, Goto, SameTree
  <2>2. Forward(parsers, parsers')
      BY <1>1, <2>1, Looking
  <2>. QED
      BY <1>1, <1>3, <1>4, <2>1, <2>2, DoneStep DEF Null
<1>6. CASE answer # Null /\ Fits("=")
  <2>1. /\ frames' = Append(WithLast(frames, Assigned(Null)),
                            [Frame("assignment") EXCEPT !.held = answer])
        /\ created' = created /\ parsers' = parsers
      BY <1>6 DEF TakeTarget, Call, SameTree
  <2>2. Starts(Rules["assignment"].start)
      BY <1>6, RulesAssumption DEF Starts
  <2>. QED
      BY <1>1, <1>4, <1>6, <2>1, <2>2, TargetCalls DEF Null
<1>7. CASE answer # Null /\ ~Fits("=") /\ Compound
  <2>1. /\ frames' = Append(WithLast(frames, Assigned(answer)),
                            [Frame("compound") EXCEPT !.held = answer + created])
        /\ created' = 2 * created /\ parsers' = parsers
      BY <1>7 DEF TakeTarget, Call, Assigned
  <2>2. Starts(Rules["compound"].start)
      BY <1>7 DEF Compound
  <2>3. answer + created \in Nat \ {Null} /\ created' \in Nat
      BY <1>4, <1>7, <2>1 DEF Null
  <2>. QED
      BY <1>1, <1>4, <2>1, <2>2, <2>3, TargetCalls
<1>8. CASE answer # Null /\ ~Fits("=") /\ ~Compound
  <2>1. /\ frames' = WithLast(frames, Done(created + 1)) /\ created' = created + 1
        /\ parsers' = Expected(parsers, ";")
      BY <1>8 DEF TakeTarget, Goto
  <2>2. Forward(parsers, parsers')
      BY <1>1, <2>1, Looking
  <2>3. created + 1 \in Nat
      BY <1>4
  <2>. QED
      BY <1>1, <1>3, <2>1, <2>2, <2>3, DoneStep
<1>. QED
    BY <1>5, <1>6, <1>7, <1>8

LEMMA TakeAssignedControl ==
    ASSUME ParserInv, TakeAssigned
    PROVE  ParserInv'
PROOF
<1>1. /\ Running /\ Top.phase = "assigned" /\ Steady /\ answer' = Null
      /\ created' = created /\ parsers' = parsers
      /\ frames' = WithLast(frames, Done(answer))
    BY DEF TakeAssigned, At, SameScopes, SameFile, SameTree, Steady, Goto
<1>2. Rule.form = "assign"
    BY <1>1, AtTop DEF Fine, Rule
<1>3. ~InStep(Top) /\ ~Ahead(Top) /\ Top.rule \notin {"module", "compound"}
    BY <1>1, <1>2, AsideFacts
<1>4. created' \in Nat /\ answer \in Nat /\ Forward(parsers, parsers')
    BY <1>1, AtTop, Looking
<1>. QED
    BY <1>1, <1>3, <1>4, DoneStep

LEMMA FStringControl ==
    ASSUME ParserInv, BeginFString \/ EndFString \/ TextSlice
    PROVE  ParserInv'
PROOF
<1>1. /\ Running /\ Otherwise /\ answer' = answer
      /\ Top.phase \in {"enter", "slices"} /\ Rule.form = "fstring"
  <2>1. /\ Running /\ Otherwise /\ answer' = answer
        /\ \/ Top.phase = "enter" /\ Rule.form = "fstring"
           \/ Top.phase = "slices"
      BY DEF BeginFString, EndFString, TextSlice, In, At, OnlyFrames
  <2>. QED
      BY <2>1, AtTop DEF Fine, Rule
<1>2. /\ ~InStep(Top) /\ ~Ahead(Top) /\ Top.rule \notin {"module", "compound"}
      /\ Rule = Rules[Top.rule] /\ Fine(Top)
    BY <1>1, AsideFacts
<1>3. /\ Steady /\ answer' = Null /\ created \in Nat /\ created + 1 # Null
    BY <1>1, Idle, AtTop DEF Waiting
<1>4. Forward(parsers, parsers')
    BY <1>1, Looking DEF BeginFString, EndFString, TextSlice
<1>5. ASSUME NEW f, DOMAIN f = DOMAIN Top, f.rule = Top.rule, f.at \in Nat \ {0},
             f.node \in Nat \ {Null}, f.held = Null, f.phase = "slices",
             f.calm = Top.calm, frames' = WithLast(frames, f), created' \in Nat
      PROVE  ParserInv'
  <2>1. Fine(f)
      BY <1>1, <1>2, <1>5 DEF Fine, Null, Waiting, Bare, Building
  <2>. QED
      BY <1>1, <1>2, <1>3, <1>4, <1>5, <2>1, AsideGoto
<1>6. Top.held = Null /\ Top.at \in Nat \ {0} /\ Top.node \in Nat
      /\ (Top.phase = "slices" => Top.node # Null)
    BY <1>1, <1>2 DEF Fine, Building
<1>7. ASSUME NEW m \in Nat, frames' = WithLast(frames, Done(m)), created' \in Nat
      PROVE  ParserInv'
    BY <1>1, <1>2, <1>3, <1>4, <1>7, DoneStep
<1>8. CASE BeginFString
  <2>1. CASE Starts(Rule.start)
    <3>. DEFINE f == [Top EXCEPT !.phase = "slices", !.node = created + 1, !.text = Current]
    <3>1. frames' = WithLast(frames, f) /\ created' = created + 1
        BY <1>8, <2>1 DEF BeginFString, Goto
    <3>2. /\ DOMAIN f = DOMAIN Top /\ f.rule = Top.rule /\ f.at = Top.at
          /\ f.node = created + 1 /\ f.held = Top.held /\ f.phase = "slices"
          /\ f.calm = Top.calm
        BY <1>2 DEF Fine
    <3>. HIDE DEF f
    <3>. QED
        BY <1>3, <1>5, <1>6, <3>1, <3>2
  <2>2. CASE ~Starts(Rule.start)
    <3>1. frames' = WithLast(frames, Done(Null)) /\ created' = created
        BY <1>8, <2>2 DEF BeginFString, Goto, SameTree
    <3>. QED
        BY <1>3, <1>7, <3>1 DEF Null
  <2>. QED
      BY <2>1, <2>2
<1>9. CASE EndFString
  <2>1. frames' = WithLast(frames, Done(Top.node)) /\ created' = created
      BY <1>9 DEF EndFString, Goto, SameTree
  <2>. QED
      BY <1>3, <1>6, <1>7, <2>1
<1>10. CASE TextSlice
  <2>. DEFINE f == [Top EXCEPT !.at = @ + 1]
  <2>1. frames' = WithLast(frames, f) /\ created' = created + 1 /\ Top.phase = "slices"
      BY <1>10 DEF TextSlice, Goto, At
  <2>2. /\ DOMAIN f = DOMAIN Top /\ f.rule = Top.rule /\ f.at = Top.at + 1
        /\ f.node = Top.node /\ f.held = Top.held /\ f.phase = "slices"
        /\ f.calm = Top.calm
      BY <1>2, <2>1 DEF Fine
  <2>. HIDE DEF f
  <2>. QED
      BY <1>3, <1>5, <1>6, <2>1, <2>2
<1>. QED
    BY <1>8, <1>9, <1>10

-----------------------------------------------------------------------------
(* A step that enters or leaves a scope or a loop, and goes on. *)
LEMMA OwnStep ==
    ASSUME ParserInv, Running, Top.phase = "steps", Step.do # "assign",
           frames' = WithLast(frames, NextStep), answer' = answer,
           UNCHANGED <<created, parsers, stage, streams>>
    PROVE  /\ FramesInv' /\ ParsersInv' /\ StreamsInv' /\ Stages'
           /\ Len(frames) \in Nat \ {0} /\ Len(frames') = Len(frames)
           /\ \A i \in 1 .. Len(frames) :
                 frames'[i] = IF i = Len(frames) THEN NextStep ELSE frames[i]
           /\ NextStep.rule = Top.rule /\ NextStep.node = Top.node
           /\ StepShape(Top.rule, Top.at) /\ Step = StepsOf(Top.rule)[Top.at]
           /\ Top.at + 1 \in After(Top.rule, Top.at)
           /\ InScope(NextStep) <=> Between(Top.rule, Top.at + 1, "enter", "leave")
           /\ InLoop(NextStep) <=> Between(Top.rule, Top.at + 1, "loop", "unloop")
           /\ Entered(frames') = (Entered(frames) \ {Len(frames)})
                 \cup (IF InScope(NextStep) THEN {Len(frames)} ELSE {})
PROOF
<1>. DEFINE n == Top.at + 1
            f == Onward(Top, n)
<1>1. /\ stage = "parsing" /\ frames # <<>> /\ IsSequence(frames) /\ Top = Last(frames)
      /\ Len(frames) \in Nat \ {0} /\ Fine(Top) /\ RuleShape(Top.rule) /\ answer = Null
      /\ created \in Nat
    BY AtTop DEF Top, Waiting
<1>2. /\ Top.held = Null /\ Top.node \in Nat /\ InStep(Top)
      /\ Rules[Top.rule].form \in Stepping /\ Top.at \in 1 .. Len(StepsOf(Top.rule))
      /\ Rules[Top.rule].form # "scoped" => Top.node # Null
      /\ Rules[Top.rule].form = "scoped" /\ Top.at <= 2 => Top.node = Null
    BY <1>1 DEF Fine, InStep, StepsOf
<1>3. StepShape(Top.rule, Top.at) /\ Top.at \in Nat
    BY <1>1, <1>2 DEF RuleShape, IsList, StepsOf
<1>4. n \in After(Top.rule, Top.at)
    BY DEF After
<1>5. /\ Fine(f) /\ f.rule = Top.rule /\ f.phase \in {"steps", "done"}
      /\ f.node = Top.node /\ f.calm = Top.calm /\ f.text = Top.text
      /\ InScope(f) <=> Between(Top.rule, n, "enter", "leave")
      /\ InLoop(f) <=> Between(Top.rule, n, "loop", "unloop")
      /\ InStep(f) /\ AssignAhead(f.rule, f.at) <=> AssignAhead(Top.rule, n)
  <2>1. Rules[Top.rule].form = "scoped" /\ n <= 2 => Top.node = Null
      BY <1>2, <1>3
  <2>. HIDE DEF InStep, n
  <2>. QED
      BY <1>1, <1>2, <1>4, <2>1, OnwardFine
<1>0. NextStep = f
    BY DEF NextStep
<1>. HIDE DEF f, n
<1>6. Step = StepsOf(Top.rule)[Top.at]
    BY DEF Step, Rule, StepsOf
<1>7. Ahead(Top) => Ahead(f)
  <2>1. AssignAhead(Top.rule, Top.at) => AssignAhead(Top.rule, n)
      BY <1>3, <1>4, <1>6 DEF StepShape
  <2>. QED
      BY <1>5, <2>1 DEF Ahead, InStep
<1>8. frames' = WithLast(frames, f) /\ answer' = Null
    BY <1>0, <1>1
<1>9. /\ Len(frames') = Len(frames) /\ frames' # <<>>
      /\ \A i \in 1 .. Len(frames) : frames'[i] = IF i = Len(frames) THEN f ELSE frames[i]
    BY <1>1, <1>8, WithLastFacts
<1>10. FramesInv'
    BY <1>1, <1>5, <1>7, <1>8, GotoFrames DEF ParserInv
<1>11. Forward(parsers, parsers')
    BY Looking
<1>12. ParsersInv'
  <2>1. Noticed(f) \/ parsers'[1].errors > 0
      BY <1>5, <1>11, StillNoticed DEF Noticed
  <2>. QED
      BY <1>9, <1>11, <2>1, ParsersKept
<1>13. StreamsInv'
  <2>1. Len(frames) \notin Slicing(frames)
      BY <1>1, SetsFacts
  <2>2. Slicing(frames') = (Slicing(frames) \ {Len(frames)}) \cup {}
      BY <1>1, <1>5, <1>8, WithLastSets
  <2>3. Slicing(frames') = Slicing(frames)
      BY <2>1, <2>2
  <2>. QED
      BY <2>3 DEF ParserInv, StreamsInv
<1>14. Stages'
    BY <1>1, <1>8 DEF ParserInv, Stages, Null
<1>15. Entered(frames') = (Entered(frames) \ {Len(frames)})
                 \cup (IF InScope(f) THEN {Len(frames)} ELSE {})
    BY <1>1, <1>8, WithLastSets
<1>. QED
    BY <1>0, <1>1, <1>3, <1>4, <1>5, <1>6, <1>9, <1>10, <1>12, <1>13, <1>14, <1>15 DEF n

(* Frames stay entered, under their rule, when a step goes on behind them. *)
LEMMA EnteredStays ==
    ASSUME NEW kinds, EnteredAs(kinds),
           \A i \in Entered(frames) : i \in Entered(frames') /\ frames'[i].rule = frames[i].rule
    PROVE  EnteredAs(kinds)'
PROOF
    BY DEF EnteredAs, Entered

LEMMA EnterScopeControl ==
    ASSUME ParserInv, EnterScope
    PROVE  ParserInv'
PROOF
<1>. DEFINE n == Len(frames)
<1>1. /\ Running /\ Top.phase = "steps" /\ Step.do = "enter"
      /\ frames' = WithLast(frames, NextStep) /\ answer' = answer
      /\ UNCHANGED <<created, parsers, stage, streams>>
      /\ scopes' = Append(scopes, Top.node) /\ within' = Registered(Rule.kind, Top.node)
    BY DEF EnterScope, AtStep, At, Goto, SameTree, SameFile
<1>2. /\ FramesInv' /\ ParsersInv' /\ StreamsInv' /\ Stages'
      /\ n \in Nat \ {0} /\ Len(frames') = n
      /\ \A i \in 1 .. n : frames'[i] = IF i = n THEN NextStep ELSE frames[i]
      /\ NextStep.rule = Top.rule /\ NextStep.node = Top.node
      /\ StepShape(Top.rule, Top.at) /\ Step = StepsOf(Top.rule)[Top.at]
      /\ Top.at + 1 \in After(Top.rule, Top.at)
      /\ InScope(NextStep) <=> Between(Top.rule, Top.at + 1, "enter", "leave")
      /\ InLoop(NextStep) <=> Between(Top.rule, Top.at + 1, "loop", "unloop")
      /\ Entered(frames') = (Entered(frames) \ {n})
            \cup (IF InScope(NextStep) THEN {n} ELSE {})
    BY <1>1, OwnStep
<1>3. /\ ~Between(Top.rule, Top.at, "enter", "leave") /\ InScope(NextStep)
      /\ InLoop(NextStep) <=> Between(Top.rule, Top.at, "loop", "unloop")
    BY <1>1, <1>2 DEF StepShape, Brackets
<1>4. /\ Top = frames[n] /\ Top = Last(frames) /\ IsSequence(frames) /\ frames # <<>>
      /\ IsSequence(scopes) /\ Top.node \in Nat
    BY <1>1, AtTop DEF Top, Fine
<1>5. n \notin Entered(frames) /\ Entered(frames) \subseteq 1 .. n
    BY <1>3, <1>4, SetsFacts DEF InScope
<1>6. Entered(frames') = Entered(frames) \cup {n}
    BY <1>2, <1>3, <1>5
<1>. HIDE DEF n
<1>7. \A i \in Entered(frames) : i < n /\ i \in Nat /\ frames'[i] = frames[i]
    BY <1>2, <1>5
<1>8. ScopesInv'
  <2>1. PICK p : /\ Orders(p, Len(scopes), Entered(frames))
                 /\ \A k \in 1 .. Len(scopes) : scopes[k] = frames[p[k]].node
      BY DEF ParserInv, ScopesInv
  <2>. DEFINE m == Len(scopes)
              q == [k \in 1 .. m + 1 |-> IF k = m + 1 THEN n ELSE p[k]]
  <2>2. m \in Nat /\ Entered(frames) \subseteq Nat
      BY <1>4, <1>7, SequenceFacts
  <2>3. Orders(q, m + 1, Entered(frames'))
    <3>1. \A i \in Entered(frames) : i < n
        BY <1>7
    <3>2. n \in Nat /\ Orders(p, m, Entered(frames))
        BY <1>2, <2>1
    <3>. HIDE DEF m
    <3>3. Orders(q, m + 1, Entered(frames) \cup {n})
        BY <2>2, <3>1, <3>2, OrdersMore
    <3>. QED
        BY <1>6, <3>3
  <2>4. /\ IsSequence(scopes') /\ Len(scopes') = m + 1
        /\ \A k \in 1 .. m : scopes'[k] = scopes[k]
        /\ scopes'[m + 1] = Top.node
      BY <1>1, <1>4, AppendFacts
  <2>5. \A k \in 1 .. m : q[k] = p[k] /\ p[k] \in Entered(frames)
      BY <2>1, <2>2 DEF Orders
  <2>6. q[m + 1] = n
      BY <2>2
  <2>7. \A k \in 1 .. m + 1 : k \in 1 .. m \/ k = m + 1
      BY <2>2
  <2>8. frames'[n].node = Top.node
      BY <1>2
  <2>. HIDE DEF q
  <2>9. \A k \in 1 .. m + 1 : scopes'[k] = frames'[q[k]].node
      BY <1>7, <2>1, <2>4, <2>5, <2>6, <2>7, <2>8
  <2>. QED
      BY <2>3, <2>4, <2>9 DEF ScopesInv
<1>9. \A i \in Entered(frames) : i \in Entered(frames') /\ frames'[i].rule = frames[i].rule
    BY <1>6, <1>7
<1>10. WithinInv
    BY DEF ParserInv
<1>11. ASSUME NEW kinds, Rule.kind \in kinds PROVE EnteredAs(kinds)'
    BY <1>2, <1>3, <1>11 DEF EnteredAs, Rule
<1>12. (\E i \in 1 .. n : InLoop(frames[i])) => \E i \in 1 .. n : InLoop(frames'[i])
  <2>1. InLoop(frames[n]) => InLoop(frames'[n])
      BY <1>2, <1>3, <1>4 DEF InLoop
  <2>. QED
      BY <1>2, <2>1
<1>13. WithinInv'
  <2>1. within \in [function : Nat, class : Nat, loop : Nat]
      BY <1>10 DEF WithinInv
  <2>2. /\ within' \in [function : Nat, class : Nat, loop : Nat]
        /\ within'.loop = within.loop
        /\ within'.function = within.function \/ Rule.kind \in {"Function", "Method"}
        /\ within'.class = within.class \/ Rule.kind \in {"Class"}
      BY <1>1, <1>4, <2>1 DEF Registered
  <2>3. within'.function # Null => EnteredAs({"Function", "Method"})'
      BY <1>9, <1>10, <1>11, <2>2, EnteredStays DEF WithinInv
  <2>4. within'.class # Null => EnteredAs({"Class"})'
      BY <1>9, <1>10, <1>11, <2>2, EnteredStays DEF WithinInv
  <2>5. within'.loop # Null => \E i \in 1 .. n : InLoop(frames'[i])
      BY <1>10, <1>12, <2>2 DEF WithinInv, n
  <2>. QED
      BY <1>2, <2>2, <2>3, <2>4, <2>5 DEF WithinInv
<1>. QED
    BY <1>2, <1>8, <1>13 DEF ParserInv

LEMMA LeaveScopeControl ==
    ASSUME ParserInv, LeaveScope
    PROVE  ParserInv'
PROOF
<1>. DEFINE n == Len(frames)
<1>1. /\ Running /\ Top.phase = "steps" /\ Step.do = "leave"
      /\ frames' = WithLast(frames, NextStep) /\ answer' = answer
      /\ UNCHANGED <<created, parsers, stage, streams>>
      /\ scopes' = Front(scopes) /\ within' = Registered(Rule.kind, Null)
    BY DEF LeaveScope, AtStep, At, Goto, SameTree, SameFile
<1>2. /\ FramesInv' /\ ParsersInv' /\ StreamsInv' /\ Stages'
      /\ n \in Nat \ {0} /\ Len(frames') = n
      /\ \A i \in 1 .. n : frames'[i] = IF i = n THEN NextStep ELSE frames[i]
      /\ NextStep.rule = Top.rule /\ NextStep.node = Top.node
      /\ StepShape(Top.rule, Top.at) /\ Step = StepsOf(Top.rule)[Top.at]
      /\ Top.at + 1 \in After(Top.rule, Top.at)
      /\ InScope(NextStep) <=> Between(Top.rule, Top.at + 1, "enter", "leave")
      /\ InLoop(NextStep) <=> Between(Top.rule, Top.at + 1, "loop", "unloop")
      /\ Entered(frames') = (Entered(frames) \ {n})
            \cup (IF InScope(NextStep) THEN {n} ELSE {})
    BY <1>1, OwnStep
<1>3. /\ Between(Top.rule, Top.at, "enter", "leave") /\ ~InScope(NextStep)
      /\ InLoop(NextStep) <=> Between(Top.rule, Top.at, "loop", "unloop")
    BY <1>1, <1>2 DEF StepShape, Brackets
<1>4. /\ Top = frames[n] /\ Top = Last(frames) /\ IsSequence(frames) /\ frames # <<>>
      /\ IsSequence(scopes) /\ Top.node \in Nat
    BY <1>1, AtTop DEF Top, Fine
<1>5. n \in Entered(frames) /\ Entered(frames) \subseteq 1 .. n
    BY <1>1, <1>3, <1>4, SetsFacts DEF InScope, InStep
<1>6. Entered(frames') = Entered(frames) \ {n}
    BY <1>2, <1>3, <1>5
<1>. HIDE DEF n
<1>7. \A i \in Entered(frames) : i <= n /\ i \in Nat /\ (i # n => frames'[i] = frames[i])
    BY <1>2, <1>5
<1>8. ScopesInv'
  <2>1. PICK p : /\ Orders(p, Len(scopes), Entered(frames))
                 /\ \A k \in 1 .. Len(scopes) : scopes[k] = frames[p[k]].node
      BY DEF ParserInv, ScopesInv
  <2>. DEFINE m == Len(scopes)
              q == [k \in 1 .. m - 1 |-> p[k]]
  <2>2. m \in Nat /\ Entered(frames) \subseteq Nat
      BY <1>4, <1>7, SequenceFacts
  <2>3. m \in Nat \ {0} /\ p[m] = n /\ Orders(q, m - 1, Entered(frames'))
    <3>1. \A i \in Entered(frames) : i <= n
        BY <1>7
    <3>2. n \in Entered(frames) /\ Orders(p, m, Entered(frames))
        BY <1>5, <2>1
    <3>. HIDE DEF m
    <3>3. m \in Nat \ {0} /\ p[m] = n /\ Orders(q, m - 1, Entered(frames) \ {n})
        BY <2>2, <3>1, <3>2, OrdersLess
    <3>. QED
        BY <1>6, <3>3
  <2>4. /\ IsSequence(scopes') /\ Len(scopes') = m - 1
        /\ \A k \in 1 .. m - 1 : scopes'[k] = scopes[k]
    <3>1. scopes # <<>>
        BY <1>4, <2>3, SequenceFacts
    <3>. QED
        BY <1>1, <1>4, <3>1, FrontFacts
  <2>5. \A k \in 1 .. m - 1 : k \in 1 .. m /\ q[k] = p[k] /\ q[k] \in Entered(frames) \ {n}
      BY <1>6, <2>3 DEF Orders
  <2>. HIDE DEF q
  <2>6. \A k \in 1 .. m - 1 : scopes'[k] = frames'[q[k]].node
      BY <1>7, <2>1, <2>4, <2>5
  <2>. QED
      BY <2>3, <2>4, <2>6 DEF ScopesInv
<1>10. WithinInv
    BY DEF ParserInv
<1>11. ASSUME NEW kinds, EnteredAs(kinds), Rule.kind \notin kinds
       PROVE  EnteredAs(kinds)'
  <2>1. PICK i \in 1 .. n : InScope(frames[i]) /\ Rules[frames[i].rule].kind \in kinds
      BY <1>11 DEF EnteredAs, n
  <2>2. i # n
      BY <1>4, <1>11, <2>1 DEF Rule
  <2>. QED
      BY <1>2, <2>1, <2>2 DEF EnteredAs
<1>12. (\E i \in 1 .. n : InLoop(frames[i])) => \E i \in 1 .. n : InLoop(frames'[i])
  <2>1. InLoop(frames[n]) => InLoop(frames'[n])
      BY <1>2, <1>3, <1>4 DEF InLoop
  <2>. QED
      BY <1>2, <2>1
<1>13. WithinInv'
  <2>1. within \in [function : Nat, class : Nat, loop : Nat]
      BY <1>10 DEF WithinInv
  <2>2. /\ within' \in [function : Nat, class : Nat, loop : Nat]
        /\ within'.loop = within.loop
        /\ within'.function # Null =>
              within'.function = within.function /\ Rule.kind \notin {"Function", "Method"}
        /\ within'.class # Null =>
              within'.class = within.class /\ Rule.kind \notin {"Class"}
      BY <1>1, <2>1 DEF Registered, Null
  <2>3. within'.function # Null => EnteredAs({"Function", "Method"})'
      BY <1>10, <1>11, <2>2 DEF WithinInv
  <2>4. within'.class # Null => EnteredAs({"Class"})'
      BY <1>10, <1>11, <2>2 DEF WithinInv
  <2>5. within'.loop # Null => \E i \in 1 .. n : InLoop(frames'[i])
      BY <1>10, <1>12, <2>2 DEF WithinInv, n
  <2>. QED
      BY <1>2, <2>2, <2>3, <2>4, <2>5 DEF WithinInv
<1>. QED
    BY <1>2, <1>8, <1>13 DEF ParserInv

LEMMA LoopControl ==
    ASSUME ParserInv, Loop
    PROVE  ParserInv'
PROOF
<1>. DEFINE n == Len(frames)
<1>1. /\ Running /\ Top.phase = "steps" /\ Step.do \in {"loop", "unloop"}
      /\ frames' = WithLast(frames, NextStep) /\ answer' = answer
      /\ UNCHANGED <<created, parsers, stage, streams, scopes>>
      /\ within' = [within EXCEPT !.loop = IF Step.do = "loop" THEN Top.node ELSE Null]
    BY DEF Loop, AtStep, At, Goto, SameTree, SameFile
<1>2. /\ FramesInv' /\ ParsersInv' /\ StreamsInv' /\ Stages'
      /\ n \in Nat \ {0} /\ Len(frames') = n
      /\ \A i \in 1 .. n : frames'[i] = IF i = n THEN NextStep ELSE frames[i]
      /\ NextStep.rule = Top.rule /\ NextStep.node = Top.node
      /\ StepShape(Top.rule, Top.at) /\ Step = StepsOf(Top.rule)[Top.at]
      /\ Top.at + 1 \in After(Top.rule, Top.at)
      /\ InScope(NextStep) <=> Between(Top.rule, Top.at + 1, "enter", "leave")
      /\ InLoop(NextStep) <=> Between(Top.rule, Top.at + 1, "loop", "unloop")
      /\ Entered(frames') = (Entered(frames) \ {n})
            \cup (IF InScope(NextStep) THEN {n} ELSE {})
    BY <1>1, OwnStep
<1>3. /\ Between(Top.rule, Top.at, "enter", "leave") <=> InScope(NextStep)
      /\ Step.do = "loop" => InLoop(NextStep)
    BY <1>1, <1>2 DEF StepShape, Brackets
<1>4. /\ Top = frames[n] /\ Top = Last(frames) /\ IsSequence(frames) /\ frames # <<>>
      /\ IsSequence(scopes) /\ Top.node \in Nat
    BY <1>1, AtTop DEF Top, Fine
<1>5. n \in Entered(frames) <=> InScope(NextStep)
    BY <1>1, <1>3, <1>4, SetsFacts DEF InScope, InStep
<1>6. Entered(frames') = Entered(frames) /\ Entered(frames) \subseteq 1 .. n
  <2>1. CASE InScope(NextStep)
    <3>1. Entered(frames') = (Entered(frames) \ {n}) \cup {n}
        BY <1>2, <2>1
    <3>. QED
        BY <1>4, <1>5, <2>1, <3>1, SetsFacts
  <2>2. CASE ~InScope(NextStep)
    <3>1. Entered(frames') = (Entered(frames) \ {n}) \cup {}
        BY <1>2, <2>2
    <3>. QED
        BY <1>4, <1>5, <2>2, <3>1, SetsFacts
  <2>. QED
      BY <2>1, <2>2
<1>7. \A i \in Entered(frames) : /\ i \in Entered(frames') /\ frames'[i].rule = frames[i].rule
                                 /\ frames'[i].node = frames[i].node
    BY <1>2, <1>4, <1>6
<1>8. ScopesInv'
  <2>1. PICK p : /\ Orders(p, Len(scopes), Entered(frames))
                 /\ \A k \in 1 .. Len(scopes) : scopes[k] = frames[p[k]].node
      BY DEF ParserInv, ScopesInv
  <2>2. \A k \in 1 .. Len(scopes) : p[k] \in Entered(frames)
      BY <2>1 DEF Orders
  <2>3. \A k \in 1 .. Len(scopes) : scopes[k] = frames'[p[k]].node
      BY <1>7, <2>1, <2>2
  <2>. QED
      BY <1>1, <1>4, <1>6, <2>1, <2>3 DEF ScopesInv
<1>10. WithinInv
    BY DEF ParserInv
<1>13. WithinInv'
  <2>1. within \in [function : Nat, class : Nat, loop : Nat]
      BY <1>10 DEF WithinInv
  <2>2. /\ within' \in [function : Nat, class : Nat, loop : Nat]
        /\ within'.function = within.function /\ within'.class = within.class
        /\ within'.loop # Null => Step.do = "loop"
      BY <1>1, <1>4, <2>1 DEF Null
  <2>3. within'.function # Null => EnteredAs({"Function", "Method"})'
      BY <1>7, <1>10, <2>2, EnteredStays DEF WithinInv
  <2>4. within'.class # Null => EnteredAs({"Class"})'
      BY <1>7, <1>10, <2>2, EnteredStays DEF WithinInv
  <2>5. within'.loop # Null => \E i \in 1 .. n : InLoop(frames'[i])
      BY <1>2, <1>3, <2>2
  <2>. QED
      BY <1>2, <2>2, <2>3, <2>4, <2>5 DEF WithinInv
<1>. QED
    BY <1>2, <1>8, <1>13 DEF ParserInv

LEMMA TypeDefinitionControl ==
    ASSUME ParserInv, TypeDefinition
    PROVE  ParserInv'
PROOF
<1>1. /\ Running /\ Top.phase = "steps" /\ UNCHANGED <<frames, answer>>
      /\ created' = created /\ parsers' = parsers /\ Steady
    BY DEF TypeDefinition, AtStep, At, SameTree, SameScopes, SameFile, Steady
<1>2. created' \in Nat /\ Forward(parsers, parsers')
    BY <1>1, AtTop, Looking
<1>. QED
    BY <1>1, <1>2, SameFramesStep

LEMMA ReturnControl ==
    ASSUME ParserInv, Return
    PROVE  ParserInv'
PROOF
<1>1. /\ Running /\ Top.phase = "done" /\ frames' = Front(frames)
      /\ answer' = IF Top.node # Null /\ ~Calm THEN Null ELSE Top.node
      /\ UNCHANGED <<parsers, created, scopes, within, stage, streams>>
    BY DEF Return, At, SameFile
<1>2. /\ stage = "parsing" /\ frames # <<>> /\ IsSequence(frames) /\ Top = Last(frames)
      /\ Len(frames) \in Nat \ {0} /\ Fine(Top) /\ Top = frames[Len(frames)]
      /\ ParsersFine(parsers) /\ AllReported(parsers) /\ created \in Nat
    BY <1>1, AtTop DEF Top
<1>3. answer' \in Nat
    BY <1>1, <1>2 DEF Fine, Null
<1>4. FramesInv'
    BY <1>1, <1>2, <1>3, PopFrames DEF ParserInv
<1>5. SameStanding(frames, frames')
    BY <1>1, <1>2, PopStanding
<1>6. StreamsInv' /\ ScopesInv' /\ WithinInv'
  <2>1. Shifts(parsers, parsers')
      BY <1>1, Looking DEF Forward
  <2>. QED
      BY <1>1, <1>5, <2>1, StandingKept, StreamsKept
<1>7. /\ Len(frames') = Len(frames) - 1
      /\ \A i \in 1 .. Len(frames') : i \in 1 .. Len(frames) /\ frames'[i] = frames[i]
  <2>1. /\ Len(frames') = Len(frames) - 1
        /\ \A i \in 1 .. Len(frames) - 1 : frames'[i] = frames[i]
      BY <1>1, <1>2, FrontFacts
  <2>. QED
      BY <1>2, <2>1
<1>8. frames' = <<>> /\ answer' = Null => Errors > 0
  <2>1. SUFFICES ASSUME frames' = <<>>, answer' = Null
                 PROVE  Errors > 0
      OBVIOUS
  <2>2. Len(frames) = 1
      BY <1>2, <1>7, <2>1
  <2>3. Top.rule = "module"
      BY <1>2, <2>2 DEF ParserInv, FramesInv
  <2>4. Top.node # Null
      BY <1>1, <1>2, <2>3 DEF Fine
  <2>5. ~Calm
      BY <1>1, <2>1, <2>4
  <2>6. parsers[1].errors > 0
      BY <1>2, <2>5, ParsersFineFacts DEF AllReported, Calm
  <2>. QED
      BY <1>1, <2>6, AtTop
<1>9. Errors' = Errors
    BY <1>1 DEF Errors
<1>10. ParsersInv'
  <2>1. \A i \in 1 .. Len(frames') : ~Noticed(frames'[i]) => Errors' > 0
      BY <1>7, <1>9 DEF ParserInv, ParsersInv
  <2>. QED
      BY <1>1, <1>8, <1>9, <2>1 DEF ParserInv, ParsersInv
<1>11. Stages'
    BY <1>1, <1>2, <1>3 DEF ParserInv, Stages
<1>. QED
    BY <1>4, <1>6, <1>10, <1>11 DEF ParserInv

LEMMA AssignControl ==
    ASSUME ParserInv, Assign
    PROVE  ParserInv'
PROOF
<1>. DEFINE n == Len(frames)
            g == [Top EXCEPT !.node = created + 1]
            k == Top.at + 1
            f == Onward(g, k)
            fs == WithLast(frames, f)
            e == [frames[n - 1] EXCEPT !.held = Null]
<1>1. /\ Running /\ Top.phase = "steps" /\ Step.do = "assign"
      /\ frames' = [fs EXCEPT ![n - 1].held = Null]
      /\ created' = created + 1 /\ answer' = answer /\ parsers' = parsers /\ Steady
    BY DEF Assign, AtStep, At, OnlyFrames, Otherwise, SameScopes, SameFile, Steady
<1>2. /\ stage = "parsing" /\ frames # <<>> /\ IsSequence(frames) /\ n \in Nat \ {0}
      /\ Fine(Top) /\ RuleShape(Top.rule) /\ Top = frames[n] /\ created \in Nat
      /\ created + 1 # Null /\ answer = Null
    BY <1>1, AtTop DEF Waiting
<1>3. /\ Top.held = Null /\ InStep(Top) /\ Rules[Top.rule].form \in Stepping
      /\ Top.at \in 1 .. Len(StepsOf(Top.rule))
    BY <1>1, <1>2 DEF Fine, InStep, StepsOf
<1>4. StepShape(Top.rule, Top.at) /\ Top.at \in Nat /\ Step = StepsOf(Top.rule)[Top.at]
    BY <1>2, <1>3 DEF RuleShape, IsList, StepsOf, Step, Rule
<1>5. /\ Top.rule = "compound" /\ ~AssignAhead(Top.rule, Top.at + 1)
      /\ Between(Top.rule, Top.at + 1, "enter", "leave")
            <=> Between(Top.rule, Top.at, "enter", "leave")
      /\ Between(Top.rule, Top.at + 1, "loop", "unloop")
            <=> Between(Top.rule, Top.at, "loop", "unloop")
  <2>1. Top.at + 1 \in After(Top.rule, Top.at)
      BY DEF After
  <2>. QED
      BY <1>1, <1>4, <2>1 DEF StepShape, Brackets
<1>6. "compound" # "module" /\ frames[1].rule = "module"
    BY <1>2 DEF ParserInv, FramesInv
<1>7. n # 1
    BY <1>2, <1>5, <1>6
<1>8. n \in Nat /\ n > 1 /\ n - 1 \in 1 .. n - 1 /\ n - 1 \in 1 .. n /\ n \in 1 .. n
  <2>. HIDE DEF n
  <2>. QED
      BY <1>2, <1>7
<1>9. /\ DOMAIN g = DOMAIN Top /\ g.rule = Top.rule /\ g.held = Null
      /\ g.calm = Top.calm /\ g.text = Top.text /\ g.node = created + 1
    BY <1>2, <1>3 DEF Fine
<1>10. Rules[Top.rule].form # "scoped"
    BY <1>5, RulesAssumption, <1>1, <1>4 DEF StepShape
<1>11. /\ Fine(f) /\ f.rule = Top.rule /\ f.phase \in {"steps", "done"}
       /\ f.calm = Top.calm /\ f.text = Top.text
       /\ InScope(f) <=> Between(Top.rule, Top.at + 1, "enter", "leave")
       /\ InLoop(f) <=> Between(Top.rule, Top.at + 1, "loop", "unloop")
  <2>1. k \in After(Top.rule, Top.at) /\ g.node \in Nat /\ g.node # Null
      BY <1>2, <1>9 DEF After
  <2>. HIDE DEF g, k, InStep
  <2>2. /\ Fine(f) /\ f.rule = Top.rule /\ f.phase \in {"steps", "done"}
        /\ f.calm = Top.calm /\ f.text = Top.text
        /\ InScope(f) <=> Between(Top.rule, k, "enter", "leave")
        /\ InLoop(f) <=> Between(Top.rule, k, "loop", "unloop")
      BY <1>2, <1>3, <1>9, <1>10, <2>1, OnwardFine
  <2>. QED
      BY <2>2 DEF k
<1>. HIDE DEF f
<1>12. /\ IsSequence(fs) /\ Len(fs) = n
       /\ \A i \in 1 .. n : fs[i] = IF i = n THEN f ELSE frames[i]
    BY <1>2, WithLastFacts
<1>13. fs[n - 1] = frames[n - 1]
    BY <1>8, <1>12
<1>14. frames' = [fs EXCEPT ![n - 1] = e]
    BY <1>1, <1>13
<1>. HIDE DEF fs
<1>15. /\ IsSequence(frames') /\ Len(frames') = n /\ frames' # <<>>
       /\ \A i \in 1 .. n : frames'[i] = IF i = n THEN f ELSE IF i = n - 1 THEN e ELSE frames[i]
  <2>1. PICK S : fs \in Seq(S)
      BY <1>12 DEF IsSequence
  <2>2. fs \in Seq(S \cup {e}) /\ e \in S \cup {e} /\ n - 1 \in 1 .. Len(fs)
      BY <1>8, <1>12, <2>1
  <2>3. frames' \in Seq(S \cup {e}) /\ Len(frames') = Len(fs) /\ DOMAIN fs = 1 .. Len(fs)
      BY <1>14, <2>2
  <2>. QED
      BY <1>8, <1>12, <1>14, <2>3 DEF IsSequence
<1>16. frames[n - 1].phase = "assigned"
    BY <1>2, <1>5, <1>8 DEF ParserInv, FramesInv
<1>17. Fine(frames[n - 1])
    BY <1>8 DEF ParserInv, FramesInv
<1>18. /\ DOMAIN e = DOMAIN frames[n - 1] /\ e.held = Null /\ e.rule = frames[n - 1].rule
       /\ e.at = frames[n - 1].at /\ e.node = frames[n - 1].node /\ e.phase = "assigned"
       /\ e.calm = frames[n - 1].calm /\ e.text = frames[n - 1].text
    BY <1>16, <1>17 DEF Fine
<1>. HIDE DEF e, g, n
<1>19. Fine(e)
    BY <1>16, <1>17, <1>18 DEF Fine, Null, Waiting, Bare, Building
<1>20. \A i \in 1 .. n : /\ Fine(frames'[i]) /\ frames'[i].rule = frames[i].rule
                         /\ i < n => frames'[i].phase = frames[i].phase
                         /\ i < n - 1 => frames'[i] = frames[i]
  <2>1. \A i \in 1 .. n : Fine(frames[i])
      BY DEF ParserInv, FramesInv, n
  <2>. QED
      BY <1>2, <1>8, <1>11, <1>15, <1>16, <1>18, <1>19, <2>1
<1>21. FramesInv'
  <2>1. \A i \in 1 .. n : i < n => frames'[i].phase \in Waiting
      BY <1>20 DEF ParserInv, FramesInv, n
  <2>2. \A i \in 1 .. n : frames'[i].phase = "assigned" /\ frames'[i].held # Null =>
                             i < n /\ Ahead(frames'[i + 1])
    <3>1. SUFFICES ASSUME NEW i \in 1 .. n, frames'[i].phase = "assigned",
                          frames'[i].held # Null
                   PROVE  i < n /\ Ahead(frames'[i + 1])
        OBVIOUS
    <3>2. i # n /\ i # n - 1
        BY <1>8, <1>11, <1>15, <1>18, <3>1
    <3>3. i < n - 1 /\ i + 1 \in 1 .. n
        BY <1>8, <3>2
    <3>4. Ahead(frames[i + 1])
        BY <1>20, <3>1, <3>3 DEF ParserInv, FramesInv, n
    <3>5. frames[i + 1].phase # "assigned"
        BY <3>4 DEF Ahead, InStep
    <3>6. i + 1 # n - 1
        BY <1>16, <3>5
    <3>7. frames'[i + 1] = frames[i + 1]
        BY <1>8, <1>20, <3>3, <3>6
    <3>. QED
        BY <1>8, <3>3, <3>4, <3>7
  <2>3. \A i \in 1 .. n - 1 : frames'[i + 1].rule = "compound" => frames'[i].phase = "assigned"
    <3>1. SUFFICES ASSUME NEW i \in 1 .. n - 1, frames'[i + 1].rule = "compound"
                   PROVE  frames'[i].phase = "assigned"
        OBVIOUS
    <3>2. i \in 1 .. n /\ i + 1 \in 1 .. n /\ i < n
        BY <1>8
    <3>. QED
        BY <1>20, <3>1, <3>2 DEF ParserInv, FramesInv, n
  <2>4. frames'[1].rule = "module"
      BY <1>6, <1>8, <1>20
  <2>5. Last(frames') = f
      BY <1>8, <1>15, SequenceFacts
  <2>. QED
      BY <1>1, <1>2, <1>11, <1>15, <1>20, <2>1, <2>2, <2>3, <2>4, <2>5
         DEF FramesInv, Top, Rule
<1>22. /\ frames[n].phase = "steps" /\ f.phase # "slice"
       /\ InScope(f) <=> InScope(frames[n])
       /\ InLoop(frames[n]) => InLoop(f)
       /\ ~InScope(frames[n - 1]) /\ ~InScope(e) /\ ~InLoop(frames[n - 1])
    BY <1>1, <1>2, <1>5, <1>11, <1>16, <1>18 DEF InScope, InLoop, InStep
<1>23. SameStanding(frames, frames')
  <2>1. Slicing(frames') = Slicing(frames)
      BY <1>8, <1>15, <1>16, <1>18, <1>22 DEF Slicing, n
  <2>2. Entered(frames') = Entered(frames)
      BY <1>8, <1>15, <1>22 DEF Entered, n
  <2>3. ~InScope(frames[n])
    <3>1. Rules["compound"].form = "suffix"
        BY RulesAssumption DEF Callable
    <3>. QED
        BY <1>1, <1>2, <1>3, <1>5, <3>1 DEF RuleShape, InScope, InStep, Between, StepShape, StepsOf, IsList
  <2>4. \A i \in Entered(frames) : frames'[i].node = frames[i].node /\ frames'[i].rule = frames[i].rule
      BY <1>8, <1>15, <1>18, <1>20, <2>3 DEF Entered, n
  <2>5. \A i \in 1 .. Len(frames) : InLoop(frames[i]) => i \in 1 .. Len(frames') /\ InLoop(frames'[i])
      BY <1>8, <1>15, <1>22 DEF n
  <2>. QED
      BY <2>1, <2>2, <2>4, <2>5 DEF SameStanding
<1>24. Forward(parsers, parsers') /\ stage' = stage
    BY <1>1, Looking DEF Steady
<1>25. ParsersInv'
  <2>1. Noticed(f) \/ parsers'[1].errors > 0
      BY <1>1, <1>11, <1>24, StillNoticed DEF Noticed
  <2>2. Noticed(e) \/ parsers'[1].errors > 0
    <3>1. Noticed(e) <=> Noticed(frames[n - 1])
        BY <1>18 DEF Noticed
    <3>2. Noticed(frames[n - 1]) \/ Errors > 0
        BY <1>8 DEF ParserInv, ParsersInv, n
    <3>. QED
        BY <1>1, <3>1, <3>2, AtTop
  <2>3. \A i \in 1 .. Len(frames') :
            \/ Noticed(frames'[i]) \/ parsers'[1].errors > 0
            \/ i \in 1 .. Len(frames) /\ frames'[i] = frames[i]
      BY <1>8, <1>15, <2>1, <2>2 DEF n
  <2>. QED
      BY <1>1, <1>15, <1>24, <2>3, ParsersKept
<1>26. StreamsInv' /\ ScopesInv' /\ WithinInv'
    BY <1>1, <1>23, <1>24, StandingKept, StreamsKept DEF Steady, Forward
<1>27. Stages'
  <2>1. created' \in Nat
      BY <1>1, <1>2
  <2>. QED
      BY <1>1, <1>2, <2>1 DEF Steady, ParserInv, Stages
<1>. QED
    BY <1>21, <1>25, <1>26, <1>27 DEF ParserInv

-----------------------------------------------------------------------------
(* initialize_parser adds a parser behind the others. *)
LEMMA OpenedFacts ==
    ASSUME NEW ps, IsSequence(ps), \A k \in 1 .. Len(ps) : ParserFine(ps[k]),
           AllReported(ps), NEW tokens, NEW stream \in Nat
    PROVE  LET qs == Opened(ps, tokens, stream)
           IN  /\ ParsersFine(qs) /\ Len(qs) = Len(ps) + 1 /\ AllReported(qs)
               /\ \A k \in 1 .. Len(ps) : qs[k].stream = ps[k].stream
               /\ qs[Len(ps) + 1].stream = stream
               /\ ps # <<>> => qs[1].errors >= ps[1].errors
PROOF
<1>. DEFINE fresh == [tokens |-> tokens, at |-> 1, calm |-> TRUE, errors |-> 0,
                      stream |-> stream]
            as == Append(ps, fresh)
            bs == Scanned(as, 1)
            qs == Scanned(bs, 2)
<1>1. ParserFine(fresh) /\ fresh.calm /\ fresh.stream = stream
    BY DEF ParserFine
<1>. HIDE DEF fresh
<1>2. /\ IsSequence(as) /\ Len(as) = Len(ps) + 1 /\ as # <<>>
      /\ \A k \in 1 .. Len(ps) : as[k] = ps[k]
      /\ as[Len(ps) + 1] = fresh /\ Len(ps) \in Nat
      /\ (ps = <<>>) <=> (Len(ps) = 0)
    BY AppendFacts, SequenceFacts
<1>. HIDE DEF as
<1>3. \A k \in 1 .. Len(as) : k \in 1 .. Len(ps) \/ k = Len(ps) + 1
    BY <1>2
<1>4. ParsersFine(as)
    BY <1>1, <1>2, <1>3 DEF ParsersFine
<1>5. AllReported(as)
  <2>1. SUFFICES ASSUME NEW k \in 1 .. Len(as), ~as[k].calm
                 PROVE  as[1].errors > 0
      BY DEF AllReported
  <2>2. k \in 1 .. Len(ps)
      BY <1>1, <1>2, <1>3, <2>1
  <2>3. 1 \in 1 .. Len(ps)
      BY <1>2, <2>2
  <2>. QED
      BY <1>2, <2>1, <2>2, <2>3 DEF AllReported
<1>6. Forward(as, bs)
    BY <1>4, <1>5, ForwardRefl, RaisedForward DEF Scanned
<1>7. ParsersFine(bs) /\ AllReported(bs)
    BY <1>4, <1>6, ParsersFineFacts, SequenceFacts DEF Forward, Shifts, ParsersFine
<1>8. Forward(bs, qs)
    BY <1>7, ForwardRefl, RaisedForward DEF Scanned
<1>9. qs = Opened(ps, tokens, stream)
    BY DEF Opened, qs, bs, as, fresh
<1>. HIDE DEF bs, qs
<1>10. Forward(as, qs)
    BY <1>4, <1>6, <1>8, ForwardTwice
<1>11. ParsersFine(qs) /\ Len(qs) = Len(ps) + 1 /\ AllReported(qs)
    BY <1>2, <1>4, <1>10, ParsersFineFacts, SequenceFacts DEF Forward, Shifts, ParsersFine
<1>12. /\ \A k \in 1 .. Len(ps) : qs[k].stream = ps[k].stream
       /\ qs[Len(ps) + 1].stream = stream
  <2>1. \A k \in 1 .. Len(as) : qs[k].stream = as[k].stream
      BY <1>10 DEF Forward, Shifts
  <2>2. (1 .. Len(ps)) \cup {Len(ps) + 1} \subseteq 1 .. Len(as)
      BY <1>2
  <2>. QED
      BY <1>1, <1>2, <2>1, <2>2
<1>13. ps # <<>> => qs[1].errors >= ps[1].errors
  <2>1. ps # <<>> => 1 \in 1 .. Len(ps)
      BY <1>2
  <2>2. ps # <<>> => as[1] = ps[1]
      BY <1>2, <2>1
  <2>. QED
      BY <1>10, <2>2 DEF Forward, Shifts
<1>. QED
    BY <1>9, <1>11, <1>12, <1>13

LEMMA OpenSliceControl ==
    ASSUME ParserInv, OpenSlice
    PROVE  ParserInv'
PROOF
<1>. DEFINE n == Len(frames)
            f == [Top EXCEPT !.phase = "slice", !.held = created + 1]
            g == Frame("expression")
<1>1. /\ Running /\ Top.phase = "slices" /\ answer' = answer /\ created' = created + 1
      /\ streams' = Append(streams, NewStream)
      /\ parsers' = Opened(parsers, Slice.code, NewStream)
      /\ frames' = Append(WithLast(frames, f), g)
      /\ UNCHANGED <<stage, scopes, within>>
    BY DEF OpenSlice, At, Call, SameScopes
<1>2. /\ stage = "parsing" /\ frames # <<>> /\ n \in Nat \ {0} /\ Top = frames[n]
      /\ Fine(Top) /\ answer = Null /\ ParsersFine(parsers) /\ AllReported(parsers)
      /\ Errors = parsers[1].errors /\ created \in Nat /\ created + 1 # Null
      /\ IsSequence(frames) /\ IsSequence(streams) /\ Top = Last(frames)
      /\ ~Noticed(Top) => parsers[1].errors > 0
    BY <1>1, AtTop DEF Waiting, Top
<1>3. /\ Fine(g) /\ g.rule # "compound" /\ Rules[g.rule].form # "suffix"
      /\ g.phase \in {"enter", "steps"} /\ ~InScope(g) /\ Noticed(g)
    BY RulesAssumption, FrameFine
<1>. HIDE DEF g
<1>4. /\ DOMAIN f = DOMAIN Top /\ f.rule = Top.rule /\ f.at = Top.at
      /\ f.node = Top.node /\ f.held = created + 1 /\ f.phase = "slice"
      /\ f.calm = Top.calm /\ f.text = Top.text
    BY <1>2 DEF Fine
<1>. HIDE DEF f
<1>5. Rules[Top.rule].form = "fstring" /\ Top.node # Null
    BY <1>1, <1>2 DEF Fine, Building
<1>6. Fine(f) /\ ~InStep(f) /\ ~InStep(Top) /\ Top.rule # "compound"
    BY <1>1, <1>2, <1>4, <1>5, RulesAssumption
       DEF Fine, Null, Waiting, Bare, Building, InStep, Callable
<1>7. FramesInv'
  <2>1. Ahead(Top) => Ahead(f)
      BY <1>6 DEF Ahead
  <2>2. (Rules[g.rule].form = "suffix" => Starts(Rules[g.rule].start))'
      BY <1>3
  <2>. QED
      BY <1>1, <1>2, <1>3, <1>4, <1>6, <2>1, <2>2, CallFrames DEF ParserInv, Waiting
<1>8. /\ IsSequence(WithLast(frames, f)) /\ Len(WithLast(frames, f)) = n
      /\ \A i \in 1 .. n : WithLast(frames, f)[i] = IF i = n THEN f ELSE frames[i]
    BY <1>2, WithLastFacts
<1>9. /\ frames' # <<>> /\ Len(frames') = n + 1 /\ frames'[n + 1] = g
      /\ \A i \in 1 .. n : frames'[i] = IF i = n THEN f ELSE frames[i]
    BY <1>1, <1>8, AppendFacts
<1>10. /\ Slicing(frames) \subseteq 1 .. n /\ n \notin Slicing(frames)
       /\ Entered(frames) \subseteq 1 .. n /\ n \notin Entered(frames)
    BY <1>1, <1>2, <1>6, SetsFacts DEF InScope
<1>11. Slicing(frames') = Slicing(frames) \cup {n}
  <2>1. Slicing(WithLast(frames, f)) = (Slicing(frames) \ {n}) \cup {n}
      BY <1>2, <1>4, WithLastSets
  <2>2. Slicing(frames') = Slicing(WithLast(frames, f)) \cup {}
      BY <1>1, <1>3, <1>8, AppendSets
  <2>. QED
      BY <1>10, <2>1, <2>2
<1>12. Entered(frames') = Entered(frames)
  <2>1. Entered(WithLast(frames, f)) = (Entered(frames) \ {n}) \cup {}
      BY <1>2, <1>6, WithLastSets DEF InScope
  <2>2. Entered(frames') = Entered(WithLast(frames, f)) \cup {}
      BY <1>1, <1>3, <1>8, AppendSets
  <2>. QED
      BY <1>10, <2>1, <2>2
<1>13. ScopesInv' /\ WithinInv'
  <2>1. \A i \in Entered(frames) : frames'[i].node = frames[i].node /\ frames'[i].rule = frames[i].rule
      BY <1>9, <1>10
  <2>2. \A i \in 1 .. n : InLoop(frames[i]) => i \in 1 .. n + 1 /\ InLoop(frames'[i])
    <3>. HIDE DEF n
    <3>1. SUFFICES ASSUME NEW i \in 1 .. n, InLoop(frames[i])
                   PROVE  i \in 1 .. n + 1 /\ InLoop(frames'[i])
        OBVIOUS
    <3>2. i # n
        BY <1>2, <1>6, <3>1 DEF InLoop
    <3>. QED
        BY <1>2, <1>9, <3>1, <3>2
  <2>. QED
      BY <1>1, <1>9, <1>12, <2>1, <2>2, EnteredKept DEF SameEntered
<1>14. NewStream \in Nat /\ (streams # <<>>) /\ Len(parsers) = Len(streams)
       /\ \A k \in 1 .. Len(streams) : streams[k] \in Nat /\ parsers[k].stream = streams[k]
  <2>1. /\ \A k \in 1 .. Len(streams) : streams[k] \in Nat
        /\ Len(parsers) = Len(streams) /\ streams # <<>>
        /\ \A k \in 1 .. Len(streams) : parsers[k].stream = streams[k]
      BY <1>2 DEF ParserInv, StreamsInv
  <2>2. Last(streams) \in Nat
      BY <1>2, <2>1, SequenceFacts
  <2>. QED
      BY <2>1, <2>2 DEF NewStream
<1>15. /\ ParsersFine(parsers') /\ Len(parsers') = Len(parsers) + 1 /\ AllReported(parsers')
       /\ \A k \in 1 .. Len(parsers) : parsers'[k].stream = parsers[k].stream
       /\ parsers'[Len(parsers) + 1].stream = NewStream
       /\ parsers'[1].errors >= parsers[1].errors
    BY <1>1, <1>2, <1>14, OpenedFacts DEF ParsersFine
<1>16. ParsersInv'
  <2>1. Errors' = parsers'[1].errors /\ Errors' \in Nat /\ Errors \in Nat /\ Errors' >= Errors
      BY <1>2, <1>15, ParsersFineFacts DEF Errors, ParsersFine, ParserFine
  <2>2. \A i \in 1 .. n + 1 : ~Noticed(frames'[i]) => Errors' > 0
    <3>1. SUFFICES ASSUME NEW i \in 1 .. n + 1, ~Noticed(frames'[i])
                   PROVE  Errors > 0
        BY <2>1
    <3>2. i # n + 1
        BY <1>3, <1>9, <3>1
    <3>3. i \in 1 .. n /\ (i = n => ~Noticed(Top)) /\ (i # n => ~Noticed(frames[i]))
        BY <1>2, <1>4, <1>9, <3>1, <3>2 DEF Noticed
    <3>. QED
        BY <1>2, <3>3 DEF ParserInv, ParsersInv
  <2>. QED
      BY <1>9, <1>15, <2>2 DEF ParsersInv, ParsersFine
<1>17. StreamsInv'
  <2>1. /\ IsSequence(streams') /\ Len(streams') = Len(streams) + 1 /\ streams' # <<>>
        /\ \A k \in 1 .. Len(streams) : streams'[k] = streams[k]
        /\ streams'[Len(streams) + 1] = NewStream
        /\ Len(streams) \in Nat \ {0}
      BY <1>1, <1>2, <1>14, AppendFacts, SequenceFacts
  <2>2. \A k \in 1 .. Len(streams') : k \in 1 .. Len(streams) \/ k = Len(streams) + 1
      BY <2>1
  <2>3. PICK p : Orders(p, Len(streams) - 1, Slicing(frames))
      BY <1>2 DEF ParserInv, StreamsInv
  <2>. DEFINE m == Len(streams) - 1
              q == [k \in 1 .. m + 1 |-> IF k = m + 1 THEN n ELSE p[k]]
  <2>4. m \in Nat /\ m + 1 = Len(streams') - 1
      BY <2>1
  <2>5. \A i \in Slicing(frames) : i < n /\ i \in Nat
      BY <1>2, <1>10
  <2>6. Orders(p, m, Slicing(frames)) /\ Slicing(frames) \subseteq Nat /\ n \in Nat
      BY <1>2, <2>3, <2>5
  <2>. HIDE DEF m, n
  <2>7. Orders(q, m + 1, Slicing(frames) \cup {n})
      BY <2>4, <2>5, <2>6, OrdersMore
  <2>8. Orders(q, Len(streams') - 1, Slicing(frames'))
      BY <1>11, <2>4, <2>7
  <2>9. /\ Len(parsers') = Len(streams')
        /\ \A k \in 1 .. Len(streams') : streams'[k] \in Nat /\ parsers'[k].stream = streams'[k]
      BY <1>14, <1>15, <2>1, <2>2
  <2>. QED
      BY <2>1, <2>8, <2>9 DEF StreamsInv
<1>18. Stages'
    BY <1>1, <1>2 DEF ParserInv, Stages
<1>. QED
    BY <1>7, <1>13, <1>16, <1>17, <1>18 DEF ParserInv

LEMMA CloseSliceControl ==
    ASSUME ParserInv, CloseSlice
    PROVE  ParserInv'
PROOF
<1>. DEFINE n == Len(frames)
            f == [Top EXCEPT !.phase = "slices", !.at = @ + 1, !.held = Null]
            ended == Expected(parsers, "EOF")
            qs == IF answer = Null THEN Raised(ended) ELSE ended
<1>1. /\ Running /\ Top.phase = "slice" /\ answer' = Null /\ created' = created
      /\ streams' = Front(streams) /\ parsers' = Front(qs)
      /\ frames' = WithLast(frames, f)
      /\ UNCHANGED <<stage, scopes, within>>
    BY DEF CloseSlice, At, Goto, SameScopes
<1>2. /\ stage = "parsing" /\ frames # <<>> /\ n \in Nat \ {0} /\ Top = frames[n]
      /\ Fine(Top) /\ ParsersFine(parsers) /\ AllReported(parsers)
      /\ Errors = parsers[1].errors /\ created \in Nat
      /\ IsSequence(frames) /\ IsSequence(streams) /\ Top = Last(frames)
      /\ ~Noticed(Top) => parsers[1].errors > 0
    BY <1>1, AtTop DEF Top
<1>3. Forward(parsers, qs)
  <2>1. Forward(parsers, ended)
      BY <1>2, ExpectedForward
  <2>2. Forward(parsers, Raised(ended))
      BY <1>2, <2>1, RaisedAfter DEF Forward
  <2>. QED
      BY <2>1, <2>2
<1>. HIDE DEF ended, qs
<1>4. /\ DOMAIN f = DOMAIN Top /\ f.rule = Top.rule /\ f.at = Top.at + 1
      /\ f.node = Top.node /\ f.held = Null /\ f.phase = "slices"
      /\ f.calm = Top.calm /\ f.text = Top.text
    BY <1>2 DEF Fine
<1>. HIDE DEF f, n
<1>5. Rules[Top.rule].form = "fstring" /\ Top.node # Null
    BY <1>1, <1>2 DEF Fine, Building
<1>6. Fine(f) /\ ~InStep(f) /\ ~InStep(Top) /\ Top.rule # "compound"
    BY <1>1, <1>2, <1>4, <1>5, RulesAssumption
       DEF Fine, Null, Waiting, Bare, Building, InStep, Callable
<1>7. FramesInv'
  <2>1. Ahead(Top) => Ahead(f)
      BY <1>6 DEF Ahead
  <2>. QED
      BY <1>1, <1>2, <1>4, <1>6, <2>1, GotoFrames DEF ParserInv, Null
<1>8. /\ frames' # <<>> /\ Len(frames') = n
      /\ \A i \in 1 .. n : frames'[i] = IF i = n THEN f ELSE frames[i]
    BY <1>1, <1>2, WithLastFacts DEF n
<1>9. /\ Slicing(frames) \subseteq 1 .. n /\ n \in Slicing(frames)
      /\ Entered(frames) \subseteq 1 .. n /\ n \notin Entered(frames)
    BY <1>1, <1>2, <1>6, SetsFacts DEF InScope, n
<1>10. Slicing(frames') = Slicing(frames) \ {n}
  <2>1. Slicing(WithLast(frames, f)) = (Slicing(frames) \ {n}) \cup {}
      BY <1>2, <1>4, WithLastSets DEF n
  <2>. QED
      BY <1>1, <2>1
<1>11. Entered(frames') = Entered(frames)
  <2>1. Entered(WithLast(frames, f)) = (Entered(frames) \ {n}) \cup {}
      BY <1>2, <1>6, WithLastSets DEF InScope, n
  <2>. QED
      BY <1>1, <1>9, <2>1
<1>12. ScopesInv' /\ WithinInv'
  <2>1. \A i \in Entered(frames) : frames'[i].node = frames[i].node /\ frames'[i].rule = frames[i].rule
      BY <1>8, <1>9
  <2>2. \A i \in 1 .. n : InLoop(frames[i]) => i \in 1 .. n /\ InLoop(frames'[i])
      BY <1>2, <1>6, <1>8 DEF InLoop
  <2>. QED
      BY <1>1, <1>8, <1>11, <2>1, <2>2, EnteredKept DEF SameEntered, n
<1>13. PICK p : Orders(p, Len(streams) - 1, Slicing(frames))
    BY <1>2 DEF ParserInv, StreamsInv
<1>14. /\ streams # <<>> /\ Len(streams) \in Nat \ {0} /\ Len(parsers) = Len(streams)
       /\ \A k \in 1 .. Len(streams) : streams[k] \in Nat /\ parsers[k].stream = streams[k]
    BY <1>2, SequenceFacts DEF ParserInv, StreamsInv
<1>. DEFINE m == Len(streams) - 1
            q == [k \in 1 .. m - 1 |-> p[k]]
<1>15. m \in Nat \ {0} /\ Orders(q, m - 1, Slicing(frames'))
  <2>1. m \in Nat /\ Orders(p, m, Slicing(frames)) /\ Slicing(frames) \subseteq Nat
        /\ \A i \in Slicing(frames) : i <= n
      BY <1>2, <1>9, <1>13, <1>14
  <2>. HIDE DEF m
  <2>2. m \in Nat \ {0} /\ Orders(q, m - 1, Slicing(frames) \ {n})
      BY <1>9, <2>1, OrdersLess
  <2>. QED
      BY <1>10, <2>2
<1>16. Len(qs) = m + 1 /\ IsSequence(qs) /\ qs # <<>>
  <2>1. IsSequence(qs) /\ Len(qs) = m + 1
      BY <1>3, <1>14 DEF Forward, Shifts
  <2>2. Len(qs) # 0
      BY <1>15, <2>1
  <2>. QED
      BY <2>1, <2>2, SequenceFacts
<1>17. /\ IsSequence(parsers') /\ Len(parsers') = m
       /\ \A k \in 1 .. m : parsers'[k] = qs[k]
  <2>. HIDE DEF m
  <2>1. /\ IsSequence(parsers') /\ Len(parsers') = Len(qs) - 1
        /\ \A k \in 1 .. Len(qs) - 1 : parsers'[k] = qs[k]
      BY <1>1, <1>16, FrontFacts
  <2>2. Len(qs) - 1 = m
      BY <1>15, <1>16
  <2>. QED
      BY <2>1, <2>2
<1>18. /\ IsSequence(streams') /\ Len(streams') = m /\ streams' # <<>>
       /\ \A k \in 1 .. m : streams'[k] = streams[k]
  <2>1. /\ IsSequence(streams') /\ Len(streams') = m
        /\ \A k \in 1 .. m : streams'[k] = streams[k]
      BY <1>1, <1>2, <1>14, FrontFacts
  <2>2. Len(streams') # 0
      BY <1>15, <2>1
  <2>. QED
      BY <2>1, <2>2, SequenceFacts
<1>19. Len(parsers) = m + 1
    BY <1>14
<1>. HIDE DEF m
<1>20. /\ \A k \in 1 .. m : k \in 1 .. m + 1 /\ ParserFine(parsers'[k])
                            /\ parsers'[k].stream = parsers[k].stream
       /\ 1 \in 1 .. m /\ parsers'[1] = qs[1] /\ qs[1].errors >= parsers[1].errors
       /\ AllReported(parsers') /\ parsers' # <<>>
  <2>1. \A k \in 1 .. m : k \in 1 .. m + 1
      BY <1>15
  <2>2. 1 \in 1 .. m
      BY <1>15
  <2>3. parsers' # <<>>
    <3>1. Len(parsers') # 0
        BY <1>15, <1>17
    <3>. QED
        BY <1>17, <3>1, SequenceFacts
  <2>4. AllReported(parsers')
      BY <1>3, <1>16, <1>17, <2>1, <2>2 DEF Forward, AllReported
  <2>. QED
      BY <1>3, <1>17, <1>19, <2>1, <2>2, <2>3, <2>4 DEF Forward, Shifts
<1>21. ParsersInv'
  <2>1. Errors' = parsers'[1].errors /\ Errors' \in Nat /\ Errors \in Nat /\ Errors' >= Errors
      BY <1>2, <1>20, ParsersFineFacts DEF Errors, ParserFine
  <2>2. \A i \in 1 .. n : ~Noticed(frames'[i]) => Errors' > 0
    <3>1. SUFFICES ASSUME NEW i \in 1 .. n, ~Noticed(frames'[i])
                   PROVE  Errors > 0
        BY <2>1
    <3>2. (i = n => ~Noticed(Top)) /\ (i # n => ~Noticed(frames[i]))
        BY <1>2, <1>4, <1>8, <3>1 DEF Noticed
    <3>. QED
        BY <1>2, <3>2 DEF ParserInv, ParsersInv, n
  <2>. QED
      BY <1>8, <1>17, <1>20, <2>2 DEF ParsersInv
<1>22. StreamsInv'
  <2>1. Orders(q, Len(streams') - 1, Slicing(frames'))
      BY <1>15, <1>18
  <2>2. \A k \in 1 .. m : k \in 1 .. Len(streams)
      BY <1>14, <1>19, <1>20
  <2>. QED
      BY <1>14, <1>17, <1>18, <1>20, <2>1, <2>2 DEF StreamsInv
<1>23. Stages'
    BY <1>1, <1>2 DEF ParserInv, Stages, Null
<1>. QED
    BY <1>7, <1>12, <1>21, <1>22, <1>23 DEF ParserInv

-----------------------------------------------------------------------------
(* Without a frame there is no scope, no register and no f-string. *)
LEMMA NoFrames ==
    ASSUME ParserInv, frames = <<>>
    PROVE  /\ Slicing(frames) = {} /\ Entered(frames) = {}
           /\ scopes = <<>> /\ within = Outside
PROOF
<1>1. \A i \in 1 .. Len(frames) : FALSE
    OBVIOUS
<1>2. Slicing(frames) = {} /\ Entered(frames) = {}
    BY <1>1 DEF Slicing, Entered
<1>3. PICK p : Orders(p, Len(scopes), {})
    BY <1>2 DEF ParserInv, ScopesInv
<1>4. \A k \in 1 .. Len(scopes) : FALSE
    BY <1>3 DEF Orders
<1>5. scopes = <<>>
  <2>1. IsSequence(scopes)
      BY DEF ParserInv, ScopesInv
  <2>. QED
      BY <1>4, <2>1, SequenceFacts
<1>6. within = Outside
  <2>1. /\ within \in [function : Nat, class : Nat, loop : Nat]
        /\ within.function = Null /\ within.class = Null /\ within.loop = Null
      BY <1>1 DEF ParserInv, WithinInv, EnteredAs
  <2>. QED
      BY <2>1 DEF Outside
<1>. QED
    BY <1>2, <1>5, <1>6

LEMMA EmptyOrders ==
    \E p : Orders(p, 0, {})
PROOF
<1>. DEFINE p == [k \in 1 .. 0 |-> 0]
<1>1. \A k \in 1 .. 0 : FALSE
    OBVIOUS
<1>2. p \in [1 .. 0 -> {}]
    BY <1>1
<1>3. Orders(p, 0, {})
    BY <1>1, <1>2 DEF Orders
<1>. QED
    BY <1>3

LEMMA EmptyFacts ==
    IsSequence(<<>>) /\ Slicing(<<>>) = {} /\ Entered(<<>>) = {} /\ Len(<<>>) = 0
PROOF
<1>1. IsSequence(<<>>)
  <2>1. <<>> \in Seq({})
      OBVIOUS
  <2>. QED
      BY <2>1 DEF IsSequence
<1>. QED
    BY <1>1 DEF Slicing, Entered

LEMMA OneFacts ==
    ASSUME NEW e
    PROVE  /\ IsSequence(<<e>>) /\ Len(<<e>>) = 1 /\ <<e>>[1] = e /\ <<e>> # <<>>
           /\ Last(<<e>>) = e /\ Append(<<>>, e) = <<e>>
PROOF
<1>1. <<e>> \in Seq({e}) /\ Len(<<e>>) = 1 /\ <<e>>[1] = e /\ <<e>> # <<>>
    OBVIOUS
<1>2. Append(<<>>, e) = <<e>>
    OBVIOUS
<1>. QED
    BY <1>1, <1>2 DEF IsSequence, Last

LEMMA InitControl ==
    Init => ParserInv
PROOF
<1>. SUFFICES ASSUME Init PROVE ParserInv
    OBVIOUS
<1>1. /\ stage = "closed" /\ parsers = <<>> /\ frames = <<>> /\ streams = <<>>
      /\ scopes = <<>> /\ answer = Null /\ created = 0 /\ within = Outside
    BY DEF Init
<1>2. FramesInv
    BY <1>1, EmptyFacts DEF FramesInv
<1>3. ParsersInv
    BY <1>1, EmptyFacts DEF ParsersInv, AllReported
<1>4. StreamsInv
    BY <1>1, EmptyFacts DEF StreamsInv
<1>5. ScopesInv
    BY <1>1, EmptyFacts, EmptyOrders DEF ScopesInv
<1>6. WithinInv
    BY <1>1 DEF WithinInv, Outside, Null
<1>7. Stages
    BY <1>1 DEF Stages, Null
<1>. QED
    BY <1>2, <1>3, <1>4, <1>5, <1>6, <1>7 DEF ParserInv

LEMMA RestartControl ==
    ASSUME ParserInv, Restart
    PROVE  ParserInv'
PROOF
<1>1. /\ stage' = "closed" /\ parsers' = <<>> /\ frames' = <<>> /\ streams' = <<>>
      /\ scopes' = <<>> /\ answer' = Null /\ created' = 0 /\ within' = Outside
    BY DEF Restart, Reset
<1>2. FramesInv'
    BY <1>1, EmptyFacts DEF FramesInv
<1>3. ParsersInv'
    BY <1>1, EmptyFacts DEF ParsersInv, AllReported
<1>4. StreamsInv'
    BY <1>1, EmptyFacts DEF StreamsInv
<1>5. ScopesInv'
  <2>1. PICK p : Orders(p, 0, {})
      BY EmptyOrders
  <2>2. IsSequence(scopes') /\ Len(scopes') = 0 /\ Entered(frames') = {}
      BY <1>1, EmptyFacts
  <2>3. \A k \in 1 .. Len(scopes') : scopes'[k] = frames'[p[k]].node
      BY <2>2
  <2>4. Orders(p, Len(scopes'), Entered(frames'))
      BY <2>1, <2>2
  <2>. QED
      BY <2>2, <2>3, <2>4 DEF ScopesInv
<1>6. WithinInv'
    BY <1>1 DEF WithinInv, Outside, Null
<1>7. Stages'
    BY <1>1 DEF Stages, Null
<1>. QED
    BY <1>2, <1>3, <1>4, <1>5, <1>6, <1>7 DEF ParserInv

LEMMA OpenFileControl ==
    ASSUME ParserInv, OpenFile
    PROVE  ParserInv'
PROOF
<1>. DEFINE g == Frame("module")
<1>1. /\ stage = "closed" /\ stage' = "parsing" /\ streams' = Append(streams, NewStream)
      /\ parsers' = Opened(<<>>, source, NewStream) /\ frames' = <<g>>
      /\ UNCHANGED <<answer, created, scopes, within>>
    BY DEF OpenFile
<1>2. frames = <<>> /\ streams = <<>> /\ parsers = <<>> /\ answer = Null /\ created \in Nat
    BY <1>1 DEF ParserInv, Stages
<1>3. scopes = <<>> /\ within = Outside
    BY <1>2, NoFrames
<1>4. /\ Fine(g) /\ g.rule = "module" /\ g.phase \in {"enter", "steps"}
      /\ ~InScope(g) /\ Noticed(g) /\ Rules[g.rule].form = "construct"
    BY RulesAssumption, FrameFine
<1>5. g.phase = "enter"
    BY <1>4 DEF Frame
<1>. HIDE DEF g
<1>6. /\ IsSequence(frames') /\ Len(frames') = 1 /\ frames'[1] = g /\ frames' # <<>>
      /\ Last(frames') = g
    BY <1>1, OneFacts
<1>7. \A i \in 1 .. 1 : i = 1
    OBVIOUS
<1>8. FramesInv'
  <2>1. "compound" # "module" /\ "enter" \notin {"assigned"} /\ ~(1 < 1)
      OBVIOUS
  <2>2. \A i \in 1 .. 1 - 1 : FALSE
      OBVIOUS
  <2>3. \A i \in 1 .. Len(frames') : i = 1
      BY <1>6, <1>7
  <2>4. Len(frames') - 1 = 1 - 1
      BY <1>6
  <2>5. answer' = Null
      BY <1>1, <1>2
  <2>. QED
      BY <1>4, <1>5, <1>6, <2>1, <2>2, <2>3, <2>4, <2>5 DEF FramesInv, Top, Rule
<1>9. NewStream = 1
    BY <1>2 DEF NewStream
<1>10. /\ ParsersFine(parsers') /\ Len(parsers') = 1 /\ AllReported(parsers')
       /\ parsers'[1].stream = 1
  <2>1. PICK none : none = <<>>
      OBVIOUS
  <2>2. /\ IsSequence(none) /\ \A k \in 1 .. Len(none) : ParserFine(none[k])
        /\ AllReported(none)
      BY <2>1, EmptyFacts DEF AllReported
  <2>3. parsers' = Opened(none, source, 1) /\ 1 \in Nat
      BY <1>1, <1>9, <2>1
  <2>. DEFINE one == 1
  <2>5. one \in Nat /\ parsers' = Opened(none, source, one)
      BY <2>3
  <2>. HIDE DEF one
  <2>4. /\ ParsersFine(parsers') /\ Len(parsers') = Len(none) + 1 /\ AllReported(parsers')
        /\ parsers'[Len(none) + 1].stream = one
      BY <2>2, <2>5, OpenedFacts
  <2>. QED
      BY <2>1, <2>4, EmptyFacts DEF one
<1>11. ParsersInv'
    BY <1>4, <1>6, <1>7, <1>10 DEF ParsersInv, ParsersFine
<1>12. StreamsInv'
  <2>1. IsSequence(streams') /\ Len(streams') = 1 /\ streams' # <<>> /\ streams'[1] = 1
      BY <1>1, <1>2, <1>9, OneFacts
  <2>2. Slicing(frames') = {}
      BY <1>5, <1>6, <1>7 DEF Slicing
  <2>3. PICK p : Orders(p, 0, {})
      BY EmptyOrders
  <2>4. Orders(p, Len(streams') - 1, Slicing(frames'))
      BY <2>1, <2>2, <2>3
  <2>. QED
      BY <1>7, <1>10, <2>1, <2>4 DEF StreamsInv
<1>13. ScopesInv'
  <2>1. Entered(frames') = {} /\ Len(scopes') = 0 /\ IsSequence(scopes')
      BY <1>1, <1>3, <1>4, <1>6, <1>7, EmptyFacts DEF Entered
  <2>2. PICK p : Orders(p, 0, {})
      BY EmptyOrders
  <2>3. Orders(p, Len(scopes'), Entered(frames')) /\ \A k \in 1 .. Len(scopes') : FALSE
      BY <2>1, <2>2
  <2>. QED
      BY <2>1, <2>3 DEF ScopesInv
<1>14. WithinInv'
    BY <1>1, <1>3 DEF WithinInv, Outside, Null
<1>15. Stages'
    BY <1>1, <1>2 DEF Stages, Null
<1>. QED
    BY <1>8, <1>11, <1>12, <1>13, <1>14, <1>15 DEF ParserInv

LEMMA FailToOpenControl ==
    ASSUME ParserInv, FailToOpen
    PROVE  ParserInv'
PROOF
<1>. DEFINE lost == [Nothing EXCEPT !.errors = 1]
<1>1. /\ stage = "closed" /\ stage' = "parsed" /\ answer' = Null /\ parsers' = <<lost>>
      /\ UNCHANGED <<streams, frames, created, scopes, within>>
    BY DEF FailToOpen
<1>2. /\ frames = <<>> /\ streams = <<>> /\ frames' = <<>> /\ streams' = <<>>
      /\ created \in Nat
    BY <1>1 DEF ParserInv, Stages
<1>3. ParserFine(lost) /\ lost.calm /\ lost.errors = 1
    BY DEF Nothing, ParserFine
<1>. HIDE DEF lost
<1>4. IsSequence(parsers') /\ Len(parsers') = 1 /\ parsers' # <<>> /\ parsers'[1] = lost
    BY <1>1, OneFacts
<1>5. \A k \in 1 .. Len(parsers') : k = 1
    BY <1>4
<1>6. \A i \in 1 .. Len(frames') : FALSE
    BY <1>2
<1>7. FramesInv'
    BY <1>1, <1>2, <1>6, EmptyFacts DEF FramesInv
<1>8. ParsersInv'
  <2>1. Errors' > 0
      BY <1>3, <1>4 DEF Errors
  <2>. QED
      BY <1>3, <1>4, <1>5, <1>6, <2>1 DEF ParsersInv, AllReported
<1>9. StreamsInv'
    BY <1>1, <1>2, EmptyFacts DEF StreamsInv
<1>10. ScopesInv' /\ WithinInv'
    BY <1>1, StandingKept DEF SameStanding
<1>11. Stages'
    BY <1>1, <1>2, <1>4 DEF Stages, Null
<1>. QED
    BY <1>7, <1>8, <1>9, <1>10, <1>11 DEF ParserInv

LEMMA CloseFileControl ==
    ASSUME ParserInv, CloseFile
    PROVE  ParserInv'
PROOF
<1>1. /\ stage = "parsing" /\ frames = <<>> /\ stage' = "parsed"
      /\ streams' = Front(streams)
      /\ UNCHANGED <<parsers, frames, answer, created, scopes, within>>
    BY DEF CloseFile
<1>2. FramesInv'
    BY <1>1 DEF ParserInv, FramesInv, Top, Rule
<1>3. ParsersInv'
    BY <1>1 DEF ParserInv, ParsersInv, Errors
<1>4. Len(streams) = 1 /\ Len(parsers) = 1 /\ IsSequence(streams) /\ streams # <<>>
  <2>1. PICK p : Orders(p, Len(streams) - 1, Slicing(frames))
      BY <1>1 DEF ParserInv, StreamsInv
  <2>2. /\ IsSequence(streams) /\ streams # <<>> /\ Len(parsers) = Len(streams)
        /\ Len(streams) \in Nat \ {0}
      BY <1>1, SequenceFacts DEF ParserInv, StreamsInv
  <2>3. \A k \in 1 .. Len(streams) - 1 : FALSE
      BY <1>1, <2>1, NoFrames DEF Orders
  <2>4. ~(1 \in 1 .. Len(streams) - 1)
      BY <2>3
  <2>. QED
      BY <2>2, <2>4
<1>5. streams' = <<>> /\ IsSequence(streams')
  <2>1. IsSequence(streams') /\ Len(streams') = 0
      BY <1>1, <1>4, FrontFacts
  <2>. QED
      BY <2>1, SequenceFacts
<1>6. StreamsInv'
    BY <1>1, <1>5 DEF StreamsInv
<1>7. ScopesInv' /\ WithinInv'
    BY <1>1, StandingKept DEF SameStanding
<1>8. Stages'
    BY <1>1, <1>4, <1>5 DEF ParserInv, Stages
<1>. QED
    BY <1>2, <1>3, <1>6, <1>7, <1>8 DEF ParserInv

LEMMA StutterControl ==
    ASSUME ParserInv, UNCHANGED vars
    PROVE  ParserInv'
PROOF
<1>1. UNCHANGED <<stage, parsers, frames, answer, created, scopes, within, streams>>
    BY DEF vars
<1>2. FramesInv' /\ ParsersInv' /\ StreamsInv' /\ Stages'
    BY <1>1 DEF ParserInv, FramesInv, ParsersInv, StreamsInv, Stages, Top, Rule, Starts,
                Fits, Calm, Current, Errors
<1>3. ScopesInv' /\ WithinInv'
    BY <1>1, StandingKept DEF SameStanding
<1>. QED
    BY <1>2, <1>3 DEF ParserInv

LEMMA StepControl ==
    ASSUME ParserInv, [Parsing \/ Restart]_vars
    PROVE  ParserInv'
PROOF
<1>1. CASE UNCHANGED vars
    BY <1>1, StutterControl
<1>2. CASE Restart
    BY <1>2, RestartControl
<1>3. CASE OpenFile \/ FailToOpen \/ CloseFile
    BY <1>3, OpenFileControl, FailToOpenControl, CloseFileControl
<1>4. CASE Begin \/ Return \/ ExpectToken \/ OptionalToken \/ ReadText \/ CallChild \/ TakeChild
    BY <1>4, BeginControl, ReturnControl, StepsControl, JumpsControl, CallChildControl,
       TakeChildControl
<1>5. CASE Choose \/ TakeChosen \/ ReadVisibility \/ TakeSuffix \/ TakeSuffixed
    BY <1>5, ChooseControl, TakeChosenControl, ReadVisibilityControl, TakeSuffixControl,
       TakeSuffixedControl
<1>6. CASE CallOperand \/ TakeLeft \/ TakeRight \/ CallFirst \/ TakeFirst
    BY <1>6, CallOperandControl, TakeLeftControl, TakeRightControl, CallFirstControl,
       TakeFirstControl
<1>7. CASE BeginMany \/ TakeItem \/ AppendItem \/ EndMany
    BY <1>7, BeginManyControl, TakeItemControl, AppendItemControl, EndManyControl
<1>8. CASE BeginAssign \/ TakeTarget \/ TakeAssigned \/ Assign
    BY <1>8, BeginAssignControl, TakeTargetControl, TakeAssignedControl, AssignControl
<1>9. CASE BeginFString \/ EndFString \/ TextSlice \/ OpenSlice \/ CloseSlice
    BY <1>9, FStringControl, OpenSliceControl, CloseSliceControl
<1>10. CASE Concat \/ Declare \/ Define \/ Constructor \/ Iterator
    BY <1>10, JumpsControl, StepsControl, DefineControl
<1>11. CASE EnterScope \/ LeaveScope \/ Loop \/ LinkJump \/ Check \/ IndexList
    BY <1>11, EnterScopeControl, LeaveScopeControl, LoopControl, StepsControl
<1>12. CASE DefaultRange \/ Alias \/ MarkScoped \/ TypeDefinition
    BY <1>12, StepsControl, JumpsControl, TypeDefinitionControl
<1>13. \/ UNCHANGED vars \/ Restart \/ OpenFile \/ FailToOpen \/ CloseFile
       \/ Syntax \/ Semantics
    BY DEF Parsing
<1>14. CASE Syntax
    BY <1>4, <1>5, <1>6, <1>7, <1>14 DEF Syntax
<1>15. CASE Semantics
    BY <1>8, <1>9, <1>10, <1>11, <1>12, <1>15 DEF Semantics
<1>. QED
    BY <1>1, <1>2, <1>3, <1>13, <1>14, <1>15

-----------------------------------------------------------------------------
(* Whatever the text: frames, parsers, streams, scopes and registers fit   *)
(* each other after every step of the parser.                              *)
THEOREM ControlFits == Spec => []ParserInv
PROOF
<1>1. Init => ParserInv
    BY InitControl
<1>2. ParserInv /\ [Parsing \/ Restart]_vars => ParserInv'
    BY StepControl
<1>. QED
    BY <1>1, <1>2, PTL DEF Spec

(* A file without a tree has an error, for every text: a parser that falls *)
(* out of calm has reported one, the recovery of multiparse included, and  *)
(* the rule of a module never gives up (parse.c:196-205, 253-281).         *)
THEOREM NoTreeIsReported == Spec => []NoSilentFailure
PROOF
<1>1. ParserInv => NoSilentFailure
    BY DEF ParserInv, Stages, ParsersInv, NoSilentFailure, Finished
<1>. QED
    BY <1>1, ControlFits, PTL

(* After every text the scopes are left, the registers of functions,       *)
(* classes and loops are cleared, and the streams are closed, each of them *)
(* by the one that opened it (parse.c:1217-1316, iostream.c:35).           *)
THEOREM LeavesNothingBehind == Spec => []EndsClean
PROOF
<1>1. ParserInv => EndsClean
  <2>1. SUFFICES ASSUME ParserInv, Finished
                 PROVE  /\ scopes = <<>> /\ within = Outside
                        /\ streams = <<>> /\ Len(parsers) = 1
      BY DEF EndsClean
  <2>2. frames = <<>> /\ streams = <<>> /\ Len(parsers) = 1
      BY <2>1 DEF Finished, ParserInv, Stages
  <2>. QED
      BY <2>1, <2>2, NoFrames
<1>. QED
    BY <1>1, ControlFits, PTL

=============================================================================
