------------------------------- MODULE Parser -------------------------------
(***************************************************************************)
(* The recursive descent parser of tree/parse.c.  The functions under way  *)
(* are a stack of frames that execute the rules of the grammar; a parser   *)
(* looks at two tokens of a stream, falls out of calm at an error and      *)
(* finds back to it in multiparse.  An f-string opens a stream of its own  *)
(* with a parser of its own; the error handler knows the outermost one.    *)
(***************************************************************************)
EXTENDS RuleShapes, SequencesExt

CONSTANTS
    Sources,     \* the token sequences a file may hold
    Class,       \* the tokens of a class: identifier, string, integer, ...
    Slices       \* the slices of an f-string token

ASSUME ClassAssumption == {"identifier", "string"} \subseteq DOMAIN Class
ASSUME SlicesAssumption == Class["fstring"] = DOMAIN Slices
ASSUME NamesAssumption == \A c \in DOMAIN Class : "none" \notin Class[c]

VARIABLES
    source,      \* the tokens of the file
    stage,       \* "closed", "parsing" or "parsed"
    parsers,     \* the parsers at work, the innermost last
    frames,      \* the rules under way, the innermost last
    answer,      \* the node the last rule returned
    heap,        \* the nodes that are allocated
    created,     \* the number of the node that was created last
    scopes,      \* the nodes whose scopes are entered, the innermost last
    symbols,     \* the symbols in the scope of a node
    within,      \* the function, the class and the loop being parsed
    streams,     \* the streams that are open, in the order of opening
    fault        \* "none", a failed assertion or the use of a freed node

vars == <<source, stage, parsers, frames, answer, heap, created, scopes,
          symbols, within, streams, fault>>

-----------------------------------------------------------------------------
\* Tokens and the window of a parser.
IsOf(token, kind) ==
    \/ token = kind
    \/ kind \in DOMAIN Class /\ token \in Class[kind]
    \/ token = "bad" /\ kind = "EOF"

\* The token stream behind read_token: comments are skipped, and behind its
\* last token a stream only has ends.  The scanner reports a token it cannot
\* read ("bad") and returns an end for it.
Token(parser, i) ==
    LET tokens == SelectSeq(parser.tokens, LAMBDA t : t # "comment")
    IN  IF i <= Len(tokens) THEN tokens[i] ELSE "EOF"

Current == Token(Last(parsers), Last(parsers).at)

WithLast(s, e) == [s EXCEPT ![Len(s)] = e]

\* tarot_error_at: the registered handler, panic, is the outermost parser's.
Raised(ps) == [ps EXCEPT ![1].calm = FALSE, ![1].errors = @ + 1]

\* Token i is read into the window of the innermost parser.
Scanned(ps, i) == IF Token(Last(ps), i) = "bad" THEN Raised(ps) ELSE ps

Uncalm(ps) == WithLast(ps, [Last(ps) EXCEPT !.calm = FALSE])

Advanced(ps) ==
    IF IsOf(Token(Last(ps), Last(ps).at), "EOF") THEN Raised(Uncalm(ps))
    ELSE Scanned(WithLast(ps, [Last(ps) EXCEPT !.at = @ + 1]), Last(ps).at + 2)

\* initialize_parser: two tokens are read.
Opened(ps, tokens, stream) ==
    LET fresh == [tokens |-> tokens, at |-> 1, calm |-> TRUE, errors |-> 0,
                  stream |-> stream]
    IN  Scanned(Scanned(Append(ps, fresh), 1), 2)

Calm == Last(parsers).calm
Fits(kind) == Calm /\ IsOf(Current, kind)
Starts(start) == start = {} \/ \E kind \in start : Fits(kind)

\* match() without a result: the token is taken if it is there.
Matched(kind) == IF Fits(kind) /\ kind # "EOF" THEN Advanced(parsers) ELSE parsers

(* Mutant: a token that is not the expected one is not reported. *)
ExpectedQuietly(ps, kind) ==
    IF ~Last(ps).calm THEN ps
    ELSE IF ~IsOf(Token(Last(ps), Last(ps).at), kind) THEN Uncalm(ps)
    ELSE IF kind = "EOF" THEN ps ELSE Advanced(ps)

Expected(ps, kind) ==
    IF ~Last(ps).calm THEN ps
    ELSE IF ~IsOf(Token(Last(ps), Last(ps).at), kind) THEN Raised(Uncalm(ps))
    ELSE IF kind = "EOF" THEN ps ELSE Advanced(ps)

-----------------------------------------------------------------------------
\* Frames.  The nodes of a frame, what is in "node" and in "held", are its own:
\* it hands them on, puts them into a node or frees them.
Frame(rule) ==
    [rule |-> rule, at |-> 1, node |-> Null, held |-> Null, text |-> "none",
     phase |-> IF Rules[rule].form = "scoped" THEN "steps" ELSE "enter",
     calm |-> TRUE]

Top == Last(frames)
Rule == Rules[Top.rule]
Step == Rule.steps[Top.at]

Running == stage = "parsing" /\ fault = "none" /\ frames # <<>>
At(phase) == Running /\ Top.phase = phase
In(forms, phase) == At(phase) /\ Rule.form \in forms
AtStep(what) == At("steps") /\ Step.do = what

Goto(frame) == frames' = WithLast(frames, frame)
Call(frame, callee) == frames' = Append(WithLast(frames, frame), callee)
Done(node) == [Top EXCEPT !.phase = "done", !.node = node, !.held = Null]

\* The frame with its node, at step i of its rule.
Onward(frame, i) ==
    [frame EXCEPT !.at = i,
                  !.phase = IF i > Len(Rules[frame.rule].steps) THEN "done"
                            ELSE "steps"]
NextStep == Onward(Top, Top.at + 1)

SameTree == UNCHANGED <<heap, created>>
SameScopes == UNCHANGED <<scopes, symbols, within>>
SameFile == UNCHANGED <<source, stage, streams>>
Otherwise == UNCHANGED fault /\ SameScopes /\ SameFile
OnlyFrames == UNCHANGED answer /\ Otherwise
Taking == answer' = Null /\ Otherwise     \* the answer is the frame's now

\* A new node of the rule's kind around another one, which may be missing.
NewAround(text, field, kid) ==
    /\ heap' = Attach(Create(heap, created + 1, Rule.kind, text),
                      created + 1, field, kid)
    /\ created' = created + 1

-----------------------------------------------------------------------------
\* match, and tarot_create_node for the token matched.
Begin ==
    /\ In({"construct", "suffix", "chain"}, "enter")
    /\ IF Starts(Rule.start)
       THEN /\ IF Rule.form = "suffix" THEN NewAround(Current, Rule.field, Top.held)
               ELSE NewAround(IF Rule.start = {} THEN "none" ELSE Current, "none", Null)
            /\ parsers' = IF Rule.start = {} THEN parsers ELSE Advanced(parsers)
            /\ Goto(IF Rule.form = "chain"
                    THEN [Top EXCEPT !.phase = "suffixes", !.node = created + 1]
                    ELSE Onward([Top EXCEPT !.node = created + 1, !.held = Null], 1))
       ELSE Goto(Done(Null)) /\ SameTree /\ UNCHANGED parsers
    /\ OnlyFrames

\* result(): a node built while the parser is not calm is freed.
Return ==
    /\ At("done")
    /\ frames' = Front(frames)
    /\ LET dropped == Top.node # Null /\ ~Calm
       IN  /\ answer' = IF dropped THEN Null ELSE Top.node
           /\ heap' = IF dropped THEN Free(heap, Top.node) ELSE heap
           /\ symbols' = [o \in DOMAIN symbols \cap DOMAIN heap' |-> symbols[o]]
    /\ UNCHANGED <<parsers, created, scopes, within, fault>>
    /\ SameFile

ExpectToken ==
    /\ AtStep("expect")
    /\ parsers' = Expected(parsers, Step.token)
    /\ Goto(NextStep)
    /\ SameTree /\ OnlyFrames

OptionalToken ==
    /\ AtStep("maybe")
    /\ parsers' = Matched(Step.token)
    /\ Goto(IF Fits(Step.token) THEN NextStep
            ELSE Onward(Top, Top.at + 1 + Step.over))
    /\ SameTree /\ OnlyFrames

(* Mutant: a name that is missing is no error. *)
ReadTextQuietly ==
    /\ AtStep("name") \/ AtStep("path")
    /\ LET kind == IF Step.do = "name" THEN "identifier" ELSE "string"
           text == IF Fits(kind) THEN Current ELSE "none"
       IN  /\ parsers' = Matched(kind)
           /\ heap' = IF Step.do = "name" THEN [heap EXCEPT ![Top.node].text = text]
                      ELSE [heap EXCEPT ![Top.node].note = text]
    /\ Goto(NextStep)
    /\ UNCHANGED created /\ OnlyFrames

\* read_identifier and get_string: the token becomes a text of the node.
ReadText ==
    /\ AtStep("name") \/ AtStep("path")
    /\ LET kind == IF Step.do = "name" THEN "identifier" ELSE "string"
           text == IF Fits(kind) THEN Current ELSE "none"
       IN  /\ parsers' = Expected(parsers, kind)
           /\ heap' = IF Step.do = "name" THEN [heap EXCEPT ![Top.node].text = text]
                      ELSE [heap EXCEPT ![Top.node].note = text]
    /\ Goto(NextStep)
    /\ UNCHANGED created /\ OnlyFrames

CallChild ==
    /\ AtStep("child") \/ AtStep("become")
    /\ Call([Top EXCEPT !.phase = "child"], Frame(Step.rule))
    /\ SameTree /\ OnlyFrames /\ UNCHANGED parsers

TakeChild ==
    /\ At("child")
    /\ IF Step.do = "become"
       THEN Goto(Onward([Top EXCEPT !.node = answer], Top.at + 1)) /\ UNCHANGED heap
       ELSE Goto(NextStep) /\ heap' = Attach(heap, Top.node, Step.field, answer)
    /\ UNCHANGED <<parsers, created>> /\ Taking

-----------------------------------------------------------------------------
\* (node = first(parser)) or (node = second(parser)) or ...: the rules that
\* cannot start here return nothing and change nothing.
Choose ==
    /\ In({"choice"}, "enter") \/ In({"definition"}, "choose")
    /\ LET left == {i \in Top.at .. Len(Rule.of) : Starts(Rules[Rule.of[i]].start)}
       IN  \/ \E first \in left :
                 /\ \A i \in left : first <= i
                 /\ Call([Top EXCEPT !.phase = "chosen", !.at = first + 1],
                         Frame(Rule.of[first]))
                 /\ UNCHANGED parsers
           \/ \* parse_definition: a visibility without a definition
              /\ left = {}
              /\ Goto(Done(Null))
              /\ parsers' = IF Calm /\ Top.text # "none" THEN Raised(parsers)
                            ELSE parsers
    /\ SameTree /\ OnlyFrames

TakeChosen ==
    /\ At("chosen")
    /\ Goto(IF Rule.form = "choice"
            THEN IF answer = Null THEN [Top EXCEPT !.phase = "enter"] ELSE Done(answer)
            ELSE [Top EXCEPT !.phase = IF answer = Null THEN "choose" ELSE "define",
                             !.node = answer])
    /\ SameTree /\ Taking /\ UNCHANGED parsers

ReadVisibility ==
    /\ In({"definition"}, "enter")
    /\ IF Fits("public") \/ Fits("private")
       THEN /\ parsers' = Advanced(parsers)
            /\ Goto([Top EXCEPT !.phase = "choose", !.text = Current])
       ELSE /\ Goto([Top EXCEPT !.phase = "choose"])
            /\ UNCHANGED parsers
    /\ SameTree /\ OnlyFrames

\* The suffixes of an identifier, as long as there are any.
TakeSuffix ==
    /\ In({"chain"}, "suffixes")
    /\ LET fitting == {r \in ToSet(Rule.of) : Starts(Rules[r].start)}
       IN  \/ fitting = {} /\ Goto(Done(Top.node))
           \/ \E r \in fitting :
                 Call([Top EXCEPT !.phase = "suffixed", !.node = Null],
                      [Frame(r) EXCEPT !.held = Top.node])
    /\ SameTree /\ OnlyFrames /\ UNCHANGED parsers

TakeSuffixed ==
    /\ At("suffixed")
    /\ Goto(IF answer = Null THEN Done(Null)
            ELSE [Top EXCEPT !.phase = "suffixes", !.node = answer])
    /\ SameTree /\ Taking /\ UNCHANGED parsers

CallOperand ==
    /\ In({"level"}, "enter")
    /\ Call([Top EXCEPT !.phase = "left"], Frame(Rule.operand))
    /\ SameTree /\ OnlyFrames /\ UNCHANGED parsers

\* An operator makes the level call itself for the right operand.
TakeLeft ==
    /\ At("left")
    /\ IF \E operator \in Rule.operators : Fits(operator)
       THEN /\ Call([Top EXCEPT !.phase = "right", !.held = answer, !.text = Current],
                    Frame(Rule.self))
            /\ parsers' = Advanced(parsers)
       ELSE Goto(Done(answer)) /\ UNCHANGED parsers
    /\ SameTree /\ Taking

(* Mutant: the left operand is forgotten. *)
TakeRightOnly ==
    /\ At("right")
    /\ heap' = Attach(Create(heap, created + 1, Rule.kind, Top.text),
                      created + 1, "right_operand", answer)
    /\ created' = created + 1
    /\ Goto(Done(created + 1))
    /\ UNCHANGED parsers /\ Taking

TakeRight ==
    /\ At("right")
    /\ heap' = LET node == created + 1
                   made == Create(heap, node, Rule.kind, Top.text)
               IN  Attach(Attach(made, node, "left_operand", Top.held),
                          node, "right_operand", answer)
    /\ created' = created + 1
    /\ Goto(Done(created + 1))
    /\ UNCHANGED parsers /\ Taking

CallFirst ==
    /\ In({"wrap"}, "enter")
    /\ Call([Top EXCEPT !.phase = "first"], Frame(Rule.first))
    /\ SameTree /\ OnlyFrames /\ UNCHANGED parsers

\* A node around the first part; parse_datatype frees the name of a built in
\* type and keeps its number only.
TakeFirst ==
    /\ At("first")
    /\ LET named == answer # Null /\ Rule.kind = "Type"
                    /\ heap[answer].kind = "Identifier"
                    /\ heap[answer].text \in TypeNames
       IN  IF answer = Null THEN Goto(Done(Null)) /\ SameTree
           ELSE /\ IF named
                   THEN /\ heap' = Create(Free(heap, answer), created + 1, "Type",
                                          heap[answer].text)
                        /\ created' = created + 1
                   ELSE NewAround("none", Rule.field, answer)
                /\ Goto(Onward([Top EXCEPT !.node = created + 1], 1))
    /\ UNCHANGED parsers /\ Taking

-----------------------------------------------------------------------------
\* multiparse: the rule is called until it returns nothing or no comma
\* follows; the parser is only as calm afterwards as it was before, when
\* the token that opens the list had been taken (tree/parse.c:688, 714).
CallItem(frame, ps) ==
    Call([frame EXCEPT !.phase = "item"], Frame(Rule.of)) /\ parsers' = ps

BeginMany ==
    /\ In({"many"}, "enter")
    /\ IF Starts(Rule.start)
       THEN /\ LET past == IF Rule.start = {} THEN parsers ELSE Advanced(parsers)
               IN  CallItem([Top EXCEPT !.node = created + 1, !.calm = Last(past).calm], past)
            /\ heap' = [Create(heap, created + 1, Rule.kind, "none")
                            EXCEPT ![created + 1].note = Rule.note]
            /\ created' = created + 1
       ELSE Goto(Done(Null)) /\ SameTree /\ UNCHANGED parsers
    /\ OnlyFrames

(* Mutant: recovery tries the rule again at the same token. *)
TakeItemAgain ==
    /\ At("item")
    /\ LET fine == answer # Null \/ (Calm /\ Top.text # "recover")
       IN  IF fine \/ IsOf(Current, "EOF")
           THEN /\ Goto([Top EXCEPT !.phase = "append", !.held = answer, !.text = "none"])
                /\ parsers' = IF fine THEN parsers ELSE Uncalm(parsers)
           ELSE CallItem([Top EXCEPT !.text = "recover"],
                         WithLast(parsers, [Last(parsers) EXCEPT !.calm = TRUE]))
    /\ SameTree /\ Taking

\* recover(): skip a token and try the rule again, until it returns a node
\* or the file ends.
TakeItem ==
    /\ At("item")
    /\ LET fine == answer # Null \/ (Calm /\ Top.text # "recover")
       IN  IF fine \/ IsOf(Current, "EOF")
           THEN /\ Goto([Top EXCEPT !.phase = "append", !.held = answer, !.text = "none"])
                /\ parsers' = IF fine THEN parsers ELSE Uncalm(parsers)
           ELSE CallItem([Top EXCEPT !.text = "recover"],
                    Advanced(WithLast(parsers, [Last(parsers) EXCEPT !.calm = TRUE])))
    /\ SameTree /\ Taking

AppendItem ==
    /\ At("append")
    /\ heap' = Attach(heap, Top.node, "element", Top.held)
    /\ LET ps == IF Rule.comma THEN Matched(",") ELSE parsers
           more == Top.held # Null /\ (Rule.comma => Fits(","))
           kept == [Top EXCEPT !.held = Null]
       IN  IF more THEN CallItem(kept, ps)
           ELSE Goto([kept EXCEPT !.phase = "close"]) /\ parsers' = ps
    /\ UNCHANGED created /\ OnlyFrames

EndMany ==
    /\ At("close")
    /\ LET restored == IF Calm /\ ~Top.calm THEN Uncalm(parsers) ELSE parsers
       IN  parsers' = IF Rule.close = {} THEN restored
                      ELSE Expected(restored, CHOOSE t \in Rule.close : TRUE)
    /\ Goto(Done(Top.node))
    /\ SameTree /\ OnlyFrames

-----------------------------------------------------------------------------
\* An assignment, or an expression with a semicolon.
BeginAssign ==
    /\ In({"assign"}, "enter")
    /\ Call([Top EXCEPT !.phase = "target"], Frame("primary"))
    /\ SameTree /\ OnlyFrames /\ UNCHANGED parsers

Assigned(target) == [Top EXCEPT !.phase = "assigned", !.held = target]
Compound == Starts(Rules["compound"].start)

\* x += e is parsed as x = x + e with a copy of x.
TakeTarget ==
    /\ At("target")
    /\ fault' = IF answer # Null /\ ~Fits("=") /\ Compound /\ ~CanCopy(heap, answer)
                THEN "assert" ELSE fault
    /\ IF answer = Null THEN Goto(Done(Null)) /\ SameTree /\ UNCHANGED parsers
       ELSE IF Fits("=")
       THEN /\ Call(Assigned(Null), [Frame("assignment") EXCEPT !.held = answer])
            /\ SameTree /\ UNCHANGED parsers
       ELSE IF Compound
       THEN /\ heap' = Copy(heap, answer, created)
            /\ created' = 2 * created
            /\ Call(Assigned(answer), [Frame("compound") EXCEPT !.held = answer + created])
            /\ UNCHANGED parsers
       ELSE /\ heap' = Attach(Create(heap, created + 1, "ExpressionStatement", ";"),
                              created + 1, "expression", answer)
            /\ created' = created + 1
            /\ parsers' = Expected(parsers, ";")
            /\ Goto(Done(created + 1))
    /\ answer' = Null /\ SameScopes /\ SameFile

\* A failed assignment has freed its target, and the statement is parsed on
\* with it.
TakeAssigned ==
    /\ At("assigned")
    /\ fault' = IF answer = Null THEN "stale" ELSE fault
    /\ Goto(Done(answer))
    /\ answer' = Null
    /\ UNCHANGED parsers /\ SameTree /\ SameScopes /\ SameFile

OperatorOf == ("+=" :> "+") @@ ("-=" :> "-") @@ ("*=" :> "*") @@ ("/=" :> "/")

Assign ==
    /\ AtStep("assign")
    /\ LET caller == Len(frames) - 1
           target == frames[caller].held
           node == created + 1
           operation == [heap EXCEPT ![Top.node].text = OperatorOf[@]]
       IN  /\ heap' = Attach(Attach(Create(operation, node, "Assignment", "="),
                                    node, "identifier", target),
                             node, "value", Top.node)
           /\ created' = node
           /\ frames' = [WithLast(frames, Onward([Top EXCEPT !.node = node], Top.at + 1))
                            EXCEPT ![caller].held = Null]
    /\ UNCHANGED parsers /\ OnlyFrames

-----------------------------------------------------------------------------
\* parse_fstring: each piece of code in the string is parsed by a parser of
\* its own, from a stream of its own.
Limit == 8       \* lengthof(streams)

BeginFString ==
    /\ In({"fstring"}, "enter")
    /\ IF Starts(Rule.start)
       THEN /\ heap' = Create(heap, created + 1, "FString", Current)
            /\ created' = created + 1
            /\ parsers' = Advanced(parsers)
            /\ Goto([Top EXCEPT !.phase = "slices", !.node = created + 1, !.text = Current])
       ELSE Goto(Done(Null)) /\ SameTree /\ UNCHANGED parsers
    /\ OnlyFrames

Slice == Slices[Top.text][Top.at]

EndFString ==
    /\ At("slices") /\ Top.at > Len(Slices[Top.text])
    /\ Goto(Done(Top.node))
    /\ SameTree /\ OnlyFrames /\ UNCHANGED parsers

TextSlice ==
    /\ At("slices") /\ Top.at <= Len(Slices[Top.text]) /\ Slice.code = <<>>
    /\ heap' = Attach(Create(heap, created + 1, "FStringString", Slice.text),
                      Top.node, "element", created + 1)
    /\ created' = created + 1
    /\ Goto([Top EXCEPT !.at = @ + 1])
    /\ UNCHANGED parsers /\ OnlyFrames

NewStream == IF streams = <<>> THEN 1 ELSE Last(streams) + 1

OpenSlice ==
    /\ At("slices") /\ Top.at <= Len(Slices[Top.text]) /\ Slice.code # <<>>
    /\ fault' = IF Len(streams) = Limit THEN "assert" ELSE fault
    /\ streams' = Append(streams, NewStream)
    /\ parsers' = Opened(parsers, Slice.code, NewStream)
    /\ heap' = Create(heap, created + 1, "FStringExpression", "none")
    /\ created' = created + 1
    /\ Call([Top EXCEPT !.phase = "slice", !.held = created + 1], Frame("expression"))
    /\ UNCHANGED <<source, stage, answer>> /\ SameScopes

CloseSlice ==
    /\ At("slice")
    /\ LET ended == Expected(parsers, "EOF")
       IN  parsers' = Front(IF answer = Null THEN Raised(ended) ELSE ended)
    /\ fault' = IF Last(streams) # Last(parsers).stream THEN "assert" ELSE fault
    /\ streams' = Front(streams)
    /\ heap' = Attach(Attach(heap, Top.held, "expression", answer),
                      Top.node, "element", Top.held)
    /\ Goto([Top EXCEPT !.phase = "slices", !.at = @ + 1, !.held = Null])
    /\ answer' = Null
    /\ UNCHANGED <<source, stage, created>> /\ SameScopes

(* Mutant: adjacent strings are not joined. *)
ConcatNone ==
    /\ AtStep("concat")
    /\ Goto(NextStep)
    /\ SameTree /\ OnlyFrames /\ UNCHANGED parsers

\* parse_string: adjacent strings are one.
Concat ==
    /\ AtStep("concat")
    /\ IF Fits("string")
       THEN /\ heap' = [heap EXCEPT ![Top.node].text = @ \o Current]
            /\ parsers' = Advanced(parsers)
            /\ UNCHANGED frames
       ELSE Goto(NextStep) /\ UNCHANGED <<heap, parsers>>
    /\ UNCHANGED created /\ OnlyFrames

-----------------------------------------------------------------------------
\* Scopes.  lookup_symbol compares with every symbol of every scope that is
\* entered, the outermost first, and a symbol outlives the block it is in.
NestingLimit == 10    \* lengthof(stack->scopes)

\* Symbol i of the scope that was entered as the k-th.
Visible == UNION {{<<k, i>> : i \in DOMAIN symbols[scopes[k]]} : k \in DOMAIN scopes}
SymbolAt(place) == symbols[scopes[place[1]]][place[2]]
NotAfter(p, q) == p[1] < q[1] \/ (p[1] = q[1] /\ p[2] <= q[2])

\* What comparing a symbol with a name comes to: tarot_compare_strings asserts
\* that there are two names, and a node whose name was not read has none.
Compared(h, symbol, name) ==
    IF symbol \notin DOMAIN h THEN "stale"
    ELSE IF "none" \in {name, h[symbol].text} THEN "assert"
    ELSE IF name = h[symbol].text THEN "equal" ELSE "different"

\* The visible symbols that lookup_symbol stops at.
Met(h, name) == {p \in Visible : Compared(h, SymbolAt(p), name) # "different"}

(* Mutant: symbols are added to the scope of the module. *)
AddedOutermost(h, node) ==
    LET met == Met(h, h[node].text)
    IN  IF ~Calm THEN UNCHANGED <<symbols, parsers, fault>>
        ELSE IF met = {}
        THEN /\ symbols' = [symbols EXCEPT ![Head(scopes)] = Append(@, node)]
             /\ UNCHANGED <<parsers, fault>>
        ELSE \E first \in met :
                /\ \A p \in met : NotAfter(first, p)
                /\ LET compared == Compared(h, SymbolAt(first), h[node].text)
                   IN  IF compared = "equal"
                       THEN parsers' = Raised(parsers) /\ UNCHANGED <<symbols, fault>>
                       ELSE fault' = compared /\ UNCHANGED <<symbols, parsers>>

\* add_to_current_scope, with the nodes of heap h.
Added(h, node) ==
    LET met == Met(h, h[node].text)
    IN  IF ~Calm THEN UNCHANGED <<symbols, parsers, fault>>
        ELSE IF met = {}
        THEN /\ symbols' = [symbols EXCEPT ![Last(scopes)] = Append(@, node)]
             /\ UNCHANGED <<parsers, fault>>
        ELSE \E first \in met :
                /\ \A p \in met : NotAfter(first, p)
                /\ LET compared == Compared(h, SymbolAt(first), h[node].text)
                   IN  IF compared = "equal"
                       THEN parsers' = Raised(parsers) /\ UNCHANGED <<symbols, fault>>
                       ELSE fault' = compared /\ UNCHANGED <<symbols, parsers>>

Declare ==
    /\ AtStep("declare")
    /\ Added(heap, Top.node)
    /\ Goto(NextStep)
    /\ UNCHANGED <<answer, scopes, within>> /\ SameTree /\ SameFile

\* parse_definition: the visibility is set whether or not the name was free.
Define ==
    /\ At("define")
    /\ Added(heap, Top.node)
    /\ heap' = [heap EXCEPT ![Top.node].note = Top.text]
    /\ Goto(Done(Top.node))
    /\ UNCHANGED <<created, answer, scopes, within>> /\ SameFile

\* A constructor is a symbol of its class, by the name of the class, and its
\* parameters are symbols of the class as well: enter_node ignores it.
Constructor ==
    /\ AtStep("constructor")
    /\ LET h == [heap EXCEPT ![Top.node].link = within.class,
                             ![Top.node].text = heap[within.class].text]
       IN  heap' = h /\ Added(h, Top.node)
    /\ Goto(NextStep)
    /\ UNCHANGED <<created, answer, scopes, within>> /\ SameFile

\* The variable of a for loop: an Integer that starts at 0.
Iterator ==
    /\ AtStep("iterator")
    /\ LET i == created + 1
           one == Create(heap, i, "Variable", heap[Top.node].text)
           two == Attach(Create(one, i + 1, "Type", "Integer"), i, "type", i + 1)
           all == Attach(Create(two, i + 2, "Literal", "0"), i, "value", i + 2)
       IN  /\ heap' = Attach([all EXCEPT ![Top.node].text = "for"],
                             Top.node, "identifier", i)
           /\ created' = i + 2
           /\ Added(all, i)
    /\ Goto(NextStep)
    /\ UNCHANGED <<answer, scopes, within>> /\ SameFile

(* Mutant: a method does not register itself. *)
RegisteredFunctions(kind, node) ==
    IF kind = "Class" THEN [within EXCEPT !.class = node]
    ELSE IF kind = "Function" THEN [within EXCEPT !.function = node]
    ELSE within

Registered(kind, node) ==
    IF kind = "Class" THEN [within EXCEPT !.class = node]
    ELSE IF kind \in {"Function", "Method"} THEN [within EXCEPT !.function = node]
    ELSE within

(* Mutant: a definition does not create its scope. *)
EnterScopeBare ==
    /\ AtStep("enter")
    /\ fault' = IF Len(scopes) = NestingLimit THEN "assert" ELSE fault
    /\ scopes' = Append(scopes, Top.node)
    /\ within' = Registered(Rule.kind, Top.node)
    /\ Goto(NextStep)
    /\ UNCHANGED <<parsers, answer, symbols>> /\ SameTree /\ SameFile

EnterScope ==
    /\ AtStep("enter")
    /\ fault' = IF Len(scopes) = NestingLimit THEN "assert" ELSE fault
    /\ scopes' = Append(scopes, Top.node)
    /\ symbols' = [o \in DOMAIN symbols \cup {Top.node} |->
                      IF o = Top.node THEN <<>> ELSE symbols[o]]
    /\ within' = Registered(Rule.kind, Top.node)
    /\ Goto(NextStep)
    /\ UNCHANGED <<parsers, answer>> /\ SameTree /\ SameFile

LeaveScope ==
    /\ AtStep("leave")
    /\ fault' = IF scopes = <<>> \/ Last(scopes) # Top.node THEN "assert" ELSE fault
    /\ scopes' = Front(scopes)
    /\ within' = Registered(Rule.kind, Null)
    /\ Goto(NextStep)
    /\ UNCHANGED <<parsers, answer, symbols>> /\ SameTree /\ SameFile

-----------------------------------------------------------------------------
(* Mutant: a loop does not clear the register at its end. *)
LoopKept ==
    /\ AtStep("loop") \/ AtStep("unloop")
    /\ within' = [within EXCEPT !.loop = Top.node]
    /\ Goto(NextStep)
    /\ UNCHANGED <<parsers, answer, scopes, symbols, fault>> /\ SameTree /\ SameFile

\* Loops and links.
Loop ==
    /\ AtStep("loop") \/ AtStep("unloop")
    /\ within' = [within EXCEPT !.loop = IF Step.do = "loop" THEN Top.node ELSE Null]
    /\ Goto(NextStep)
    /\ UNCHANGED <<parsers, answer, scopes, symbols, fault>> /\ SameTree /\ SameFile

LinkJump ==
    /\ AtStep("inFunction") \/ AtStep("inLoop")
    /\ heap' = [heap EXCEPT ![Top.node].link = IF Step.do = "inLoop" THEN within.loop
                                               ELSE within.function]
    /\ Goto(NextStep)
    /\ UNCHANGED <<created, parsers>> /\ OnlyFrames

\* break outside of a loop, and else without a statement.
Check ==
    /\ AtStep("outside") \/ AtStep("require")
    /\ parsers' = IF \/ Step.do = "outside" /\ within.loop = Null
                     \/ Step.do = "require" /\ Calm /\ Kid(heap, Top.node, "elseif") = Null
                  THEN Raised(parsers) ELSE parsers
    /\ Goto(NextStep)
    /\ SameTree /\ OnlyFrames

\* The elements of a list get their index or their link; a parameter list or
\* a handler list that was lost to an error is no block to look into.
Elements(field) ==
    LET list == Kid(heap, Top.node, field)
    IN  IF list = Null THEN {} ELSE {k.node : k \in ToSet(heap[list].kids)}

ListOf == [index |-> "parameters", handlers |-> "handlers", enumerators |-> "block"]

IndexList ==
    /\ AtStep("index") \/ AtStep("handlers") \/ AtStep("enumerators")
    /\ LET field == ListOf[Step.do]
           lost == Kid(heap, Top.node, field) = Null /\ Step.do # "enumerators"
       IN  /\ fault' = IF lost THEN "assert" ELSE fault
           /\ heap' = IF Step.do = "index" THEN heap
                      ELSE [n \in DOMAIN heap |->
                              IF n \in Elements(field)
                              THEN [heap[n] EXCEPT !.link = Top.node] ELSE heap[n]]
    /\ Goto(NextStep)
    /\ UNCHANGED <<created, parsers, answer>> /\ SameScopes /\ SameFile

\* The bounds of range(e) that the source does not give are literals 1.
DefaultRange ==
    /\ AtStep("range")
    /\ LET start == created + 1
           all == Create(Create(heap, start, "Literal", "1"), start + 1, "Literal", "1")
       IN  heap' = Attach(Attach(all, Top.node, "start", start),
                          Top.node, "stepsize", start + 1)
    /\ created' = created + 2
    /\ Goto(NextStep)
    /\ UNCHANGED parsers /\ OnlyFrames

\* An import without an alias goes by the name it imports.
Alias ==
    /\ AtStep("alias")
    /\ LET named == Kid(heap, Top.node, "identifier")
       IN  IF Fits("as")
           THEN parsers' = Advanced(parsers) /\ Goto(NextStep) /\ UNCHANGED <<heap, fault>>
           ELSE /\ fault' = IF named = Null THEN "assert" ELSE fault
                /\ heap' = IF named = Null THEN heap
                           ELSE [heap EXCEPT ![Top.node].text = heap[named].text]
                /\ Goto(Onward(Top, Top.at + 2))
                /\ UNCHANGED parsers
    /\ UNCHANGED <<created, answer>> /\ SameScopes /\ SameFile

MarkScoped ==
    /\ AtStep("scoped")
    /\ heap' = IF Top.node = Null THEN heap
               ELSE [heap EXCEPT ![Top.node].note = "scoped"]
    /\ Goto(NextStep)
    /\ UNCHANGED <<created, parsers>> /\ OnlyFrames

\* parse_typedef sets fields of a TypeDefinition in a Type, which node.c
\* asserts it never does.
TypeDefinition ==
    /\ AtStep("typedef")
    /\ fault' = "assert"
    /\ UNCHANGED <<parsers, frames, answer>> /\ SameTree /\ SameScopes /\ SameFile

-----------------------------------------------------------------------------
\* tarot_parse_file: the file may not open; then there is nothing to parse.
Nothing == [tokens |-> <<>>, at |-> 1, calm |-> TRUE, errors |-> 0, stream |-> 0]

OpenFile ==
    /\ stage = "closed"
    /\ stage' = "parsing"
    /\ streams' = Append(streams, NewStream)
    /\ parsers' = Opened(<<>>, source, NewStream)
    /\ frames' = <<Frame("module")>>
    /\ UNCHANGED <<source, answer, heap, created, scopes, symbols, within, fault>>

FailToOpen ==
    /\ stage = "closed"
    /\ stage' = "parsed"
    /\ answer' = Null
    /\ parsers' = <<[Nothing EXCEPT !.errors = 1]>>
    /\ UNCHANGED <<source, streams, frames, heap, created, scopes, symbols,
                   within, fault>>

CloseFile ==
    /\ stage = "parsing" /\ frames = <<>> /\ fault = "none"
    /\ stage' = "parsed"
    /\ streams' = Front(streams)
    /\ fault' = IF Last(streams) # Last(parsers).stream THEN "assert" ELSE fault
    /\ UNCHANGED <<source, parsers, frames, answer, heap, created, scopes,
                   symbols, within>>

Outside == [function |-> Null, class |-> Null, loop |-> Null]

Init ==
    /\ source \in Sources
    /\ stage = "closed"
    /\ parsers = <<>> /\ frames = <<>> /\ streams = <<>> /\ scopes = <<>>
    /\ answer = Null /\ created = 0 /\ heap = <<>> /\ symbols = <<>>
    /\ within = Outside
    /\ fault = "none"

\* Nothing is under way, as at the start.
Reset ==
    /\ stage' = "closed" /\ within' = Outside /\ fault' = "none"
    /\ parsers' = <<>> /\ frames' = <<>> /\ streams' = <<>> /\ scopes' = <<>>
    /\ answer' = Null /\ created' = 0 /\ heap' = <<>> /\ symbols' = <<>>

Syntax == Begin \/ Return \/ ExpectToken \/ OptionalToken \/ ReadText
          \/ CallChild \/ TakeChild \/ Choose \/ TakeChosen \/ ReadVisibility
          \/ TakeSuffix \/ TakeSuffixed \/ CallOperand \/ TakeLeft \/ TakeRight
          \/ CallFirst \/ TakeFirst \/ BeginMany \/ TakeItem \/ AppendItem \/ EndMany
Semantics == BeginAssign \/ TakeTarget \/ TakeAssigned \/ Assign
           \/ BeginFString \/ EndFString \/ TextSlice \/ OpenSlice \/ CloseSlice
           \/ Concat \/ Declare \/ Define \/ Constructor \/ Iterator
           \/ EnterScope \/ LeaveScope \/ Loop \/ LinkJump \/ Check \/ IndexList
           \/ DefaultRange \/ Alias \/ MarkScoped \/ TypeDefinition

Parsing == OpenFile \/ FailToOpen \/ CloseFile \/ Syntax \/ Semantics

\* When a file is done with, another one may follow, whatever is in it.
Finished == stage = "parsed" /\ fault = "none"
Restart == Finished /\ Reset

Spec == Init /\ [][Parsing \/ Restart]_vars

-----------------------------------------------------------------------------
Errors == IF parsers = <<>> THEN 0 ELSE parsers[1].errors
Tree == IF answer = Null THEN {} ELSE heap[answer].below

TypeOK ==
    /\ stage \in {"closed", "parsing", "parsed"}
    /\ fault \in {"none", "assert", "stale"}
    /\ \A p \in ToSet(parsers) : p.at \in Nat /\ p.calm \in BOOLEAN /\ p.errors \in Nat
    /\ \A f \in ToSet(frames) :
          /\ f.rule \in DOMAIN Rules
          /\ f.node \in DOMAIN heap \cup {Null}
    /\ DOMAIN heap \subseteq 1 .. created
    /\ \A n \in DOMAIN heap : heap[n].below \subseteq DOMAIN heap
    /\ ToSet(scopes) \subseteq DOMAIN symbols
    /\ fault = "none" => Len(streams) <= Limit

(* Every node that was created and is not in the tree has been freed, also *)
(* after errors: a rule that gives up frees what it had built              *)
(* (parse.c:196-205), a copied target, the target of an assignment and the *)
(* pieces of an f-string included.                                         *)
NothingLost == Finished => DOMAIN heap = Tree

(* A file without a tree was reported, although the recovery of a block    *)
(* inside makes the parser calm again and forgets that it was not          *)
(* (parse.c:253-281).                                                      *)
NoSilentFailure == Finished /\ answer = Null => Errors > 0

(* The parser uses a freed node, or fails an assertion, only in a file     *)
(* that it has reported an error in; imports and type definitions, which   *)
(* abort on their own, the assignment that copies a range (parse.c:1160,   *)
(* 1458, 1372) and too many scopes or streams at once are the exceptions.  *)
FaultsReported ==
    fault # "none" =>
        \/ Errors > 0
        \/ fault = "assert" /\ Top.rule \in {"typedef", "import", "compound"}
        \/ fault = "assert" /\ (Len(scopes) > NestingLimit \/ Len(streams) > Limit)

(* The parser leaves every scope, function, class and loop that it         *)
(* entered, and closes the streams of the file and of its f-strings in the *)
(* reverse order of opening (iostream.c:35), whatever errors there were.   *)
EndsClean ==
    Finished => /\ scopes = <<>> /\ within = Outside
                /\ streams = <<>> /\ Len(parsers) = 1

Inside(kinds, n) == {o \in Tree : heap[o].kind \in kinds /\ o # n /\ n \in heap[o].below}
Innermost(nodes) ==
    IF nodes = {} THEN Null
    ELSE CHOOSE o \in nodes : \A p \in nodes : o \in heap[p].below

(* return and assert link to the function or method around them and break  *)
(* to the innermost loop: the registers they are read from are set and     *)
(* cleared at other places (parse.c:1250, 1275, 1308, 1497).               *)
JumpsLinked ==
    Finished => \A n \in Tree :
        /\ heap[n].kind \in {"Return", "Assert"} =>
              heap[n].link = Innermost(Inside({"Function", "Method"}, n))
        /\ heap[n].kind = "Break" =>
              heap[n].link = Innermost(Inside({"While", "For"}, n))

Scoping == {"Module", "Namespace", "Class", "Function", "Method"}
Declared(n) == heap[n].kind \in Declaring
               /\ (heap[n].kind = "Parameter" => Inside({"ForeignFunction"}, n) = {})

(* In a file without errors the symbols of every scope are the             *)
(* declarations that the scope is the innermost one of, each under a name  *)
(* of its own: declarations are entered on the way, while their blocks are *)
(* not yet part of a tree (parse.c:48-56, 974-1030).                       *)
ScopesMatchTree ==
    Finished /\ Errors = 0 => \A o \in DOMAIN symbols :
        /\ ToSet(symbols[o]) = {n \in Tree : Declared(n)
                                             /\ Innermost(Inside(Scoping, n)) = o}
        /\ \A i, j \in DOMAIN symbols[o] :
              heap[symbols[o][i]].text = heap[symbols[o][j]].text => i = j

Names == UNION {Class[c] : c \in DOMAIN Class \ {"string", "fstring"}}
Times(t, s) == Cardinality({i \in DOMAIN s : s[i] = t})

(* No name and no number of a file without errors is missing from its      *)
(* tree: nothing is skipped without a message.                             *)
NamesKept ==
    Finished /\ Errors = 0 => \A t \in Names :
        Cardinality({n \in Tree : heap[n].text = t}) >= Times(t, source)

(* Every file is parsed to its end or to a fault: recovery always skips a  *)
(* token, and no rule is entered twice without one (parse.c:176-194).      *)
Terminates == <>[](stage = "parsed" \/ fault # "none")
=============================================================================
