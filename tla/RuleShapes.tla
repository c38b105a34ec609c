----------------------------- MODULE RuleShapes -----------------------------
(***************************************************************************)
(* What the rules of the grammar have in common, whatever they parse: the  *)
(* functions of tree/parse.c call functions that exist, set fields that    *)
(* the traversal of a node visits, and leave on every path what they       *)
(* entered.  TLC evaluates the assumption for the rules as they are.       *)
(***************************************************************************)
EXTENDS Grammar, SyntaxTree

\* The forms whose rules are lists of steps.
Stepping == {"construct", "suffix", "wrap", "scoped"}
StepsOf(r) == Rules[r].steps

\* A suffix is parsed by what has parsed the node in front of it only.
Callable == {r \in DOMAIN Rules : Rules[r].form # "suffix"}

\* Where step i leads to.
After(r, i) ==
    LET step == StepsOf(r)[i]
    IN  {i + 1} \cup (IF step.do = "maybe" THEN {i + 1 + step.over} ELSE {})
                \cup (IF step.do = "alias" THEN {i + 2} ELSE {})

\* Step i lies behind a step that opens and not behind the one that closes.
Between(r, i, opens, closes) ==
    \E j, k \in DOMAIN StepsOf(r) :
        j < i /\ i <= k /\ StepsOf(r)[j].do = opens /\ StepsOf(r)[k].do = closes

Brackets(r, i, opens, closes) ==
    LET do == StepsOf(r)[i].do
    IN  /\ do = opens => ~Between(r, i, opens, closes)
        /\ do = closes => Between(r, i, opens, closes)
        /\ \A n \in After(r, i) :
              Between(r, n, opens, closes)
                  <=> \/ do = opens
                      \/ do # closes /\ Between(r, i, opens, closes)

\* The step that makes an assignment of x += e is still to come.
AssignAhead(r, i) ==
    \E j \in DOMAIN StepsOf(r) : i <= j /\ StepsOf(r)[j].do = "assign"

\* The fields a step sets in the node of its rule.
Fills(step) ==
    CASE step.do = "child"    -> {step.field}
      [] step.do = "range"    -> {"start", "stepsize"}
      [] step.do = "iterator" -> {"identifier"}
      [] OTHER                -> {}

StepShape(r, i) ==
    LET step == StepsOf(r)[i]
        form == Rules[r].form
    IN  /\ step.do \in {"child", "become"} => step.rule \in Callable
        /\ step.do = "become" => form = "scoped" /\ i = 2
        /\ form = "scoped" => step.do \in {"expect", "become", "scoped"}
        /\ step.do \in {"enter", "leave"} => form = "construct"
        /\ step.do = "maybe" => step.over \in Nat
        /\ step.do = "assign" => r = "compound" /\ ~AssignAhead(r, i + 1)
        /\ Brackets(r, i, "enter", "leave")
        /\ Brackets(r, i, "loop", "unloop")
        /\ \A n \in After(r, i) :
              step.do # "assign" /\ AssignAhead(r, i) => AssignAhead(r, n)
        /\ step.do = "assign" =>
              \A j \in i + 1 .. Len(StepsOf(r)) : Fills(StepsOf(r)[j]) = {}
        /\ \A field \in Fills(step) : IsTraversed(Rules[r].kind, field)

IsList(s) == Len(s) \in Nat /\ DOMAIN s = 1 .. Len(s)

RuleShape(r) ==
    LET rule == Rules[r]
    IN  /\ rule.form \in Stepping =>
              IsList(rule.steps) /\ \A i \in DOMAIN rule.steps : StepShape(r, i)
        /\ rule.form = "scoped" => Len(rule.steps) > 0
        /\ rule.form \in {"suffix", "wrap"} => IsTraversed(rule.kind, rule.field)
        /\ rule.form = "wrap" => rule.first \in Callable
        /\ rule.form \in {"choice", "definition"} =>
              IsList(rule.of) /\ \A i \in DOMAIN rule.of : rule.of[i] \in Callable
        /\ rule.form = "chain" =>
              /\ IsList(rule.of)
              /\ \A i \in DOMAIN rule.of :
                    /\ rule.of[i] \in DOMAIN Rules \ {"compound"}
                    /\ Rules[rule.of[i]].form = "suffix"
        /\ rule.form = "level" =>
              /\ {rule.self, rule.operand} \subseteq Callable
              /\ IsTraversed(rule.kind, "left_operand")
              /\ IsTraversed(rule.kind, "right_operand")
        /\ rule.form = "many" =>
              rule.of \in Callable /\ IsTraversed(rule.kind, "element")

\* The kinds of the nodes that are symbols, and of all that name something.
Declaring == {"Class", "Enum", "Function", "ForeignFunction", "Namespace", "Union",
              "Variable", "Constant", "Parameter", "Constructor", "Import"}
Named == Declaring \cup {"Identifier", "Relation", "For"}

\* The rules that a rule calls.
Calls(r) ==
    LET rule == Rules[r]
    IN  {s \in DOMAIN Rules :
            \/ rule.form \in Stepping /\ \E i \in DOMAIN rule.steps :
                  rule.steps[i].do \in {"child", "become"} /\ rule.steps[i].rule = s
            \/ rule.form = "wrap" /\ s = rule.first
            \/ rule.form \in {"choice", "definition", "chain"}
                  /\ \E i \in DOMAIN rule.of : rule.of[i] = s
            \/ rule.form = "level" /\ s \in {rule.self, rule.operand}
            \/ rule.form = "many" /\ s = rule.of
            \/ rule.form = "assign" /\ s \in {"primary", "assignment", "compound"}
            \/ rule.form = "fstring" /\ s = "expression"}

\* The rules on the way from a file to a class, and those of a class alone.
ToClass == {"module", "globalList", "global", "scopedGlobals", "namespace", "definition",
            "definitionList", "scopedDefinitions", "union"}
Outer == ToClass \cup {"class"}
OfClass == {"members", "memberList", "member", "constructor"}

\* The forms of the rules that make a node of their kind, and the kinds of
\* what such a rule returns.
Making == {"construct", "suffix", "wrap", "chain", "level", "many"}
Results(r) ==
    {Rules[r].kind} \cup (IF Rules[r].form = "chain"
                         THEN {Rules[s].kind : s \in Calls(r)} ELSE {})

\* The rules that return a node unless an error is reported.
Solid(r) == Rules[r].form = "suffix" \/ (Rules[r].form = "many" /\ Rules[r].start = {})

\* Names are read, and lists are there, where the steps need them.
NameStep(r, i) ==
    LET step == StepsOf(r)[i]
        kind == Rules[r].kind
        before == StepsOf(r)[i - 1]
    IN  /\ step.do = "declare" => Rules[r].form = "construct" /\ kind \in Declaring
        /\ step.do = "constructor" => r = "constructor"
        /\ step.do = "iterator" => kind = "For" /\ r # "compound"
        /\ step.do = "concat" => kind \notin Named
        /\ step.do = "alias" => r = "import"
        /\ step.do = "typedef" <=> r = "typedef"
        /\ step.do = "child" /\ r = "import" /\ step.field = "identifier" =>
              step.rule = "relation"
        /\ step.do \in {"index", "handlers"} =>
              /\ i - 1 \in DOMAIN StepsOf(r) /\ before.do = "child" /\ Solid(before.rule)
              /\ before.field = (IF step.do = "index" THEN "parameters" ELSE "handlers")
              /\ \A j \in DOMAIN StepsOf(r) : i \in After(r, j) => j = i - 1

NameShape(r) ==
    LET rule == Rules[r]
    IN  /\ "none" \notin rule.start
        /\ rule.form \in {"construct", "suffix", "chain"} /\ rule.kind \in Named =>
              rule.start # {}
        /\ rule.form \in {"level", "wrap", "many"} => rule.kind \notin Named
        /\ rule.form \in Making =>
              /\ rule.kind = "Import" => r = "import"
              /\ rule.kind = "Class" => r = "class"
        /\ rule.form \in Stepping => \A i \in DOMAIN rule.steps : NameStep(r, i)
        /\ rule.form = "definition" =>
              \A s \in Calls(r) \ {"typedef"} :
                  Rules[s].form = "construct" /\ Rules[s].kind \in Declaring
        /\ r \notin ToClass => Calls(r) \cap Outer = {}
        /\ r \notin OfClass \cup {"class"} => Calls(r) \cap OfClass = {}

ASSUME NamesFit ==
    /\ \A r \in DOMAIN Rules : NameShape(r)
    /\ Results("relation") \subseteq Named /\ Rules["relation"].form = "chain"
    /\ Rules["import"].form = "construct" /\ Rules["import"].kind = "Import"
    /\ Rules["class"].form = "construct" /\ Rules["class"].kind = "Class"
    /\ Rules["compound"].form = "suffix" /\ Rules["compound"].kind \notin Named
    /\ Rules["constructor"].form = "construct" /\ Rules["constructor"].kind \in Declaring
    /\ Rules["typedef"].form = "construct" /\ Len(StepsOf("typedef")) > 0
    /\ "Identifier" \notin DOMAIN Traversed /\ IsTraversed("Import", "identifier")
    /\ \A i \in DOMAIN StepsOf("class") :
          StepsOf("class")[i].do = "child" /\ StepsOf("class")[i].rule \in OfClass =>
              Between("class", i, "enter", "leave")

\* The rules of values, the bodies of functions, and what is in them only.
Evaluating == DOMAIN Literals \cup DOMAIN Primaries \cup DOMAIN Unaries \cup DOMAIN Levels
Bodies == {"function", "method", "constructor"}
Local == Evaluating \cup DOMAIN Variables \cup DOMAIN Jumps \cup DOMAIN Branches
         \cup DOMAIN Statements \cup {"parameters"}

\* The jumps, what they link to, the rules that make them and those that may
\* return one.
Jumping == {"Return", "Assert", "Break"}
FunctionKinds == {"Function", "Method"}
LoopKinds == {"While", "For"}
Jumpers == {"return", "assert", "break"}
MayJump == Jumpers \cup {"statement"}

\* The steps that link a jump, and whether one is still to come.
LinkSteps == {"inFunction", "inLoop"}
LinkAhead(r, i) == \E j \in DOMAIN StepsOf(r) : i <= j /\ StepsOf(r)[j].do \in LinkSteps

\* The lists whose elements are linked later, and the rules of those lists.
Listing == [try |-> "handlers", enumeration |-> "block"]
Listed == {"catches", "enumerators"}

\* A jump is linked once and before it is left; what is in a function or in a
\* loop is parsed while its register is set, or is a value.
JumpStep(r, i) ==
    LET step == StepsOf(r)[i]
        rule == Rules[r]
    IN  /\ step.do \in LinkSteps =>
              /\ r \in Jumpers /\ ~LinkAhead(r, i + 1)
              /\ step.do = "inLoop" <=> r = "break"
        /\ step.do \notin LinkSteps /\ LinkAhead(r, i) =>
              \A n \in After(r, i) : LinkAhead(r, n)
        /\ step.do = "loop" => rule.form = "construct" /\ rule.kind \in LoopKinds
        /\ step.do \in {"child", "become"} /\ rule.form # "scoped" =>
              /\ rule.kind \in FunctionKinds => Between(r, i, "enter", "leave")
              /\ rule.kind \in LoopKinds =>
                    Between(r, i, "loop", "unloop") \/ step.rule \in Evaluating
        /\ r = "break" => /\ step.do \in {"inLoop", "expect", "outside"}
                          /\ step.do = "outside" <=> i = Len(StepsOf(r))
        /\ step.do = "outside" => r = "break"
        /\ step.do = "range" => r \in Evaluating
        /\ step.do \in {"handlers", "enumerators"} =>
              r \in DOMAIN Listing /\ Listing[r] = (IF step.do = "handlers" THEN "handlers" ELSE "block")
        /\ r \in DOMAIN Listing /\ step.do = "child" /\ step.field = Listing[r] =>
              step.rule \in Listed

JumpShape(r) ==
    LET rule == Rules[r]
    IN  /\ r \in Evaluating => Calls(r) \subseteq Evaluating
        /\ r \in Local \cup Bodies => Calls(r) \subseteq Local
        /\ rule.form \in {"chain", "level", "fstring"} => r \in Evaluating
        /\ rule.form = "assign" => r \in Local
        /\ rule.form \in Making =>
              /\ rule.kind \in Jumping => r \in Jumpers
              /\ rule.kind \in FunctionKinds \cup LoopKinds => rule.form = "construct"
              /\ rule.kind \in FunctionKinds => r \in Bodies
        /\ r \in Jumpers => rule.form = "construct" /\ rule.kind \in Jumping /\ LinkAhead(r, 1)
                            /\ (rule.kind = "Break" <=> r = "break")
        /\ r \notin MayJump /\ rule.form # "many" => Calls(r) \cap MayJump = {}
        /\ r \in Listed => rule.form = "many" /\ rule.of \notin MayJump
        /\ r \in DOMAIN Listing => rule.form = "construct"
        /\ rule.form \in Stepping => \A i \in DOMAIN rule.steps : JumpStep(r, i)

ASSUME JumpsFit ==
    /\ \A r \in DOMAIN Rules : JumpShape(r)
    /\ Evaluating \subseteq Local /\ Local \cap Bodies = {} /\ Local \subseteq DOMAIN Rules
    /\ Evaluating \cap ({"assignment", "compound", "statement"} \cup Jumpers \cup Listed) = {}
    /\ "primary" \in Evaluating /\ "compound" \in Local /\ Rules["statement"].form = "choice"

ASSUME RulesAssumption ==
    /\ \A r \in DOMAIN Rules : RuleShape(r)
    /\ {"module", "primary", "expression"} \subseteq Callable
    /\ Rules["module"].form = "construct" /\ Rules["module"].start = {}
    /\ {"assignment", "compound"} \subseteq DOMAIN Rules \ Callable
    /\ Rules["assignment"].start = {"="}
    /\ AssignAhead("compound", 1)
=============================================================================
