----------------------------- MODULE ListContents -----------------------------
(***************************************************************************)
(* What a list promises, free of blocks and capacities: it is a sequence.  *)
(* Lists.tla implements this specification.  Copying a list, trimming it   *)
(* and letting it grow never changes the contents of any list.             *)
(***************************************************************************)
EXTENDS Integers, Sequences

CONSTANTS
  List,           \* variables that hold a list
  Element,
  Matches(_, _),
  Objects

VARIABLES
  present,        \* the variables that hold one
  contents,       \* their contents
  result          \* what the last operation returned

vars == <<present, contents, result>>

None == [kind |-> "none"]

Becomes(l, s) == contents' = [contents EXCEPT ![l] = s]

Init ==
  /\ present = {}
  /\ contents = [l \in List |-> << >>]
  /\ result = None

Create(l) ==
  /\ l \notin present
  /\ present' = present \union {l}
  /\ result' = None
  /\ UNCHANGED contents

Copy(l, from) ==
  /\ l \notin present
  /\ from \in present
  /\ present' = present \union {l}
  /\ Becomes(l, contents[from])
  /\ result' = None

Destroy(l) ==
  /\ l \in present
  /\ present' = present \ {l}
  /\ Becomes(l, << >>)
  /\ result' = None

Clear(l) ==
  /\ l \in present
  /\ Becomes(l, << >>)
  /\ result' = None
  /\ UNCHANGED present

Push(l, e) ==
  /\ l \in present
  /\ Becomes(l, Append(contents[l], e))
  /\ result' = None
  /\ UNCHANGED present

Pop(l) ==
  LET s == contents[l] IN
  /\ l \in present
  /\ s # << >>
  /\ Becomes(l, [i \in 1 .. Len(s) - 1 |-> s[i]])
  /\ result' = [kind |-> "element", element |-> s[Len(s)]]
  /\ UNCHANGED present

(* Indices count from zero, as in the program. *)
Remove(l, index) ==
  LET s == contents[l] IN
  /\ l \in present
  /\ Becomes(l, [i \in 1 .. Len(s) - 1 |-> IF i <= index THEN s[i] ELSE s[i + 1]])
  /\ result' = None
  /\ UNCHANGED present

Read(l) ==
  /\ l \in present
  /\ result' = [kind |-> "array", array |-> contents[l]]
  /\ UNCHANGED <<present, contents>>

(* The caller goes on, and the last result is no longer of interest. *)
Forget == result' = None /\ UNCHANGED <<present, contents>>

Ask(l, o) ==
  /\ l \in present
  /\ result' =
       [kind |-> "answer",
        answer |-> \E i \in 1 .. Len(contents[l]) : Matches(contents[l][i], o)]
  /\ UNCHANGED <<present, contents>>

(* The first match is found. *)
Find(l, o) ==
  /\ l \in present
  /\ \E i \in 1 .. Len(contents[l]) :
       /\ Matches(contents[l][i], o)
       /\ \A j \in 1 .. i - 1 : ~Matches(contents[l][j], o)
       /\ result' = [kind |-> "index", index |-> i - 1]
  /\ UNCHANGED <<present, contents>>

Next ==
  \/ \E l \in List :
       \/ Create(l) \/ Destroy(l) \/ Clear(l) \/ Pop(l) \/ Read(l)
       \/ \E from \in List : Copy(l, from)
       \/ \E e \in Element : Push(l, e)
       \/ \E index \in 0 .. Len(contents[l]) - 1 : Remove(l, index)
       \/ \E o \in Objects : Ask(l, o) \/ Find(l, o)
  \/ Forget

Spec == Init /\ [][Next]_vars
==============================================================================
