---------------------------- MODULE AnalyzerProofs ----------------------------
(***************************************************************************)
(* For any trees a parser may build, right or wrong: the modules that the  *)
(* program needs are loaded, the walk of the two passes visits every node  *)
(* of every module once, and the state of the analyzer keeps its types; in *)
(* a program that is accepted every function has an entry of its own in    *)
(* the function table, and its variables have the slots of its frame.      *)
(***************************************************************************)
EXTENDS Analyzer, FiniteSetTheorems, SequenceTheorems,
        WellFoundedInduction, TLAPS

KidsOf(n) == tree[n].children
Taken(f) == Len(KidsOf(f.node)) - Len(f.left)   \* children the walk has been at

\* The rest of a node's children.
RestOf(left, kids) ==
  /\ left \in Seq(Node)
  /\ Len(left) <= Len(kids)
  /\ \A j \in 1 .. Len(left) : left[j] = kids[Len(kids) - Len(left) + j]

(* A walk over the module r is at a chain of nodes, each the child that    *)
(* the one before it has been at last.                                     *)
Chain(p, r) ==
  /\ p \in Seq([node : Node, left : Seq(Node)])
  /\ \A i \in 1 .. Len(p) :
       /\ RestOf(p[i].left, KidsOf(p[i].node))
       /\ r <= p[i].node /\ tree[p[i].node].last <= tree[r].last
  /\ \A i \in 1 .. Len(p) - 1 :
       /\ Taken(p[i]) > 0
       /\ p[i + 1].node = KidsOf(p[i].node)[Taken(p[i])]
  /\ \A i, j \in 1 .. Len(p) : i < j => p[i].node < p[j].node
  /\ p # <<>> => p[1].node = r
PathInv == Chain(path, Root)

(* An Import is at the end of the chain, or has its Identifier behind it.  *)
Around(p) == {i \in 1 .. Len(p) : Kind(p[i].node) = "Import"}
Importing(p, types) ==
  /\ \A i \in Around(p) : i >= Len(p) - 1
  /\ \A i \in Around(p) : i < Len(p) => Kind(p[i + 1].node) = "Identifier"
  /\ types = IF Around(p) = {} THEN 0 ELSE 1
ImportInv == Importing(path, type_checking)

(* Modules that are loaded are modules, each once. *)
ModulesInv ==
  /\ modules \in Seq(Node)
  /\ modules # <<>> /\ modules[1] = Main
  /\ \A i \in 1 .. Len(modules) : Kind(modules[i]) = "Module"
  /\ \A i, j \in 1 .. Len(modules) : modules[i] = modules[j] => i = j
  /\ module \in 1 .. Len(modules)

Typed ==
  /\ module_link \in [Node -> Node \union {NoNode}]
  /\ link \in [Node -> Node \union {NoNode}]
  /\ symbols \in [Node -> SUBSET Node]
  /\ cursor \in 0 .. Len(tree)
  /\ scopes \in Seq(Node) /\ Len(scopes) <= MaxNesting
  /\ is_set \subseteq Node
  /\ index \in [Node -> Nat]
  /\ errors \in [Node -> Nat]
  /\ function_index \in Nat /\ foreign_index \in Nat /\ variable_index \in Nat

WalkInv ==
  /\ Shaped(tree) /\ NoNode \notin Node
  /\ ModulesInv /\ PathInv /\ ImportInv /\ Typed
  /\ phase \in {"import", "generate", "finished", "rejected"} => path = <<>>

------------------------------------------------------------------------------
(* What the walk comes to next, what it has left for good, and with the    *)
(* modules before this one, all that the second pass is done with.         *)
Behind(f) == IF f.left = <<>> THEN tree[f.node].last + 1 ELSE f.left[1]
Upcoming(p, done, r) ==
  IF p # <<>> THEN Behind(p[Len(p)])
  ELSE IF done = r THEN tree[r].last + 1 ELSE r
VisitedBy(p, done, r) ==
  {n \in Node : /\ tree[n].root = r /\ n < Upcoming(p, done, r)
                /\ \A i \in 1 .. Len(p) : p[i].node # n}
Visited == VisitedBy(path, cursor, Root)
Before == {n \in Node : \E i \in 1 .. module - 1 : tree[n].root = modules[i]}
Done == Before \union Visited

IsFunction(n) == Kind(n) = "Function"

(* The functions of a set have the indices from 1 on, main has 0. *)
Indexed(set) ==
  /\ \A f \in set : IsFunction(f) =>
       IF IsMain(f) THEN index[f] = 0 ELSE index[f] \in 1 .. function_index
  /\ \A f, g \in set : IsFunction(f) /\ IsFunction(g) /\ index[f] = index[g] => f = g
  /\ \A k \in 1 .. function_index : \E f \in set : IsFunction(f) /\ index[f] = k
  /\ has_main => \E f \in set : IsFunction(f) /\ IsMain(f)

(* The table has an entry for each function of a set, and no others. *)
Entered(set) ==
  /\ DOMAIN table = {index[f] : f \in set}
  /\ \A f \in set : table[index[f]] = f

Clean == \A i \in 1 .. Len(modules) : errors[modules[i]] = 0
Registered ==
  {n \in Functions : n \in Before \/ (tree[n].root = Root /\ n <= cursor)}

TableInv ==
  /\ phase \in {"import", "link"} =>
       function_index = 0 /\ ~has_main /\ ~panic
  /\ phase \in {"import", "link", "check"} => table = <<>>
  /\ phase = "check" /\ Clean => ~panic /\ Indexed(Done)
  /\ phase \in {"generate", "finished"} =>
       has_main /\ Indexed({n \in Node : Belongs(n)})
  /\ phase = "generate" => Entered(Registered)
  /\ phase = "finished" => Entered(Functions)

------------------------------------------------------------------------------
(* Sets of numbers, trees and paths. *)

LEMMA Least ==
  ASSUME NEW set \in SUBSET Nat, set # {}
  PROVE  First(set) \in set /\ \A m \in set : First(set) <= m
<1> DEFINE less == OpToRel(<, Nat)
<1>1. IsWellFoundedOn(less, Nat)
  BY NatLessThanWellFounded, Zenon
<1>2. \A i, j \in Nat : j < i => <<j, i>> \in less
  BY Zenon DEF OpToRel
<1> HIDE DEF less
<1>3. PICK n \in set : \A m \in set : <<m, n>> \notin less
  BY <1>1, WFMin
<1>4. \A m \in set : ~(m < n)
  BY <1>2, <1>3
<1>5. \A m \in set : n <= m
  BY <1>4
<1> QED
  BY <1>3, <1>5 DEF First

Sound == Shaped(tree) /\ NoNode \notin Node

LEMMA KidFacts ==
  ASSUME Sound, NEW n \in Node
  PROVE  /\ Len(tree) \in Nat /\ n \in Nat /\ Kind(n) = tree[n].kind
         /\ tree[n].last \in Nat /\ n <= tree[n].last /\ tree[n].last <= Len(tree)
         /\ KidsOf(n) \in Seq(Node) /\ Len(KidsOf(n)) \in Nat
         /\ \A i \in 1 .. Len(KidsOf(n)) :
              KidsOf(n)[i] \in Node /\ KidsOf(n)[i] > n /\ KidsOf(n)[i] <= tree[n].last
         /\ KidsOf(n) = <<>> => tree[n].last = n
         /\ KidsOf(n) # <<>> =>
              KidsOf(n)[1] = n + 1 /\ tree[KidsOf(n)[Len(KidsOf(n))]].last = tree[n].last
         /\ \A i \in 1 .. Len(KidsOf(n)) - 1 :
              KidsOf(n)[i + 1] = tree[KidsOf(n)[i]].last + 1
<1> DEFINE kids == KidsOf(n)
<1>1. Len(tree) \in Nat /\ ChildrenLaid(tree, n)
  BY DEF Sound, Shaped, Node
<1>2. n # NoNode /\ n \in 1 .. Len(tree)
  BY DEF Sound, Node
<1>3. tree[n].last \in n .. Len(tree) /\ kids \in Seq(n + 1 .. tree[n].last)
  BY <1>1 DEF ChildrenLaid, KidsOf
<1>4. n + 1 .. tree[n].last \subseteq Node
  BY <1>1, <1>2, <1>3 DEF Node
<1> HIDE DEF kids
<1>9. PICK span : span = n + 1 .. tree[n].last
  OBVIOUS
<1>8. kids \in Seq(span) /\ span \subseteq Node
  BY <1>3, <1>4, <1>9
<1>5. kids \in Seq(Node) /\ Len(kids) \in Nat
  BY <1>8
<1>6. \A i \in 1 .. Len(kids) : kids[i] \in n + 1 .. tree[n].last
  <2>1. \A i \in 1 .. Len(kids) : kids[i] \in span
    BY <1>8
  <2> QED
    BY <2>1, <1>9
<1>7. \A i \in 1 .. Len(kids) :
        kids[i] \in Node /\ kids[i] > n /\ kids[i] <= tree[n].last
  BY <1>2, <1>3, <1>4, <1>6
<1> QED
  BY <1>1, <1>2, <1>3, <1>5, <1>7 DEF ChildrenLaid, KidsOf, Kind, kids

LEMMA RootFacts ==
  ASSUME Sound, NEW n \in Node
  PROVE  /\ tree[n].root \in Node /\ tree[n].root <= n /\ n <= tree[tree[n].root].last
         /\ Kind(tree[n].root) = "Module"
         /\ Kind(n) = "Module" => \A m \in n .. tree[n].last : tree[m].root = n
<1>1. /\ tree[n].root \in 1 .. n /\ n <= tree[tree[n].root].last
      /\ tree[tree[n].root].kind = "Module"
      /\ tree[n].kind = "Module" => \A m \in n .. tree[n].last : tree[m].root = n
  BY DEF Sound, Shaped, Node
<1>2. n \in Nat /\ Len(tree) \in Nat /\ n <= Len(tree) /\ Kind(n) = tree[n].kind
  BY KidFacts DEF Node
<1>3. tree[n].root \in Node /\ tree[n].root <= n
  BY <1>1, <1>2 DEF Node
<1>4. Kind(tree[n].root) = tree[tree[n].root].kind
  BY <1>3, KidFacts
<1> QED
  BY <1>1, <1>2, <1>3, <1>4

(* What an Import, a Call and an Identifier are made of. *)
LEMMA NamingFacts ==
  ASSUME Sound, NEW n \in Node
  PROVE  /\ Kind(n) \in {"Import", "Call"} =>
              /\ KidsOf(n) # <<>> /\ IdentifierOf(n) = KidsOf(n)[1]
              /\ IdentifierOf(n) \in Node /\ Kind(IdentifierOf(n)) = "Identifier"
         /\ Kind(n) = "Import" => Len(KidsOf(n)) = 1
         /\ Kind(n) = "Identifier" => KidsOf(n) = <<>>
<1>1. /\ tree[n].kind \in {"Import", "Call"} =>
           tree[n].children # <<>> /\ tree[tree[n].children[1]].kind = "Identifier"
      /\ tree[n].kind = "Import" => Len(tree[n].children) = 1
      /\ tree[n].kind = "Identifier" => tree[n].children = <<>>
  BY DEF Sound, Shaped, Node
<1>2. /\ Kind(n) = tree[n].kind /\ KidsOf(n) \in Seq(Node)
      /\ \A i \in 1 .. Len(KidsOf(n)) : KidsOf(n)[i] \in Node
  BY KidFacts
<1>3. ASSUME KidsOf(n) # <<>>
      PROVE  KidsOf(n)[1] \in Node
  BY <1>2, <1>3
<1>4. ASSUME KidsOf(n) # <<>>
      PROVE  Kind(KidsOf(n)[1]) = tree[KidsOf(n)[1]].kind
  BY <1>3, <1>4, KidFacts
<1> QED
  BY <1>1, <1>2, <1>3, <1>4 DEF KidsOf, IdentifierOf

LEMMA KidsNest ==
  ASSUME Sound, NEW n \in Node, NEW i \in 1 .. Len(KidsOf(n))
  PROVE  tree[KidsOf(n)[i]].last <= tree[n].last
<1> DEFINE kids == KidsOf(n)
<1>1. /\ Len(kids) \in Nat /\ tree[n].last \in Nat
      /\ kids # <<>> => tree[kids[Len(kids)]].last = tree[n].last
      /\ \A j \in 1 .. Len(kids) : kids[j] \in Node /\ kids[j] <= tree[n].last
      /\ \A j \in 1 .. Len(kids) - 1 : kids[j + 1] = tree[kids[j]].last + 1
      /\ kids \in Seq(Node)
  BY KidFacts
<1>2. tree[kids[i]].last \in Nat
  BY <1>1, KidFacts
<1> HIDE DEF kids
<1>3. i \in 1 .. Len(kids)
  BY DEF kids
<1>4. CASE i = Len(kids)
  <2>1. kids # <<>>
    BY <1>1, <1>3
  <2> QED
    BY <1>1, <1>4, <2>1 DEF kids
<1>5. CASE i # Len(kids)
  <2>1. i \in 1 .. Len(kids) - 1 /\ i + 1 \in 1 .. Len(kids)
    BY <1>1, <1>3, <1>5
  <2>2. kids[i + 1] = tree[kids[i]].last + 1 /\ kids[i + 1] <= tree[n].last
    BY <1>1, <2>1
  <2> QED
    BY <1>1, <1>2, <2>2 DEF kids
<1> QED
  BY <1>4, <1>5

(* The step from one path to the path with one node more. *)
Deeper(p, q, n) ==
  /\ q \in Seq([node : Node, left : Seq(Node)]) /\ Len(q) = Len(p) + 1
  /\ q[Len(q)] = [node |-> n, left |-> KidsOf(n)]
  /\ \A i \in 1 .. Len(p) : q[i].node = p[i].node
  /\ \A i \in 1 .. Len(p) - 1 : q[i] = p[i]
  /\ p # <<>> => q[Len(p)].left = Tail(p[Len(p)].left)

(* The node the walk enters: the module, or the next child of the node at  *)
(* the end of the path.                                                    *)
Entering(p, r, n) ==
  IF p = <<>> THEN n = r
  ELSE p[Len(p)].left # <<>> /\ n = p[Len(p)].left[1]

LEMMA ReplaceLast ==
  ASSUME NEW S, NEW s \in Seq(S), s # <<>>, NEW e \in S
  PROVE  LET t == [s EXCEPT ![Len(s)] = e]
         IN  /\ t \in Seq(S) /\ Len(t) = Len(s) /\ t[Len(s)] = e
             /\ \A i \in 1 .. Len(s) - 1 : t[i] = s[i]
<1>1. Len(s) \in Nat /\ Len(s) \in 1 .. Len(s) /\ DOMAIN s = 1 .. Len(s)
  OBVIOUS
<1>2. PICK t : t = [s EXCEPT ![Len(s)] = e]
  OBVIOUS
<1>3. \A n \in Nat : \A i \in 1 .. n - 1 : i \in 1 .. n /\ i # n
  OBVIOUS
<1>4. \A i \in 1 .. Len(s) - 1 : i \in 1 .. Len(s) /\ i # Len(s)
  BY <1>1, <1>3
<1>5. t \in Seq(S) /\ Len(t) = Len(s) /\ t[Len(s)] = e
  BY <1>1, <1>2
<1>6. \A i \in 1 .. Len(s) - 1 : t[i] = s[i]
  BY <1>1, <1>2, <1>4
<1> QED
  BY <1>2, <1>5, <1>6

Extends(t, s, e, S) ==
  /\ t \in Seq(S) /\ Len(t) = Len(s) + 1 /\ t[Len(t)] = e
  /\ \A i \in 1 .. Len(s) : t[i] = s[i]

LEMMA Extend ==
  ASSUME NEW S, NEW s \in Seq(S), NEW e \in S
  PROVE  Extends(Append(s, e), s, e, S)
  BY AppendProperties DEF Extends

LEMMA Deepen ==
  ASSUME NEW p \in Seq([node : Node, left : Seq(Node)]), NEW n \in Node,
         KidsOf(n) \in Seq(Node), p # <<>> => p[Len(p)].left # <<>>,
         NEW q, q = Append(IF p = <<>> THEN p
                           ELSE [p EXCEPT ![Len(p)].left = Tail(@)],
                           [node |-> n, left |-> KidsOf(n)])
  PROVE  Deeper(p, q, n)
<1> DEFINE frame == [node : Node, left : Seq(Node)]
           new == [node |-> n, left |-> KidsOf(n)]
<1>1. PICK F : F = frame
  OBVIOUS
<1>2. new \in F
  BY <1>1
<1>3. CASE p = <<>>
  <2>1. q = <<new>>
    BY <1>3
  <2> QED
    BY <1>2, <1>3, <2>1 DEF Deeper
<1>4. CASE p # <<>>
  <2>1. PICK last : last = p[Len(p)]
    OBVIOUS
  <2>2. PICK rest : rest = [node |-> last.node, left |-> Tail(last.left)]
    OBVIOUS
  <2>3. p \in Seq(F) /\ Len(p) \in 1 .. Len(p)
    BY <1>1, <1>4
  <2>4. last \in F
    BY <2>1, <2>3
  <2>5. last = [node |-> last.node, left |-> last.left]
    BY <1>1, <2>4
  <2>6. rest = [last EXCEPT !.left = Tail(@)]
    <3>1. PICK n0, l0 : last = [node |-> n0, left |-> l0]
      BY <2>5
    <3>2. rest = [node |-> n0, left |-> Tail(l0)]
      BY <2>2, <3>1
    <3>3. PICK c : c = Tail(last.left)
      OBVIOUS
    <3>4. [last EXCEPT !.left = c] = [node |-> n0, left |-> c]
      BY <3>1
    <3>5. last.left = l0
      BY <3>1
    <3> QED
      BY <3>2, <3>3, <3>4, <3>5
  <2>7. rest \in F
    <3>1. last.left # <<>> /\ last.left \in Seq(Node) /\ last.node \in Node
      BY <1>1, <1>4, <2>1, <2>4
    <3>2. Tail(last.left) \in Seq(Node)
      BY <3>1
    <3> QED
      BY <1>1, <2>2, <3>1, <3>2
  <2>8. PICK m : m = [p EXCEPT ![Len(p)] = rest]
    OBVIOUS
  <2>9. q = Append(m, new)
    BY <1>4, <2>1, <2>6, <2>8
  <2> HIDE DEF new
  <2>10. /\ m \in Seq(F) /\ Len(m) = Len(p) /\ m[Len(p)] = rest
         /\ \A i \in 1 .. Len(p) - 1 : m[i] = p[i]
    BY <1>4, <2>3, <2>7, <2>8, ReplaceLast
  <2>11. /\ q \in Seq(F) /\ Len(q) = Len(p) + 1 /\ q[Len(q)] = new
         /\ \A i \in 1 .. Len(p) : q[i] = m[i]
    <3>1. Extends(Append(m, new), m, new, F)
      BY <1>2, <2>10, Extend
    <3>2. Extends(q, m, new, F)
      BY <2>9, <3>1
    <3> QED
      BY <2>10, <3>2 DEF Extends
  <2>12. /\ \A i \in 1 .. Len(p) : m[i].node = p[i].node
         /\ m[Len(p)].left = Tail(p[Len(p)].left)
    <3>1. m[Len(p)].node = p[Len(p)].node /\ m[Len(p)].left = Tail(p[Len(p)].left)
      BY <2>1, <2>2, <2>10
    <3>2. \A i \in 1 .. Len(p) : i = Len(p) \/ i \in 1 .. Len(p) - 1
      BY <2>3
    <3> QED
      BY <2>10, <3>1, <3>2
  <2>13. \A i \in 1 .. Len(p) - 1 : i \in 1 .. Len(p)
    BY <2>3
  <2>14. \A i \in 1 .. Len(p) - 1 : q[i] = p[i]
    BY <2>10, <2>11, <2>13
  <2>15. \A i \in 1 .. Len(p) : q[i].node = p[i].node
    BY <2>11, <2>12
  <2> QED
    BY <1>1, <2>3, <2>11, <2>12, <2>14, <2>15 DEF Deeper, new
<1> QED
  BY <1>3, <1>4

(* The child that the walk comes to next. *)
NextChild(f, n) ==
  /\ n \in Node /\ n > f.node /\ tree[n].last <= tree[f.node].last
  /\ Taken(f) \in Nat /\ Taken(f) + 1 <= Len(KidsOf(f.node))
  /\ n = KidsOf(f.node)[Taken(f) + 1]

LEMMA NextKid ==
  ASSUME Sound, NEW f \in [node : Node, left : Seq(Node)],
         RestOf(f.left, KidsOf(f.node)), f.left # <<>>
  PROVE  NextChild(f, f.left[1])
<1>1. PICK kids : kids = KidsOf(f.node)
  OBVIOUS
<1>2. PICK l : l = f.left
  OBVIOUS
<1>3. /\ kids \in Seq(Node) /\ Len(kids) \in Nat
      /\ \A i \in 1 .. Len(kids) : kids[i] \in Node /\ kids[i] > f.node
  BY <1>1, KidFacts
<1>4. /\ l \in Seq(Node) /\ l # <<>> /\ Len(l) <= Len(kids)
      /\ \A j \in 1 .. Len(l) : l[j] = kids[Len(kids) - Len(l) + j]
  BY <1>1, <1>2 DEF RestOf
<1>5. Len(l) \in Nat \ {0}
  BY <1>4
<1>6. /\ Len(kids) - Len(l) \in Nat
      /\ Len(kids) - Len(l) + 1 \in 1 .. Len(kids)
      /\ l[1] = kids[Len(kids) - Len(l) + 1]
  BY <1>3, <1>4, <1>5
<1>7. PICK k : k = Len(kids) - Len(l)
  OBVIOUS
<1>8. tree[kids[k + 1]].last <= tree[f.node].last
  BY <1>1, <1>6, <1>7, KidsNest
<1> QED
  BY <1>1, <1>2, <1>3, <1>6, <1>7, <1>8 DEF NextChild, Taken

LEMMA RestTail ==
  ASSUME NEW left, NEW kids \in Seq(Node), RestOf(left, kids), left # <<>>
  PROVE  RestOf(Tail(left), kids) /\ Len(Tail(left)) = Len(left) - 1
<1>1. PICK t : t = Tail(left)
  OBVIOUS
<1>2. left \in Seq(Node) /\ Len(left) \in Nat \ {0} /\ Len(kids) \in Nat
  BY DEF RestOf
<1>3. /\ t \in Seq(Node) /\ Len(t) = Len(left) - 1
      /\ \A j \in 1 .. Len(t) : t[j] = left[j + 1]
  BY <1>1, <1>2, HeadTailProperties
<1>4. ASSUME NEW j \in 1 .. Len(t)
      PROVE  t[j] = kids[Len(kids) - Len(t) + j]
  <2>1. j + 1 \in 1 .. Len(left) /\ t[j] = left[j + 1]
    BY <1>2, <1>3
  <2>2. left[j + 1] = kids[Len(kids) - Len(left) + (j + 1)]
    BY <2>1 DEF RestOf
  <2>3. Len(kids) - Len(left) + (j + 1) = Len(kids) - Len(t) + j
    BY <1>2, <1>3
  <2> QED
    BY <2>1, <2>2, <2>3
<1>5. Len(t) <= Len(kids)
  BY <1>2, <1>3 DEF RestOf
<1> QED
  BY <1>1, <1>3, <1>4, <1>5 DEF RestOf

LEMMA ChainFacts ==
  ASSUME Sound, NEW p, NEW r \in Node, Chain(p, r), NEW i \in 1 .. Len(p)
  PROVE  /\ Len(p) \in Nat /\ p[i] \in [node : Node, left : Seq(Node)]
         /\ p[i].node \in Node /\ p[i].left \in Seq(Node)
         /\ r <= p[i].node /\ tree[p[i].node].last <= tree[r].last
         /\ RestOf(p[i].left, KidsOf(p[i].node))
<1>1. PICK frame : frame = [node : Node, left : Seq(Node)]
  OBVIOUS
<1>2. p \in Seq(frame)
  BY <1>1 DEF Chain
<1>3. Len(p) \in Nat /\ p[i] \in frame
  BY <1>2
<1>4. p[i].node \in Node /\ p[i].left \in Seq(Node)
  BY <1>1, <1>3
<1>5. /\ r <= p[i].node /\ tree[p[i].node].last <= tree[r].last
      /\ RestOf(p[i].left, KidsOf(p[i].node))
  BY DEF Chain
<1> QED
  BY <1>1, <1>3, <1>4, <1>5

LEMMA EnterNode ==
  ASSUME Sound, NEW p, NEW r \in Node, Chain(p, r), NEW n, Entering(p, r, n)
  PROVE  /\ n \in Node /\ r <= n /\ tree[n].last <= tree[r].last
         /\ p # <<>> => NextChild(p[Len(p)], n)
         /\ \A i \in 1 .. Len(p) : p[i].node < n
<1>1. \A m \in Node : m \in Nat /\ tree[m].last \in Nat
  BY KidFacts
<1>2. CASE p = <<>>
  BY <1>1, <1>2 DEF Entering
<1>3. CASE p # <<>>
  <2>1. Len(p) \in Nat /\ Len(p) \in 1 .. Len(p)
    BY <1>3 DEF Chain
  <2>2. PICK f : f = p[Len(p)]
    OBVIOUS
  <2>3. /\ f \in [node : Node, left : Seq(Node)] /\ f.node \in Node
        /\ r <= f.node /\ tree[f.node].last <= tree[r].last
        /\ RestOf(f.left, KidsOf(f.node))
    BY <2>1, <2>2, ChainFacts
  <2>4. f.left # <<>> /\ n = f.left[1]
    BY <1>3, <2>2 DEF Entering
  <2>5. NextChild(f, n)
    BY <2>3, <2>4, NextKid
  <2>6. n \in Node /\ n > f.node /\ tree[n].last <= tree[f.node].last
    BY <2>5 DEF NextChild
  <2>7. r <= n /\ tree[n].last <= tree[r].last
    BY <1>1, <2>3, <2>6
  <2>8. ASSUME NEW i \in 1 .. Len(p)
        PROVE  p[i].node < n
    <3>1. p[i].node \in Nat
      BY <1>1, ChainFacts
    <3>2. i = Len(p) \/ p[i].node < f.node
      BY <2>1, <2>2 DEF Chain
    <3> QED
      BY <1>1, <2>2, <2>3, <2>6, <3>1, <3>2
  <2> QED
    BY <2>2, <2>5, <2>6, <2>7, <2>8
<1> QED
  BY <1>2, <1>3

LEMMA EnterChain ==
  ASSUME Sound, NEW p, NEW r \in Node, Chain(p, r), NEW n, Entering(p, r, n),
         NEW q, Deeper(p, q, n)
  PROVE  Chain(q, r)
<1>1. /\ n \in Node /\ r <= n /\ tree[n].last <= tree[r].last
      /\ p # <<>> => NextChild(p[Len(p)], n)
      /\ \A i \in 1 .. Len(p) : p[i].node < n
  BY EnterNode
<1>2. KidsOf(n) \in Seq(Node) /\ Len(KidsOf(n)) \in Nat
  BY <1>1, KidFacts
<1>3. RestOf(KidsOf(n), KidsOf(n))
  BY <1>2 DEF RestOf
<1>4. Len(p) \in Nat /\ p \in Seq([node : Node, left : Seq(Node)])
  BY DEF Chain
<1>5. /\ q \in Seq([node : Node, left : Seq(Node)]) /\ Len(q) = Len(p) + 1
      /\ q[Len(q)] = [node |-> n, left |-> KidsOf(n)]
      /\ \A i \in 1 .. Len(p) : q[i].node = p[i].node
      /\ \A i \in 1 .. Len(p) - 1 : q[i] = p[i]
      /\ p # <<>> => q[Len(p)].left = Tail(p[Len(p)].left)
  BY DEF Deeper
<1>6. q[Len(q)].node = n /\ q[Len(q)].left = KidsOf(n)
  BY <1>5
<1>7. ASSUME p # <<>>
      PROVE  /\ Len(p) \in 1 .. Len(p)
             /\ RestOf(q[Len(p)].left, KidsOf(q[Len(p)].node))
             /\ Taken(q[Len(p)]) > 0
             /\ n = KidsOf(q[Len(p)].node)[Taken(q[Len(p)])]
  <2>1. Len(p) \in 1 .. Len(p)
    BY <1>4, <1>7
  <2>2. PICK f : f = p[Len(p)]
    OBVIOUS
  <2>3. /\ f.node \in Node /\ f.left \in Seq(Node) /\ f.left # <<>>
        /\ RestOf(f.left, KidsOf(f.node))
    BY <1>7, <2>1, <2>2, ChainFacts DEF Entering
  <2>4. KidsOf(f.node) \in Seq(Node) /\ Len(KidsOf(f.node)) \in Nat
    BY <2>3, KidFacts
  <2>5. RestOf(Tail(f.left), KidsOf(f.node)) /\ Len(Tail(f.left)) = Len(f.left) - 1
    BY <2>3, <2>4, RestTail
  <2>6. PICK g : g = q[Len(p)]
    OBVIOUS
  <2>7. g.node = f.node /\ g.left = Tail(f.left)
    BY <1>5, <1>7, <2>1, <2>2, <2>6
  <2>8. NextChild(f, n)
    BY <1>1, <1>7, <2>2
  <2>9. Len(f.left) \in Nat
    BY <2>3
  <2>10. Taken(g) = Taken(f) + 1
    <3>1. PICK k, l : k = Len(KidsOf(f.node)) /\ l = Len(f.left)
      OBVIOUS
    <3>2. Taken(f) = k - l /\ Taken(g) = k - (l - 1)
      BY <2>5, <2>7, <3>1 DEF Taken
    <3>3. k \in Nat /\ l \in Nat
      BY <2>4, <2>9, <3>1
    <3> QED
      BY <3>2, <3>3
  <2> QED
    BY <2>1, <2>5, <2>6, <2>7, <2>8, <2>10 DEF NextChild
<1>8. ASSUME NEW i \in 1 .. Len(q)
      PROVE  /\ RestOf(q[i].left, KidsOf(q[i].node))
             /\ r <= q[i].node /\ tree[q[i].node].last <= tree[r].last
  <2>1. i = Len(q) \/ (i = Len(p) /\ p # <<>>) \/ i \in 1 .. Len(p) - 1
    BY <1>4, <1>5
  <2>2. CASE i = Len(q)
    BY <1>1, <1>3, <1>6, <2>2
  <2>3. CASE i = Len(p) /\ p # <<>>
    <3>1. i \in 1 .. Len(p) /\ RestOf(q[i].left, KidsOf(q[i].node))
      BY <1>7, <2>3
    <3> QED
      BY <1>5, <3>1, ChainFacts
  <2>4. CASE i \in 1 .. Len(p) - 1
    <3>1. i \in 1 .. Len(p) /\ q[i] = p[i]
      BY <1>4, <1>5, <2>4
    <3> QED
      BY <3>1, ChainFacts
  <2> QED
    BY <2>1, <2>2, <2>3, <2>4
<1>9. ASSUME NEW i \in 1 .. Len(q) - 1
      PROVE  Taken(q[i]) > 0 /\ q[i + 1].node = KidsOf(q[i].node)[Taken(q[i])]
  <2>1. (i = Len(p) /\ p # <<>>) \/ i \in 1 .. Len(p) - 1
    BY <1>4, <1>5
  <2>2. CASE i = Len(p) /\ p # <<>>
    BY <1>5, <1>6, <1>7, <2>2
  <2>3. CASE i \in 1 .. Len(p) - 1
    <3>1. i + 1 \in 1 .. Len(p) /\ q[i] = p[i]
      <4>1. \A l \in Nat : i \in 1 .. l - 1 => i + 1 \in 1 .. l
        BY <2>3
      <4> QED
        BY <1>4, <1>5, <2>3, <4>1
    <3>2. q[i + 1].node = p[i + 1].node
      BY <1>5, <3>1
    <3>3. Taken(p[i]) > 0 /\ p[i + 1].node = KidsOf(p[i].node)[Taken(p[i])]
      BY <2>3 DEF Chain
    <3> QED
      BY <3>1, <3>2, <3>3
  <2> QED
    BY <2>1, <2>2, <2>3
<1>10. ASSUME NEW i \in 1 .. Len(q), NEW j \in 1 .. Len(q), i < j
       PROVE  q[i].node < q[j].node
  <2>1. i \in 1 .. Len(p) /\ q[i].node = p[i].node
    BY <1>4, <1>5, <1>10
  <2>2. CASE j = Len(q)
    BY <1>1, <1>6, <2>1, <2>2
  <2>3. CASE j # Len(q)
    <3>1. j \in 1 .. Len(p) /\ q[j].node = p[j].node
      BY <1>4, <1>5, <2>3
    <3>2. p[i].node < p[j].node
      BY <1>10, <2>1, <3>1 DEF Chain
    <3> QED
      BY <2>1, <3>1, <3>2
  <2> QED
    BY <2>2, <2>3
<1>11. q[1].node = r
  <2>1. CASE p = <<>>
    <3>1. Len(q) = 1 /\ n = r
      BY <1>5, <2>1 DEF Entering
    <3> QED
      BY <1>6, <3>1
  <2>2. CASE p # <<>>
    <3>1. 1 \in 1 .. Len(p) /\ p[1].node = r
      BY <1>4, <2>2 DEF Chain
    <3> QED
      BY <1>5, <3>1
  <2> QED
    BY <2>1, <2>2
<1> QED
  BY <1>5, <1>8, <1>9, <1>10, <1>11 DEF Chain

(* Entering a node keeps what is known of Imports and has nothing visited. *)
LEMMA EnterImporting ==
  ASSUME Sound, NEW p, NEW r \in Node, Chain(p, r), NEW n, Entering(p, r, n),
         NEW q, Deeper(p, q, n), NEW types, Importing(p, types)
  PROVE  Importing(q, types + (IF Kind(n) = "Import" THEN 1 ELSE 0))
<1>1. /\ Len(p) \in Nat /\ Len(q) = Len(p) + 1 /\ q[Len(q)].node = n
      /\ \A i \in 1 .. Len(p) : q[i].node = p[i].node
  <2>1. Len(q) = Len(p) + 1 /\ q[Len(q)] = [node |-> n, left |-> KidsOf(n)]
    BY DEF Deeper
  <2>2. Len(p) \in Nat /\ \A i \in 1 .. Len(p) : q[i].node = p[i].node
    BY DEF Deeper, Chain
  <2> QED
    BY <2>1, <2>2
<1>2. PICK l : l = Len(p)
  OBVIOUS
<1>3. \A i \in Around(q) : i = l + 1 \/ i \in Around(p)
  BY <1>1, <1>2 DEF Around
<1>4. \A i \in Around(p) : i \in 1 .. l /\ i \in Around(q)
  BY <1>1, <1>2 DEF Around
<1>5. l + 1 \in Around(q) <=> Kind(n) = "Import"
  BY <1>1, <1>2 DEF Around
<1>6. CASE Around(p) = {}
  <2>1. types = 0
    BY <1>6 DEF Importing
  <2>2. CASE Kind(n) = "Import"
    <3>1. Around(q) = {l + 1}
      BY <1>3, <1>5, <1>6, <2>2
    <3> QED
      BY <1>1, <1>2, <2>1, <2>2, <3>1 DEF Importing
  <2>3. CASE Kind(n) # "Import"
    <3>1. Around(q) = {}
      BY <1>3, <1>5, <1>6, <2>3
    <3> QED
      BY <2>1, <2>3, <3>1 DEF Importing
  <2> QED
    BY <2>2, <2>3
<1>7. CASE Around(p) # {}
  <2>1. types = 1
    BY <1>7 DEF Importing
  <2>2. p # <<>> /\ l \in 1 .. l
    BY <1>1, <1>2, <1>4, <1>7
  <2>3. PICK f : f = p[l]
    OBVIOUS
  <2>4. /\ f.node \in Node /\ f.left \in Seq(Node) /\ f.left # <<>>
        /\ RestOf(f.left, KidsOf(f.node)) /\ NextChild(f, n)
    BY <1>2, <2>2, <2>3, ChainFacts, EnterNode DEF Entering
  <2>5. KidsOf(f.node) # <<>>
    <3>1. Len(f.left) > 0 /\ Len(f.left) <= Len(KidsOf(f.node))
      BY <2>4 DEF RestOf
    <3> QED
      BY <3>1
  <2>6. Kind(f.node) # "Identifier"
    BY <2>4, <2>5, NamingFacts
  <2>7. ASSUME NEW i \in Around(p)
        PROVE  i = l
    <3>1. i >= l - 1 /\ i \in 1 .. l
      BY <1>2, <1>4 DEF Importing
    <3>2. i < l => Kind(p[i + 1].node) = "Identifier"
      BY <1>2 DEF Importing
    <3>3. i < l => i + 1 = l
      BY <1>1, <1>2, <3>1
    <3> QED
      BY <1>1, <1>2, <2>3, <2>6, <3>1, <3>2, <3>3
  <2>8. l \in Around(p) /\ Kind(f.node) = "Import"
    BY <1>2, <1>7, <2>3, <2>7 DEF Around
  <2>9. Kind(n) = "Identifier"
    <3>1. /\ Len(KidsOf(f.node)) = 1 /\ IdentifierOf(f.node) = KidsOf(f.node)[1]
          /\ Kind(IdentifierOf(f.node)) = "Identifier"
      BY <2>4, <2>8, NamingFacts
    <3>2. Taken(f) + 1 = 1
      BY <2>4, <3>1 DEF NextChild
    <3> QED
      BY <2>4, <3>1, <3>2 DEF NextChild
  <2>10. Around(q) = {l}
    BY <1>3, <1>4, <1>5, <2>7, <2>8, <2>9
  <2>11. q[l + 1].node = n
    BY <1>1, <1>2
  <2> QED
    BY <1>1, <1>2, <2>1, <2>9, <2>10, <2>11 DEF Importing
<1> QED
  BY <1>6, <1>7

LEMMA EnterVisited ==
  ASSUME Sound, NEW p, NEW r \in Node, Chain(p, r), NEW n, Entering(p, r, n),
         NEW q, Deeper(p, q, n), NEW done, p = <<>> => done # r
  PROVE  VisitedBy(q, done, r) = VisitedBy(p, done, r)
<1>1. n \in Node /\ n \in Nat /\ tree[n].last \in Nat /\ \A m \in Node : m \in Nat
  BY EnterNode, KidFacts
<1>2. Upcoming(p, done, r) = n
  BY DEF Upcoming, Behind, Entering
<1>3. /\ Len(p) \in Nat /\ Len(q) = Len(p) + 1
      /\ q[Len(q)] = [node |-> n, left |-> KidsOf(n)]
      /\ \A i \in 1 .. Len(p) : q[i].node = p[i].node
  BY DEF Deeper, Chain
<1>4. q[Len(q)].node = n /\ q[Len(q)].left = KidsOf(n)
  BY <1>3
<1>5. q # <<>>
  BY <1>3
<1>6. Upcoming(q, done, r) = n + 1
  BY <1>1, <1>4, <1>5, KidFacts DEF Upcoming, Behind
<1>7. ASSUME NEW m \in Node
      PROVE  (m < n + 1 /\ \A i \in 1 .. Len(q) : q[i].node # m)
               <=> (m < n /\ \A i \in 1 .. Len(p) : p[i].node # m)
  <2>1. m \in Nat /\ n \in Nat
    BY <1>1
  <2>2. Len(q) \in 1 .. Len(q)
    BY <1>3
  <2>3. \A i \in 1 .. Len(p) : i \in 1 .. Len(q) /\ q[i].node = p[i].node
    BY <1>3
  <2>4. \A i \in 1 .. Len(q) : i = Len(q) \/ i \in 1 .. Len(p)
    BY <1>3
  <2> QED
    BY <1>4, <2>1, <2>2, <2>3, <2>4
<1> QED
  BY <1>2, <1>6, <1>7 DEF VisitedBy

------------------------------------------------------------------------------
(* Leaving the node at the end of the path. *)
Shallower(p, q) ==
  /\ q \in Seq([node : Node, left : Seq(Node)]) /\ Len(q) = Len(p) - 1
  /\ \A i \in 1 .. Len(q) : q[i] = p[i]

LEMMA Shallow ==
  ASSUME NEW p \in Seq([node : Node, left : Seq(Node)]), p # <<>>
  PROVE  Shallower(p, SubSeq(p, 1, Len(p) - 1))
<1>1. PICK F : F = [node : Node, left : Seq(Node)]
  OBVIOUS
<1>2. p \in Seq(F) /\ Len(p) \in Nat \ {0}
  BY <1>1
<1>3. PICK q : q = SubSeq(p, 1, Len(p) - 1)
  OBVIOUS
<1>4. PICK k : k = Len(p) - 1
  OBVIOUS
<1>5. 1 \in Int /\ k \in Int /\ k >= 0 /\ \A i \in 1 .. k : p[i] \in F
  BY <1>2, <1>4
<1>6. q = SubSeq(p, 1, k)
  BY <1>3, <1>4
<1>7. q \in Seq(F) /\ Len(q) = k
  <2>1. q \in Seq(F) /\ Len(q) = IF 1 <= k THEN k - 1 + 1 ELSE 0
    BY <1>5, <1>6, SubSeqProperties
  <2> QED
    BY <1>5, <2>1
<1>8. ASSUME NEW i \in 1 .. Len(q)
      PROVE  q[i] = p[i]
  <2>1. i \in 1 .. k - 1 + 1 /\ 1 + i - 1 = i
    BY <1>5, <1>7
  <2>2. q[i] = p[1 + i - 1]
    BY <1>5, <1>6, <2>1, SubSeqProperties
  <2> QED
    BY <2>1, <2>2
<1> QED
  BY <1>1, <1>3, <1>4, <1>7, <1>8 DEF Shallower

LEMMA LeaveChain ==
  ASSUME Sound, NEW p, NEW r \in Node, Chain(p, r), p # <<>>,
         NEW q, Shallower(p, q)
  PROVE  Chain(q, r)
<1>1. /\ q \in Seq([node : Node, left : Seq(Node)])
      /\ Len(p) \in Nat /\ Len(q) = Len(p) - 1
      /\ \A i \in 1 .. Len(q) : i \in 1 .. Len(p) /\ q[i] = p[i]
  BY DEF Shallower, Chain
<1>2. ASSUME NEW i \in 1 .. Len(q) - 1
      PROVE  Taken(q[i]) > 0 /\ q[i + 1].node = KidsOf(q[i].node)[Taken(q[i])]
  <2>1. i \in 1 .. Len(p) - 1 /\ i \in 1 .. Len(q) /\ i + 1 \in 1 .. Len(q)
    <3>1. \A l \in Nat : i \in 1 .. l - 1 - 1 =>
             i \in 1 .. l - 1 /\ i + 1 \in 1 .. l - 1
      OBVIOUS
    <3> QED
      BY <1>1, <3>1
  <2>2. q[i] = p[i] /\ q[i + 1] = p[i + 1]
    BY <1>1, <2>1
  <2> QED
    BY <2>1, <2>2 DEF Chain
<1>3. q # <<>> => q[1].node = r
  <2>1. q # <<>> => 1 \in 1 .. Len(q)
    BY <1>1
  <2> QED
    BY <1>1, <2>1 DEF Chain
<1> QED
  BY <1>1, <1>2, <1>3 DEF Chain

LEMMA LeaveImporting ==
  ASSUME NEW p, Len(p) \in Nat \ {0}, NEW q, Shallower(p, q),
         NEW types, Importing(p, types)
  PROVE  Importing(q, types - (IF Kind(p[Len(p)].node) = "Import" THEN 1 ELSE 0))
<1>1. PICK l : l = Len(p)
  OBVIOUS
<1>2. /\ l \in Nat \ {0} /\ Len(q) = l - 1
      /\ \A i \in 1 .. l - 1 : q[i] = p[i]
  BY <1>1 DEF Shallower
<1>3. \A i \in Around(q) : i \in Around(p) /\ i \in 1 .. l - 1
  BY <1>1, <1>2 DEF Around
<1>4. \A i \in Around(p) : i = l \/ i \in Around(q)
  BY <1>1, <1>2 DEF Around
<1>5. l \in Around(p) <=> Kind(p[l].node) = "Import"
  BY <1>1, <1>2 DEF Around
<1>6. \A i \in Around(p) : i >= l - 1 /\ (i < l => Kind(p[i + 1].node) = "Identifier")
  BY <1>1 DEF Importing
<1>7. CASE Kind(p[l].node) = "Import"
  <2>1. types = 1
    BY <1>5, <1>7 DEF Importing
  <2>2. ASSUME NEW i \in Around(q)
        PROVE  FALSE
    <3>1. i + 1 = l /\ i < l
      BY <1>2, <1>3, <1>6, <2>2
    <3> QED
      BY <1>3, <1>6, <1>7, <2>2, <3>1
  <2>3. Around(q) = {}
    BY <2>2
  <2> QED
    BY <1>1, <1>7, <2>1, <2>3 DEF Importing
<1>8. CASE Kind(p[l].node) # "Import"
  <2>1. Around(q) = Around(p)
    BY <1>3, <1>4, <1>5, <1>8
  <2>2. \A i \in Around(q) : i >= Len(q) - 1 /\ ~(i < Len(q))
    BY <1>2, <1>3, <1>6
  <2>3. types = IF Around(q) = {} THEN 0 ELSE 1
    BY <2>1 DEF Importing
  <2> QED
    BY <1>1, <1>8, <2>2, <2>3 DEF Importing
<1> QED
  BY <1>7, <1>8

LEMMA BehindParent ==
  ASSUME Sound, NEW g \in [node : Node, left : Seq(Node)],
         RestOf(g.left, KidsOf(g.node)), Taken(g) > 0,
         NEW n, n = KidsOf(g.node)[Taken(g)]
  PROVE  Behind(g) = tree[n].last + 1
<1>1. PICK kids, l, t : kids = KidsOf(g.node) /\ l = g.left /\ t = Taken(g)
  OBVIOUS
<1>2. /\ kids \in Seq(Node) /\ Len(kids) \in Nat
      /\ kids # <<>> => tree[kids[Len(kids)]].last = tree[g.node].last
      /\ \A i \in 1 .. Len(kids) - 1 : kids[i + 1] = tree[kids[i]].last + 1
  BY <1>1, KidFacts
<1>3. /\ l \in Seq(Node) /\ Len(l) \in Nat /\ Len(l) <= Len(kids)
      /\ \A j \in 1 .. Len(l) : l[j] = kids[Len(kids) - Len(l) + j]
  BY <1>1 DEF RestOf
<1>4. t = Len(kids) - Len(l) /\ t > 0 /\ n = kids[t]
  BY <1>1 DEF Taken
<1>5. CASE l = <<>>
  <2>1. t = Len(kids) /\ kids # <<>>
    BY <1>2, <1>4, <1>5
  <2> QED
    BY <1>1, <1>2, <1>4, <1>5, <2>1 DEF Behind
<1>6. CASE l # <<>>
  <2>1. Len(l) \in Nat \ {0}
    BY <1>3, <1>6
  <2>2. t \in 1 .. Len(kids) - 1 /\ l[1] = kids[t + 1]
    BY <1>2, <1>3, <1>4, <2>1
  <2> QED
    BY <1>1, <1>2, <1>4, <1>6, <2>2 DEF Behind
<1> QED
  BY <1>5, <1>6

(* The node that is left has been visited, and nothing else changes. *)
LEMMA LeaveVisited ==
  ASSUME Sound, NEW p, NEW r \in Node, Kind(r) = "Module", Chain(p, r),
         p # <<>>, p[Len(p)].left = <<>>, NEW q, Shallower(p, q),
         NEW n, n = p[Len(p)].node, NEW done
  PROVE  /\ n \in Node /\ n \notin VisitedBy(p, done, r)
         /\ VisitedBy(q, n, r) = VisitedBy(p, done, r) \union {n}
<1>1. PICK l : l = Len(p)
  OBVIOUS
<1>2. l \in Nat \ {0} /\ l \in 1 .. l
  BY <1>1 DEF Chain
<1>3. /\ n \in Node /\ r <= n /\ tree[n].last <= tree[r].last
  BY <1>1, <1>2, ChainFacts
<1>4. /\ n \in Nat /\ r \in Nat /\ tree[n].last \in Nat /\ n <= tree[n].last
      /\ tree[r].last \in Nat
  BY <1>3, KidFacts
<1>5. n \in r .. tree[r].last
  BY <1>3, <1>4
<1>6. tree[n].root = r
  BY <1>5, RootFacts
<1>7. Upcoming(p, done, r) = tree[n].last + 1
  BY <1>1 DEF Upcoming, Behind
<1>8. /\ Len(q) = l - 1
      /\ \A i \in 1 .. l - 1 : q[i] = p[i]
  BY <1>1, <1>2 DEF Shallower
<1>9. Upcoming(q, n, r) = tree[n].last + 1
  <2>1. CASE l = 1
    <3>1. q = <<>>
      BY <1>8, <2>1 DEF Shallower
    <3>2. n = r
      BY <1>1, <2>1 DEF Chain
    <3> QED
      BY <3>1, <3>2 DEF Upcoming
  <2>2. CASE l # 1
    <3>1. l - 1 \in 1 .. l - 1 /\ l - 1 \in 1 .. Len(p) /\ l - 1 \in 1 .. Len(p) - 1
      BY <1>1, <1>2, <2>2
    <3>2. PICK g : g = p[l - 1]
      OBVIOUS
    <3>3. g \in [node : Node, left : Seq(Node)] /\ RestOf(g.left, KidsOf(g.node))
      BY <3>1, <3>2, ChainFacts
    <3>4. Taken(g) > 0 /\ p[l - 1 + 1].node = KidsOf(g.node)[Taken(g)]
      BY <3>1, <3>2 DEF Chain
    <3>5. n = KidsOf(g.node)[Taken(g)]
      BY <1>1, <1>2, <3>4
    <3>6. Behind(g) = tree[n].last + 1
      BY <3>3, <3>4, <3>5, BehindParent
    <3>7. q # <<>> /\ q[Len(q)] = g
      BY <1>2, <1>8, <2>2, <3>1, <3>2
    <3> QED
      BY <3>6, <3>7 DEF Upcoming
  <2> QED
    BY <2>1, <2>2
<1>10. \A i \in 1 .. l - 1 : p[i].node # n
  <2>1. ASSUME NEW i \in 1 .. l - 1
        PROVE  p[i].node # n
    <3>1. i \in 1 .. Len(p) /\ l \in 1 .. Len(p) /\ i < l
      BY <1>1, <1>2
    <3>2. p[i].node < p[l].node
      BY <3>1 DEF Chain
    <3>3. p[i].node \in Node
      BY <3>1, ChainFacts
    <3>4. p[i].node \in Nat
      BY <3>3, KidFacts
    <3> QED
      BY <1>1, <1>4, <3>2, <3>4
  <2> QED
    BY <2>1
<1>11. ASSUME NEW m \in Node
       PROVE  (\A i \in 1 .. Len(p) : p[i].node # m)
                <=> (m # n /\ \A i \in 1 .. Len(q) : q[i].node # m)
  <2>1. \A i \in 1 .. Len(p) : i = l \/ i \in 1 .. l - 1
    BY <1>1, <1>2
  <2>2. \A i \in 1 .. l - 1 : i \in 1 .. Len(p) /\ q[i] = p[i]
    BY <1>1, <1>2, <1>8
  <2>3. l \in 1 .. Len(p) /\ p[l].node = n
    BY <1>1, <1>2
  <2> QED
    BY <1>8, <2>1, <2>2, <2>3
<1>12. n \notin VisitedBy(p, done, r)
  BY <1>3, <1>11 DEF VisitedBy
<1>13. n \in VisitedBy(q, n, r)
  BY <1>3, <1>4, <1>6, <1>8, <1>9, <1>10 DEF VisitedBy
<1>14. ASSUME NEW m \in Node, m # n
       PROVE  m \in VisitedBy(q, n, r) <=> m \in VisitedBy(p, done, r)
  BY <1>7, <1>9, <1>11, <1>14 DEF VisitedBy
<1>15. VisitedBy(q, n, r) \subseteq Node /\ VisitedBy(p, done, r) \subseteq Node
  BY DEF VisitedBy
<1> QED
  BY <1>3, <1>12, <1>13, <1>14, <1>15

(* At the end every node of the module has been visited, at the start none. *)
LEMMA WholeModule ==
  ASSUME Sound, NEW r \in Node, NEW done
  PROVE  VisitedBy(<<>>, done, r) =
           IF done = r THEN {n \in Node : tree[n].root = r} ELSE {}
<1>1. Upcoming(<<>>, done, r) = IF done = r THEN tree[r].last + 1 ELSE r
  BY DEF Upcoming
<1>2. ASSUME NEW n \in Node, tree[n].root = r
      PROVE  r <= n /\ n <= tree[r].last /\ n \in Nat /\ r \in Nat /\ tree[r].last \in Nat
  BY <1>2, RootFacts, KidFacts
<1>3. \A n \in Node : tree[n].root = r => (n < tree[r].last + 1 /\ ~(n < r))
  BY <1>2
<1>4. \A n \in Node : \A i \in 1 .. Len(<<>>) : <<>>[i].node # n
  OBVIOUS
<1> QED
  BY <1>1, <1>3, <1>4 DEF VisitedBy

------------------------------------------------------------------------------
(* The walk keeps its path, and the state of the analyzer its types. *)

LEMMA MainFacts ==
  ASSUME Sound
  PROVE  /\ Main \in Node /\ Kind(Main) = "Module" /\ tree[Main].path = "main"
         /\ \A m, n \in Node :
              (Kind(m) = "Module" /\ Kind(n) = "Module" /\ tree[m].path = tree[n].path)
                => m = n
<1>1. \A n \in Node : Kind(n) = tree[n].kind
  BY KidFacts
<1>2. PICK n \in Node : tree[n].kind = "Module" /\ tree[n].path = "main"
  BY DEF Sound, Shaped, Node
<1>3. n \in File("main")
  BY <1>1, <1>2 DEF File
<1>4. Main \in File("main")
  BY <1>3 DEF Main
<1>5. \A m, k \in Node :
        (tree[m].kind = "Module" /\ tree[k].kind = "Module" /\ tree[m].path = tree[k].path)
          => m = k
  BY Zenon DEF Sound, Shaped, Node
<1> QED
  BY <1>1, <1>4, <1>5 DEF File

LEMMA StateFacts ==
  ASSUME WalkInv
  PROVE  /\ Sound /\ Root \in Node /\ Kind(Root) = "Module" /\ Chain(path, Root)
         /\ Importing(path, type_checking) /\ Len(path) \in Nat
         /\ path \in Seq([node : Node, left : Seq(Node)])
         /\ cursor \in Nat
<1>1. Sound /\ ModulesInv /\ Chain(path, Root) /\ Importing(path, type_checking) /\ Typed
  BY DEF WalkInv, Sound, PathInv, ImportInv
<1>2. Root \in Node /\ Kind(Root) = "Module"
  BY <1>1 DEF ModulesInv, Root
<1>3. cursor \in Nat
  BY <1>1 DEF Typed
<1> QED
  BY <1>1, <1>2, <1>3 DEF Chain

LEMMA SoundStays ==
  ASSUME Sound, tree' = tree
  PROVE  Sound' /\ Node' = Node
  BY DEF Sound, Node

LEMMA ChainStays ==
  ASSUME tree' = tree, NEW p, NEW r, Chain(p, r)
  PROVE  Chain(p, r)'
  BY DEF Chain, RestOf, KidsOf, Taken, Node

LEMMA ImportingStays ==
  ASSUME tree' = tree, NEW p, NEW types, Importing(p, types)
  PROVE  Importing(p, types)'
<1>1. Around(p)' = Around(p) /\ \A n : Kind(n)' = Kind(n)
  BY DEF Around, Kind
<1> QED
  BY <1>1 DEF Importing

(* The invariant from its parts, of which a step disturbs some. *)
LEMMA WalkFromParts ==
  ASSUME Sound, tree' = tree, ModulesInv', Typed',
         NEW p, path' = p, NEW r, Root' = r, Chain(p, r),
         NEW types, type_checking' = types, Importing(p, types),
         phase' \in {"import", "generate", "finished", "rejected"} => p = <<>>
  PROVE  WalkInv'
<1>1. Sound'
  BY SoundStays
<1>2. PathInv'
  BY ChainStays DEF PathInv
<1>3. ImportInv'
  BY ImportingStays DEF ImportInv
<1> QED
  BY <1>1, <1>2, <1>3 DEF WalkInv, Sound

LEMMA EmptyPath ==
  ASSUME NEW r
  PROVE  Chain(<<>>, r) /\ Importing(<<>>, 0)
<1>1. Around(<<>>) = {}
  BY DEF Around
<1> QED
  BY <1>1 DEF Chain, Importing

LEMMA InitWalk ==
  ASSUME Init
  PROVE  WalkInv
<1>1. Sound
  BY AnalyzerAssumption DEF Init, Sound, Node
<1>2. Main \in Node /\ Kind(Main) = "Module"
  BY <1>1, MainFacts
<1>3. ModulesInv
  BY <1>2 DEF Init, ModulesInv
<1>4. Len(tree) \in Nat
  BY <1>1 DEF Sound, Shaped
<1>5. Typed
  BY <1>4, AnalyzerAssumption DEF Init, Typed
<1>6. PathInv /\ ImportInv
  BY EmptyPath DEF Init, PathInv, ImportInv
<1> QED
  BY <1>1, <1>3, <1>5, <1>6 DEF WalkInv, Sound, Init

LEMMA FileFacts ==
  ASSUME Sound, NEW file, File(file) # {}
  PROVE  First(File(file)) \in File(file)
<1>1. File(file) \in SUBSET Nat
  <2>1. \A n \in Node : n \in Nat
    BY KidFacts
  <2> QED
    BY <2>1 DEF File
<1> QED
  BY <1>1, Least

LEMMA AheadFacts ==
  ASSUME Sound, NEW kind, Ahead(kind) # {}
  PROVE  /\ First(Ahead(kind)) \in Ahead(kind)
         /\ \A n \in Ahead(kind) : First(Ahead(kind)) <= n
<1>1. Ahead(kind) \in SUBSET Nat
  <2>1. \A n \in Node : n \in Nat
    BY KidFacts
  <2> QED
    BY <2>1 DEF Ahead
<1> QED
  BY <1>1, Least

LEMMA ImportWalk ==
  ASSUME WalkInv, ResolveImport
  PROVE  WalkInv'
<1>1. Sound /\ path = <<>> /\ ModulesInv /\ Typed
  BY StateFacts DEF WalkInv, ResolveImport
<1>2. PICK n : n = First(Ahead("Import"))
  OBVIOUS
<1>3. n \in Node /\ n \in Nat /\ n <= Len(tree)
  <2>1. n \in Node
    BY <1>1, <1>2, AheadFacts DEF ResolveImport, Ahead
  <2>2. Len(tree) \in Nat
    BY <1>1, <2>1, KidFacts
  <2> QED
    BY <2>1, <2>2 DEF Node
<1>4. /\ tree' = tree /\ module' = module /\ path' = path
      /\ scopes' = scopes /\ type_checking' = type_checking
      /\ symbols' = symbols /\ link' = link /\ is_set' = is_set
      /\ index' = index /\ errors' = errors
      /\ function_index' = function_index /\ foreign_index' = foreign_index
      /\ variable_index' = variable_index /\ phase' = phase /\ cursor' = n
  BY <1>2 DEF ResolveImport, resultVars, analyzerVars
<1>5. ImportModule(n)
  BY <1>2 DEF ResolveImport
<1>6. PICK file : file = tree[n].path
  OBVIOUS
<1>7. PICK new : new = First(File(file))
  OBVIOUS
<1>8. File(file) # {} => new \in Node /\ Kind(new) = "Module" /\ tree[new].path = file
  BY <1>1, <1>7, FileFacts DEF File
<1>9. module_link' \in [Node -> Node \union {NoNode}]
  BY <1>1, <1>3, <1>5, <1>6, <1>7, <1>8 DEF ImportModule, Typed
<1>10. \A m : Kind(m)' = Kind(m)
  BY <1>4 DEF Kind
<1>11. Main' = Main /\ Node' = Node
  <2>1. Node' = Node
    BY <1>4 DEF Node
  <2>2. File("main")' = File("main")
    BY <1>4, <1>10, <2>1 DEF File
  <2> QED
    BY <2>1, <2>2 DEF Main
<1>12. ModulesInv'
  <2>1. CASE modules' = modules
    BY <1>1, <1>4, <1>10, <1>11, <2>1 DEF ModulesInv
  <2>2. CASE modules' # modules
    <3>1. /\ File(file) # {} /\ ~Loaded(file) /\ modules' = Append(modules, new)
      BY <1>5, <1>6, <1>7, <2>2 DEF ImportModule
    <3>2. PICK ms : ms = modules'
      OBVIOUS
    <3>3. modules \in Seq(Node) /\ modules # <<>> /\ Len(modules) \in Nat \ {0}
      BY <1>1 DEF ModulesInv
    <3>4. Extends(ms, modules, new, Node)
      BY <1>8, <3>1, <3>2, <3>3, Extend
    <3>5. /\ ms \in Seq(Node) /\ Len(ms) = Len(modules) + 1
          /\ ms[Len(modules) + 1] = new
          /\ \A i \in 1 .. Len(modules) : ms[i] = modules[i]
      BY <3>4 DEF Extends
    <3>6. \A i \in 1 .. Len(ms) : i = Len(modules) + 1 \/ i \in 1 .. Len(modules)
      BY <3>3, <3>5
    <3>7. \A i \in 1 .. Len(modules) : modules[i] # new
      BY <1>8, <3>1 DEF Loaded
    <3>8. \A i, j \in 1 .. Len(ms) : ms[i] = ms[j] => i = j
      BY <1>1, <3>5, <3>6, <3>7 DEF ModulesInv
    <3>9. \A i \in 1 .. Len(ms) : Kind(ms[i]) = "Module"
      BY <1>1, <1>8, <3>1, <3>5, <3>6 DEF ModulesInv
    <3>10. ms # <<>> /\ ms[1] = Main /\ module \in 1 .. Len(ms)
      BY <1>1, <3>3, <3>5 DEF ModulesInv
    <3> QED
      BY <1>4, <1>10, <1>11, <3>2, <3>5, <3>8, <3>9, <3>10 DEF ModulesInv
  <2> QED
    BY <2>1, <2>2
<1>13. Typed'
  BY <1>1, <1>3, <1>4, <1>9, <1>11 DEF Typed
<1>14. type_checking = 0
  BY <1>1, EmptyPath DEF WalkInv, ImportInv, Importing
<1>15. PICK r : r = Root'
  OBVIOUS
<1>16. Chain(<<>>, r) /\ Importing(<<>>, 0)
  BY EmptyPath
<1> QED
  BY <1>1, <1>4, <1>12, <1>13, <1>14, <1>15, <1>16, WalkFromParts

LEMMA LookupInScopeType ==
  ASSUME Sound, Typed, NEW scope \in Node, NEW name
  PROVE  LookupInScope(scope, name) \in Node \union {NoNode}
<1>1. symbols[scope] \subseteq Node /\ link \in [Node -> Node \union {NoNode}]
  BY DEF Typed
<1>2. PICK found : found = {s \in symbols[scope] : Name(s) = name}
  OBVIOUS
<1>3. PICK symbol : symbol = CHOOSE s \in found : TRUE
  OBVIOUS
<1>4. found # {} => symbol \in Node
  BY <1>1, <1>2, <1>3
<1>5. PICK identifier : identifier = IdentifierOf(symbol)
  OBVIOUS
<1>6. LookupInScope(scope, name) =
        IF found = {} THEN NoNode
        ELSE IF Kind(symbol) = "Import" /\ link[identifier] # NoNode
        THEN link[identifier] ELSE symbol
  BY <1>2, <1>3, <1>5 DEF LookupInScope
<1>7. CASE found # {} /\ Kind(symbol) = "Import"
  <2>1. identifier \in Node
    BY <1>4, <1>5, <1>7, NamingFacts
  <2> QED
    BY <1>1, <1>4, <1>6, <1>7, <2>1
<1>8. CASE ~(found # {} /\ Kind(symbol) = "Import")
  BY <1>4, <1>6, <1>8
<1> QED
  BY <1>7, <1>8

LEMMA LookupType ==
  ASSUME Sound, Typed, NEW stack \in Seq(Node), NEW name
  PROVE  Lookup(stack, name) \in Node \union {NoNode}
<1>1. PICK hits : hits = {i \in 1 .. Len(stack) : LookupInScope(stack[i], name) # NoNode}
  OBVIOUS
<1>2. Lookup(stack, name) =
        IF hits = {} THEN NoNode ELSE LookupInScope(stack[First(hits)], name)
  BY <1>1 DEF Lookup, First
<1>3. CASE hits = {}
  BY <1>2, <1>3
<1>4. CASE hits # {}
  <2>1. hits \in SUBSET Nat
    BY <1>1
  <2>2. First(hits) \in hits
    BY <1>4, <2>1, Least
  <2>3. stack[First(hits)] \in Node
    BY <1>1, <2>2
  <2> QED
    BY <1>2, <1>4, <2>3, LookupInScopeType
<1> QED
  BY <1>3, <1>4

LEMMA EnterStep ==
  ASSUME WalkInv, Enter, ~EnterFails(Pending)
  PROVE  /\ Entering(path, Root, Pending) /\ Deeper(path, path', Pending)
         /\ path = <<>> => cursor # Root
         /\ scopes' = IF Scoped(Pending) THEN Append(scopes, Pending) ELSE scopes
         /\ type_checking' = type_checking + (IF Kind(Pending) = "Import" THEN 1 ELSE 0)
         /\ LinkImport(Pending) /\ phase' = phase
<1>1. PICK n : n = Pending
  OBVIOUS
<1>2. /\ path' = Append(IF path = <<>> THEN path
                        ELSE [path EXCEPT ![Len(path)].left = Tail(@)],
                        [node |-> n, left |-> tree[n].children])
      /\ scopes' = IF Scoped(n) THEN Append(scopes, n) ELSE scopes
      /\ type_checking' = type_checking + (IF Kind(n) = "Import" THEN 1 ELSE 0)
      /\ LinkImport(n)
      /\ phase' = phase
  BY <1>1, Zenon DEF Enter
<1>3. n # NoNode
  BY <1>1 DEF Enter
<1>4. Entering(path, Root, n) /\ (path = <<>> => cursor # Root)
  BY <1>1, <1>3 DEF Pending, Entering, Open
<1>5. n \in Node
  BY <1>4, StateFacts, EnterNode
<1>6. KidsOf(n) \in Seq(Node) /\ path \in Seq([node : Node, left : Seq(Node)])
  BY <1>5, StateFacts, KidFacts
<1>7. path # <<>> => path[Len(path)].left # <<>>
  BY <1>4 DEF Entering
<1>8. path' = Append(IF path = <<>> THEN path
                     ELSE [path EXCEPT ![Len(path)].left = Tail(@)],
                     [node |-> n, left |-> KidsOf(n)])
  BY <1>2, Zenon DEF KidsOf
<1>9. PICK p, q : p = path /\ q = path'
  OBVIOUS
<1>10. Deeper(p, q, n)
  BY <1>5, <1>6, <1>7, <1>8, <1>9, Deepen
<1> QED
  BY <1>1, <1>2, <1>4, <1>9, <1>10

LEMMA EnterWalk ==
  ASSUME WalkInv, Enter
  PROVE  WalkInv'
<1>1. /\ tree' = tree /\ modules' = modules /\ module' = module /\ cursor' = cursor
      /\ module_link' = module_link /\ symbols' = symbols /\ is_set' = is_set
      /\ index' = index /\ errors' = errors /\ phase \in {"link", "check"}
      /\ function_index' = function_index /\ foreign_index' = foreign_index
      /\ variable_index' = variable_index
  BY DEF Enter, sourceVars, analyzerVars
<1>2. Sound /\ ModulesInv /\ Typed
  BY StateFacts DEF WalkInv
<1>3. Node' = Node /\ Main' = Main /\ \A m : Kind(m)' = Kind(m)
  <2>1. Node' = Node /\ \A m : Kind(m)' = Kind(m)
    BY <1>1 DEF Node, Kind
  <2>2. File("main")' = File("main")
    BY <1>1, <2>1 DEF File
  <2> QED
    BY <2>1, <2>2 DEF Main
<1>4. ModulesInv'
  BY <1>1, <1>2, <1>3 DEF ModulesInv
<1>5. PICK r, p, types, n : /\ r = Root /\ p = path /\ types = type_checking
                            /\ n = Pending
  OBVIOUS
<1>6. /\ r \in Node /\ Root' = r /\ Chain(p, r) /\ Importing(p, types)
  BY <1>1, <1>5, StateFacts DEF Root
<1>7. CASE EnterFails(n)
  <2>1. /\ phase' = "aborted" /\ path' = path /\ scopes' = scopes
        /\ type_checking' = type_checking /\ link' = link
    BY <1>5, <1>7, Zenon DEF Enter
  <2>2. Typed'
    BY <1>1, <1>2, <1>3, <2>1 DEF Typed
  <2> QED
    BY <1>1, <1>2, <1>4, <1>5, <1>6, <2>1, <2>2, WalkFromParts
<1>8. CASE ~EnterFails(n)
  <2>1. /\ Entering(p, r, n) /\ Deeper(p, path', n)
        /\ scopes' = IF Scoped(n) THEN Append(scopes, n) ELSE scopes
        /\ type_checking' = types + (IF Kind(n) = "Import" THEN 1 ELSE 0)
        /\ LinkImport(n) /\ phase' = phase
    BY <1>5, <1>8, EnterStep
  <2>2. PICK q : q = path'
    OBVIOUS
  <2>3. n \in Node
    BY <1>2, <1>6, <2>1, EnterNode
  <2>4. Chain(q, r) /\ Importing(q, types + (IF Kind(n) = "Import" THEN 1 ELSE 0))
    BY <1>2, <1>6, <2>1, <2>2, EnterChain, EnterImporting
  <2>5. PICK types2 : types2 = types + (IF Kind(n) = "Import" THEN 1 ELSE 0)
    OBVIOUS
  <2>6. scopes' \in Seq(Node) /\ Len(scopes') <= MaxNesting
    <3>1. scopes \in Seq(Node) /\ Len(scopes) <= MaxNesting /\ Len(scopes) \in Nat
      BY <1>2 DEF Typed
    <3>2. CASE Scoped(n)
      <4>1. Len(scopes) # MaxNesting
        BY <1>8, <3>2 DEF EnterFails
      <4>2. Extends(Append(scopes, n), scopes, n, Node)
        BY <2>3, <3>1, Extend
      <4>3. scopes' \in Seq(Node) /\ Len(scopes') = Len(scopes) + 1
        BY <2>1, <3>2, <4>2 DEF Extends
      <4> QED
        BY <3>1, <4>1, <4>3, AnalyzerAssumption
    <3>3. CASE ~Scoped(n)
      BY <2>1, <3>1, <3>3
    <3> QED
      BY <3>2, <3>3
  <2>7. link' \in [Node -> Node \union {NoNode}]
    <3>1. CASE phase = "link" /\ Kind(n) = "Import"
      <4>1. module_link[n] \in Node
        BY <1>2, <1>8, <2>3, <3>1 DEF EnterFails, Typed
      <4>2. PICK name : name = Name(IdentifierOf(n))
        OBVIOUS
      <4>3. LookupInScope(module_link[n], name) \in Node \union {NoNode}
        BY <1>2, <4>1, LookupInScopeType
      <4>4. link' = [link EXCEPT ![IdentifierOf(n)] = LookupInScope(module_link[n], name)]
        BY <2>1, <3>1, <4>2 DEF LinkImport
      <4> QED
        BY <1>2, <4>3, <4>4 DEF Typed
    <3>2. CASE ~(phase = "link" /\ Kind(n) = "Import")
      <4>1. link' = link
        BY <2>1, <3>2, Zenon DEF LinkImport
      <4> QED
        BY <1>2, <4>1 DEF Typed
    <3> QED
      BY <3>1, <3>2
  <2>8. Typed'
    BY <1>1, <1>2, <1>3, <2>6, <2>7 DEF Typed
  <2>9. Importing(q, types2) /\ type_checking' = types2
    BY <2>1, <2>4, <2>5
  <2>10. phase' \notin {"import", "generate", "finished", "rejected"}
    BY <1>1, <2>1
  <2> QED
    BY <1>1, <1>2, <1>4, <1>6, <2>2, <2>4, <2>8, <2>9, <2>10, WalkFromParts
<1> QED
  BY <1>7, <1>8

LEMMA LeaveFacts ==
  ASSUME WalkInv, Leaving, LeaveNode(Open.node)
  PROVE  /\ Open.node \in Node /\ path # <<>> /\ path[Len(path)].left = <<>>
         /\ Shallower(path, path') /\ cursor' = Open.node /\ module' = module
         /\ scopes' \in Seq(Node) /\ Len(scopes') <= MaxNesting
         /\ type_checking' = type_checking
              - (IF Kind(path[Len(path)].node) = "Import" THEN 1 ELSE 0)
<1>1. path # <<>> /\ path[Len(path)].left = <<>>
  BY DEF Leaving, Open
<1>2. PICK n : n = Open.node
  OBVIOUS
<1>3. /\ path' = SubSeq(path, 1, Len(path) - 1)
      /\ scopes' = IF Scoped(n) THEN SubSeq(scopes, 1, Len(scopes) - 1) ELSE scopes
      /\ type_checking' = type_checking - (IF Kind(n) = "Import" THEN 1 ELSE 0)
      /\ cursor' = n /\ module' = module
  BY <1>2 DEF LeaveNode
<1>4. n \in Node
  <2>1. Len(path) \in 1 .. Len(path)
    BY <1>1, StateFacts
  <2> QED
    BY <1>2, <2>1, StateFacts, ChainFacts DEF Open
<1>5. Shallower(path, path')
  <2>1. PICK p : p = path
    OBVIOUS
  <2>2. p \in Seq([node : Node, left : Seq(Node)]) /\ p # <<>>
    BY <1>1, <2>1, StateFacts
  <2>3. Shallower(p, SubSeq(p, 1, Len(p) - 1))
    BY <2>2, Shallow
  <2> QED
    BY <1>3, <2>1, <2>3
<1>6. scopes' \in Seq(Node) /\ Len(scopes') <= MaxNesting
  <2>1. scopes \in Seq(Node) /\ Len(scopes) <= MaxNesting /\ Len(scopes) \in Nat
    BY DEF WalkInv, Typed
  <2>2. CASE Scoped(n)
    <3>1. PICK s, k : s = scopes /\ k = Len(scopes) - 1
      OBVIOUS
    <3>2. 1 \in Int /\ k \in Int /\ k >= 0 - 1 /\ \A i \in 1 .. k : s[i] \in Node
      BY <2>1, <3>1
    <3>3. /\ SubSeq(s, 1, k) \in Seq(Node)
          /\ Len(SubSeq(s, 1, k)) = IF 1 <= k THEN k - 1 + 1 ELSE 0
      BY <3>2, SubSeqProperties
    <3>4. Len(SubSeq(s, 1, k)) <= Len(scopes)
      BY <2>1, <3>1, <3>2, <3>3
    <3>5. scopes' = SubSeq(s, 1, k)
      BY <1>3, <2>2, <3>1
    <3> QED
      BY <2>1, <3>3, <3>4, <3>5, AnalyzerAssumption
  <2>3. CASE ~Scoped(n)
    BY <1>3, <2>1, <2>3
  <2> QED
    BY <2>2, <2>3
<1> QED
  BY <1>1, <1>2, <1>3, <1>4, <1>5, <1>6 DEF Open

(* The same modules are loaded, and the same one is walked over. *)
LEMMA SameModules ==
  ASSUME WalkInv, tree' = tree, modules' = modules
  PROVE  /\ Node' = Node /\ Main' = Main /\ \A m : Kind(m)' = Kind(m)
         /\ module' \in 1 .. Len(modules) => ModulesInv'
         /\ module' = module => ModulesInv' /\ Root' = Root
<1>1. Node' = Node /\ \A m : Kind(m)' = Kind(m)
  BY DEF Node, Kind
<1>2. File("main")' = File("main")
  BY <1>1 DEF File
<1>3. Main' = Main
  BY <1>1, <1>2 DEF Main
<1>4. ModulesInv
  BY DEF WalkInv
<1>5. module' \in 1 .. Len(modules) => ModulesInv'
  BY <1>1, <1>3, <1>4 DEF ModulesInv
<1>6. module' = module => Root' = Root
  BY DEF Root
<1> QED
  BY <1>1, <1>3, <1>4, <1>5, <1>6 DEF ModulesInv

LEMMA LeaveWalk ==
  ASSUME WalkInv, Leaving, LeaveNode(Open.node), tree' = tree, modules' = modules,
         Typed', phase' \notin {"import", "generate", "finished", "rejected"}
  PROVE  WalkInv'
<1>1. PICK p, r, types, q : p = path /\ r = Root /\ types = type_checking /\ q = path'
  OBVIOUS
<1>2. /\ Sound /\ r \in Node /\ Chain(p, r) /\ Importing(p, types) /\ Len(p) \in Nat
  BY <1>1, StateFacts
<1>3. /\ p # <<>> /\ Shallower(p, q) /\ module' = module
      /\ type_checking' = types - (IF Kind(p[Len(p)].node) = "Import" THEN 1 ELSE 0)
  BY <1>1, LeaveFacts
<1>4. Len(p) \in Nat \ {0}
  BY <1>2, <1>3 DEF Chain
<1>5. PICK types2 : types2 = types - (IF Kind(p[Len(p)].node) = "Import" THEN 1 ELSE 0)
  OBVIOUS
<1>6. Chain(q, r)
  BY <1>2, <1>3, LeaveChain
<1>7. Importing(q, types2)
  BY <1>2, <1>3, <1>4, <1>5, LeaveImporting
<1>8. ModulesInv' /\ Root' = r
  BY <1>1, <1>3, SameModules
<1> QED
  BY <1>1, <1>2, <1>3, <1>5, <1>6, <1>7, <1>8, WalkFromParts

LEMMA LinkedType ==
  ASSUME WalkInv, NEW n \in Node, scopes' \in Seq(Node)
  PROVE  Linked(n) \in [Node -> Node \union {NoNode}]
<1>1. Sound /\ Typed /\ link \in [Node -> Node \union {NoNode}]
  BY StateFacts DEF WalkInv, Typed
<1>2. PICK stack, name : stack = scopes' /\ name = Name(n)
  OBVIOUS
<1>3. Lookup(stack, name) \in Node \union {NoNode}
  BY <1>1, <1>2, LookupType
<1>4. Linked(n) = IF Kind(n) = "Identifier" /\ link[n] = NoNode
                  THEN [link EXCEPT ![n] = Lookup(stack, name)] ELSE link
  BY <1>2 DEF Linked
<1> QED
  BY <1>1, <1>3, <1>4

LEMMA FirstWalk ==
  ASSUME WalkInv, LeaveFirst
  PROVE  WalkInv'
<1>1. /\ phase = "link" /\ Leaving /\ LeaveNode(Open.node)
      /\ link' = IF type_checking' > 0 THEN Linked(Open.node) ELSE link
      /\ tree' = tree /\ modules' = modules /\ module_link' = module_link
      /\ symbols' = symbols /\ is_set' = is_set /\ index' = index
      /\ errors' = errors /\ phase' = phase
      /\ function_index' = function_index /\ foreign_index' = foreign_index
      /\ variable_index' = variable_index
  BY DEF LeaveFirst, sourceVars, analyzerVars
<1>2. Typed /\ Node' = Node /\ Sound
  BY <1>1, SameModules, StateFacts DEF WalkInv
<1>3. PICK n : n = Open.node
  OBVIOUS
<1>4. /\ n \in Node /\ cursor' = n
      /\ scopes' \in Seq(Node) /\ Len(scopes') <= MaxNesting
  BY <1>1, <1>3, LeaveFacts
<1>5. n \in 0 .. Len(tree)
  BY <1>2, <1>4, KidFacts DEF Node
<1>6. link' \in [Node -> Node \union {NoNode}]
  BY <1>1, <1>2, <1>3, <1>4, LinkedType DEF Typed
<1>7. Typed'
  BY <1>1, <1>2, <1>4, <1>5, <1>6 DEF Typed
<1> QED
  BY <1>1, <1>7, LeaveWalk

LEMMA SecondWalk ==
  ASSUME WalkInv, LeaveSecond
  PROVE  WalkInv'
<1>1. PICK n : n = Open.node
  OBVIOUS
<1>2. /\ phase = "check" /\ Leaving /\ LeaveNode(Open.node) /\ link' = Linked(n)
      /\ tree' = tree /\ modules' = modules /\ module_link' = module_link
  BY <1>1 DEF LeaveSecond, sourceVars
<1>3. \/ /\ phase' = "crashed"
         /\ UNCHANGED <<symbols, is_set, index, errors, analyzerVars>>
      \/ phase' = phase /\ Accept(n)
      \/ phase' = phase /\ Reject(n)
  BY <1>1, Zenon DEF LeaveSecond
<1>4. Typed /\ Node' = Node /\ Sound /\ Root \in Node
  BY <1>2, SameModules, StateFacts DEF WalkInv
<1>5. /\ n \in Node /\ cursor' = n
      /\ scopes' \in Seq(Node) /\ Len(scopes') <= MaxNesting
  BY <1>1, <1>2, LeaveFacts
<1>6. n \in 0 .. Len(tree)
  BY <1>4, <1>5, KidFacts DEF Node
<1>7. link' \in [Node -> Node \union {NoNode}]
  BY <1>2, <1>5, LinkedType
<1> DEFINE Results == /\ symbols' \in [Node -> SUBSET Node] /\ is_set' \subseteq Node
                      /\ index' \in [Node -> Nat] /\ errors' \in [Node -> Nat]
                      /\ function_index' \in Nat /\ foreign_index' \in Nat
                      /\ variable_index' \in Nat
<1>8. Results
  <2>1. CASE UNCHANGED <<symbols, is_set, index, errors, analyzerVars>>
    BY <1>4, <2>1 DEF analyzerVars, Typed
  <2>2. CASE Accept(n)
    <3>1. symbols' = symbols /\ errors' = errors
      BY <2>2 DEF Accept
    <3>2. is_set' \subseteq Node
      BY <1>4, <1>5, <2>2 DEF Accept, Typed
    <3>3. IndexNode(n)
      BY <2>2 DEF Accept
    <3>4. /\ function_index' \in Nat /\ foreign_index' \in Nat
          /\ variable_index' \in Nat
      BY <1>4, <3>3 DEF IndexNode, Typed
    <3>5. index' \in [Node -> Nat]
      <4>1. /\ index \in [Node -> Nat] /\ function_index + 1 \in Nat
            /\ foreign_index \in Nat /\ variable_index \in Nat
        BY <1>4 DEF Typed
      <4>2. \/ \E k \in {0, function_index + 1, foreign_index, variable_index} :
                 index' = [index EXCEPT ![n] = k]
            \/ index' = index
        BY <3>3 DEF IndexNode
      <4> QED
        BY <1>5, <4>1, <4>2
    <3> QED
      BY <1>4, <3>1, <3>2, <3>4, <3>5 DEF Typed
  <2>3. CASE Reject(n)
    <3>1. /\ is_set' = is_set /\ index' = index /\ function_index' = function_index
          /\ foreign_index' = foreign_index /\ variable_index' = variable_index
      BY <2>3 DEF Reject
    <3>2. errors' \in [Node -> Nat]
      BY <1>4, <2>3 DEF Reject, Typed
    <3>3. symbols' \in [Node -> SUBSET Node]
      <4>1. PICK s : s = scopes'[Len(scopes')]
        OBVIOUS
      <4>2. symbols \in [Node -> SUBSET Node]
        BY <1>4 DEF Typed
      <4>3. symbols' = symbols \/ symbols' = [symbols EXCEPT ![s] = @ \ {n}]
        BY <2>3, <4>1 DEF Reject
      <4> QED
        BY <4>2, <4>3
    <3> QED
      BY <1>4, <3>1, <3>2, <3>3 DEF Typed
  <2> QED
    BY <1>3, <2>1, <2>2, <2>3
<1>9. Typed'
  BY <1>2, <1>4, <1>5, <1>6, <1>7, <1>8 DEF Typed
<1>10. phase' \in {"crashed", "check"}
  BY <1>2, <1>3
<1> QED
  BY <1>2, <1>9, <1>10, LeaveWalk

LEMMA PanicWalk ==
  ASSUME WalkInv, LeaveInPanic
  PROVE  WalkInv'
<1>1. /\ phase = "check" /\ Leaving /\ LeaveNode(Open.node)
      /\ tree' = tree /\ modules' = modules /\ module_link' = module_link
      /\ symbols' = symbols /\ is_set' = is_set /\ index' = index
      /\ errors' = errors /\ phase' = phase /\ link' = link
      /\ function_index' = function_index /\ foreign_index' = foreign_index
      /\ variable_index' = variable_index
  BY DEF LeaveInPanic, sourceVars, resultVars
<1>2. Typed /\ Node' = Node /\ Sound
  BY <1>1, SameModules, StateFacts DEF WalkInv
<1>3. PICK n : n = Open.node
  OBVIOUS
<1>4. /\ n \in Node /\ cursor' = n
      /\ scopes' \in Seq(Node) /\ Len(scopes') <= MaxNesting
  BY <1>1, <1>3, LeaveFacts
<1>5. n \in 0 .. Len(tree)
  BY <1>2, <1>4, KidFacts DEF Node
<1>6. Typed'
  BY <1>1, <1>2, <1>4, <1>5 DEF Typed
<1> QED
  BY <1>1, <1>6, LeaveWalk

(* Between the walks there is no path. *)
LEMMA RestWalk ==
  ASSUME WalkInv, path = <<>>, tree' = tree, modules' = modules, path' = path,
         type_checking' = type_checking, module' \in 1 .. Len(modules), Typed'
  PROVE  WalkInv'
<1>1. Sound /\ ModulesInv'
  BY StateFacts, SameModules
<1>2. type_checking = 0
  BY EmptyPath, StateFacts DEF Importing
<1>3. PICK r : r = Root'
  OBVIOUS
<1>4. Chain(<<>>, r) /\ Importing(<<>>, 0)
  BY EmptyPath
<1> QED
  BY <1>1, <1>2, <1>3, <1>4, WalkFromParts

LEMMA RegisterWalk ==
  ASSUME WalkInv, Register
  PROVE  WalkInv'
<1>1. /\ phase = "generate" /\ tree' = tree /\ modules' = modules /\ path' = path
      /\ module' = module /\ type_checking' = type_checking
      /\ module_link' = module_link /\ symbols' = symbols /\ is_set' = is_set
      /\ index' = index /\ errors' = errors /\ link' = link /\ scopes' = scopes
      /\ function_index' = function_index /\ foreign_index' = foreign_index
      /\ variable_index' = variable_index
      /\ cursor' = First(Ahead("Function")) /\ Ahead("Function") # {}
  BY DEF Register, sourceVars, resultVars, analyzerVars
<1>2. path = <<>> /\ Sound /\ Typed /\ module \in 1 .. Len(modules) /\ Node' = Node
  BY <1>1, StateFacts, SameModules DEF WalkInv, ModulesInv
<1>3. cursor' \in Node
  BY <1>1, <1>2, AheadFacts DEF Ahead
<1>4. cursor' \in 0 .. Len(tree)
  BY <1>2, <1>3, KidFacts DEF Node
<1>5. Typed'
  BY <1>1, <1>2, <1>4 DEF Typed
<1> QED
  BY <1>1, <1>2, <1>5, RestWalk

LEMMA DoneFacts ==
  ASSUME WalkInv, ModuleDone
  PROVE  /\ path = <<>>
         /\ phase \in {"link", "check"} => cursor = Root
         /\ phase \in {"import", "link", "check", "generate"}
         /\ phase = "import" => Ahead("Import") = {}
         /\ phase = "generate" => Ahead("Function") = {}
<1>1. phase \in {"import", "link", "check", "generate"}
  BY Zenon DEF ModuleDone
<1>2. CASE phase = "import"
  BY <1>2 DEF ModuleDone, WalkInv
<1>3. CASE phase = "generate"
  BY <1>3 DEF ModuleDone, WalkInv
<1>4. CASE phase \in {"link", "check"}
  BY <1>4 DEF ModuleDone
<1> QED
  BY <1>1, <1>2, <1>3, <1>4

LEMMA NextModuleWalk ==
  ASSUME WalkInv, NextModule
  PROVE  WalkInv'
<1>1. /\ tree' = tree /\ modules' = modules /\ path' = path
      /\ module < Len(modules) /\ module' = module + 1 /\ type_checking' = type_checking
      /\ module_link' = module_link /\ symbols' = symbols /\ is_set' = is_set
      /\ index' = index /\ errors' = errors /\ link' = link /\ scopes' = scopes
      /\ function_index' = function_index /\ foreign_index' = foreign_index
      /\ variable_index' = variable_index /\ cursor' = 0
  BY DEF NextModule, sourceVars, resultVars, analyzerVars
<1>2. path = <<>> /\ Sound /\ Typed /\ Node' = Node
  BY <1>1, StateFacts, SameModules, DoneFacts DEF WalkInv, NextModule
<1>3. module' \in 1 .. Len(modules)
  BY <1>1 DEF WalkInv, ModulesInv
<1>4. Len(tree) \in Nat
  BY <1>2 DEF Sound, Shaped
<1>5. Typed'
  BY <1>1, <1>2, <1>4 DEF Typed
<1> QED
  BY <1>1, <1>2, <1>3, <1>5, RestWalk

LEMMA FinishWalk ==
  ASSUME WalkInv, FinishImport \/ FinishFirst \/ FinishSecond \/ FinishGenerate
  PROVE  WalkInv'
<1>1. AllDone /\ \E next : Begin(next)
  BY DEF FinishImport, FinishFirst, FinishSecond, FinishGenerate
<1>2. /\ tree' = tree /\ modules' = modules /\ path' = path
      /\ module' = 1 /\ type_checking' = type_checking
      /\ module_link' = module_link /\ symbols' = symbols /\ is_set' = is_set
      /\ index' = index /\ link' = link /\ scopes' = scopes
      /\ function_index' = function_index /\ foreign_index' = foreign_index
      /\ variable_index' = variable_index /\ cursor' = 0
  BY <1>1 DEF Begin, sourceVars, analyzerVars
<1>3. path = <<>> /\ Sound /\ Typed /\ Node' = Node
  BY <1>1, <1>2, StateFacts, SameModules, DoneFacts DEF WalkInv, AllDone
<1>4. module' \in 1 .. Len(modules)
  BY <1>2 DEF WalkInv, ModulesInv
<1>5. Len(tree) \in Nat
  BY <1>3 DEF Sound, Shaped
<1>6. errors' \in [Node -> Nat]
  <2>1. errors \in [Node -> Nat]
    BY <1>3 DEF Typed
  <2>2. CASE FinishSecond
    <3>1. PICK k \in {0, 1} : errors' = [errors EXCEPT ![Main] = @ + k]
      BY <2>2 DEF FinishSecond
    <3>2. Main \in Node /\ errors[Main] + k \in Nat
      BY <1>3, <2>1, MainFacts
    <3> QED
      BY <2>1, <3>1, <3>2
  <2>3. CASE FinishImport \/ FinishFirst \/ FinishGenerate
    BY <2>1, <2>3 DEF FinishImport, FinishFirst, FinishGenerate
  <2> QED
    BY <2>2, <2>3
<1>7. Typed'
  BY <1>2, <1>3, <1>5, <1>6 DEF Typed
<1> QED
  BY <1>2, <1>3, <1>4, <1>7, RestWalk

LEMMA IdleWalk ==
  ASSUME WalkInv, UNCHANGED vars
  PROVE  WalkInv'
<1>1. /\ tree' = tree /\ modules' = modules /\ path' = path /\ module' = module
      /\ type_checking' = type_checking /\ phase' = phase
      /\ module_link' = module_link /\ symbols' = symbols /\ is_set' = is_set
      /\ index' = index /\ link' = link /\ scopes' = scopes /\ errors' = errors
      /\ function_index' = function_index /\ foreign_index' = foreign_index
      /\ variable_index' = variable_index /\ cursor' = cursor
  BY DEF vars, sourceVars, walkVars, resultVars, analyzerVars
<1>2. Sound /\ Typed /\ Node' = Node /\ ModulesInv'
  BY <1>1, StateFacts, SameModules DEF WalkInv
<1>3. Typed'
  BY <1>1, <1>2 DEF Typed
<1>4. PICK p, r, types : p = path /\ r = Root /\ types = type_checking
  OBVIOUS
<1>5. Root' = r /\ Chain(p, r) /\ Importing(p, types)
  BY <1>1, <1>4, StateFacts DEF Root
<1>6. phase' \in {"import", "generate", "finished", "rejected"} => p = <<>>
  BY <1>1, <1>4 DEF WalkInv
<1> QED
  BY <1>1, <1>2, <1>3, <1>4, <1>5, <1>6, WalkFromParts

LEMMA NextWalk ==
  ASSUME WalkInv, [Next]_vars
  PROVE  WalkInv'
<1>1. CASE Proceed
  BY <1>1, ImportWalk, EnterWalk, FirstWalk, SecondWalk, PanicWalk, RegisterWalk,
     NextModuleWalk, FinishWalk DEF Proceed
<1>2. CASE Stopped \/ UNCHANGED vars
  BY <1>2, IdleWalk DEF Stopped
<1> QED
  BY <1>1, <1>2 DEF Next

THEOREM WalkAlways == Spec => []WalkInv
  BY InitWalk, NextWalk, PTL DEF Spec

(* The state of the analyzer keeps its types for any source, right or      *)
(* wrong: the scopes never outgrow their stack, and type_checking, which   *)
(* every Import raises and lowers (analyze.c), is 0 or 1.                  *)
THEOREM AnalyzerTypes == Spec => []TypeOK
<1>1. ASSUME WalkInv
      PROVE  TypeOK
  <2>1. ModulesInv /\ Typed /\ Importing(path, type_checking)
    BY <1>1, StateFacts DEF WalkInv
  <2>2. type_checking \in 0 .. 1
    BY <2>1 DEF Importing
  <2> QED
    BY <2>1, <2>2 DEF TypeOK, ModulesInv, Typed
<1> QED
  BY <1>1, WalkAlways, PTL

------------------------------------------------------------------------------
(* The functions and their indices. *)

LEMMA IndexedStays ==
  ASSUME tree' = tree, index' = index, function_index' = function_index,
         has_main' = has_main, NEW set, Indexed(set)
  PROVE  Indexed(set)'
  BY DEF Indexed, IsFunction, Kind, IsMain, Name

LEMMA VisitedStays ==
  ASSUME tree' = tree, NEW p, NEW done, NEW r,
         path' = p, cursor' = done, Root' = r
  PROVE  Visited' = VisitedBy(p, done, r)
  BY DEF Visited, VisitedBy, Upcoming, Behind, Node

LEMMA MainOnly ==
  ASSUME Sound, OneMain(tree), NEW f \in Node, IsFunction(f), IsMain(f)
  PROVE  /\ \A g \in Node : IsFunction(g) /\ IsMain(g) => g = f
         /\ tree[f].root = Main
<1>1. \A n \in Node : Kind(n) = tree[n].kind
  BY KidFacts
<1>2. /\ tree[tree[f].root].path = "main"
      /\ \A g \in 1 .. Len(tree) :
           tree[g].kind = "Function" /\ tree[g].name = "main" => g = f
  <2>1. f \in 1 .. Len(tree) /\ tree[f].kind = "Function" /\ tree[f].name = "main"
    BY <1>1 DEF IsFunction, IsMain, Name, Node
  <2> QED
    BY <2>1 DEF OneMain
<1>3. \A g \in Node : IsFunction(g) /\ IsMain(g) => g = f
  BY <1>1, <1>2 DEF IsFunction, IsMain, Name, Node
<1>4. tree[f].root \in Node /\ Kind(tree[f].root) = "Module"
  BY RootFacts
<1>5. Main \in Node /\ Kind(Main) = "Module" /\ tree[Main].path = "main"
  BY MainFacts
<1>6. tree[f].root = Main
  BY <1>2, <1>4, <1>5, MainFacts
<1> QED
  BY <1>3, <1>6

(* index_node continues the numbers of the functions. *)
LEMMA IndexedMore ==
  ASSUME Sound, OneMain(tree), tree' = tree, index \in [Node -> Nat],
         function_index \in Nat, NEW set \in SUBSET Node,
         NEW n \in Node, n \notin set, Indexed(set), IndexNode(n)
  PROVE  Indexed(set \union {n})'
<1>1. \A m : IsFunction(m)' = IsFunction(m) /\ IsMain(m)' = IsMain(m)
  BY DEF IsFunction, IsMain, Name, Kind
<1>2. PICK new, last, begins : new = index' /\ last = function_index' /\ begins = has_main'
  OBVIOUS
<1>3. PICK k : k = function_index
  OBVIOUS
<1>4. /\ \A f \in set : IsFunction(f) =>
           IF IsMain(f) THEN index[f] = 0 ELSE index[f] \in 1 .. k
      /\ \A f, g \in set : IsFunction(f) /\ IsFunction(g) /\ index[f] = index[g] => f = g
      /\ \A i \in 1 .. k : \E f \in set : IsFunction(f) /\ index[f] = i
      /\ has_main => \E f \in set : IsFunction(f) /\ IsMain(f)
  BY <1>3 DEF Indexed
<1>5. \A f \in set : f \in Node /\ f # n
  OBVIOUS
<1>6. /\ \A f \in set : new[f] = index[f]
      /\ IsFunction(n) => new[n] = IF IsMain(n) THEN 0 ELSE k + 1
  <2>1. \/ \E i : new = [index EXCEPT ![n] = i]
        \/ new = index
    BY <1>2 DEF IndexNode
  <2>2. IsFunction(n) => new = [index EXCEPT ![n] = IF IsMain(n) THEN 0 ELSE k + 1]
    BY <1>2, <1>3 DEF IndexNode, IsFunction
  <2> QED
    BY <1>5, <2>1, <2>2
<1>7. /\ last = k + (IF IsFunction(n) /\ ~IsMain(n) THEN 1 ELSE 0)
      /\ begins <=> (has_main \/ (IsFunction(n) /\ IsMain(n)))
  <2>1. last = k + (IF IsFunction(n) /\ ~IsMain(n) THEN 1 ELSE 0)
    BY <1>2, <1>3 DEF IndexNode, IsFunction
  <2>2. has_main' = (has_main \/ (IsFunction(n) /\ IsMain(n)))
    BY DEF IndexNode, IsFunction
  <2> QED
    BY <1>2, <2>1, <2>2
<1>8. k \in Nat
  BY <1>3
<1>9. \A f \in Node : IsFunction(n) /\ IsMain(n) /\ IsFunction(f) /\ IsMain(f) => f = n
  BY MainOnly
<1>10. ASSUME NEW f \in set \union {n}, IsFunction(f)
       PROVE  IF IsMain(f) THEN new[f] = 0 ELSE new[f] \in 1 .. last
  <2>1. CASE f = n
    BY <1>6, <1>7, <1>8, <1>10, <2>1
  <2>2. CASE f \in set
    BY <1>4, <1>6, <1>7, <1>8, <1>10, <2>2
  <2> QED
    BY <2>1, <2>2
<1>11. ASSUME NEW f \in set, IsFunction(f), IsFunction(n)
       PROVE  new[f] # new[n]
  <2>1. IF IsMain(f) THEN new[f] = 0 ELSE new[f] \in 1 .. k
    BY <1>4, <1>6, <1>11
  <2>2. new[n] = IF IsMain(n) THEN 0 ELSE k + 1
    BY <1>6, <1>11
  <2>3. ~(IsMain(f) /\ IsMain(n))
    BY <1>5, <1>9, <1>11
  <2> QED
    BY <1>8, <2>1, <2>2, <2>3
<1>12. \A f, g \in set \union {n} :
          IsFunction(f) /\ IsFunction(g) /\ new[f] = new[g] => f = g
  BY <1>4, <1>6, <1>11
<1>13. ASSUME NEW i \in 1 .. last
       PROVE  \E f \in set \union {n} : IsFunction(f) /\ new[f] = i
  <2>1. CASE i \in 1 .. k
    BY <1>4, <1>6, <2>1
  <2>2. CASE i \notin 1 .. k
    <3>1. i = k + 1 /\ IsFunction(n) /\ ~IsMain(n)
      BY <1>7, <1>8, <2>2
    <3> QED
      BY <1>6, <3>1
  <2> QED
    BY <2>1, <2>2
<1>14. begins => \E f \in set \union {n} : IsFunction(f) /\ IsMain(f)
  BY <1>4, <1>7
<1> QED
  BY <1>1, <1>2, <1>10, <1>12, <1>13, <1>14 DEF Indexed

LEMMA BeforeStays ==
  ASSUME tree' = tree, modules' = modules, module' = module
  PROVE  Before' = Before
  BY DEF Before, Node

(* Steps outside the second pass and the generator. *)
LEMMA OutsideTable ==
  ASSUME TableInv, phase \in {"import", "link"}, phase' = phase, table' = table,
         function_index' = function_index, has_main' = has_main, panic' = panic
  PROVE  TableInv'
  BY DEF TableInv

LEMMA EnterTable ==
  ASSUME WalkInv, TableInv, Enter
  PROVE  TableInv'
<1>1. /\ tree' = tree /\ modules' = modules /\ module' = module /\ cursor' = cursor
      /\ index' = index /\ errors' = errors /\ phase \in {"link", "check"}
      /\ function_index' = function_index /\ has_main' = has_main /\ panic' = panic
      /\ table' = table
  BY DEF Enter, sourceVars, analyzerVars
<1>2. PICK n : n = Pending
  OBVIOUS
<1>3. CASE EnterFails(n)
  <2>1. phase' = "aborted"
    BY <1>2, <1>3, Zenon DEF Enter
  <2> QED
    BY <2>1 DEF TableInv
<1>4. CASE ~EnterFails(n)
  <2>1. PICK p, r, done, q : p = path /\ r = Root /\ done = cursor /\ q = path'
    OBVIOUS
  <2>2. /\ Entering(p, r, n) /\ Deeper(p, q, n) /\ (p = <<>> => done # r)
        /\ phase' = phase
    BY <1>2, <1>4, <2>1, EnterStep
  <2>3. CASE phase = "link"
    BY <1>1, <2>2, <2>3, OutsideTable
  <2>4. CASE phase = "check"
    <3>1. Sound /\ r \in Node /\ Chain(p, r) /\ Root' = r
      BY <1>1, <2>1, StateFacts DEF Root
    <3>2. VisitedBy(q, done, r) = VisitedBy(p, done, r)
      BY <2>2, <3>1, EnterVisited
    <3>3. Visited' = Visited
      <4>1. Visited' = VisitedBy(q, done, r)
        BY <1>1, <2>1, <3>1, VisitedStays
      <4> QED
        BY <2>1, <3>2, <4>1 DEF Visited
    <3>4. Done' = Done
      BY <1>1, <3>3, BeforeStays DEF Done
    <3>5. PICK set : set = Done
      OBVIOUS
    <3>6. Clean' = Clean
      BY <1>1 DEF Clean
    <3>7. Clean => ~panic /\ Indexed(set) /\ table = <<>>
      BY <2>4, <3>5 DEF TableInv
    <3>8. Clean => Indexed(set)'
      BY <1>1, <3>7, IndexedStays
    <3>9. Clean => Indexed(Done)'
      BY <3>4, <3>5, <3>8 DEF Indexed
    <3>10. table = <<>>
      BY <2>4 DEF TableInv
    <3> QED
      BY <1>1, <2>2, <2>4, <3>6, <3>7, <3>9, <3>10 DEF TableInv
  <2> QED
    BY <1>1, <2>3, <2>4
<1> QED
  BY <1>3, <1>4

LEMMA LeaveDone ==
  ASSUME WalkInv, Leaving, LeaveNode(Open.node), tree' = tree, modules' = modules
  PROVE  Done' = Done \union {Open.node} /\ Open.node \notin Done /\ Open.node \in Node
<1>1. PICK p, r, done, q, n :
        p = path /\ r = Root /\ done = cursor /\ q = path' /\ n = Open.node
  OBVIOUS
<1>2. /\ Sound /\ r \in Node /\ Kind(r) = "Module" /\ Chain(p, r) /\ Len(p) \in Nat
  BY <1>1, StateFacts
<1>3. /\ p # <<>> /\ p[Len(p)].left = <<>> /\ Shallower(p, q)
      /\ cursor' = n /\ module' = module /\ n = p[Len(p)].node
  BY <1>1, LeaveFacts DEF Open
<1>4. /\ n \in Node /\ n \notin VisitedBy(p, done, r)
      /\ VisitedBy(q, n, r) = VisitedBy(p, done, r) \union {n}
  BY <1>2, <1>3, LeaveVisited
<1>5. Root' = r
  BY <1>1, <1>3 DEF Root
<1>6. Visited' = VisitedBy(q, n, r)
  BY <1>1, <1>3, <1>5, VisitedStays
<1>7. Before' = Before
  BY <1>3, BeforeStays
<1>8. n \notin Before
  <2>1. tree[n].root = r
    <3>1. n \in VisitedBy(q, n, r)
      BY <1>4
    <3> QED
      BY <3>1 DEF VisitedBy
  <2>2. /\ \A i, j \in 1 .. Len(modules) : modules[i] = modules[j] => i = j
        /\ module \in 1 .. Len(modules)
    BY DEF WalkInv, ModulesInv
  <2>3. \A i \in 1 .. module - 1 : i \in 1 .. Len(modules) /\ i # module
    BY <2>2
  <2>4. \A i \in 1 .. module - 1 : modules[i] # modules[module]
    BY <2>2, <2>3
  <2> QED
    BY <1>1, <2>1, <2>4 DEF Before, Root
<1> QED
  BY <1>1, <1>4, <1>6, <1>7, <1>8 DEF Done, Visited

LEMMA FirstTable ==
  ASSUME TableInv, LeaveFirst
  PROVE  TableInv'
  BY OutsideTable DEF LeaveFirst, analyzerVars

LEMMA ImportTable ==
  ASSUME TableInv, ResolveImport
  PROVE  TableInv'
  BY OutsideTable DEF ResolveImport, analyzerVars

LEMMA PanicTable ==
  ASSUME TableInv, LeaveInPanic
  PROVE  TableInv'
<1>1. /\ phase = "check" /\ panic /\ phase' = phase /\ errors' = errors
      /\ modules' = modules /\ table' = table
  BY DEF LeaveInPanic, sourceVars, resultVars
<1>2. ~Clean
  BY <1>1 DEF TableInv
<1>3. ~Clean'
  BY <1>1, <1>2 DEF Clean
<1> QED
  BY <1>1, <1>3 DEF TableInv

LEMMA SecondTable ==
  ASSUME WalkInv, OneMain(tree), TableInv, LeaveSecond
  PROVE  TableInv'
<1>1. PICK n : n = Open.node
  OBVIOUS
<1>2. /\ phase = "check" /\ Leaving /\ LeaveNode(Open.node) /\ ~panic
      /\ tree' = tree /\ modules' = modules /\ table' = table
  BY DEF LeaveSecond, sourceVars
<1>3. \/ phase' = "crashed"
      \/ phase' = phase /\ Accept(n)
      \/ phase' = phase /\ Reject(n)
  BY <1>1, Zenon DEF LeaveSecond
<1>4. table = <<>> /\ (Clean => Indexed(Done))
  BY <1>2 DEF TableInv
<1>5. Done' = Done \union {n} /\ n \notin Done /\ n \in Node
  BY <1>1, <1>2, LeaveDone
<1>6. CASE phase' = "crashed"
  BY <1>6 DEF TableInv
<1>7. CASE phase' = phase /\ Accept(n)
  <2>1. errors' = errors /\ panic' = panic /\ IndexNode(n)
    BY <1>7 DEF Accept
  <2>2. Clean' = Clean
    BY <1>2, <2>1 DEF Clean
  <2>3. ASSUME Clean
        PROVE  Indexed(Done)'
    <3>1. PICK set : set = Done
      OBVIOUS
    <3>2. set \in SUBSET Node
      BY <3>1 DEF Done, Before, Visited, VisitedBy
    <3>3. Sound /\ index \in [Node -> Nat] /\ function_index \in Nat
      BY StateFacts DEF WalkInv, Typed
    <3>4. Indexed(set) /\ n \notin set
      BY <1>4, <1>5, <2>3, <3>1
    <3>5. Indexed(set \union {n})'
      BY <1>2, <1>5, <2>1, <3>2, <3>3, <3>4, IndexedMore
    <3>6. Done' = set \union {n}
      BY <1>5, <3>1
    <3> QED
      BY <3>5, <3>6 DEF Indexed
  <2> QED
    BY <1>2, <1>4, <1>7, <2>1, <2>2, <2>3 DEF TableInv
<1>8. CASE phase' = phase /\ Reject(n)
  <2>1. errors' = [errors EXCEPT ![Root] = @ + 1]
    BY <1>8 DEF Reject
  <2>2. errors \in [Node -> Nat] /\ Root \in Node /\ module \in 1 .. Len(modules)
    BY StateFacts DEF WalkInv, Typed, ModulesInv
  <2>3. errors'[modules[module]] # 0
    BY <2>1, <2>2 DEF Root
  <2>4. ~Clean'
    BY <1>2, <2>2, <2>3 DEF Clean
  <2> QED
    BY <1>2, <1>4, <1>8, <2>4 DEF TableInv
<1> QED
  BY <1>3, <1>6, <1>7, <1>8

(* A module is done: its nodes are before those of the next one. *)
LEMMA BeforeNext ==
  ASSUME WalkInv, tree' = tree, modules' = modules, module' = module + 1
  PROVE  Before' = Before \union {n \in Node : tree[n].root = Root}
<1>1. module \in Nat \ {0}
  BY DEF WalkInv, ModulesInv
<1>2. \A i : i \in 1 .. module' - 1 <=> i \in 1 .. module - 1 \/ i = module
  BY <1>1
<1> QED
  BY <1>2 DEF Before, Root, Node

LEMMA NotYet ==
  ASSUME WalkInv, tree' = tree, modules' = modules, module' \in 1 .. Len(modules),
         path' = <<>>, cursor' = 0
  PROVE  Visited' = {}
<1>1. PICK r : r = Root'
  OBVIOUS
<1>2. Sound /\ r \in Node
  BY <1>1, StateFacts DEF WalkInv, ModulesInv, Root
<1>3. 0 # r
  BY <1>2, KidFacts DEF Node
<1>4. VisitedBy(<<>>, 0, r) = {}
  BY <1>2, <1>3, WholeModule
<1> QED
  BY <1>1, <1>4, VisitedStays

LEMMA AllVisited ==
  ASSUME WalkInv, path = <<>>, cursor = Root
  PROVE  Visited = {n \in Node : tree[n].root = Root}
<1>1. PICK r : r = Root
  OBVIOUS
<1> QED
  BY <1>1, StateFacts, WholeModule DEF Visited

(* All functions of a module have been entered when none is ahead. *)
LEMMA NoneAhead ==
  ASSUME WalkInv, Ahead("Function") = {}
  PROVE  Registered =
           {n \in Functions : n \in Before \union {m \in Node : tree[m].root = Root}}
<1>1. cursor \in Nat /\ \A n \in Node : n \in Nat
  BY StateFacts, KidFacts
<1>2. ASSUME NEW n \in Functions, tree[n].root = Root
      PROVE  n <= cursor
  <2>1. n \in Node /\ Kind(n) = "Function"
    BY DEF Functions
  <2>2. ~(n > cursor)
    BY <1>2, <2>1 DEF Ahead
  <2> QED
    BY <1>1, <2>1, <2>2
<1>3. \A n \in Functions : n \in Node
  BY DEF Functions
<1> QED
  BY <1>2, <1>3 DEF Registered

LEMMA EnteredStays ==
  ASSUME index' = index, table' = table, NEW set, Entered(set)
  PROVE  Entered(set)'
  BY DEF Entered

LEMMA SameFunctions ==
  ASSUME tree' = tree, modules' = modules
  PROVE  /\ Functions' = Functions
         /\ {n \in Node : Belongs(n)}' = {n \in Node : Belongs(n)}
  BY DEF Functions, Belongs, Kind, Node

LEMMA NextModuleTable ==
  ASSUME WalkInv, TableInv, NextModule
  PROVE  TableInv'
<1>1. /\ tree' = tree /\ modules' = modules /\ module' = module + 1
      /\ path' = path /\ cursor' = 0 /\ phase' = phase /\ table' = table
      /\ errors' = errors /\ index' = index /\ function_index' = function_index
      /\ has_main' = has_main /\ panic' = panic /\ module < Len(modules)
  BY DEF NextModule, sourceVars, resultVars, analyzerVars
<1>2. /\ path = <<>> /\ (phase \in {"link", "check"} => cursor = Root)
      /\ phase \in {"import", "link", "check", "generate"}
      /\ (phase = "generate" => Ahead("Function") = {})
  BY DoneFacts DEF NextModule
<1>3. Before' = Before \union {n \in Node : tree[n].root = Root}
  BY <1>1, BeforeNext
<1>4. module' \in 1 .. Len(modules)
  BY <1>1 DEF WalkInv, ModulesInv
<1>5. CASE phase \in {"import", "link"}
  BY <1>1, <1>5, OutsideTable
<1>6. CASE phase = "check"
  <2>1. Visited' = {}
    BY <1>1, <1>2, <1>4, NotYet
  <2>2. Visited = {n \in Node : tree[n].root = Root}
    BY <1>2, <1>6, AllVisited
  <2>3. Done' = Done
    BY <1>3, <2>1, <2>2 DEF Done
  <2>4. Clean' = Clean
    BY <1>1 DEF Clean
  <2>5. PICK set : set = Done
    OBVIOUS
  <2>6. Clean => Indexed(set)'
    BY <1>1, <1>6, <2>5, IndexedStays DEF TableInv
  <2>7. Clean => Indexed(Done)'
    BY <2>3, <2>5, <2>6 DEF Indexed
  <2> QED
    BY <1>1, <1>6, <2>4, <2>7 DEF TableInv
<1>7. CASE phase = "generate"
  <2>1. Registered =
          {n \in Functions : n \in Before \union {m \in Node : tree[m].root = Root}}
    BY <1>2, <1>7, NoneAhead
  <2>2. \A n \in Functions : n \in Nat \ {0}
    <3>1. \A n \in Functions : n \in Node
      BY DEF Functions
    <3> QED
      BY <3>1, StateFacts, KidFacts DEF Node
  <2>3. Registered' = Registered
    <3>1. Functions' = Functions
      BY <1>1, SameFunctions
    <3>2. Registered' = {n \in Functions : n \in Before'}
      BY <1>1, <2>2, <3>1 DEF Registered
    <3> QED
      BY <1>3, <2>1, <3>2
  <2>4. PICK set, all : set = Registered /\ all = {n \in Node : Belongs(n)}
    OBVIOUS
  <2>5. Entered(set) /\ Indexed(all) /\ has_main
    BY <1>7, <2>4 DEF TableInv
  <2>6. Entered(set)' /\ Indexed(all)'
    BY <1>1, <2>5, EnteredStays, IndexedStays
  <2>7. Entered(Registered)'
    BY <2>3, <2>4, <2>6 DEF Entered
  <2>8. Indexed({n \in Node : Belongs(n)})'
    <3>1. {n \in Node : Belongs(n)}' = all
      BY <1>1, <2>4, SameFunctions
    <3> QED
      BY <2>6, <3>1 DEF Indexed
  <2> QED
    BY <1>1, <1>7, <2>5, <2>7, <2>8 DEF TableInv
<1> QED
  BY <1>2, <1>5, <1>6, <1>7

(* register_function: the function has an index no function before it has. *)
LEMMA RegisterTable ==
  ASSUME WalkInv, TableInv, Register
  PROVE  TableInv'
<1>1. PICK f : f = First(Ahead("Function"))
  OBVIOUS
<1>2. /\ phase = "generate" /\ Ahead("Function") # {}
      /\ tree' = tree /\ modules' = modules /\ module' = module /\ phase' = phase
      /\ index' = index /\ function_index' = function_index /\ has_main' = has_main
  BY DEF Register, sourceVars, resultVars, analyzerVars
<1>3. /\ table' = [i \in DOMAIN table \union {index[f]} |->
                     IF i = index[f] THEN f ELSE table[i]]
      /\ cursor' = f
  BY <1>1, Zenon DEF Register
<1>4. /\ f \in Ahead("Function") /\ \A n \in Ahead("Function") : f <= n
  BY <1>1, <1>2, StateFacts, AheadFacts
<1>5. f \in Node /\ tree[f].root = Root /\ Kind(f) = "Function" /\ f > cursor
  BY <1>4 DEF Ahead
<1>6. cursor \in Nat /\ \A n \in Node : n \in Nat
  BY StateFacts, KidFacts
<1>7. Functions' = Functions /\ \A n \in Functions : n \in Node /\ Kind(n) = "Function"
  BY <1>2, SameFunctions DEF Functions
<1>8. f \in Functions
  <2>1. module \in 1 .. Len(modules)
    BY DEF WalkInv, ModulesInv
  <2>2. Belongs(f)
    BY <1>5, <2>1 DEF Belongs, Root
  <2> QED
    BY <1>5, <2>2 DEF Functions
<1>9. Registered' = Registered \union {f}
  <2>1. ASSUME NEW n \in Functions, tree[n].root = Root
        PROVE  n <= f <=> (n <= cursor \/ n = f)
    <3>1. n > cursor => f <= n
      BY <1>4, <1>7, <2>1 DEF Ahead
    <3> QED
      BY <1>5, <1>6, <1>7, <3>1
  <2>2. Root' = Root /\ Before' = Before
    BY <1>2, BeforeStays DEF Root
  <2>3. Registered' =
          {n \in Functions : n \in Before \/ (tree[n].root = Root /\ n <= f)}
    BY <1>2, <1>3, <1>7, <2>2 DEF Registered
  <2> QED
    BY <1>5, <1>8, <2>1, <2>3 DEF Registered
<1>10. PICK set, all : set = Registered /\ all = {n \in Node : Belongs(n)}
  OBVIOUS
<1>11. Entered(set) /\ Indexed(all) /\ has_main
  BY <1>2, <1>10 DEF TableInv
<1>12. \A g \in set : g \in Functions
  BY <1>10 DEF Registered
<1>13. \A g, h \in Functions : index[g] = index[h] => g = h
  <2>1. \A g \in Functions : g \in all /\ IsFunction(g)
    BY <1>10 DEF Functions, IsFunction
  <2> QED
    BY <1>11, <2>1 DEF Indexed
<1>14. Entered(set \union {f})'
  <2>1. PICK new : new = table'
    OBVIOUS
  <2>2. DOMAIN new = {index[g] : g \in set \union {f}}
    BY <1>3, <1>11, <2>1 DEF Entered
  <2>3. ASSUME NEW g \in set \union {f}
        PROVE  new[index[g]] = g
    <3>1. index[g] \in DOMAIN new
      BY <2>2
    <3>2. g # f => index[g] # index[f] /\ table[index[g]] = g
      BY <1>8, <1>11, <1>12, <1>13 DEF Entered
    <3> QED
      BY <1>3, <2>1, <2>2, <3>1, <3>2
  <2> QED
    BY <1>2, <2>1, <2>2, <2>3 DEF Entered
<1>15. Entered(Registered)'
  BY <1>9, <1>10, <1>14 DEF Entered
<1>16. Indexed({n \in Node : Belongs(n)})'
  <2>1. {n \in Node : Belongs(n)}' = all
    BY <1>2, <1>10, SameFunctions
  <2>2. Indexed(all)'
    BY <1>2, <1>11, IndexedStays
  <2> QED
    BY <2>1, <2>2 DEF Indexed
<1> QED
  BY <1>2, <1>11, <1>15, <1>16 DEF TableInv

(* A program without errors has been indexed as a whole, main included. *)
LEMMA SecondDone ==
  ASSUME WalkInv, TableInv, phase = "check", AllDone, Clean
  PROVE  Indexed({n \in Node : Belongs(n)})
<1>1. path = <<>> /\ cursor = Root /\ module = Len(modules) /\ module \in Nat \ {0}
  BY DoneFacts DEF AllDone, WalkInv, ModulesInv
<1>2. Visited = {n \in Node : tree[n].root = Root}
  BY <1>1, AllVisited
<1>3. \A i : i \in 1 .. Len(modules) <=> i \in 1 .. module - 1 \/ i = module
  BY <1>1
<1>4. Done = {n \in Node : Belongs(n)}
  BY <1>2, <1>3 DEF Done, Before, Belongs, Root
<1>5. Indexed(Done)
  BY DEF TableInv
<1> QED
  BY <1>4, <1>5

LEMMA BeginTable ==
  ASSUME WalkInv, AllDone, NEW next, Begin(next)
  PROVE  /\ tree' = tree /\ modules' = modules /\ phase' = next /\ table' = table
         /\ index' = index /\ function_index' = function_index
         /\ has_main' = has_main /\ panic' = panic
         /\ Before' = {} /\ Visited' = {} /\ Registered' = {}
<1>1. /\ tree' = tree /\ modules' = modules /\ phase' = next /\ table' = table
      /\ index' = index /\ function_index' = function_index
      /\ has_main' = has_main /\ panic' = panic
      /\ module' = 1 /\ cursor' = 0 /\ path' = path
  BY DEF Begin, sourceVars, analyzerVars
<1>2. path = <<>> /\ module' \in 1 .. Len(modules)
  BY <1>1, DoneFacts DEF AllDone, WalkInv, ModulesInv
<1>3. Visited' = {}
  BY <1>1, <1>2, NotYet
<1>4. Before' = {}
  BY <1>1 DEF Before
<1>5. Functions' = Functions /\ \A n \in Functions : n \in Node
  BY <1>1, SameFunctions DEF Functions
<1>6. \A n \in Node : n \in Nat \ {0}
  BY StateFacts, KidFacts DEF Node
<1>7. Registered' = {}
  BY <1>1, <1>4, <1>5, <1>6 DEF Registered
<1> QED
  BY <1>1, <1>3, <1>4, <1>7

LEMMA FinishTable ==
  ASSUME WalkInv, TableInv,
         FinishImport \/ FinishFirst \/ FinishSecond \/ FinishGenerate
  PROVE  TableInv'
<1>1. AllDone
  BY DEF FinishImport, FinishFirst, FinishSecond, FinishGenerate
<1>2. CASE FinishImport
  <2>1. phase = "import" /\ Begin("link")
    BY <1>2 DEF FinishImport
  <2> QED
    BY <1>1, <2>1, BeginTable DEF TableInv
<1>3. CASE FinishFirst
  <2>1. phase = "link" /\ Begin("check")
    BY <1>3 DEF FinishFirst
  <2>2. /\ phase' = "check" /\ table' = table /\ function_index' = function_index
        /\ has_main' = has_main /\ panic' = panic /\ Before' = {} /\ Visited' = {}
    BY <1>1, <2>1, BeginTable
  <2>3. function_index' = 0 /\ ~has_main' /\ ~panic' /\ table' = <<>>
    BY <2>1, <2>2 DEF TableInv
  <2>4. Done' = {}
    BY <2>2 DEF Done
  <2>5. Indexed(Done)'
    BY <2>3, <2>4 DEF Indexed
  <2> QED
    BY <2>2, <2>3, <2>5 DEF TableInv
<1>4. CASE FinishSecond
  <2>1. PICK next : /\ next \in {"generate", "rejected"} /\ Begin(next)
                    /\ next = "generate" =>
                         \A i \in 1 .. Len(modules) : errors'[modules[i]] = 0
    <3> DEFINE none == \A i \in 1 .. Len(modules) : errors'[modules[i]] = 0
    <3>1. Begin(IF none THEN "generate" ELSE "rejected")
      BY <1>4 DEF FinishSecond
    <3> HIDE DEF none
    <3>2. CASE none
      <4>1. Begin("generate")
        BY <3>1, <3>2
      <4> QED
        BY <3>2, <4>1 DEF none
    <3>3. CASE ~none
      <4>1. Begin("rejected")
        BY <3>1, <3>3
      <4> QED
        BY <4>1
    <3> QED
      BY <3>2, <3>3
  <2>2. /\ phase = "check"
        /\ errors' = [errors EXCEPT ![Main] = @ + (IF has_main THEN 0 ELSE 1)]
    BY <1>4 DEF FinishSecond
  <2>3. CASE next = "rejected"
    <3>1. phase' = "rejected"
      BY <1>1, <2>1, <2>3, BeginTable
    <3> QED
      BY <3>1 DEF TableInv
  <2>4. CASE next = "generate"
    <3>1. \A i \in 1 .. Len(modules) : errors'[modules[i]] = 0
      BY <2>1, <2>4
    <3>2. errors \in [Node -> Nat] /\ Main \in Node /\ modules \in Seq(Node)
      BY StateFacts, MainFacts DEF WalkInv, Typed, ModulesInv
    <3>3. has_main
      <4>1. 1 \in 1 .. Len(modules) /\ modules[1] = Main
        BY DEF WalkInv, ModulesInv
      <4>2. errors'[Main] = 0
        BY <3>1, <4>1
      <4> QED
        BY <2>2, <3>2, <4>2
    <3>4. Clean
      <4>1. ASSUME NEW i \in 1 .. Len(modules)
            PROVE  errors[modules[i]] = 0
        <5>1. modules[i] \in Node /\ errors'[modules[i]] = 0
          BY <3>1, <3>2
        <5> QED
          BY <2>2, <3>2, <3>3, <5>1
      <4> QED
        BY <4>1 DEF Clean
    <3>5. PICK all : all = {n \in Node : Belongs(n)}
      OBVIOUS
    <3>6. Indexed(all)
      BY <1>1, <2>2, <3>4, <3>5, SecondDone
    <3>7. /\ tree' = tree /\ modules' = modules /\ phase' = "generate" /\ table' = table
          /\ index' = index /\ function_index' = function_index
          /\ has_main' = has_main /\ Registered' = {}
      BY <1>1, <2>1, <2>4, BeginTable
    <3>8. Indexed({n \in Node : Belongs(n)})'
      <4>1. {n \in Node : Belongs(n)}' = all
        BY <3>5, <3>7, SameFunctions
      <4>2. Indexed(all)'
        BY <3>6, <3>7, IndexedStays
      <4> QED
        BY <4>1, <4>2 DEF Indexed
    <3>9. table' = <<>>
      BY <2>2, <3>7 DEF TableInv
    <3>10. Entered(Registered)'
      BY <3>7, <3>9 DEF Entered
    <3> QED
      BY <3>3, <3>7, <3>8, <3>10 DEF TableInv
  <2> QED
    BY <2>1, <2>3, <2>4
<1>5. CASE FinishGenerate
  <2>1. phase = "generate" /\ Begin("finished")
    BY <1>5 DEF FinishGenerate
  <2>2. /\ tree' = tree /\ modules' = modules /\ phase' = "finished" /\ table' = table
        /\ index' = index /\ function_index' = function_index /\ has_main' = has_main
    BY <1>1, <2>1, BeginTable
  <2>3. Registered = Functions
    <3>1. Registered =
            {n \in Functions : n \in Before \union {m \in Node : tree[m].root = Root}}
      BY <1>1, <2>1, DoneFacts, NoneAhead DEF AllDone
    <3>2. module = Len(modules) /\ module \in Nat \ {0}
      BY <1>1 DEF AllDone, WalkInv, ModulesInv
    <3>3. \A i : i \in 1 .. Len(modules) <=> i \in 1 .. module - 1 \/ i = module
      BY <3>2
    <3>4. \A n \in Functions :
             n \in Node /\ \E i \in 1 .. Len(modules) : modules[i] = tree[n].root
      BY DEF Functions, Belongs
    <3>5. \A n \in Functions : n \in Before \/ tree[n].root = Root
      BY <3>3, <3>4 DEF Before, Root
    <3> QED
      BY <3>1, <3>4, <3>5
  <2>4. PICK all, set : all = {n \in Node : Belongs(n)} /\ set = Functions
    OBVIOUS
  <2>5. Indexed(all) /\ Entered(set) /\ has_main
    BY <2>1, <2>3, <2>4 DEF TableInv
  <2>6. Indexed(all)' /\ Entered(set)'
    BY <2>2, <2>5, IndexedStays, EnteredStays
  <2>7. Indexed({n \in Node : Belongs(n)})'
    <3>1. {n \in Node : Belongs(n)}' = all
      BY <2>2, <2>4, SameFunctions
    <3> QED
      BY <2>6, <3>1 DEF Indexed
  <2>8. Entered(Functions)'
    <3>1. Functions' = set
      BY <2>2, <2>4, SameFunctions
    <3> QED
      BY <2>6, <3>1 DEF Entered
  <2> QED
    BY <2>2, <2>5, <2>7, <2>8 DEF TableInv
<1> QED
  BY <1>2, <1>3, <1>4, <1>5

LEMMA IdleTable ==
  ASSUME WalkInv, TableInv, UNCHANGED vars
  PROVE  TableInv'
<1>1. /\ tree' = tree /\ modules' = modules /\ path' = path /\ module' = module
      /\ phase' = phase /\ index' = index /\ errors' = errors /\ cursor' = cursor
      /\ function_index' = function_index /\ has_main' = has_main /\ panic' = panic
      /\ table' = table
  BY DEF vars, sourceVars, walkVars, resultVars, analyzerVars
<1>2. PICK p, r, done : p = path /\ r = Root /\ done = cursor
  OBVIOUS
<1>3. Root' = r
  BY <1>1, <1>2 DEF Root
<1>4. Visited' = Visited
  BY <1>1, <1>2, <1>3, VisitedStays DEF Visited
<1>5. Done' = Done /\ Before' = Before
  BY <1>1, <1>4, BeforeStays DEF Done
<1>6. Clean' = Clean
  BY <1>1 DEF Clean
<1>7. /\ Functions' = Functions
      /\ {n \in Node : Belongs(n)}' = {n \in Node : Belongs(n)}
  BY <1>1, SameFunctions
<1>8. Registered' = Registered
  BY <1>1, <1>2, <1>3, <1>5, <1>7 DEF Registered
<1>9. PICK all, done2, fs, rs : /\ all = {n \in Node : Belongs(n)} /\ done2 = Done
                                /\ fs = Functions /\ rs = Registered
  OBVIOUS
<1>10. /\ phase = "check" /\ Clean => ~panic /\ Indexed(done2)
       /\ phase \in {"generate", "finished"} => has_main /\ Indexed(all)
       /\ phase = "generate" => Entered(rs)
       /\ phase = "finished" => Entered(fs)
  BY <1>9 DEF TableInv
<1>11. /\ Indexed(done2) => Indexed(done2)'
       /\ Indexed(all) => Indexed(all)'
       /\ Entered(rs) => Entered(rs)'
       /\ Entered(fs) => Entered(fs)'
  BY <1>1, IndexedStays, EnteredStays
<1>12. Indexed(done2)' => Indexed(Done)'
  BY <1>5, <1>9 DEF Indexed
<1>13. Indexed(all)' => Indexed({n \in Node : Belongs(n)})'
  BY <1>7, <1>9 DEF Indexed
<1>14. (Entered(rs)' => Entered(Registered)') /\ (Entered(fs)' => Entered(Functions)')
  BY <1>7, <1>8, <1>9 DEF Entered
<1>15. phase' = "check" /\ Clean' => ~panic' /\ Indexed(Done)'
  BY <1>1, <1>6, <1>10, <1>11, <1>12
<1>16. /\ phase' \in {"generate", "finished"} =>
             has_main' /\ Indexed({n \in Node : Belongs(n)})'
       /\ phase' = "generate" => Entered(Registered)'
       /\ phase' = "finished" => Entered(Functions)'
  BY <1>1, <1>10, <1>11, <1>13, <1>14
<1> QED
  BY <1>1, <1>15, <1>16 DEF TableInv

LEMMA InitTable ==
  ASSUME Init
  PROVE  TableInv
  BY DEF Init, TableInv

LEMMA NextTable ==
  ASSUME WalkInv, OneMain(tree), TableInv, [Next]_vars
  PROVE  OneMain(tree)' /\ TableInv'
<1>1. tree' = tree
  <2>1. CASE FinishImport \/ FinishFirst \/ FinishSecond \/ FinishGenerate
    <3>1. \E next : Begin(next)
      BY <2>1 DEF FinishImport, FinishFirst, FinishSecond, FinishGenerate
    <3> QED
      BY <3>1 DEF Begin, sourceVars
  <2>2. CASE ResolveImport \/ Enter \/ LeaveFirst \/ LeaveSecond \/ LeaveInPanic
             \/ Register \/ NextModule
    BY <2>2 DEF ResolveImport, Enter, LeaveFirst, LeaveSecond, LeaveInPanic,
                Register, NextModule, sourceVars
  <2>3. CASE Stopped \/ UNCHANGED vars
    BY <2>3 DEF Stopped, vars, sourceVars
  <2> QED
    BY <2>1, <2>2, <2>3 DEF Next, Proceed
<1>2. TableInv'
  <2>1. CASE Proceed
    BY <2>1, ImportTable, EnterTable, FirstTable, SecondTable, PanicTable,
       RegisterTable, NextModuleTable, FinishTable DEF Proceed
  <2>2. CASE Stopped \/ UNCHANGED vars
    BY <2>2, IdleTable DEF Stopped
  <2> QED
    BY <2>1, <2>2 DEF Next
<1> QED
  BY <1>1, <1>2 DEF OneMain

LEMMA CountFunctions ==
  ASSUME NEW set, NEW k \in Nat, NEW g,
         g \in [0 .. k -> set],
         \A f \in set : \E i \in 0 .. k : g[i] = f,
         \A i, j \in 0 .. k : g[i] = g[j] => i = j
  PROVE  Cardinality(set) = k + 1
<1>1. PICK S : S = 0 .. k
  OBVIOUS
<1>2. IsFiniteSet(S) /\ Cardinality(S) = k + 1
  BY <1>1, FS_Interval
<1>3. g \in Surjection(S, set) /\ g \in Injection(S, set)
  BY <1>1 DEF Surjection, Injection, IsInjective
<1>4. Cardinality(set) = Cardinality(S)
  BY <1>2, <1>3, FS_Surjection
<1> QED
  BY <1>2, <1>4

LEMMA TableWhole ==
  ASSUME WalkInv, OneMain(tree), TableInv, phase = "finished"
  PROVE  TableComplete
<1>1. PICK all : all = {n \in Node : Belongs(n)}
  OBVIOUS
<1>2. Indexed(all) /\ Entered(Functions) /\ has_main
  BY <1>1 DEF TableInv
<1>3. PICK k : k = function_index
  OBVIOUS
<1>4. k \in Nat
  BY <1>3 DEF WalkInv, Typed
<1>5. \A f \in Functions : f \in all /\ f \in Node /\ IsFunction(f)
  BY <1>1 DEF Functions, IsFunction
<1>6. \A f \in all : IsFunction(f) => f \in Functions
  BY <1>1 DEF Functions, IsFunction
<1>7. /\ \A f \in Functions : IF IsMain(f) THEN index[f] = 0 ELSE index[f] \in 1 .. k
      /\ \A f, g \in Functions : index[f] = index[g] => f = g
      /\ \A i \in 1 .. k : \E f \in Functions : index[f] = i
      /\ \E f \in Functions : IsMain(f)
  BY <1>2, <1>3, <1>5, <1>6 DEF Indexed
<1>8. PICK main \in Functions : IsMain(main)
  BY <1>7
<1>9. index[main] = 0 /\ tree[main].root = Main
  BY <1>5, <1>7, <1>8, StateFacts, MainOnly
<1>10. \A f \in Functions : index[f] \in 0 .. k /\ table[index[f]] = f
  BY <1>2, <1>4, <1>7 DEF Entered
<1>11. ASSUME NEW i \in 0 .. k
       PROVE  \E f \in Functions : index[f] = i
  <2>1. i = 0 \/ i \in 1 .. k
    BY <1>4
  <2> QED
    BY <1>7, <1>8, <1>9, <2>1
<1>12. DOMAIN table = 0 .. k
  BY <1>2, <1>10, <1>11 DEF Entered
<1>13. \A i \in 0 .. k : table[i] \in Functions /\ index[table[i]] = i
  BY <1>10, <1>11
<1>14. Cardinality(Functions) = k + 1
  <2>1. PICK g : g = [i \in 0 .. k |-> table[i]]
    OBVIOUS
  <2>2. g \in [0 .. k -> Functions]
    BY <1>13, <2>1
  <2>3. \A f \in Functions : \E i \in 0 .. k : g[i] = f
    BY <1>10, <2>1
  <2>4. \A i, j \in 0 .. k : g[i] = g[j] => i = j
    BY <1>13, <2>1
  <2>5. PICK set : set = Functions
    OBVIOUS
  <2> QED
    BY <1>4, <2>2, <2>3, <2>4, <2>5, CountFunctions
<1>15. DOMAIN table = 0 .. Cardinality(Functions) - 1
  BY <1>4, <1>12, <1>14
<1>16. {table[i] : i \in DOMAIN table} = Functions
  BY <1>10, <1>12, <1>13
<1>17. table[0] = main
  BY <1>9, <1>10, <1>8
<1> QED
  BY <1>8, <1>9, <1>15, <1>16, <1>17 DEF TableComplete

(* In an accepted program every function of every module, and nothing      *)
(* else, has an entry of its own in the function table, there are no gaps, *)
(* and the program begins with the main of its own file: for any program   *)
(* with one main at most (the generator relies on it: bytecode.c:816).     *)
THEOREM EveryFunctionHasItsEntry ==
  ASSUME \A t \in Sources : OneMain(t)
  PROVE  Spec => []TableComplete
<1>1. Init => OneMain(tree) /\ TableInv
  BY InitTable DEF Init
<1>2. WalkInv /\ OneMain(tree) /\ TableInv /\ [Next]_vars => (OneMain(tree) /\ TableInv)'
  BY NextTable
<1>3. WalkInv /\ OneMain(tree) /\ TableInv => TableComplete
  BY TableWhole DEF TableComplete
<1> QED
  BY <1>1, <1>2, <1>3, WalkAlways, PTL DEF Spec

------------------------------------------------------------------------------
(* The variables and their indices.  What the walk is inside of, and what  *)
(* names may be linked to.                                                 *)

\* A variable, or a constant, of a function.
OfFrame(n) ==
  n \in Node /\ Kind(n) \in Values /\ tree[n].owner \in Node /\ IsFunction(tree[n].owner)

(* The path leads from the outside to the inside; the scopes are the nodes *)
(* on it that have one.                                                    *)
Nested(p) == \A i, j \in 1 .. Len(p) : i < j => tree[p[j].node].last <= tree[p[i].node].last
ScopesOf(stack, p) ==
  /\ \A i \in 1 .. Len(stack) :
       Scoped(stack[i]) /\ \E j \in 1 .. Len(p) : p[j].node = stack[i]
  /\ \A i, j \in 1 .. Len(stack) : i < j => stack[i] < stack[j]
  /\ \A j \in 1 .. Len(p) : Scoped(p[j].node) =>
       \E i \in 1 .. Len(stack) : stack[i] = p[j].node

(* No name is linked to a variable of another function. *)
OwnLinks(links) == \A n \in Node : OfFrame(links[n]) => tree[links[n]].owner = tree[n].owner
DeclaredIn(n) == {s \in Node : tree[s].owner = n /\ Kind(s) \in Declaring}

LinkInv ==
  /\ Nested(path) /\ ScopesOf(scopes, path)
  /\ \A n \in Node : symbols[n] \subseteq DeclaredIn(n)
  /\ \A n \in Node : module_link[n] \in Node => Kind(module_link[n]) = "Module"
  /\ OwnLinks(link)

(* The second pass has numbered the variables of the functions that are    *)
(* done, and is numbering those of the function it is inside of.           *)
Framed(f) == {index[n] : n \in ValuesOf(f)} = 0 .. Cardinality(ValuesOf(f)) - 1
Framing(f, set) ==
  ValuesOf(f) # {} =>
    /\ variable_index = Cardinality(ValuesOf(f) \intersect set)
    /\ {index[n] : n \in ValuesOf(f) \intersect set} = 0 .. variable_index - 1
FramesOf(p, set) ==
  /\ \A f \in Functions : f \in set => Framed(f) /\ ValuesOf(f) \subseteq set
  /\ \A i \in 1 .. Len(p) : IsFunction(p[i].node) => Framing(p[i].node, set)
  /\ (\A i \in 1 .. Len(p) : ~IsFunction(p[i].node)) =>
       \A f \in Functions : f \notin set /\ ValuesOf(f) # {} => variable_index = 0

WholeScopes == \A n \in Node : symbols[n] = DeclaredIn(n)
SlotsInv ==
  /\ phase \in {"import", "link"} => variable_index = 0 /\ ~panic /\ WholeScopes
  /\ phase = "check" /\ Clean =>
       ~panic /\ WholeScopes /\ (GlobalsLast => FramesOf(path, Done))
  /\ phase \in {"generate", "finished"} =>
       WholeScopes /\ (GlobalsLast => \A f \in Functions : Framed(f))

LEMMA FlatFacts ==
  ASSUME Sound, FlatFunctions(tree), NEW f \in Node, IsFunction(f), NEW n \in Node
  PROVE  /\ tree[n].owner = f <=> f < n /\ n <= tree[f].last
         /\ tree[n].owner = f => ~IsFunction(n) /\ Kind(n) # "Module"
<1>1. Kind(f) = tree[f].kind /\ Kind(n) = tree[n].kind
  BY KidFacts
<1> QED
  BY <1>1 DEF FlatFunctions, Node, IsFunction

LEMMA EnterNested ==
  ASSUME Sound, NEW p, NEW r \in Node, Chain(p, r), NEW n, Entering(p, r, n),
         NEW q, Deeper(p, q, n), Nested(p)
  PROVE  Nested(q)
<1>1. /\ Len(p) \in Nat /\ Len(q) = Len(p) + 1 /\ q[Len(q)].node = n
      /\ \A i \in 1 .. Len(p) : q[i].node = p[i].node
  BY DEF Deeper, Chain
<1>2. n \in Node /\ (p # <<>> => tree[n].last <= tree[p[Len(p)].node].last)
  BY EnterNode DEF NextChild
<1>3. \A i \in 1 .. Len(p) : p[i].node \in Node
  BY ChainFacts
<1>4. \A m \in Node : tree[m].last \in Nat
  BY KidFacts
<1>5. ASSUME NEW i \in 1 .. Len(p)
      PROVE  tree[n].last <= tree[p[i].node].last
  <2>1. p # <<>> /\ Len(p) \in 1 .. Len(p)
    BY <1>1
  <2>2. i < Len(p) \/ i = Len(p)
    BY <1>1
  <2>3. tree[p[Len(p)].node].last <= tree[p[i].node].last
    BY <1>3, <1>4, <2>1, <2>2 DEF Nested
  <2> QED
    BY <1>2, <1>3, <1>4, <2>1, <2>3
<1>6. ASSUME NEW i \in 1 .. Len(q), NEW j \in 1 .. Len(q), i < j
      PROVE  tree[q[j].node].last <= tree[q[i].node].last
  <2>1. i \in 1 .. Len(p) /\ (j = Len(q) \/ j \in 1 .. Len(p))
    BY <1>1, <1>6
  <2> QED
    BY <1>1, <1>5, <1>6, <2>1 DEF Nested
<1> QED
  BY <1>6 DEF Nested

LEMMA LeaveNested ==
  ASSUME NEW p, Len(p) \in Nat, NEW q, Shallower(p, q), Nested(p)
  PROVE  Nested(q)
<1>1. \A i \in 1 .. Len(q) : i \in 1 .. Len(p) /\ q[i] = p[i]
  BY DEF Shallower
<1> QED
  BY <1>1 DEF Nested

(* A node of the path is inside of those before it. *)
LEMMA Inside ==
  ASSUME Sound, NEW p, NEW r \in Node, Chain(p, r), Nested(p),
         NEW i \in 1 .. Len(p), NEW j \in 1 .. Len(p), i < j
  PROVE  p[i].node < p[j].node /\ p[j].node <= tree[p[i].node].last
<1>1. p[i].node \in Node /\ p[j].node \in Node
  BY ChainFacts
<1>2. /\ p[j].node \in Nat /\ p[j].node <= tree[p[j].node].last
      /\ tree[p[j].node].last \in Nat /\ tree[p[i].node].last \in Nat
  BY <1>1, KidFacts
<1>3. tree[p[j].node].last <= tree[p[i].node].last
  BY DEF Nested
<1>4. p[i].node < p[j].node
  BY DEF Chain
<1> QED
  BY <1>2, <1>3, <1>4

LEMMA EnterScopes ==
  ASSUME Sound, NEW p, NEW r \in Node, Chain(p, r), NEW n, Entering(p, r, n),
         NEW q, Deeper(p, q, n), NEW s \in Seq(Node), ScopesOf(s, p),
         NEW t, t = IF Scoped(n) THEN Append(s, n) ELSE s
  PROVE  ScopesOf(t, q)
<1>1. /\ Len(p) \in Nat /\ Len(q) = Len(p) + 1 /\ q[Len(q)].node = n
      /\ \A i \in 1 .. Len(p) : q[i].node = p[i].node
  BY DEF Deeper, Chain
<1>2. n \in Node /\ \A i \in 1 .. Len(p) : p[i].node < n
  BY EnterNode
<1>3. \A j \in 1 .. Len(q) : j = Len(q) \/ j \in 1 .. Len(p)
  BY <1>1
<1>4. \A j \in 1 .. Len(p) : j \in 1 .. Len(q)
  BY <1>1
<1>5. Len(q) \in 1 .. Len(q)
  BY <1>1
<1>6. Len(s) \in Nat
  OBVIOUS
<1>7. CASE Scoped(n)
  <2>1. Extends(t, s, n, Node)
    BY <1>2, <1>7, Extend
  <2>2. /\ Len(t) = Len(s) + 1 /\ t[Len(t)] = n
        /\ \A i \in 1 .. Len(s) : t[i] = s[i]
    BY <2>1 DEF Extends
  <2>3. \A i \in 1 .. Len(t) : i = Len(t) \/ i \in 1 .. Len(s)
    BY <1>6, <2>2
  <2>4. Len(t) \in 1 .. Len(t) /\ \A i \in 1 .. Len(s) : i \in 1 .. Len(t)
    BY <1>6, <2>2
  <2>5. ASSUME NEW i \in 1 .. Len(t)
        PROVE  Scoped(t[i]) /\ \E j \in 1 .. Len(q) : q[j].node = t[i]
    <3>1. CASE i = Len(t)
      BY <1>1, <1>5, <1>7, <2>2, <3>1
    <3>2. CASE i \in 1 .. Len(s)
      BY <1>1, <1>4, <2>2, <3>2 DEF ScopesOf
    <3> QED
      BY <2>3, <3>1, <3>2
  <2>6. ASSUME NEW i \in 1 .. Len(t), NEW j \in 1 .. Len(t), i < j
        PROVE  t[i] < t[j]
    <3>1. i \in 1 .. Len(s)
      BY <1>6, <2>2, <2>6
    <3>2. CASE j = Len(t)
      <4>1. PICK k \in 1 .. Len(p) : p[k].node = s[i]
        BY <3>1 DEF ScopesOf
      <4> QED
        BY <1>2, <2>2, <3>1, <3>2, <4>1
    <3>3. CASE j \in 1 .. Len(s)
      BY <2>2, <2>6, <3>1, <3>3 DEF ScopesOf
    <3> QED
      BY <2>3, <3>2, <3>3
  <2>7. ASSUME NEW j \in 1 .. Len(q), Scoped(q[j].node)
        PROVE  \E i \in 1 .. Len(t) : t[i] = q[j].node
    <3>1. CASE j = Len(q)
      BY <1>1, <2>2, <2>4, <3>1
    <3>2. CASE j \in 1 .. Len(p)
      <4>1. PICK i \in 1 .. Len(s) : s[i] = p[j].node
        BY <1>1, <2>7, <3>2 DEF ScopesOf
      <4> QED
        BY <1>1, <2>2, <2>4, <3>2, <4>1
    <3> QED
      BY <1>3, <3>1, <3>2
  <2> QED
    BY <2>5, <2>6, <2>7 DEF ScopesOf
<1>8. CASE ~Scoped(n)
  <2>1. t = s
    BY <1>8
  <2>2. \A i \in 1 .. Len(s) : Scoped(s[i]) /\ \E j \in 1 .. Len(q) : q[j].node = s[i]
    BY <1>1, <1>4 DEF ScopesOf
  <2>3. \A j \in 1 .. Len(q) : Scoped(q[j].node) => j \in 1 .. Len(p)
    BY <1>1, <1>3, <1>8
  <2>4. \A j \in 1 .. Len(q) : Scoped(q[j].node) => \E i \in 1 .. Len(s) : s[i] = q[j].node
    BY <1>1, <2>3 DEF ScopesOf
  <2> QED
    BY <2>1, <2>2, <2>4 DEF ScopesOf
<1> QED
  BY <1>7, <1>8

LEMMA LeaveScopes ==
  ASSUME Sound, NEW p, NEW r \in Node, Chain(p, r), p # <<>>, NEW q, Shallower(p, q),
         NEW s \in Seq(Node), ScopesOf(s, p), NEW n, n = p[Len(p)].node,
         NEW t, t = IF Scoped(n) THEN SubSeq(s, 1, Len(s) - 1) ELSE s
  PROVE  ScopesOf(t, q)
<1>1. PICK l : l = Len(p)
  OBVIOUS
<1>2. /\ l \in Nat \ {0} /\ l \in 1 .. l /\ Len(q) = l - 1 /\ n = p[l].node
      /\ \A j \in 1 .. l - 1 : q[j] = p[j]
  BY <1>1 DEF Shallower, Chain
<1>3. \A j \in 1 .. l - 1 : j \in 1 .. l
  BY <1>2
<1>4. \A j \in 1 .. l : j = l \/ j \in 1 .. l - 1
  BY <1>2
<1>5. \A j \in 1 .. l : p[j].node \in Node
  BY <1>1, ChainFacts
<1>6. \A j \in 1 .. l : p[j].node \in Nat
  BY <1>5, KidFacts
<1>7. \A j \in 1 .. l - 1 : p[j].node < n
  BY <1>1, <1>2, <1>3 DEF Chain
<1>8. /\ \A i \in 1 .. Len(s) : Scoped(s[i]) /\ \E j \in 1 .. l : p[j].node = s[i]
      /\ \A i, j \in 1 .. Len(s) : i < j => s[i] < s[j]
      /\ \A j \in 1 .. l : Scoped(p[j].node) => \E i \in 1 .. Len(s) : s[i] = p[j].node
  BY <1>1 DEF ScopesOf
<1>9. Len(s) \in Nat
  OBVIOUS
<1>10. ASSUME NEW i \in 1 .. Len(s), s[i] # n
       PROVE  \E j \in 1 .. Len(q) : q[j].node = s[i]
  <2>1. PICK j \in 1 .. l : p[j].node = s[i]
    BY <1>8
  <2>2. j # l
    BY <1>2, <1>10, <2>1
  <2>3. j \in 1 .. Len(q) /\ q[j] = p[j]
    BY <1>2, <1>4, <2>2
  <2> QED
    BY <2>1, <2>3
<1>11. CASE Scoped(n)
  <2>1. PICK k \in 1 .. Len(s) : s[k] = n
    BY <1>2, <1>8, <1>11
  <2>2. k = Len(s)
    <3>1. SUFFICES ASSUME k < Len(s) PROVE FALSE
      BY <1>9
    <3>2. Len(s) \in 1 .. Len(s)
      BY <1>9, <3>1
    <3>3. n < s[Len(s)]
      BY <1>8, <2>1, <3>1, <3>2
    <3>4. PICK j \in 1 .. l : p[j].node = s[Len(s)]
      BY <1>8, <3>2
    <3>5. n \in Nat /\ p[j].node \in Nat /\ p[j].node <= n
      BY <1>2, <1>4, <1>6, <1>7
    <3> QED
      BY <3>3, <3>4, <3>5
  <2>3. PICK m : m = Len(s) - 1
    OBVIOUS
  <2>4. m \in Nat /\ \A i \in 1 .. m : i \in 1 .. Len(s)
    BY <1>9, <2>2, <2>3
  <2>5. Len(t) = m /\ \A i \in 1 .. m : t[i] = s[i]
    <3>1. t = SubSeq(s, 1, m)
      BY <1>11, <2>3
    <3>2. \A i \in 1 .. m : s[i] \in Node
      BY <2>4
    <3>3. Len(SubSeq(s, 1, m)) = IF 1 <= m THEN m - 1 + 1 ELSE 0
      BY <2>4, <3>2, SubSeqProperties
    <3>4. ASSUME NEW i \in 1 .. m
          PROVE  t[i] = s[i]
      <4>1. i \in 1 .. m - 1 + 1 /\ 1 + i - 1 = i
        BY <2>4
      <4>2. t[i] = s[1 + i - 1]
        BY <2>4, <3>1, <3>2, <4>1, SubSeqProperties
      <4> QED
        BY <4>1, <4>2
    <3> QED
      BY <2>4, <3>1, <3>3, <3>4
  <2>6. \A i \in 1 .. m : s[i] # n
    <3>1. ASSUME NEW i \in 1 .. m
          PROVE  s[i] # n
      <4>1. i \in 1 .. Len(s) /\ i < k
        BY <1>9, <2>2, <2>3, <2>4
      <4>2. s[i] < n
        BY <1>8, <2>1, <4>1
      <4>3. n \in Nat
        BY <1>2, <1>6
      <4> QED
        BY <4>2, <4>3
    <3> QED
      BY <3>1
  <2>7. ASSUME NEW j \in 1 .. Len(q), Scoped(q[j].node)
        PROVE  \E i \in 1 .. Len(t) : t[i] = q[j].node
    <3>1. j \in 1 .. l /\ q[j] = p[j] /\ p[j].node < n
      BY <1>2, <1>3, <1>7
    <3>2. PICK i \in 1 .. Len(s) : s[i] = p[j].node
      BY <1>8, <2>7, <3>1
    <3>3. i # Len(s)
      <4>1. p[j].node \in Nat /\ n \in Nat
        BY <1>2, <1>6, <3>1
      <4> QED
        BY <2>1, <2>2, <3>1, <3>2, <4>1
    <3>4. i \in 1 .. m
      BY <1>9, <2>3, <3>3
    <3> QED
      BY <2>5, <3>1, <3>2, <3>4
  <2>8. ASSUME NEW i \in 1 .. Len(t)
        PROVE  Scoped(t[i]) /\ \E j \in 1 .. Len(q) : q[j].node = t[i]
    <3>1. i \in 1 .. m /\ i \in 1 .. Len(s) /\ t[i] = s[i]
      BY <2>4, <2>5
    <3>2. Scoped(s[i]) /\ \E j \in 1 .. Len(q) : q[j].node = s[i]
      BY <1>8, <1>10, <2>6, <3>1
    <3> QED
      BY <3>1, <3>2
  <2>9. \A i, j \in 1 .. Len(t) : i < j => t[i] < t[j]
    BY <1>8, <2>4, <2>5
  <2> QED
    BY <2>7, <2>8, <2>9 DEF ScopesOf
<1>12. CASE ~Scoped(n)
  <2>1. t = s /\ \A i \in 1 .. Len(s) : s[i] # n
    BY <1>8, <1>12
  <2>2. \A i \in 1 .. Len(s) : Scoped(s[i]) /\ \E j \in 1 .. Len(q) : q[j].node = s[i]
    BY <1>8, <1>10, <2>1
  <2>3. \A j \in 1 .. Len(q) : Scoped(q[j].node) => \E i \in 1 .. Len(s) : s[i] = q[j].node
    BY <1>2, <1>3, <1>8
  <2>4. ScopesOf(s, q)
    BY <1>8, <2>2, <2>3 DEF ScopesOf
  <2> QED
    BY <2>1, <2>4
<1> QED
  BY <1>11, <1>12

(* What a scope has for a name is not a variable of a function, or it is one *)
(* of the function that has the scope.                                      *)
LEMMA LookupInScopeOwn ==
  ASSUME Sound, FlatFunctions(tree), Typed, OwnLinks(link),
         \A n \in Node : symbols[n] \subseteq DeclaredIn(n),
         NEW scope \in Node, NEW name, NEW v, v = LookupInScope(scope, name),
         OfFrame(v)
  PROVE  tree[v].owner = scope
<1>1. symbols[scope] \subseteq DeclaredIn(scope) /\ link \in [Node -> Node \union {NoNode}]
  BY DEF Typed
<1>2. PICK found : found = {s \in symbols[scope] : Name(s) = name}
  OBVIOUS
<1>3. PICK symbol : symbol = CHOOSE s \in found : TRUE
  OBVIOUS
<1>4. found # {} => symbol \in Node /\ tree[symbol].owner = scope
  BY <1>1, <1>2, <1>3 DEF DeclaredIn
<1>5. PICK identifier : identifier = IdentifierOf(symbol)
  OBVIOUS
<1>6. v = IF found = {} THEN NoNode
          ELSE IF Kind(symbol) = "Import" /\ link[identifier] # NoNode
          THEN link[identifier] ELSE symbol
  BY <1>2, <1>3, <1>5 DEF LookupInScope
<1>7. v # NoNode /\ v \in Node
  BY DEF OfFrame, Sound
<1>8. found # {}
  BY <1>6, <1>7
<1>9. CASE Kind(symbol) = "Import" /\ link[identifier] # NoNode
  <2>1. PICK f : f = tree[v].owner
    OBVIOUS
  <2>2. f \in Node /\ IsFunction(f)
    BY <2>1 DEF OfFrame
  <2>3. symbol \in Node
    BY <1>4, <1>8
  <2>4. /\ KidsOf(symbol) # <<>> /\ identifier = KidsOf(symbol)[1] /\ identifier \in Node
    BY <1>5, <1>9, <2>3, NamingFacts
  <2>5. v = link[identifier]
    BY <1>6, <1>8, <1>9
  <2>6. tree[identifier].owner = f
    BY <2>1, <2>4, <2>5 DEF OwnLinks
  <2>7. f < identifier /\ identifier <= tree[f].last
    BY <2>2, <2>4, <2>6, FlatFacts
  <2>8. identifier = symbol + 1
    BY <2>3, <2>4, KidFacts
  <2>9. symbol # f
    BY <1>9, <2>2 DEF IsFunction
  <2>10. f < symbol /\ symbol <= tree[f].last
    <3>1. f \in Nat /\ symbol \in Nat /\ tree[f].last \in Nat
      BY <2>2, <2>3, KidFacts
    <3> QED
      BY <2>7, <2>8, <2>9, <3>1
  <2>11. tree[symbol].owner = f
    BY <2>2, <2>3, <2>10, FlatFacts
  <2> QED
    BY <1>4, <1>8, <2>1, <2>11
<1>10. CASE ~(Kind(symbol) = "Import" /\ link[identifier] # NoNode)
  BY <1>4, <1>6, <1>8, <1>10
<1> QED
  BY <1>9, <1>10

LEMMA LookupOwn ==
  ASSUME Sound, FlatFunctions(tree), Typed, OwnLinks(link),
         \A n \in Node : symbols[n] \subseteq DeclaredIn(n),
         NEW stack \in Seq(Node), NEW name, NEW v, v = Lookup(stack, name), OfFrame(v)
  PROVE  \E i \in 1 .. Len(stack) : stack[i] = tree[v].owner
<1>1. PICK hits : hits = {i \in 1 .. Len(stack) : LookupInScope(stack[i], name) # NoNode}
  OBVIOUS
<1>2. v = IF hits = {} THEN NoNode ELSE LookupInScope(stack[First(hits)], name)
  BY <1>1 DEF Lookup, First
<1>3. v # NoNode
  BY DEF OfFrame, Sound
<1>4. hits # {}
  BY <1>2, <1>3
<1>5. hits \in SUBSET Nat
  BY <1>1
<1>6. First(hits) \in hits
  BY <1>4, <1>5, Least
<1>7. PICK i \in 1 .. Len(stack) : i = First(hits)
  BY <1>1, <1>6
<1>8. stack[i] \in Node
  BY <1>7
<1>9. v = LookupInScope(stack[i], name)
  BY <1>2, <1>4, <1>7
<1>10. tree[v].owner = stack[i]
  BY <1>8, <1>9, LookupInScopeOwn
<1> QED
  BY <1>10

LEMMA LinkParts ==
  ASSUME tree' = tree, NEW p, path' = p, NEW s, scopes' = s, NEW l, link' = l,
         Nested(p), ScopesOf(s, p), OwnLinks(l),
         \A n \in Node : symbols'[n] \subseteq DeclaredIn(n),
         \A n \in Node : module_link'[n] \in Node => Kind(module_link'[n]) = "Module"
  PROVE  LinkInv'
<1>1. Node' = Node /\ \A n : Kind(n)' = Kind(n)
  BY DEF Node, Kind
<1>2. \A n : Scoped(n)' = Scoped(n) /\ IsFunction(n)' = IsFunction(n)
  BY <1>1 DEF Scoped, IsFunction
<1>3. \A n : OfFrame(n)' = OfFrame(n) /\ DeclaredIn(n)' = DeclaredIn(n)
  BY <1>1, <1>2 DEF OfFrame, DeclaredIn
<1>4. Nested(path)'
  BY DEF Nested
<1>5. ScopesOf(scopes, path)'
  BY <1>2 DEF ScopesOf
<1>6. OwnLinks(link)'
  BY <1>1, <1>3 DEF OwnLinks
<1>7. \A n \in Node' : symbols'[n] \subseteq DeclaredIn(n)'
  BY <1>1, <1>3
<1>8. (\A n \in Node : module_link[n] \in Node => Kind(module_link[n]) = "Module")'
  <2>1. PICK m : m = module_link'
    OBVIOUS
  <2>2. \A n \in Node : m[n] \in Node => Kind(m[n])' = "Module"
    BY <1>1, <2>1
  <2> QED
    BY <1>1, <2>1, <2>2
<1> QED
  BY <1>4, <1>5, <1>6, <1>7, <1>8 DEF LinkInv

LEMMA SameLinks ==
  ASSUME LinkInv, tree' = tree, path' = path, scopes' = scopes, link' = link,
         symbols' = symbols, module_link' = module_link
  PROVE  LinkInv'
<1>1. PICK p, s, l : p = path /\ s = scopes /\ l = link
  OBVIOUS
<1>2. Nested(p) /\ ScopesOf(s, p) /\ OwnLinks(l)
  BY <1>1 DEF LinkInv
<1> QED
  BY <1>1, <1>2, LinkParts DEF LinkInv

LEMMA InitLinks ==
  ASSUME Init
  PROVE  LinkInv
<1>1. Sound
  BY InitWalk, StateFacts
<1>2. ~OfFrame(NoNode)
  BY <1>1 DEF Sound, OfFrame
<1>3. \A n \in Node : link[n] = NoNode /\ module_link[n] = NoNode
  BY DEF Init
<1>4. OwnLinks(link)
  BY <1>2, <1>3 DEF OwnLinks
<1>5. \A n \in Node : module_link[n] \in Node => Kind(module_link[n]) = "Module"
  BY <1>1, <1>3 DEF Sound
<1>6. path = <<>> /\ scopes = <<>>
  BY DEF Init
<1>7. Nested(path) /\ ScopesOf(scopes, path)
  BY <1>6 DEF Nested, ScopesOf
<1>8. \A n \in Node : symbols[n] \subseteq DeclaredIn(n)
  BY DEF Init, DeclaredIn
<1> QED
  BY <1>4, <1>5, <1>7, <1>8 DEF LinkInv

LEMMA ImportLinks ==
  ASSUME WalkInv, LinkInv, ResolveImport
  PROVE  LinkInv'
<1>1. /\ tree' = tree /\ path' = path /\ scopes' = scopes /\ link' = link
      /\ symbols' = symbols
  BY DEF ResolveImport, resultVars
<1>2. PICK n : n = First(Ahead("Import"))
  OBVIOUS
<1>3. Sound /\ Node \in SUBSET Node /\ module_link \in [Node -> Node \union {NoNode}]
  BY StateFacts DEF WalkInv, Typed
<1>4. n \in Node
  BY <1>2, <1>3, AheadFacts DEF ResolveImport, Ahead
<1>5. ImportModule(n)
  BY <1>2 DEF ResolveImport
<1>6. PICK file : file = tree[n].path
  OBVIOUS
<1>7. CASE File(file) = {}
  <2>1. module_link' = module_link
    BY <1>5, <1>6, <1>7 DEF ImportModule
  <2> QED
    BY <1>1, <2>1, SameLinks
<1>8. CASE File(file) # {}
  <2>1. PICK new : new = First(File(file))
    OBVIOUS
  <2>2. module_link' = [module_link EXCEPT ![n] = new]
    BY <1>5, <1>6, <1>8, <2>1 DEF ImportModule
  <2>3. new \in File(file)
    BY <1>3, <1>8, <2>1, FileFacts
  <2>4. Kind(new) = "Module"
    BY <2>3 DEF File
  <2>5. \A m \in Node : module_link'[m] = IF m = n THEN new ELSE module_link[m]
    BY <1>3, <1>4, <2>2
  <2>6. \A m \in Node : module_link'[m] \in Node => Kind(module_link'[m]) = "Module"
    BY <2>4, <2>5 DEF LinkInv
  <2>7. PICK p, s, l : p = path /\ s = scopes /\ l = link
    OBVIOUS
  <2>8. Nested(p) /\ ScopesOf(s, p) /\ OwnLinks(l)
    BY <2>7 DEF LinkInv
  <2> QED
    BY <1>1, <2>6, <2>7, <2>8, LinkParts DEF LinkInv
<1> QED
  BY <1>7, <1>8

LEMMA LinkImportOwn ==
  ASSUME WalkInv, LinkInv, FlatFunctions(tree), NEW n \in Node, LinkImport(n),
         phase = "link" /\ Kind(n) = "Import" => module_link[n] # NoNode
  PROVE  OwnLinks(link')
<1>1. Sound /\ Typed
  BY StateFacts DEF WalkInv
<1>2. CASE ~(phase = "link" /\ Kind(n) = "Import")
  BY <1>2 DEF LinkImport, LinkInv
<1>3. CASE phase = "link" /\ Kind(n) = "Import"
  <2>1. PICK i, v : i = IdentifierOf(n) /\ v = LookupInScope(module_link[n], Name(IdentifierOf(n)))
    OBVIOUS
  <2>2. link' = [link EXCEPT ![i] = v]
    BY <1>3, <2>1 DEF LinkImport
  <2>3. i \in Node
    BY <1>1, <1>3, <2>1, NamingFacts
  <2>4. module_link[n] \in Node /\ Kind(module_link[n]) = "Module"
    <3>1. module_link[n] \in Node
      BY <1>1, <1>3 DEF Typed
    <3> QED
      BY <3>1 DEF LinkInv
  <2>5. ~OfFrame(v)
    <3>1. SUFFICES ASSUME OfFrame(v) PROVE FALSE
      OBVIOUS
    <3>2. tree[v].owner = module_link[n]
      BY <1>1, <2>1, <2>4, <3>1, LookupInScopeOwn DEF LinkInv
    <3> QED
      BY <2>4, <3>1, <3>2 DEF OfFrame, IsFunction
  <2>6. \A m \in Node : link'[m] = IF m = i THEN v ELSE link[m]
    BY <1>1, <2>2, <2>3 DEF Typed
  <2> QED
    BY <2>5, <2>6 DEF LinkInv, OwnLinks
<1> QED
  BY <1>2, <1>3

LEMMA EnterLinks ==
  ASSUME WalkInv, LinkInv, FlatFunctions(tree), Enter
  PROVE  LinkInv'
<1>1. tree' = tree /\ symbols' = symbols /\ module_link' = module_link
  BY DEF Enter, sourceVars
<1>2. PICK n : n = Pending
  OBVIOUS
<1>3. CASE EnterFails(n)
  <2>1. path' = path /\ scopes' = scopes /\ link' = link
    BY <1>2, <1>3, Zenon DEF Enter
  <2> QED
    BY <1>1, <2>1, SameLinks
<1>4. CASE ~EnterFails(n)
  <2>1. PICK p, r, q, s, t, l : /\ p = path /\ r = Root /\ q = path' /\ s = scopes
                                /\ t = scopes' /\ l = link'
    OBVIOUS
  <2>2. /\ Entering(p, r, n) /\ Deeper(p, q, n) /\ LinkImport(n)
        /\ t = IF Scoped(n) THEN Append(s, n) ELSE s
    BY <1>2, <1>4, <2>1, EnterStep
  <2>3. Sound /\ r \in Node /\ Chain(p, r) /\ s \in Seq(Node)
    BY <2>1, StateFacts DEF WalkInv, Typed
  <2>4. Nested(p) /\ ScopesOf(s, p)
    BY <2>1 DEF LinkInv
  <2>5. Nested(q) /\ ScopesOf(t, q)
    BY <2>2, <2>3, <2>4, EnterNested, EnterScopes
  <2>6. n \in Node
    BY <2>2, <2>3, EnterNode
  <2>7. phase = "link" /\ Kind(n) = "Import" => module_link[n] # NoNode
    BY <1>4 DEF EnterFails
  <2>8. OwnLinks(l)
    BY <2>1, <2>2, <2>6, <2>7, LinkImportOwn
  <2> QED
    BY <1>1, <2>1, <2>5, <2>8, LinkParts DEF LinkInv
<1> QED
  BY <1>3, <1>4

LEMMA LeavePath ==
  ASSUME WalkInv, LinkInv, Leaving, LeaveNode(Open.node)
  PROVE  Nested(path') /\ ScopesOf(scopes', path')
<1>1. PICK p, r, q, s, t, n : /\ p = path /\ r = Root /\ q = path' /\ s = scopes
                              /\ t = scopes' /\ n = Open.node
  OBVIOUS
<1>2. /\ Sound /\ r \in Node /\ Chain(p, r) /\ s \in Seq(Node) /\ Len(p) \in Nat
  BY <1>1, StateFacts DEF WalkInv, Typed
<1>3. p # <<>> /\ Shallower(p, q) /\ n = p[Len(p)].node
  BY <1>1, LeaveFacts DEF Open
<1>4. t = IF Scoped(n) THEN SubSeq(s, 1, Len(s) - 1) ELSE s
  BY <1>1 DEF LeaveNode
<1>5. Nested(p) /\ ScopesOf(s, p)
  BY <1>1 DEF LinkInv
<1>6. Nested(q)
  BY <1>2, <1>3, <1>5, LeaveNested
<1>7. ScopesOf(t, q)
  BY <1>2, <1>3, <1>4, <1>5, LeaveScopes, ZenonT(40)
<1> QED
  BY <1>1, <1>6, <1>7

(* A name is linked to a variable of the function it is in, if to one. *)
LEMMA LinkedOwn ==
  ASSUME WalkInv, LinkInv, FlatFunctions(tree), Leaving, LeaveNode(Open.node)
  PROVE  OwnLinks(Linked(Open.node))
<1>1. PICK p, r, q, t, n : /\ p = path /\ r = Root /\ q = path' /\ t = scopes'
                           /\ n = Open.node
  OBVIOUS
<1>2. /\ Sound /\ r \in Node /\ Chain(p, r) /\ Typed /\ Len(p) \in Nat /\ Nested(p)
      /\ OwnLinks(link) /\ \A m \in Node : symbols[m] \subseteq DeclaredIn(m)
  BY <1>1, StateFacts DEF WalkInv, LinkInv
<1>3. p # <<>> /\ Shallower(p, q) /\ n = p[Len(p)].node /\ n \in Node /\ t \in Seq(Node)
  BY <1>1, LeaveFacts DEF Open
<1>4. ScopesOf(t, q)
  BY <1>1, LeavePath
<1>5. PICK v : v = Lookup(t, Name(n))
  OBVIOUS
<1>6. Linked(n) = IF Kind(n) = "Identifier" /\ link[n] = NoNode
                  THEN [link EXCEPT ![n] = v] ELSE link
  BY <1>1, <1>5 DEF Linked
<1>7. OfFrame(v) => tree[v].owner = tree[n].owner
  <2>1. SUFFICES ASSUME OfFrame(v) PROVE tree[v].owner = tree[n].owner
    OBVIOUS
  <2>2. PICK f : f = tree[v].owner
    OBVIOUS
  <2>3. f \in Node /\ IsFunction(f)
    BY <2>1, <2>2 DEF OfFrame
  <2>4. PICK i \in 1 .. Len(t) : t[i] = f
    BY <1>2, <1>3, <1>5, <2>1, <2>2, LookupOwn
  <2>5. PICK j \in 1 .. Len(q) : q[j].node = f
    BY <1>4, <2>4 DEF ScopesOf
  <2>6. /\ j \in 1 .. Len(p) /\ j < Len(p) /\ Len(p) \in 1 .. Len(p)
        /\ p[j].node = f
    BY <1>2, <1>3, <2>5 DEF Shallower
  <2>7. f < n /\ n <= tree[f].last
    BY <1>2, <1>3, <2>6, Inside
  <2>8. tree[n].owner = f
    BY <1>2, <1>3, <2>3, <2>7, FlatFacts
  <2> QED
    BY <2>2, <2>8
<1>8. link \in [Node -> Node \union {NoNode}]
  BY <1>2 DEF Typed
<1>9. OwnLinks(Linked(n))
  <2>1. CASE Kind(n) = "Identifier" /\ link[n] = NoNode
    <3>1. PICK new : new = Linked(n)
      OBVIOUS
    <3>2. \A m \in Node : new[m] = IF m = n THEN v ELSE link[m]
      BY <1>3, <1>6, <1>8, <2>1, <3>1
    <3>3. OwnLinks(new)
      BY <1>2, <1>3, <1>7, <3>2 DEF OwnLinks
    <3> QED
      BY <3>1, <3>3
  <2>2. CASE ~(Kind(n) = "Identifier" /\ link[n] = NoNode)
    BY <1>2, <1>6, <2>2
  <2> QED
    BY <2>1, <2>2
<1> QED
  BY <1>1, <1>9

LEMMA LeaveLinks ==
  ASSUME WalkInv, LinkInv, FlatFunctions(tree), Leaving, LeaveNode(Open.node),
         tree' = tree, module_link' = module_link,
         link' = link \/ link' = Linked(Open.node),
         \A n \in Node : symbols'[n] \subseteq symbols[n]
  PROVE  LinkInv'
<1>1. PICK p, s, l : p = path' /\ s = scopes' /\ l = link'
  OBVIOUS
<1>2. Nested(p) /\ ScopesOf(s, p)
  BY <1>1, LeavePath
<1>3. OwnLinks(Linked(Open.node)) /\ OwnLinks(link)
  BY LinkedOwn DEF LinkInv
<1>4. OwnLinks(l)
  <2>1. CASE link' = link
    BY <1>1, <1>3, <2>1
  <2>2. CASE link' = Linked(Open.node)
    <3>1. l = Linked(Open.node)
      BY <1>1, <2>2
    <3> QED
      BY <1>3, <3>1
  <2> QED
    BY <2>1, <2>2
<1>5. \A n \in Node : symbols'[n] \subseteq DeclaredIn(n)
  BY DEF LinkInv
<1> QED
  BY <1>1, <1>2, <1>4, <1>5, LinkParts DEF LinkInv

LEMMA WalkLinks ==
  ASSUME WalkInv, LinkInv, FlatFunctions(tree), LeaveFirst \/ LeaveSecond \/ LeaveInPanic
  PROVE  LinkInv'
<1>1. CASE LeaveFirst
  <2>1. /\ Leaving /\ LeaveNode(Open.node) /\ tree' = tree /\ module_link' = module_link
        /\ symbols' = symbols /\ (link' = link \/ link' = Linked(Open.node))
    BY <1>1 DEF LeaveFirst, sourceVars
  <2> QED
    BY <2>1, LeaveLinks
<1>2. CASE LeaveSecond
  <2>1. PICK n : n = Open.node
    OBVIOUS
  <2>2. /\ Leaving /\ LeaveNode(Open.node) /\ tree' = tree /\ module_link' = module_link
        /\ link' = Linked(Open.node)
        /\ symbols' = symbols \/ Accept(n) \/ Reject(n)
    BY <1>2, <2>1, Zenon DEF LeaveSecond, sourceVars
  <2>3. symbols \in [Node -> SUBSET Node]
    BY DEF WalkInv, Typed
  <2>4. \/ symbols' = symbols
        \/ \E o : symbols' = [symbols EXCEPT ![o] = @ \ {n}]
    <3>1. CASE Accept(n)
      BY <3>1 DEF Accept
    <3>2. CASE Reject(n)
      BY <3>2 DEF Reject
    <3> QED
      BY <2>2, <3>1, <3>2
  <2>5. \A m \in Node : symbols'[m] \subseteq symbols[m]
    BY <2>3, <2>4
  <2> QED
    BY <2>2, <2>5, LeaveLinks
<1>3. CASE LeaveInPanic
  <2>1. /\ Leaving /\ LeaveNode(Open.node) /\ tree' = tree /\ module_link' = module_link
        /\ symbols' = symbols /\ link' = link
    BY <1>3 DEF LeaveInPanic, sourceVars, resultVars
  <2> QED
    BY <2>1, LeaveLinks
<1> QED
  BY <1>1, <1>2, <1>3

LEMMA NextLinks ==
  ASSUME WalkInv, LinkInv, FlatFunctions(tree), [Next]_vars
  PROVE  LinkInv'
<1>1. CASE ResolveImport
  BY <1>1, ImportLinks
<1>2. CASE Enter
  BY <1>2, EnterLinks
<1>3. CASE LeaveFirst \/ LeaveSecond \/ LeaveInPanic
  BY <1>3, WalkLinks
<1>4. CASE Register \/ NextModule
  BY <1>4, SameLinks DEF Register, NextModule, sourceVars, resultVars
<1>5. CASE FinishImport \/ FinishFirst \/ FinishSecond \/ FinishGenerate
  <2>1. \E next : Begin(next)
    BY <1>5 DEF FinishImport, FinishFirst, FinishSecond, FinishGenerate
  <2> QED
    BY <2>1, SameLinks DEF Begin, sourceVars
<1>6. CASE Stopped \/ UNCHANGED vars
  BY <1>6, SameLinks DEF Stopped, vars, sourceVars, walkVars, resultVars
<1> QED
  BY <1>1, <1>2, <1>3, <1>4, <1>5, <1>6 DEF Next, Proceed

------------------------------------------------------------------------------
(* The second pass numbers the variables of one function after the other.  *)

LEMMA FiniteNodes ==
  ASSUME Sound, NEW set, set \subseteq Node
  PROVE  IsFiniteSet(set) /\ Cardinality(set) \in Nat
<1>1. Len(tree) \in Nat
  BY DEF Sound, Shaped
<1>2. PICK l : l = Len(tree)
  OBVIOUS
<1>3. IsFiniteSet(1 .. l)
  BY <1>1, <1>2, FS_Interval
<1>4. IsFiniteSet(set)
  BY <1>2, <1>3, FS_Subset DEF Node
<1> QED
  BY <1>4, FS_CardinalityType

LEMMA ValuesFacts ==
  ASSUME Sound, FlatFunctions(tree), NEW f \in Node, IsFunction(f)
  PROVE  /\ ValuesOf(f) \subseteq Node
         /\ \A n \in ValuesOf(f) : /\ f < n /\ n <= tree[f].last
                                   /\ Kind(n) \in Values /\ tree[n].owner = f
<1>1. \A n \in ValuesOf(f) : n \in Node /\ Kind(n) \in Values /\ tree[n].owner = f
  BY DEF ValuesOf
<1> QED
  BY <1>1, FlatFacts

LEMMA NotValues == \A k \in Values : k # "Function" /\ k # "Module"
  BY DEF Values

(* What is inside of a node of the module that is walked over belongs to   *)
(* this module, and to none of the modules before it.                      *)
LEMMA OfRoot ==
  ASSUME WalkInv, NEW n \in Node, Root <= n, n <= tree[Root].last
  PROVE  tree[n].root = Root
<1>1. Sound /\ Root \in Node /\ Kind(Root) = "Module"
  BY StateFacts
<1>2. PICK r : r = Root
  OBVIOUS
<1>3. n \in Nat /\ r \in Nat /\ tree[r].last \in Nat
  BY <1>1, <1>2, KidFacts
<1>4. n \in r .. tree[r].last
  BY <1>2, <1>3
<1> QED
  BY <1>1, <1>2, <1>4, RootFacts

LEMMA NotBefore ==
  ASSUME WalkInv, NEW n \in Node, tree[n].root = Root
  PROVE  n \notin Before /\ Belongs(n)
<1>1. /\ \A i, j \in 1 .. Len(modules) : modules[i] = modules[j] => i = j
      /\ module \in 1 .. Len(modules)
  BY DEF WalkInv, ModulesInv
<1>2. \A i \in 1 .. module - 1 : i \in 1 .. Len(modules) /\ i # module
  BY <1>1
<1>3. \A i \in 1 .. module - 1 : modules[i] # modules[module]
  BY <1>1, <1>2
<1> QED
  BY <1>1, <1>3 DEF Before, Root, Belongs

LEMMA PathFacts ==
  ASSUME WalkInv, LinkInv, NEW i \in 1 .. Len(path)
  PROVE  /\ path[i].node \in Node /\ tree[path[i].node].root = Root
         /\ Root <= path[i].node /\ tree[path[i].node].last <= tree[Root].last
         /\ \A j \in 1 .. Len(path) : i < j =>
              /\ path[i].node < path[j].node
              /\ path[j].node <= tree[path[i].node].last
<1>1. PICK p, r : p = path /\ r = Root
  OBVIOUS
<1>2. Sound /\ r \in Node /\ Chain(p, r) /\ Nested(p)
  BY <1>1, StateFacts DEF LinkInv
<1>3. /\ p[i].node \in Node /\ r <= p[i].node /\ tree[p[i].node].last <= tree[r].last
  BY <1>1, <1>2, ChainFacts
<1>4. p[i].node <= tree[r].last
  <2>1. /\ p[i].node \in Nat /\ p[i].node <= tree[p[i].node].last
        /\ tree[p[i].node].last \in Nat /\ tree[r].last \in Nat
    BY <1>2, <1>3, KidFacts
  <2> QED
    BY <1>3, <2>1
<1>5. tree[p[i].node].root = r
  BY <1>1, <1>3, <1>4, OfRoot
<1>6. \A j \in 1 .. Len(p) : i < j => p[i].node < p[j].node /\ p[j].node <= tree[p[i].node].last
  BY <1>1, <1>2, Inside
<1> QED
  BY <1>1, <1>3, <1>5, <1>6

(* Functions on the path are the owners of what is on the path behind them. *)
LEMMA OwnerOnPath ==
  ASSUME WalkInv, LinkInv, FlatFunctions(tree), NEW i \in 1 .. Len(path),
         NEW j \in 1 .. Len(path), i < j, IsFunction(path[i].node)
  PROVE  tree[path[j].node].owner = path[i].node /\ ~IsFunction(path[j].node)
<1>1. PICK f, n : f = path[i].node /\ n = path[j].node
  OBVIOUS
<1>2. f \in Node /\ n \in Node /\ f < n /\ n <= tree[f].last
  BY <1>1, PathFacts
<1>3. tree[n].owner = f /\ ~IsFunction(n)
  BY <1>1, <1>2, StateFacts, FlatFacts
<1> QED
  BY <1>1, <1>3

LEMMA EnterFrames ==
  ASSUME WalkInv, LinkInv, FlatFunctions(tree), NEW n, Entering(path, Root, n),
         path = <<>> => cursor # Root, NEW q, Deeper(path, q, n),
         FramesOf(path, Done)
  PROVE  FramesOf(q, Done)
<1>1. PICK p, r : p = path /\ r = Root
  OBVIOUS
<1>2. Sound /\ r \in Node /\ Kind(r) = "Module" /\ Chain(p, r) /\ Nested(p)
  BY <1>1, StateFacts DEF LinkInv
<1>3. n \in Node /\ r <= n /\ tree[n].last <= tree[r].last
  BY <1>1, <1>2, EnterNode
<1>4. /\ Len(p) \in Nat /\ Len(q) = Len(p) + 1 /\ q[Len(q)].node = n
      /\ \A i \in 1 .. Len(p) : q[i].node = p[i].node
  BY <1>1, <1>2 DEF Deeper, Chain
<1>5. Nested(q) /\ Chain(q, r)
  BY <1>1, <1>2, EnterNested, EnterChain
<1>6. /\ n \in Nat /\ r \in Nat /\ tree[n].last \in Nat /\ tree[r].last \in Nat
      /\ n <= tree[n].last
  BY <1>2, <1>3, KidFacts
<1>7. tree[n].root = r
  <2>1. n <= tree[r].last
    BY <1>3, <1>6
  <2> QED
    BY <1>1, <1>3, <2>1, OfRoot
<1>8. Upcoming(p, cursor, r) = n
  BY <1>1 DEF Upcoming, Behind, Entering
<1>9. ASSUME NEW m \in Node, tree[m].root = r, n <= m
      PROVE  m \notin Done
  <2>1. m \notin Before
    BY <1>1, <1>9, NotBefore
  <2>2. m \in Nat
    BY <1>2, KidFacts
  <2>3. m \notin Visited
    BY <1>1, <1>6, <1>8, <1>9, <2>2 DEF Visited, VisitedBy
  <2> QED
    BY <2>1, <2>3 DEF Done
<1>10. ASSUME IsFunction(n)
       PROVE  Framing(n, Done)
  <2>1. \A i \in 1 .. Len(p) : ~IsFunction(p[i].node)
    <3>1. ASSUME NEW i \in 1 .. Len(p), IsFunction(p[i].node)
          PROVE  FALSE
      <4>1. i \in 1 .. Len(q) /\ Len(q) \in 1 .. Len(q) /\ i < Len(q)
        BY <1>4
      <4>2. p[i].node < n /\ n <= tree[p[i].node].last
        BY <1>2, <1>4, <1>5, <4>1, Inside
      <4>3. p[i].node \in Node
        BY <1>2, ChainFacts
      <4> QED
        BY <1>2, <1>3, <1>10, <3>1, <4>2, <4>3, FlatFacts
    <3> QED
      BY <3>1
  <2>2. n \in Functions
    BY <1>1, <1>3, <1>7, <1>10, NotBefore DEF Functions, IsFunction
  <2>3. n \notin Done
    BY <1>3, <1>6, <1>7, <1>9
  <2>4. ValuesOf(n) # {} => variable_index = 0
    BY <1>1, <2>1, <2>2, <2>3 DEF FramesOf
  <2>5. ASSUME NEW m \in ValuesOf(n)
        PROVE  m \notin Done
    <3>1. m \in Node /\ n < m /\ m <= tree[n].last
      BY <1>2, <1>3, <1>10, ValuesFacts
    <3>2. m \in Nat
      BY <1>2, <3>1, KidFacts
    <3>3. r <= m /\ m <= tree[r].last
      BY <1>3, <1>6, <3>1, <3>2
    <3>4. tree[m].root = r
      BY <1>1, <3>1, <3>3, OfRoot
    <3> QED
      BY <1>6, <1>9, <3>1, <3>2, <3>4
  <2>6. ValuesOf(n) \intersect Done = {}
    BY <2>5
  <2>7. Cardinality({}) = 0 /\ 0 .. 0 - 1 = {}
    BY FS_EmptySet
  <2> QED
    BY <2>4, <2>6, <2>7 DEF Framing
<1>11. ASSUME NEW i \in 1 .. Len(q), IsFunction(q[i].node)
       PROVE  Framing(q[i].node, Done)
  <2>1. i = Len(q) \/ i \in 1 .. Len(p)
    BY <1>4
  <2> QED
    BY <1>1, <1>4, <1>10, <1>11, <2>1 DEF FramesOf
<1>12. (\A i \in 1 .. Len(q) : ~IsFunction(q[i].node)) =>
         \A i \in 1 .. Len(p) : ~IsFunction(p[i].node)
  <2>1. \A i \in 1 .. Len(p) : i \in 1 .. Len(q)
    BY <1>4
  <2> QED
    BY <1>4, <2>1
<1> QED
  BY <1>1, <1>11, <1>12 DEF FramesOf

(* index_node gives a value the next index, and a function that is left    *)
(* begins again.                                                           *)
LEMMA IndexFacts ==
  ASSUME Sound, index \in [Node -> Nat], NEW n \in Node, IndexNode(n)
  PROVE  /\ \A m \in Node : m # n => index'[m] = index[m]
         /\ Kind(n) \in Values =>
              index'[n] = variable_index /\ variable_index' = variable_index + 1
         /\ IsFunction(n) => variable_index' = 0
         /\ ~IsFunction(n) /\ Kind(n) \notin Values => variable_index' = variable_index
<1>1. PICK new, begin : new = index' /\ begin = variable_index
  OBVIOUS
<1>2. new = index \/ \E i : new = [index EXCEPT ![n] = i]
  BY <1>1 DEF IndexNode
<1>3. \A m \in Node : m # n => new[m] = index[m]
  BY <1>2
<1>4. Kind(n) \in Values => new = [index EXCEPT ![n] = begin]
  BY <1>1 DEF IndexNode, Values
<1>5. variable_index' = CASE Kind(n) = "Function" -> 0
                          [] Kind(n) \in Values -> variable_index + 1
                          [] OTHER -> variable_index
  BY DEF IndexNode, Values
<1>6. Kind(n) \in Values => Kind(n) # "Function"
  BY DEF Values
<1> QED
  BY <1>1, <1>3, <1>4, <1>5, <1>6 DEF IsFunction

LEMMA SameValues ==
  ASSUME tree' = tree, modules' = modules
  PROVE  /\ Functions' = Functions /\ \A f : ValuesOf(f)' = ValuesOf(f)
         /\ \A f : IsFunction(f)' = IsFunction(f)
  BY SameFunctions DEF ValuesOf, IsFunction, Kind, Node

LEMMA SameIndices ==
  ASSUME tree' = tree, NEW f, NEW set, set \subseteq ValuesOf(f),
         \A m \in set : index'[m] = index[m]
  PROVE  {index'[m] : m \in set} = {index[m] : m \in set}
  OBVIOUS

(* An outside constant comes after all functions that have variables. *)
LEMMA AllFramed ==
  ASSUME WalkInv, LinkInv, FlatFunctions(tree), GlobalsLast,
         Leaving, NEW n, n = Open.node, n \notin Done, Kind(n) \in Values,
         FramesOf(path, Done),
         \A i \in 1 .. Len(path) : ~IsFunction(path[i].node),
         NEW f \in Functions, ValuesOf(f) # {}
  PROVE  f \in Done
<1>1. PICK p, r : p = path /\ r = Root
  OBVIOUS
<1>2. Sound /\ r \in Node /\ Kind(r) = "Module" /\ Len(p) \in Nat
  BY <1>1, StateFacts
<1>3. p # <<>> /\ p[Len(p)].left = <<>> /\ Len(p) \in 1 .. Len(p) /\ n = p[Len(p)].node
  BY <1>1, <1>2 DEF Leaving, Open
<1>4. n \in Node /\ tree[n].root = r /\ r <= n /\ tree[n].last <= tree[r].last
  BY <1>1, <1>3, PathFacts
<1>5. Upcoming(p, cursor, r) = tree[n].last + 1
  BY <1>3 DEF Upcoming, Behind
<1>6. /\ n \in Nat /\ r \in Nat /\ tree[n].last \in Nat /\ n <= tree[n].last
      /\ tree[r].last \in Nat
  BY <1>2, <1>4, KidFacts
<1>7. ASSUME NEW g \in Node, IsFunction(g), tree[g].root = r, g < n
      PROVE  g \in Done
  <2>1. g \in Nat
    BY <1>2, KidFacts
  <2>2. g < Upcoming(p, cursor, r)
    BY <1>5, <1>6, <1>7, <2>1
  <2>3. \A i \in 1 .. Len(p) : p[i].node # g
    BY <1>1, <1>7
  <2> QED
    BY <1>1, <1>7, <2>2, <2>3 DEF Done, Visited, VisitedBy
<1>8. n \in Globals
  <2>1. ASSUME NEW g \in Node, Kind(g) = "Function", tree[n].owner = g
        PROVE  FALSE
    <3>1. IsFunction(g)
      BY <2>1 DEF IsFunction
    <3>2. g < n /\ n <= tree[g].last
      BY <1>2, <1>4, <2>1, <3>1, FlatFacts
    <3>3. g \in Nat /\ tree[g].last \in Nat
      BY <1>2, KidFacts
    <3>4. r <= g
      <4>1. SUFFICES ASSUME g < r PROVE FALSE
        BY <1>6, <3>3
      <4>2. r <= tree[g].last
        BY <1>4, <1>6, <3>2, <3>3
      <4>3. tree[r].owner = g
        BY <1>2, <3>1, <4>1, <4>2, FlatFacts
      <4> QED
        BY <1>2, <3>1, <4>3, FlatFacts
    <3>5. g <= tree[r].last
      BY <1>4, <1>6, <3>2, <3>3
    <3>6. tree[g].root = r
      BY <1>1, <3>4, <3>5, OfRoot
    <3>7. g \in Done
      BY <1>7, <3>1, <3>2, <3>6
    <3>8. g \in Functions
      BY <1>1, <2>1, <3>6, NotBefore DEF Functions
    <3>9. n \in ValuesOf(g)
      BY <1>4, <2>1 DEF ValuesOf
    <3> QED
      BY <3>7, <3>8, <3>9 DEF FramesOf
  <2> QED
    BY <1>4, <2>1 DEF Globals
<1>9. Belongs(n)
  BY <1>1, <1>4, NotBefore
<1>10. f \in Node /\ IsFunction(f)
  BY DEF Functions, IsFunction
<1>11. InOrder(f, n)
  BY <1>8, <1>9 DEF GlobalsLast
<1>12. PICK i, j \in 1 .. Len(modules) : /\ tree[f].root = modules[i]
                                         /\ tree[n].root = modules[j]
                                         /\ i < j \/ (i = j /\ f < n)
  BY <1>11 DEF InOrder
<1>13. /\ \A k, l \in 1 .. Len(modules) : modules[k] = modules[l] => k = l
       /\ module \in 1 .. Len(modules)
  BY DEF WalkInv, ModulesInv
<1>14. j = module
  BY <1>1, <1>4, <1>12, <1>13 DEF Root
<1>15. CASE i < j
  <2>1. i \in 1 .. module - 1
    BY <1>12, <1>13, <1>14, <1>15
  <2>2. f \in Before
    BY <1>10, <1>12, <2>1 DEF Before
  <2> QED
    BY <2>2 DEF Done
<1>16. CASE i = j /\ f < n
  <2>1. tree[f].root = r
    BY <1>4, <1>12, <1>16
  <2> QED
    BY <1>7, <1>10, <1>16, <2>1
<1> QED
  BY <1>12, <1>15, <1>16

LEMMA AcceptFrames ==
  ASSUME WalkInv, LinkInv, FlatFunctions(tree), GlobalsLast, Leaving, LeaveNode(Open.node),
         tree' = tree, modules' = modules, NEW n, n = Open.node, IndexNode(n),
         FramesOf(path, Done)
  PROVE  FramesOf(path, Done)'
<1>1. PICK p, r, q, set : p = path /\ r = Root /\ q = path' /\ set = Done
  OBVIOUS
<1>2. /\ Sound /\ r \in Node /\ Len(p) \in Nat /\ Chain(p, r)
      /\ index \in [Node -> Nat]
  BY <1>1, StateFacts DEF WalkInv, Typed
<1>3. /\ n \in Node /\ p # <<>> /\ p[Len(p)].left = <<>> /\ Shallower(p, q)
      /\ n = p[Len(p)].node /\ Len(p) \in 1 .. Len(p)
  BY <1>1, <1>2, LeaveFacts DEF Open
<1>4. Done' = set \union {n} /\ n \notin set
  BY <1>1, LeaveDone
<1>5. \A i \in 1 .. Len(q) : i \in 1 .. Len(p) /\ i < Len(p) /\ q[i] = p[i]
  <2>1. Len(q) = Len(p) - 1 /\ \A i \in 1 .. Len(q) : q[i] = p[i]
    BY <1>3 DEF Shallower
  <2>2. \A i \in 1 .. Len(p) - 1 : i \in 1 .. Len(p) /\ i < Len(p)
    BY <1>2
  <2> QED
    BY <2>1, <2>2
<1>6. \A i \in 1 .. Len(p) : i = Len(p) \/ i \in 1 .. Len(q)
  BY <1>2, <1>3 DEF Shallower
<1>7. \A i \in 1 .. Len(q) : IsFunction(q[i].node) =>
         tree[n].owner = q[i].node /\ ~IsFunction(n)
  BY <1>1, <1>3, <1>5, OwnerOnPath
<1>8. /\ \A m \in Node : m # n => index'[m] = index[m]
      /\ Kind(n) \in Values =>
           index'[n] = variable_index /\ variable_index' = variable_index + 1
      /\ IsFunction(n) => variable_index' = 0
      /\ ~IsFunction(n) /\ Kind(n) \notin Values => variable_index' = variable_index
  BY <1>2, <1>3, IndexFacts
<1>9. /\ \A f \in Functions : f \in set => Framed(f) /\ ValuesOf(f) \subseteq set
      /\ \A i \in 1 .. Len(p) : IsFunction(p[i].node) => Framing(p[i].node, set)
      /\ (\A i \in 1 .. Len(p) : ~IsFunction(p[i].node)) =>
           \A f \in Functions : f \notin set /\ ValuesOf(f) # {} => variable_index = 0
  BY <1>1 DEF FramesOf
<1>10. PICK new, next : new = index' /\ next = variable_index'
  OBVIOUS
<1> DEFINE Slots(f, nodes) == {new[m] : m \in nodes} = 0 .. Cardinality(nodes) - 1
           Slot(f, nodes) == ValuesOf(f) # {} =>
             /\ next = Cardinality(ValuesOf(f) \intersect nodes)
             /\ {new[m] : m \in ValuesOf(f) \intersect nodes} = 0 .. next - 1
<1>11. \A f : Framed(f) => {index[m] : m \in ValuesOf(f)} = 0 .. Cardinality(ValuesOf(f)) - 1
  BY DEF Framed
<1>12. \A f : \A m \in ValuesOf(f) : m \in Node /\ Kind(m) \in Values /\ tree[m].owner = f
  BY DEF ValuesOf
<1>13. ASSUME NEW f \in Functions, f \in set
       PROVE  Slots(f, ValuesOf(f)) /\ ValuesOf(f) \subseteq set
  <2>1. Framed(f) /\ ValuesOf(f) \subseteq set
    BY <1>9, <1>13
  <2>2. \A m \in ValuesOf(f) : new[m] = index[m]
    BY <1>4, <1>8, <1>10, <1>12, <2>1
  <2>3. {new[m] : m \in ValuesOf(f)} = {index[m] : m \in ValuesOf(f)}
    BY <2>2
  <2> QED
    BY <1>11, <2>1, <2>3
<1>14. SUFFICES
         /\ IsFunction(n) => Slots(n, ValuesOf(n)) /\ ValuesOf(n) \subseteq set
         /\ \A i \in 1 .. Len(q) : IsFunction(q[i].node) => Slot(q[i].node, set \union {n})
         /\ (\A i \in 1 .. Len(q) : ~IsFunction(q[i].node)) =>
              \A f \in Functions : f \notin set \union {n} /\ ValuesOf(f) # {} => next = 0
  <2>1. Functions' = Functions /\ (\A f : ValuesOf(f)' = ValuesOf(f))
        /\ \A f : IsFunction(f)' = IsFunction(f)
    BY SameValues
  <2>2. \A f : Framed(f)' <=> Slots(f, ValuesOf(f))
    BY <1>10, <2>1 DEF Framed
  <2>3. ASSUME NEW f
        PROVE  Framing(f, Done)' <=> Slot(f, set \union {n})
    <3>1. PICK vals : vals = ValuesOf(f)
      OBVIOUS
    <3>2. ValuesOf(f)' = vals
      BY <2>1, <3>1
    <3>3. Framing(f, Done)' <=>
            (vals # {} => /\ next = Cardinality(vals \intersect Done')
                          /\ {new[m] : m \in vals \intersect Done'} = 0 .. next - 1)
      BY <1>10, <3>2 DEF Framing
    <3> QED
      BY <1>4, <3>1, <3>3
  <2> HIDE DEF Slots, Slot
  <2>4. SUFFICES ASSUME
           /\ IsFunction(n) => Slots(n, ValuesOf(n)) /\ ValuesOf(n) \subseteq set
           /\ \A i \in 1 .. Len(q) : IsFunction(q[i].node) => Slot(q[i].node, set \union {n})
           /\ (\A i \in 1 .. Len(q) : ~IsFunction(q[i].node)) =>
                \A f \in Functions : f \notin set \union {n} /\ ValuesOf(f) # {} => next = 0
        PROVE  FramesOf(path, Done)'
    OBVIOUS
  <2>5. \A f \in Functions : IsFunction(f)
    BY DEF Functions, IsFunction
  <2>6. \A f \in Functions' : f \in Done' => Framed(f)' /\ ValuesOf(f)' \subseteq Done'
    BY <1>4, <1>13, <2>1, <2>2, <2>4, <2>5
  <2>7. (\A i \in 1 .. Len(path) : IsFunction(path[i].node) => Framing(path[i].node, Done))'
    <3>1. \A i \in 1 .. Len(q) : IsFunction(q[i].node)' => Framing(q[i].node, Done)'
      BY <2>1, <2>3, <2>4
    <3> QED
      BY <1>1, <3>1
  <2>8. ((\A i \in 1 .. Len(path) : ~IsFunction(path[i].node)) =>
          \A f \in Functions : f \notin Done /\ ValuesOf(f) # {} => variable_index = 0)'
    BY <1>1, <1>4, <1>10, <2>1, <2>4
  <2> QED
    BY <2>6, <2>7, <2>8 DEF FramesOf
<1>15. CASE IsFunction(n)
  <2>1. next = 0
    BY <1>8, <1>10, <1>15
  <2>2. \A i \in 1 .. Len(q) : ~IsFunction(q[i].node)
    BY <1>7, <1>15
  <2>3. ASSUME NEW m \in ValuesOf(n)
        PROVE  m \in set /\ m # n /\ m \in Node
    <3>1. m \in Node /\ n < m /\ m <= tree[n].last
      BY <1>2, <1>3, <1>15, ValuesFacts
    <3>2. /\ m \in Nat /\ n \in Nat /\ tree[n].last \in Nat /\ r \in Nat
          /\ tree[r].last \in Nat
      BY <1>2, <1>3, <3>1, KidFacts
    <3>3. r <= n /\ tree[n].last <= tree[r].last
      BY <1>1, <1>3, PathFacts
    <3>4. tree[m].root = r
      <4>1. r <= m /\ m <= tree[r].last
        BY <3>1, <3>2, <3>3
      <4> QED
        BY <1>1, <3>1, <4>1, OfRoot
    <3>5. Upcoming(p, cursor, r) = tree[n].last + 1
      BY <1>3 DEF Upcoming, Behind
    <3>6. \A i \in 1 .. Len(p) : p[i].node # m
      <4>1. ASSUME NEW i \in 1 .. Len(p)
            PROVE  p[i].node <= n
        <5>1. p[i].node \in Node
          BY <1>2, ChainFacts
        <5>2. i = Len(p) \/ i < Len(p)
          BY <1>2
        <5>3. p[i].node \in Nat
          BY <1>2, <5>1, KidFacts
        <5>4. i < Len(p) => p[i].node < p[Len(p)].node
          BY <1>1, <1>3, PathFacts
        <5> QED
          BY <1>3, <3>2, <5>2, <5>3, <5>4
      <4> QED
        BY <3>1, <3>2, <4>1
    <3>7. m \in Visited
      BY <1>1, <3>1, <3>2, <3>4, <3>5, <3>6 DEF Visited, VisitedBy
    <3> QED
      BY <1>1, <3>1, <3>2, <3>7 DEF Done
  <2>4. ValuesOf(n) \subseteq set
    BY <2>3
  <2>5. {new[m] : m \in ValuesOf(n)} = {index[m] : m \in ValuesOf(n)}
    <3>1. \A m \in ValuesOf(n) : new[m] = index[m]
      BY <1>8, <1>10, <2>3
    <3> QED
      BY <3>1
  <2>6. Slots(n, ValuesOf(n))
    <3>1. CASE ValuesOf(n) = {}
      <4>1. Cardinality({}) = 0 /\ 0 .. 0 - 1 = {}
        BY FS_EmptySet
      <4> QED
        BY <3>1, <4>1
    <3>2. CASE ValuesOf(n) # {}
      <4>1. Framing(n, set)
        BY <1>3, <1>9, <1>15
      <4>2. ValuesOf(n) \intersect set = ValuesOf(n)
        BY <2>4
      <4> QED
        BY <2>5, <3>2, <4>1, <4>2 DEF Framing
    <3> QED
      BY <3>1, <3>2
  <2> QED
    BY <2>1, <2>2, <2>4, <2>6
<1>16. CASE Kind(n) \in Values
  <2>1. ~IsFunction(n)
    BY <1>16, NotValues DEF IsFunction
  <2>2. new[n] = variable_index /\ next = variable_index + 1
    BY <1>8, <1>10, <1>16
  <2>3. ASSUME NEW i \in 1 .. Len(q), IsFunction(q[i].node)
        PROVE  Slot(q[i].node, set \union {n})
    <3>1. PICK f : f = q[i].node
      OBVIOUS
    <3>2. tree[n].owner = f
      BY <1>7, <2>3, <3>1
    <3>3. n \in ValuesOf(f)
      BY <1>3, <1>16, <3>2 DEF ValuesOf
    <3>4. Framing(f, set)
      BY <1>5, <1>9, <2>3, <3>1
    <3>5. PICK old : old = ValuesOf(f) \intersect set
      OBVIOUS
    <3>6. /\ variable_index = Cardinality(old)
          /\ {index[m] : m \in old} = 0 .. variable_index - 1
      BY <3>3, <3>4, <3>5 DEF Framing
    <3>7. old \subseteq Node /\ n \notin old
      BY <1>4, <1>12, <3>5
    <3>8. \A m \in old : new[m] = index[m]
      BY <1>8, <1>10, <3>7
    <3>9. PICK k : k = variable_index
      OBVIOUS
    <3>10. k \in Nat /\ IsFiniteSet(old)
      BY <1>2, <3>6, <3>7, <3>9, FiniteNodes
    <3>11. k + 1 = Cardinality(old \union {n})
      BY <3>6, <3>7, <3>9, <3>10, FS_AddElement
    <3>12. {new[m] : m \in old} = 0 .. k - 1
      <4>1. {new[m] : m \in old} = {index[m] : m \in old}
        BY <3>8
      <4> QED
        BY <3>6, <3>9, <4>1
    <3>13. {new[m] : m \in old \union {n}} = {new[m] : m \in old} \union {k}
      BY <2>2, <3>9
    <3>14. next = k + 1 /\ 0 .. next - 1 = (0 .. k - 1) \union {k}
      BY <2>2, <3>9, <3>10
    <3>15. {new[m] : m \in old \union {n}} = 0 .. next - 1
      BY <3>12, <3>13, <3>14
    <3>16. ValuesOf(f) \intersect (set \union {n}) = old \union {n}
      BY <3>3, <3>5
    <3>17. Slot(f, set \union {n})
      BY <3>11, <3>14, <3>15, <3>16
    <3> QED
      BY <3>1, <3>17
  <2>4. ASSUME \A i \in 1 .. Len(q) : ~IsFunction(q[i].node),
               NEW f \in Functions, f \notin set \union {n}, ValuesOf(f) # {}
        PROVE  FALSE
    <3>1. \A i \in 1 .. Len(p) : ~IsFunction(p[i].node)
      BY <1>3, <1>5, <1>6, <2>1, <2>4
    <3>2. f \in set
      BY <1>1, <1>4, <1>16, <2>4, <3>1, AllFramed
    <3> QED
      BY <2>4, <3>2
  <2> QED
    BY <2>1, <2>3, <2>4
<1>17. CASE ~IsFunction(n) /\ Kind(n) \notin Values
  <2>1. next = variable_index
    BY <1>8, <1>10, <1>17
  <2>2. ASSUME NEW f
        PROVE  Framing(f, set) => Slot(f, set \union {n})
    <3>1. n \notin ValuesOf(f)
      BY <1>12, <1>17
    <3>2. PICK old : old = ValuesOf(f) \intersect set
      OBVIOUS
    <3>3. ValuesOf(f) \intersect (set \union {n}) = old
      BY <3>1, <3>2
    <3>4. \A m \in old : new[m] = index[m]
      BY <1>4, <1>8, <1>10, <1>12, <3>2
    <3>5. {new[m] : m \in old} = {index[m] : m \in old}
      BY <3>4
    <3> QED
      BY <2>1, <3>2, <3>3, <3>5 DEF Framing
  <2>3. \A i \in 1 .. Len(q) : IsFunction(q[i].node) => Slot(q[i].node, set \union {n})
    BY <1>5, <1>9, <2>2
  <2>4. (\A i \in 1 .. Len(q) : ~IsFunction(q[i].node)) =>
           \A f \in Functions : f \notin set \union {n} /\ ValuesOf(f) # {} => next = 0
    <3>1. (\A i \in 1 .. Len(q) : ~IsFunction(q[i].node)) =>
            \A i \in 1 .. Len(p) : ~IsFunction(p[i].node)
      BY <1>3, <1>5, <1>6, <1>17
    <3> QED
      BY <1>9, <2>1, <3>1
  <2> QED
    BY <1>17, <2>3, <2>4
<1> QED
  BY <1>15, <1>16, <1>17

(* The children of a node come one behind the other. *)
LEMMA KidsIncrease ==
  ASSUME Sound, NEW n \in Node, NEW i \in 1 .. Len(KidsOf(n)),
         NEW j \in 1 .. Len(KidsOf(n)), i < j
  PROVE  KidsOf(n)[i] < KidsOf(n)[j]
<1>1. PICK kids : kids = KidsOf(n)
  OBVIOUS
<1>2. /\ Len(kids) \in Nat
      /\ \A k \in 1 .. Len(kids) : kids[k] \in Node
      /\ \A k \in 1 .. Len(kids) - 1 : kids[k + 1] = tree[kids[k]].last + 1
  BY <1>1, KidFacts
<1>3. \A m \in Node : m \in Nat /\ tree[m].last \in Nat /\ m <= tree[m].last
  BY KidFacts
<1>4. \A k \in 1 .. Len(kids) - 1 : kids[k] \in Nat /\ kids[k + 1] \in Nat /\ kids[k] < kids[k + 1]
  <2>1. TAKE k \in 1 .. Len(kids) - 1
  <2>2. k \in 1 .. Len(kids) /\ k + 1 \in 1 .. Len(kids) /\ kids[k + 1] = tree[kids[k]].last + 1
    BY <1>2
  <2>3. kids[k] \in Node /\ kids[k + 1] \in Node
    BY <1>2, <2>2
  <2>4. /\ kids[k] \in Nat /\ kids[k + 1] \in Nat
        /\ tree[kids[k]].last \in Nat /\ kids[k] <= tree[kids[k]].last
    BY <1>3, <2>3
  <2>5. PICK here, next, last : here = kids[k] /\ next = kids[k + 1] /\ last = tree[kids[k]].last
    OBVIOUS
  <2>6. here \in Nat /\ last \in Nat /\ here <= last /\ next = last + 1
    BY <2>2, <2>4, <2>5
  <2>7. here \in Nat /\ next \in Nat /\ here < next
    BY <2>6
  <2> QED
    BY <2>5, <2>7
<1>5. PICK late : late = {k \in 1 .. Len(kids) : i < k /\ kids[k] <= kids[i]}
  OBVIOUS
<1>6. ASSUME kids[j] <= kids[i]
      PROVE  FALSE
  <2>1. late \in SUBSET Nat /\ late # {}
    BY <1>1, <1>2, <1>5, <1>6
  <2>2. PICK k \in late : \A m \in late : k <= m
    BY <2>1, Least
  <2>3. k \in 1 .. Len(kids) /\ i < k /\ kids[k] <= kids[i]
    BY <1>5, <2>2
  <2>4. /\ i \in 1 .. Len(kids) /\ k - 1 \in 1 .. Len(kids) - 1
        /\ k - 1 \in 1 .. Len(kids) /\ (k - 1) + 1 = k /\ i <= k - 1
    BY <1>1, <1>2, <2>3
  <2>5. kids[k - 1] \in Nat /\ kids[k] \in Nat /\ kids[k - 1] < kids[k]
    BY <1>4, <2>4
  <2>6. kids[i] \in Nat
    BY <1>2, <1>3, <2>4
  <2>7. k - 1 \notin late
    BY <2>2, <2>3
  <2>8. i = k - 1 \/ kids[i] < kids[k - 1]
    BY <1>5, <2>3, <2>4, <2>5, <2>6, <2>7
  <2> QED
    BY <2>3, <2>5, <2>6, <2>8
<1>7. kids[i] \in Nat /\ kids[j] \in Nat
  BY <1>1, <1>2, <1>3
<1> QED
  BY <1>1, <1>6, <1>7

(* The children of a node are different nodes. *)
LEMMA KidsApart ==
  ASSUME Sound, NEW n \in Node, NEW i \in 1 .. Len(KidsOf(n)),
         NEW j \in 1 .. Len(KidsOf(n)), KidsOf(n)[i] = KidsOf(n)[j]
  PROVE  i = j
<1>1. PICK k : k = KidsOf(n)[i]
  OBVIOUS
<1>2. k \in Nat /\ Len(KidsOf(n)) \in Nat
  BY <1>1, KidFacts
<1>3. ~(i < j) /\ ~(j < i)
  BY <1>1, <1>2, KidsIncrease
<1> QED
  BY <1>2, <1>3

LEMMA FramedStays ==
  ASSUME tree' = tree, index' = index, NEW f, Framed(f)
  PROVE  Framed(f)'
<1>1. PICK vals : vals = ValuesOf(f)
  OBVIOUS
<1>2. ValuesOf(f)' = vals
  BY <1>1 DEF ValuesOf, Kind, Node
<1> QED
  BY <1>1, <1>2 DEF Framed

LEMMA FramesStay ==
  ASSUME tree' = tree, modules' = modules, index' = index,
         variable_index' = variable_index, NEW p, NEW set, FramesOf(p, set)
  PROVE  FramesOf(p, set)'
<1>1. /\ Functions' = Functions /\ \A f : ValuesOf(f)' = ValuesOf(f)
      /\ \A f : IsFunction(f)' = IsFunction(f)
  BY SameValues
<1>2. \A f : Framed(f) => Framed(f)'
  BY FramedStays
<1>3. ASSUME NEW f, Framing(f, set)
      PROVE  Framing(f, set)'
  <2>1. PICK vals : vals = ValuesOf(f)
    OBVIOUS
  <2>2. ValuesOf(f)' = vals
    BY <1>1, <2>1
  <2> QED
    BY <1>3, <2>1, <2>2 DEF Framing
<1> QED
  BY <1>1, <1>2, <1>3 DEF FramesOf

LEMMA SameGlobals ==
  ASSUME tree' = tree, modules' = modules
  PROVE  GlobalsLast' <=> GlobalsLast
<1>1. /\ Functions' = Functions /\ \A f : ValuesOf(f)' = ValuesOf(f)
  BY SameValues
<1>2. /\ Globals' = Globals /\ \A m, n : InOrder(m, n)' <=> InOrder(m, n)
      /\ \A n : Belongs(n)' <=> Belongs(n)
  BY DEF Globals, Kind, Node, InOrder, Belongs
<1> QED
  BY <1>1, <1>2 DEF GlobalsLast

LEMMA ScopesStay ==
  ASSUME tree' = tree, symbols' = symbols, WholeScopes
  PROVE  WholeScopes'
<1>1. Node' = Node /\ \A n : DeclaredIn(n)' = DeclaredIn(n)
  BY DEF DeclaredIn, Kind, Node
<1> QED
  BY <1>1 DEF WholeScopes

LEMMA OutsideSlots ==
  ASSUME SlotsInv, phase \in {"import", "link"}, phase' = phase, tree' = tree,
         symbols' = symbols, variable_index' = variable_index, panic' = panic
  PROVE  SlotsInv'
  BY ScopesStay DEF SlotsInv

LEMMA InitSlots ==
  ASSUME Init
  PROVE  SlotsInv
  BY DEF Init, SlotsInv, WholeScopes, DeclaredIn

LEMMA EnterSlots ==
  ASSUME WalkInv, LinkInv, FlatFunctions(tree), SlotsInv, Enter
  PROVE  SlotsInv'
<1>1. /\ tree' = tree /\ modules' = modules /\ module' = module /\ cursor' = cursor
      /\ index' = index /\ errors' = errors /\ phase \in {"link", "check"}
      /\ variable_index' = variable_index /\ panic' = panic /\ symbols' = symbols
  BY DEF Enter, sourceVars, analyzerVars
<1>2. PICK n : n = Pending
  OBVIOUS
<1>3. CASE EnterFails(n)
  <2>1. phase' = "aborted"
    BY <1>2, <1>3, Zenon DEF Enter
  <2> QED
    BY <2>1 DEF SlotsInv
<1>4. CASE ~EnterFails(n)
  <2>1. PICK p, r, done, q : p = path /\ r = Root /\ done = cursor /\ q = path'
    OBVIOUS
  <2>2. /\ Entering(p, r, n) /\ Deeper(p, q, n) /\ (p = <<>> => done # r)
        /\ phase' = phase
    BY <1>2, <1>4, <2>1, EnterStep
  <2>3. CASE phase = "link"
    BY <1>1, <2>2, <2>3, OutsideSlots
  <2>4. CASE phase = "check"
    <3>1. Sound /\ r \in Node /\ Chain(p, r) /\ Root' = r
      BY <1>1, <2>1, StateFacts DEF Root
    <3>2. VisitedBy(q, done, r) = VisitedBy(p, done, r)
      BY <2>2, <3>1, EnterVisited
    <3>3. Visited' = Visited
      <4>1. Visited' = VisitedBy(q, done, r)
        BY <1>1, <2>1, <3>1, VisitedStays
      <4> QED
        BY <2>1, <3>2, <4>1 DEF Visited
    <3>4. PICK set : set = Done
      OBVIOUS
    <3>5. Done' = set
      BY <1>1, <3>3, <3>4, BeforeStays DEF Done
    <3>6. Clean' = Clean
      BY <1>1 DEF Clean
    <3>7. FramesOf(path, Done) => FramesOf(q, set)
      BY <2>1, <2>2, <3>4, EnterFrames
    <3>8. FramesOf(q, set) => FramesOf(q, set)'
      BY <1>1, FramesStay
    <3>9. FramesOf(path, Done) => FramesOf(path, Done)'
      BY <2>1, <3>5, <3>7, <3>8
    <3>10. (GlobalsLast' <=> GlobalsLast) /\ (WholeScopes => WholeScopes')
      BY <1>1, SameGlobals, ScopesStay
    <3> QED
      BY <1>1, <2>2, <2>4, <3>6, <3>9, <3>10 DEF SlotsInv
  <2> QED
    BY <1>1, <2>3, <2>4
<1> QED
  BY <1>3, <1>4

LEMMA SecondSlots ==
  ASSUME WalkInv, LinkInv, FlatFunctions(tree), SlotsInv, LeaveSecond
  PROVE  SlotsInv'
<1>1. PICK n : n = Open.node
  OBVIOUS
<1>2. /\ phase = "check" /\ Leaving /\ LeaveNode(Open.node) /\ ~panic
      /\ tree' = tree /\ modules' = modules
  BY DEF LeaveSecond, sourceVars
<1>3. \/ phase' = "crashed"
      \/ phase' = phase /\ Accept(n)
      \/ phase' = phase /\ Reject(n)
  BY <1>1, Zenon DEF LeaveSecond
<1>4. CASE phase' = "crashed"
  BY <1>4 DEF SlotsInv
<1>5. CASE phase' = phase /\ Accept(n)
  <2>1. errors' = errors /\ panic' = panic /\ symbols' = symbols /\ IndexNode(n)
    BY <1>5 DEF Accept
  <2>2. Clean' = Clean
    BY <1>2, <2>1 DEF Clean
  <2>3. (GlobalsLast' <=> GlobalsLast) /\ (WholeScopes => WholeScopes')
    BY <1>2, <2>1, SameGlobals, ScopesStay
  <2>4. GlobalsLast /\ FramesOf(path, Done) => FramesOf(path, Done)'
    BY <1>1, <1>2, <2>1, AcceptFrames
  <2> QED
    BY <1>2, <1>5, <2>1, <2>2, <2>3, <2>4 DEF SlotsInv
<1>6. CASE phase' = phase /\ Reject(n)
  <2>1. errors' = [errors EXCEPT ![Root] = @ + 1]
    BY <1>6 DEF Reject
  <2>2. errors \in [Node -> Nat] /\ Root \in Node /\ module \in 1 .. Len(modules)
    BY StateFacts DEF WalkInv, Typed, ModulesInv
  <2>3. errors'[modules[module]] # 0
    BY <2>1, <2>2 DEF Root
  <2>4. ~Clean'
    BY <1>2, <2>2, <2>3 DEF Clean
  <2> QED
    BY <1>2, <1>6, <2>4 DEF SlotsInv
<1> QED
  BY <1>3, <1>4, <1>5, <1>6

LEMMA PanicSlots ==
  ASSUME SlotsInv, LeaveInPanic
  PROVE  SlotsInv'
<1>1. /\ phase = "check" /\ panic /\ phase' = phase /\ errors' = errors
      /\ modules' = modules
  BY DEF LeaveInPanic, sourceVars, resultVars
<1>2. ~Clean
  BY <1>1 DEF SlotsInv
<1>3. ~Clean'
  BY <1>1, <1>2 DEF Clean
<1> QED
  BY <1>1, <1>3 DEF SlotsInv

(* The slots stay as they are when the second pass is over. *)
LEMMA LaterSlots ==
  ASSUME tree' = tree, modules' = modules, index' = index, symbols' = symbols,
         WholeScopes, GlobalsLast => \A f \in Functions : Framed(f)
  PROVE  WholeScopes' /\ (GlobalsLast => \A f \in Functions : Framed(f))'
<1>1. WholeScopes' /\ (GlobalsLast' <=> GlobalsLast) /\ Functions' = Functions
  BY ScopesStay, SameGlobals, SameFunctions
<1>2. \A f : Framed(f) => Framed(f)'
  BY FramedStays
<1> QED
  BY <1>1, <1>2

LEMMA RegisterSlots ==
  ASSUME SlotsInv, Register
  PROVE  SlotsInv'
<1>1. /\ tree' = tree /\ modules' = modules /\ index' = index /\ symbols' = symbols
      /\ phase = "generate" /\ phase' = phase
  BY DEF Register, sourceVars, resultVars
<1> QED
  BY <1>1, LaterSlots DEF SlotsInv

LEMMA NextModuleSlots ==
  ASSUME WalkInv, SlotsInv, NextModule
  PROVE  SlotsInv'
<1>1. /\ tree' = tree /\ modules' = modules /\ module' = module + 1
      /\ path' = path /\ cursor' = 0 /\ phase' = phase /\ symbols' = symbols
      /\ errors' = errors /\ index' = index /\ variable_index' = variable_index
      /\ panic' = panic /\ module < Len(modules)
  BY DEF NextModule, sourceVars, resultVars, analyzerVars
<1>2. /\ path = <<>> /\ (phase \in {"link", "check"} => cursor = Root)
      /\ phase \in {"import", "link", "check", "generate"}
  BY DoneFacts DEF NextModule
<1>3. CASE phase \in {"import", "link"}
  BY <1>1, <1>3, OutsideSlots
<1>4. CASE phase = "check"
  <2>1. module' \in 1 .. Len(modules)
    BY <1>1 DEF WalkInv, ModulesInv
  <2>2. Visited' = {}
    BY <1>1, <1>2, <2>1, NotYet
  <2>3. Visited = {n \in Node : tree[n].root = Root}
    BY <1>2, <1>4, AllVisited
  <2>4. Before' = Before \union {n \in Node : tree[n].root = Root}
    BY <1>1, BeforeNext
  <2>5. PICK p, set : p = path /\ set = Done
    OBVIOUS
  <2>6. Done' = set
    BY <2>2, <2>3, <2>4, <2>5 DEF Done
  <2>7. FramesOf(p, set) => FramesOf(p, set)'
    BY <1>1, FramesStay
  <2>8. FramesOf(path, Done) => FramesOf(path, Done)'
    BY <1>1, <2>5, <2>6, <2>7
  <2>9. Clean' = Clean
    BY <1>1 DEF Clean
  <2>10. (GlobalsLast' <=> GlobalsLast) /\ (WholeScopes => WholeScopes')
    BY <1>1, SameGlobals, ScopesStay
  <2> QED
    BY <1>1, <1>4, <2>8, <2>9, <2>10 DEF SlotsInv
<1>5. CASE phase = "generate"
  BY <1>1, <1>5, LaterSlots DEF SlotsInv
<1> QED
  BY <1>2, <1>3, <1>4, <1>5

(* At the end of the second pass all functions are done. *)
LEMMA AllFunctionsDone ==
  ASSUME WalkInv, phase = "check", AllDone
  PROVE  \A f \in Functions : f \in Done
<1>1. path = <<>> /\ cursor = Root /\ module = Len(modules) /\ module \in Nat \ {0}
  BY DoneFacts DEF AllDone, WalkInv, ModulesInv
<1>2. Visited = {n \in Node : tree[n].root = Root}
  BY <1>1, AllVisited
<1>3. \A i : i \in 1 .. Len(modules) <=> i \in 1 .. module - 1 \/ i = module
  BY <1>1
<1> QED
  BY <1>2, <1>3 DEF Done, Before, Functions, Belongs, Root

LEMMA FinishSlots ==
  ASSUME WalkInv, SlotsInv,
         FinishImport \/ FinishFirst \/ FinishSecond \/ FinishGenerate
  PROVE  SlotsInv'
<1>1. AllDone
  BY DEF FinishImport, FinishFirst, FinishSecond, FinishGenerate
<1>2. ASSUME NEW next, Begin(next)
      PROVE  /\ tree' = tree /\ modules' = modules /\ phase' = next /\ path' = path
             /\ index' = index /\ symbols' = symbols /\ panic' = panic
             /\ variable_index' = variable_index
  BY <1>2 DEF Begin, sourceVars, analyzerVars
<1>3. CASE FinishImport
  <2>1. phase = "import" /\ Begin("link")
    BY <1>3 DEF FinishImport
  <2> QED
    BY <1>2, <2>1, ScopesStay DEF SlotsInv
<1>4. CASE FinishFirst
  <2>1. phase = "link" /\ Begin("check")
    BY <1>4 DEF FinishFirst
  <2>2. /\ phase' = "check" /\ Before' = {} /\ Visited' = {} /\ tree' = tree
        /\ modules' = modules /\ symbols' = symbols /\ panic' = panic /\ path' = path
        /\ variable_index' = variable_index
    BY <1>1, <1>2, <2>1, BeginTable
  <2>3. variable_index' = 0 /\ ~panic' /\ WholeScopes'
    BY <2>1, <2>2, ScopesStay DEF SlotsInv
  <2>4. Done' = {} /\ path' = <<>>
    BY <1>1, <2>2, DoneFacts DEF Done, AllDone
  <2>5. FramesOf(path, Done)'
    BY <2>3, <2>4 DEF FramesOf
  <2> QED
    BY <2>2, <2>3, <2>5 DEF SlotsInv
<1>5. CASE FinishSecond
  <2>1. PICK next : /\ next \in {"generate", "rejected"} /\ Begin(next)
                    /\ next = "generate" =>
                         \A i \in 1 .. Len(modules) : errors'[modules[i]] = 0
    <3> DEFINE none == \A i \in 1 .. Len(modules) : errors'[modules[i]] = 0
    <3>1. Begin(IF none THEN "generate" ELSE "rejected")
      BY <1>5 DEF FinishSecond
    <3> HIDE DEF none
    <3>2. CASE none
      <4>1. Begin("generate")
        BY <3>1, <3>2
      <4> QED
        BY <3>2, <4>1 DEF none
    <3>3. CASE ~none
      <4>1. Begin("rejected")
        BY <3>1, <3>3
      <4> QED
        BY <4>1
    <3> QED
      BY <3>2, <3>3
  <2>2. /\ phase = "check"
        /\ errors' = [errors EXCEPT ![Main] = @ + (IF has_main THEN 0 ELSE 1)]
    BY <1>5 DEF FinishSecond
  <2>3. CASE next = "rejected"
    BY <1>2, <2>1, <2>3 DEF SlotsInv
  <2>4. CASE next = "generate"
    <3>1. errors \in [Node -> Nat] /\ Main \in Node /\ modules \in Seq(Node)
      BY StateFacts, MainFacts DEF WalkInv, Typed, ModulesInv
    <3>2. Clean
      <4>1. ASSUME NEW i \in 1 .. Len(modules)
            PROVE  errors[modules[i]] = 0
        <5>1. modules[i] \in Node /\ errors'[modules[i]] = 0
          BY <2>1, <2>4, <3>1
        <5>2. errors[modules[i]] \in Nat
          BY <3>1, <5>1
        <5> QED
          BY <2>2, <3>1, <5>1, <5>2
      <4> QED
        BY <4>1 DEF Clean
    <3>3. WholeScopes /\ (GlobalsLast => FramesOf(path, Done))
      BY <2>2, <3>2 DEF SlotsInv
    <3>4. GlobalsLast => \A f \in Functions : Framed(f)
      BY <1>1, <2>2, <3>3, AllFunctionsDone DEF FramesOf
    <3>5. WholeScopes' /\ (GlobalsLast => \A f \in Functions : Framed(f))'
      BY <1>2, <2>1, <3>3, <3>4, LaterSlots
    <3> QED
      BY <1>2, <2>1, <2>4, <3>5 DEF SlotsInv
  <2> QED
    BY <2>1, <2>3, <2>4
<1>6. CASE FinishGenerate
  <2>1. phase = "generate" /\ Begin("finished")
    BY <1>6 DEF FinishGenerate
  <2>2. WholeScopes' /\ (GlobalsLast => \A f \in Functions : Framed(f))'
    BY <1>2, <2>1, LaterSlots DEF SlotsInv
  <2> QED
    BY <1>2, <2>1, <2>2 DEF SlotsInv
<1> QED
  BY <1>3, <1>4, <1>5, <1>6

LEMMA IdleSlots ==
  ASSUME SlotsInv, UNCHANGED vars
  PROVE  SlotsInv'
<1>1. /\ tree' = tree /\ modules' = modules /\ path' = path /\ module' = module
      /\ phase' = phase /\ index' = index /\ errors' = errors /\ cursor' = cursor
      /\ variable_index' = variable_index /\ panic' = panic /\ symbols' = symbols
  BY DEF vars, sourceVars, walkVars, resultVars, analyzerVars
<1>2. PICK p, r, done : p = path /\ r = Root /\ done = cursor
  OBVIOUS
<1>3. Root' = r
  BY <1>1, <1>2 DEF Root
<1>4. Visited' = Visited
  BY <1>1, <1>2, <1>3, VisitedStays DEF Visited
<1>5. PICK set : set = Done
  OBVIOUS
<1>6. Done' = set
  BY <1>1, <1>4, <1>5, BeforeStays DEF Done
<1>7. FramesOf(p, set) => FramesOf(p, set)'
  BY <1>1, FramesStay
<1>8. FramesOf(path, Done) => FramesOf(path, Done)'
  BY <1>1, <1>2, <1>5, <1>6, <1>7
<1>9. Clean' = Clean
  BY <1>1 DEF Clean
<1>10. (GlobalsLast' <=> GlobalsLast) /\ (WholeScopes => WholeScopes')
  BY <1>1, SameGlobals, ScopesStay
<1>11. WholeScopes /\ (GlobalsLast => \A f \in Functions : Framed(f)) =>
         WholeScopes' /\ (GlobalsLast => \A f \in Functions : Framed(f))'
  BY <1>1, LaterSlots
<1> QED
  BY <1>1, <1>8, <1>9, <1>10, <1>11 DEF SlotsInv

LEMMA NextSlots ==
  ASSUME WalkInv, LinkInv, FlatFunctions(tree), SlotsInv, [Next]_vars
  PROVE  FlatFunctions(tree)' /\ SlotsInv'
<1>1. tree' = tree
  <2>1. CASE FinishImport \/ FinishFirst \/ FinishSecond \/ FinishGenerate
    <3>1. \E next : Begin(next)
      BY <2>1 DEF FinishImport, FinishFirst, FinishSecond, FinishGenerate
    <3> QED
      BY <3>1 DEF Begin, sourceVars
  <2>2. CASE ResolveImport \/ Enter \/ LeaveFirst \/ LeaveSecond \/ LeaveInPanic
             \/ Register \/ NextModule
    BY <2>2 DEF ResolveImport, Enter, LeaveFirst, LeaveSecond, LeaveInPanic,
                Register, NextModule, sourceVars
  <2>3. CASE Stopped \/ UNCHANGED vars
    BY <2>3 DEF Stopped, vars, sourceVars
  <2> QED
    BY <2>1, <2>2, <2>3 DEF Next, Proceed
<1>2. CASE ResolveImport
  BY <1>2, OutsideSlots DEF ResolveImport, resultVars, analyzerVars
<1>3. CASE LeaveFirst
  BY <1>3, OutsideSlots DEF LeaveFirst, sourceVars, analyzerVars
<1>4. SlotsInv'
  <2>1. CASE Proceed
    BY <1>2, <1>3, <2>1, EnterSlots, SecondSlots, PanicSlots, RegisterSlots,
       NextModuleSlots, FinishSlots DEF Proceed
  <2>2. CASE Stopped \/ UNCHANGED vars
    BY <2>2, IdleSlots DEF Stopped
  <2> QED
    BY <2>1, <2>2 DEF Next
<1> QED
  BY <1>1, <1>4 DEF FlatFunctions

(* A frame has room for the variables that its scope has besides the *)
(* parameters.                                                       *)
LEMMA RoomForValues ==
  ASSUME Sound, FlatFunctions(tree), WholeScopes, NEW f \in Node, IsFunction(f)
  PROVE  Cardinality(ValuesOf(f)) <= Cardinality(symbols[f]) - Cardinality(Parameters(f))
<1>1. PICK kids : kids = KidsOf(f)
  OBVIOUS
<1>2. /\ Len(kids) \in Nat
      /\ \A i \in 1 .. Len(kids) : kids[i] \in Node /\ f < kids[i] /\ kids[i] <= tree[f].last
      /\ \A i \in 1 .. Len(kids) - 1 : kids[i + 1] = tree[kids[i]].last + 1
  BY <1>1, KidFacts
<1>3. PICK ps : ps = Parameters(f)
  OBVIOUS
<1>4. ps = {i \in 1 .. Len(kids) : Kind(kids[i]) = "Parameter"}
  BY <1>1, <1>3 DEF Parameters, KidsOf
<1>5. PICK nodes : nodes = {kids[i] : i \in ps}
  OBVIOUS
<1>6. \A i, j \in ps : kids[i] = kids[j] => i = j
  BY <1>1, <1>4, KidsApart
<1>7. /\ ValuesOf(f) \subseteq Node /\ nodes \subseteq Node /\ symbols[f] \subseteq Node
  <2>1. symbols[f] \subseteq Node
    BY DEF WholeScopes, DeclaredIn
  <2> QED
    BY <1>2, <1>4, <1>5, <2>1 DEF ValuesOf
<1>8. Cardinality(nodes) = Cardinality(ps)
  <2>1. IsFiniteSet(ps)
    <3>1. IsFiniteSet(1 .. Len(kids))
      BY <1>2, FS_Interval
    <3> QED
      BY <1>4, <3>1, FS_Subset
  <2>2. PICK g : g = [i \in ps |-> kids[i]]
    OBVIOUS
  <2>3. g \in Surjection(ps, nodes) /\ g \in Injection(ps, nodes)
    BY <1>5, <1>6, <2>2 DEF Surjection, Injection, IsInjective
  <2> QED
    BY <2>1, <2>3, FS_Surjection
<1>9. nodes \intersect ValuesOf(f) = {}
  BY <1>4, <1>5 DEF ValuesOf, Values
<1>10. nodes \union ValuesOf(f) \subseteq symbols[f]
  <2>1. ASSUME NEW n \in nodes
        PROVE  n \in DeclaredIn(f)
    <3>1. n \in Node /\ f < n /\ n <= tree[f].last /\ Kind(n) = "Parameter"
      BY <1>2, <1>4, <1>5
    <3>2. tree[n].owner = f
      BY <3>1, FlatFacts
    <3> QED
      BY <3>1, <3>2 DEF DeclaredIn, Declaring
  <2>2. \A n \in ValuesOf(f) : n \in DeclaredIn(f)
    BY DEF ValuesOf, Values, DeclaredIn, Declaring
  <2> QED
    BY <2>1, <2>2 DEF WholeScopes
<1>11. /\ IsFiniteSet(nodes) /\ IsFiniteSet(ValuesOf(f)) /\ IsFiniteSet(symbols[f])
       /\ Cardinality(nodes) \in Nat /\ Cardinality(ValuesOf(f)) \in Nat
       /\ Cardinality(symbols[f]) \in Nat
  BY <1>7, FiniteNodes
<1>12. Cardinality(nodes \union ValuesOf(f)) = Cardinality(nodes) + Cardinality(ValuesOf(f))
  <2>1. Cardinality(nodes \intersect ValuesOf(f)) = 0
    BY <1>9, FS_EmptySet
  <2>2. PICK values : values = ValuesOf(f)
    OBVIOUS
  <2>3. /\ IsFiniteSet(nodes) /\ IsFiniteSet(values)
        /\ Cardinality(nodes) \in Nat /\ Cardinality(values) \in Nat
        /\ Cardinality(nodes \cap values) = 0
    BY <1>11, <2>1, <2>2
  <2>4. Cardinality(nodes \cup values)
          = Cardinality(nodes) + Cardinality(values) - Cardinality(nodes \cap values)
    BY <2>3, FS_Union
  <2>5. Cardinality(nodes \cup values) = Cardinality(nodes) + Cardinality(values)
    BY <2>3, <2>4
  <2> QED
    BY <2>2, <2>5
<1>13. Cardinality(nodes \union ValuesOf(f)) <= Cardinality(symbols[f])
  BY <1>10, <1>11, FS_Subset
<1> QED
  BY <1>3, <1>8, <1>11, <1>12, <1>13

LEMMA SlotsRight ==
  ASSUME WalkInv, LinkInv, FlatFunctions(tree), SlotsInv, GlobalsApart
  PROVE  SlotsOfFrame
<1>1. SUFFICES ASSUME phase = "finished"
               PROVE  /\ \A f \in Functions :
                           /\ {index[n] : n \in ValuesOf(f)} = 0 .. Cardinality(ValuesOf(f)) - 1
                           /\ Cardinality(ValuesOf(f))
                                <= Cardinality(symbols[f]) - Cardinality(Parameters(f))
                      /\ \A n \in Node :
                           Belongs(n) /\ Kind(n) = "Identifier" /\ Kind(link[n]) \in Values
                             => tree[n].owner = tree[link[n]].owner
  BY DEF SlotsOfFrame
<1>2. Sound /\ WholeScopes /\ GlobalsLast /\ \A f \in Functions : Framed(f)
  BY <1>1, StateFacts DEF SlotsInv, GlobalsApart
<1>3. \A f \in Functions : f \in Node /\ IsFunction(f)
  BY DEF Functions, IsFunction
<1>4. ASSUME NEW n \in Node, Belongs(n), Kind(n) = "Identifier", Kind(link[n]) \in Values
      PROVE  tree[n].owner = tree[link[n]].owner
  <2>1. link[n] # NoNode
    BY <1>4 DEF Kind, Values
  <2>2. link[n] \in Node
    BY <2>1 DEF WalkInv, Typed
  <2>3. link[n] \notin Globals
    BY <1>4 DEF GlobalsApart
  <2>4. PICK f \in Node : Kind(f) = "Function" /\ tree[link[n]].owner = f
    BY <1>4, <2>2, <2>3 DEF Globals
  <2>5. OfFrame(link[n])
    BY <1>4, <2>2, <2>4 DEF OfFrame, IsFunction
  <2> QED
    BY <2>5 DEF LinkInv, OwnLinks
<1> QED
  BY <1>2, <1>3, <1>4, RoomForValues DEF Framed

(* In an accepted program the variables of each function have the slots    *)
(* from 0 on that its frame has room for, and are referred to from this    *)
(* function only; if there is no constant outside of functions that a      *)
(* function with variables comes after, or that a name refers to: the      *)
(* counter of index_node (tree/analyze.c:249) is that of the functions.    *)
THEOREM VariablesKeepToTheirFrames ==
  ASSUME \A t \in Sources : FlatFunctions(t)
  PROVE  Spec => [](GlobalsApart => SlotsOfFrame)
<1>1. Init => FlatFunctions(tree) /\ LinkInv /\ SlotsInv
  BY InitLinks, InitSlots DEF Init
<1>2. WalkInv /\ FlatFunctions(tree) /\ LinkInv /\ SlotsInv /\ [Next]_vars
        => (FlatFunctions(tree) /\ LinkInv /\ SlotsInv)'
  BY NextLinks, NextSlots
<1>3. WalkInv /\ FlatFunctions(tree) /\ LinkInv /\ SlotsInv => (GlobalsApart => SlotsOfFrame)
  BY SlotsRight
<1> QED
  BY <1>1, <1>2, <1>3, WalkAlways, PTL DEF Spec

------------------------------------------------------------------------------
(* What is loaded.  Every module in the list is one that any closed set of *)
(* modules has; and the imports that have been handled are linked to the   *)
(* module of their file, which is in the list.                             *)

FileOf(file) == Reference!ModuleAt(tree, file)
ModuleSet(list) == {list[i] : i \in DOMAIN list}

Needed(list) ==
  \A set \in SUBSET Reference!Modules(tree) :
    Reference!Closed(tree, set) => ModuleSet(list) \subseteq set

(* The imports that import_module has been called for. *)
Handled(n) ==
  \E i \in 1 .. Len(modules) :
    /\ modules[i] = tree[n].root
    /\ phase = "import" => i < module \/ (i = module /\ n <= cursor)

Loading(links, list, n) ==
  /\ links[n] = FileOf(tree[n].path)
  /\ FileOf(tree[n].path) \in ModuleSet(list) \union {NoNode}

LoadInv ==
  /\ Needed(modules)
  /\ \A n \in Node : Kind(n) = "Import" =>
       /\ FileOf(tree[n].path) = NoNode => module_link[n] = NoNode
       /\ Handled(n) => Loading(module_link, modules, n)

LEMMA ModuleOfFile ==
  ASSUME Sound, NEW file
  PROVE  /\ File(file) = {} => FileOf(file) = NoNode
         /\ File(file) # {} =>
              /\ FileOf(file) = First(File(file))
              /\ FileOf(file) \in Node /\ FileOf(file) # NoNode
         /\ \A m \in Node : Kind(m) = "Module" /\ tree[m].path = file => FileOf(file) = m
<1>1. File(file) = {m \in Reference!Modules(tree) : tree[m].path = file}
  BY KidFacts DEF File, Reference!Modules, Node
<1>2. PICK found : found = File(file)
  OBVIOUS
<1>3. FileOf(file) = IF found = {} THEN NoNode ELSE CHOOSE m \in found : TRUE
  BY <1>1, <1>2 DEF FileOf, Reference!ModuleAt
<1>4. \A m, n \in found : m = n
  BY <1>2, MainFacts DEF File
<1>5. found # {} => First(found) \in found
  BY <1>2, FileFacts
<1>6. found # {} => FileOf(file) \in found
  BY <1>3
<1>7. \A m \in found : m \in Node /\ m # NoNode
  BY <1>2 DEF File, Sound
<1>8. \A m \in Node : Kind(m) = "Module" /\ tree[m].path = file => m \in found
  BY <1>2 DEF File
<1> QED
  BY <1>2, <1>3, <1>4, <1>5, <1>6, <1>7, <1>8

LEMMA ModuleFacts ==
  ASSUME Sound
  PROVE  /\ \A m \in Node : Kind(m) = "Module" <=> m \in Reference!Modules(tree)
         /\ Main = FileOf("main") /\ Main # NoNode
<1>1. \A m \in Node : Kind(m) = "Module" <=> m \in Reference!Modules(tree)
  BY KidFacts DEF Reference!Modules, Node
<1>2. Main \in Node /\ Kind(Main) = "Module" /\ tree[Main].path = "main"
  BY MainFacts
<1>3. Main = FileOf("main")
  BY <1>2, ModuleOfFile
<1> QED
  BY <1>1, <1>2, <1>3 DEF Sound

LEMMA InitLoad ==
  ASSUME WalkInv, Init
  PROVE  LoadInv
<1>1. Sound
  BY StateFacts
<1>2. /\ modules = <<Main>> /\ module_link = [n \in Node |-> NoNode]
      /\ phase = "import" /\ module = 1 /\ cursor = 0
  BY DEF Init
<1>3. ModuleSet(modules) = {Main} /\ Len(modules) = 1
  BY <1>2 DEF ModuleSet
<1>4. Needed(modules)
  <2>1. Main = Reference!ModuleAt(tree, "main")
    BY <1>1, ModuleFacts DEF FileOf
  <2> QED
    BY <1>3, <2>1 DEF Needed, Reference!Closed
<1>5. ASSUME NEW n \in Node
      PROVE  module_link[n] = NoNode /\ ~Handled(n)
  <2>1. n \in Nat /\ n # 0
    BY <1>1, KidFacts DEF Node
  <2> QED
    BY <1>2, <1>3, <2>1 DEF Handled
<1> QED
  BY <1>4, <1>5 DEF LoadInv

LEMMA ImportLoad ==
  ASSUME WalkInv, LoadInv, ResolveImport
  PROVE  LoadInv'
<1>1. Sound /\ ModulesInv /\ Typed /\ Root \in Node /\ Kind(Root) = "Module"
  BY StateFacts DEF WalkInv
<1>2. PICK n : n = First(Ahead("Import"))
  OBVIOUS
<1>3. /\ n \in Node /\ tree[n].root = Root /\ Kind(n) = "Import"
      /\ \A m \in Ahead("Import") : n <= m
  BY <1>1, <1>2, AheadFacts DEF ResolveImport, Ahead
<1>4. tree' = tree /\ module' = module /\ phase' = phase /\ phase = "import" /\ cursor' = n
  BY <1>2 DEF ResolveImport
<1>5. ImportModule(n)
  BY <1>2 DEF ResolveImport
<1>6. PICK file : file = tree[n].path
  OBVIOUS
<1>7. PICK new : new = FileOf(file)
  OBVIOUS
<1>8. /\ Node' = Node /\ \A m : Kind(m)' = Kind(m)
      /\ \A f : FileOf(f)' = FileOf(f)
  BY <1>4 DEF Node, Kind, FileOf
<1>9. /\ new = NoNode => modules' = modules /\ module_link' = module_link
      /\ new # NoNode =>
           /\ modules' = IF Loaded(file) THEN modules ELSE Append(modules, new)
           /\ module_link' = [module_link EXCEPT ![n] = new]
  <2>1. CASE File(file) = {}
    <3>1. new = NoNode
      BY <1>1, <1>7, <2>1, ModuleOfFile
    <3> QED
      BY <1>5, <1>6, <2>1, <3>1 DEF ImportModule
  <2>2. CASE File(file) # {}
    <3>1. new = First(File(file)) /\ new # NoNode
      BY <1>1, <1>7, <2>2, ModuleOfFile
    <3> QED
      BY <1>5, <1>6, <2>2, <3>1 DEF ImportModule
  <2> QED
    BY <2>1, <2>2
<1>10. new # NoNode => new \in Node
  BY <1>1, <1>7, ModuleOfFile
<1>11. PICK ms : ms = modules'
  OBVIOUS
<1>12. PICK l : l = Len(modules)
  OBVIOUS
<1>13. /\ l \in Nat /\ modules \in Seq(Node) /\ DOMAIN modules = 1 .. l
       /\ module \in 1 .. l
  BY <1>1, <1>12 DEF ModulesInv
<1>14. /\ ModuleSet(ms) \subseteq ModuleSet(modules) \union ({new} \ {NoNode})
       /\ ModuleSet(modules) \subseteq ModuleSet(ms)
       /\ new \in ModuleSet(ms) \union {NoNode}
       /\ Len(ms) >= l /\ Len(ms) \in Nat /\ DOMAIN ms = 1 .. Len(ms)
       /\ \A i \in 1 .. l : ms[i] = modules[i]
       /\ Len(ms) # l => Len(ms) = l + 1 /\ new # NoNode
  <2>1. CASE new = NoNode
    BY <1>9, <1>11, <1>12, <1>13, <2>1
  <2>2. CASE new # NoNode /\ Loaded(file)
    <3>1. PICK i \in 1 .. l : tree[modules[i]].path = file
      BY <1>12, <2>2 DEF Loaded
    <3>2. modules[i] \in Node /\ Kind(modules[i]) = "Module"
      BY <1>1, <1>12, <1>13 DEF ModulesInv
    <3>3. modules[i] = new
      BY <1>1, <1>7, <3>1, <3>2, ModuleOfFile
    <3>4. ms = modules
      BY <1>9, <1>11, <2>2
    <3>5. new \in ModuleSet(ms)
      BY <1>13, <3>3, <3>4 DEF ModuleSet
    <3> QED
      BY <1>12, <1>13, <3>4, <3>5
  <2>3. CASE new # NoNode /\ ~Loaded(file)
    <3>1. Extends(ms, modules, new, Node)
      BY <1>9, <1>10, <1>11, <1>13, <2>3, Extend
    <3>2. /\ ms \in Seq(Node) /\ Len(ms) = l + 1 /\ ms[l + 1] = new
          /\ \A i \in 1 .. l : ms[i] = modules[i]
      BY <1>12, <3>1 DEF Extends
    <3>3. DOMAIN ms = 1 .. l + 1 /\ l + 1 \in DOMAIN ms
      BY <1>13, <3>2
    <3>4. \A i \in 1 .. l + 1 : i = l + 1 \/ i \in 1 .. l
      BY <1>13
    <3>5. \A i \in 1 .. l : i \in 1 .. l + 1
      BY <1>13
    <3>6. ModuleSet(ms) \subseteq ModuleSet(modules) \union {new}
      BY <1>13, <3>2, <3>3, <3>4 DEF ModuleSet
    <3>7. ModuleSet(modules) \subseteq ModuleSet(ms)
      BY <1>13, <3>2, <3>3, <3>5 DEF ModuleSet
    <3>8. new \in ModuleSet(ms)
      BY <3>2, <3>3 DEF ModuleSet
    <3> QED
      BY <1>13, <2>3, <3>2, <3>3, <3>6, <3>7, <3>8
  <2> QED
    BY <2>1, <2>2, <2>3
<1>15. Needed(ms)
  <2>1. SUFFICES ASSUME NEW set \in SUBSET Reference!Modules(tree),
                        Reference!Closed(tree, set)
                 PROVE  ModuleSet(ms) \subseteq set
    BY DEF Needed
  <2>2. ModuleSet(modules) \subseteq set
    BY <2>1 DEF LoadInv, Needed
  <2>3. Root \in set
    BY <1>13, <2>2 DEF Root, ModuleSet
  <2>4. n \in 1 .. Len(tree) /\ tree[n].kind = "Import"
    BY <1>1, <1>3, KidFacts DEF Node
  <2>5. new \in set \union {NoNode}
    BY <1>3, <1>6, <1>7, <2>1, <2>3, <2>4 DEF Reference!Closed, FileOf
  <2> QED
    BY <1>14, <2>2, <2>5
<1>16. ASSUME NEW m \in Node, Kind(m) = "Import"
       PROVE  /\ FileOf(tree[m].path) = NoNode => module_link'[m] = NoNode
              /\ Handled(m)' => Loading(module_link', ms, m)
  <2>1. /\ FileOf(tree[m].path) = NoNode => module_link[m] = NoNode
        /\ Handled(m) => Loading(module_link, modules, m)
    BY <1>16 DEF LoadInv
  <2>2. CASE m = n
    <3>1. module_link[n] = NoNode \/ new # NoNode
      BY <1>6, <1>7, <2>1, <2>2
    <3>2. module_link'[n] = new
      BY <1>1, <1>3, <1>9, <3>1 DEF Typed
    <3> QED
      BY <1>6, <1>7, <1>14, <2>2, <3>2 DEF Loading
  <2>3. CASE m # n
    <3>1. module_link'[m] = module_link[m]
      BY <1>1, <1>9, <2>3 DEF Typed
    <3>2. ASSUME Handled(m)'
          PROVE  Handled(m)
      <4>1. PICK i \in 1 .. Len(ms) :
              /\ ms[i] = tree[m].root
              /\ i < module \/ (i = module /\ m <= n)
        BY <1>4, <1>11, <3>2 DEF Handled
      <4>2. i \in 1 .. l /\ modules[i] = tree[m].root
        <5>1. i \in 1 .. l
          <6>1. Len(ms) \in Nat /\ l \in Nat /\ module \in 1 .. l
            BY <1>13, <1>14
          <6>2. i \in Nat /\ i >= 1 /\ module \in Nat /\ module <= l
            BY <6>1
          <6>3. i <= module
            BY <4>1, <6>2
          <6> QED
            BY <1>13, <6>2, <6>3
        <5> QED
          BY <1>14, <4>1, <5>1
      <4>3. m <= n => m <= cursor \/ modules[i] # Root
        <5>1. SUFFICES ASSUME m <= n, ~(m <= cursor), modules[i] = Root
                       PROVE  FALSE
          OBVIOUS
        <5>2. m \in Nat /\ n \in Nat /\ cursor \in Nat
          BY <1>1, <1>3, KidFacts, StateFacts
        <5>3. m \in Ahead("Import")
          <6>1. tree[m].root = Root /\ m > cursor
            BY <4>2, <5>1, <5>2
          <6> QED
            BY <1>16, <6>1 DEF Ahead
        <5>4. n <= m
          BY <1>3, <5>3
        <5> QED
          BY <2>3, <5>1, <5>2, <5>4
      <4>4. i = module => modules[i] = Root
        BY DEF Root
      <4> QED
        BY <1>12, <4>1, <4>2, <4>3, <4>4 DEF Handled
    <3> QED
      BY <1>14, <2>1, <3>1, <3>2 DEF Loading
  <2> QED
    BY <2>2, <2>3
<1>17. Needed(modules)'
  BY <1>4, <1>11, <1>15 DEF Needed, ModuleSet
<1>18. ASSUME NEW m \in Node, Loading(module_link', ms, m)
       PROVE  Loading(module_link, modules, m)'
  BY <1>4, <1>8, <1>11, <1>18 DEF Loading, ModuleSet
<1> QED
  BY <1>4, <1>8, <1>16, <1>17, <1>18 DEF LoadInv

(* The other steps leave the modules and their links alone. *)
LEMMA SameLoad ==
  ASSUME LoadInv, UNCHANGED sourceVars,
         \A n \in Node : Kind(n) = "Import" /\ Handled(n)' => Handled(n)
  PROVE  LoadInv'
<1>1. tree' = tree /\ modules' = modules /\ module_link' = module_link
  BY DEF sourceVars
<1>2. /\ Node' = Node /\ \A m : Kind(m)' = Kind(m)
      /\ \A f : FileOf(f)' = FileOf(f)
  BY <1>1 DEF Node, Kind, FileOf
<1>3. Needed(modules)'
  BY <1>1 DEF LoadInv, Needed, ModuleSet
<1>4. ASSUME NEW n, Loading(module_link, modules, n)
      PROVE  Loading(module_link, modules, n)'
  BY <1>1, <1>2, <1>4 DEF Loading, ModuleSet
<1> QED
  BY <1>1, <1>2, <1>3, <1>4 DEF LoadInv

LEMMA OnwardLoad ==
  ASSUME WalkInv, LoadInv, ModuleDone, UNCHANGED sourceVars,
         \/ phase' = phase /\ module' = module + 1 /\ cursor' = 0
         \/ module = Len(modules) /\ phase' # "import"
  PROVE  LoadInv'
<1>1. phase = "import" => Ahead("Import") = {}
  BY DoneFacts
<1>2. Sound /\ ModulesInv
  BY StateFacts DEF WalkInv
<1>3. tree' = tree /\ modules' = modules
  BY DEF sourceVars
<1>4. module \in Nat /\ module \in 1 .. Len(modules) /\ Len(modules) \in Nat
  BY <1>2 DEF ModulesInv
<1>5. ASSUME NEW n \in Node, Kind(n) = "Import", Handled(n)'
      PROVE  Handled(n)
  <2>1. PICK i \in 1 .. Len(modules) :
          /\ modules[i] = tree[n].root
          /\ phase' = "import" => i < module' \/ (i = module' /\ n <= cursor')
    BY <1>3, <1>5 DEF Handled
  <2>2. n \in Nat /\ n \in 1 .. Len(tree) /\ Len(tree) \in Nat /\ cursor \in Nat
    BY <1>2, KidFacts, StateFacts DEF Node
  <2>3. ASSUME phase = "import"
        PROVE  i <= module
    <3>1. CASE phase' = phase /\ module' = module + 1 /\ cursor' = 0
      <4>1. i < module + 1 \/ (i = module + 1 /\ n <= 0)
        BY <2>1, <2>3, <3>1
      <4> QED
        BY <1>4, <2>2, <4>1
    <3>2. CASE module = Len(modules)
      BY <1>4, <3>2
    <3> QED
      BY <3>1, <3>2
  <2>4. ASSUME phase = "import", i = module
        PROVE  n <= cursor
    <3>1. tree[n].root = Root
      BY <2>1, <2>4 DEF Root
    <3>2. ~(n > cursor)
      BY <1>1, <1>2, <1>5, <2>4, <3>1 DEF Ahead
    <3> QED
      BY <2>2, <3>2
  <2>5. phase = "import" => i < module \/ (i = module /\ n <= cursor)
    BY <1>4, <2>3, <2>4
  <2> QED
    BY <2>1, <2>5 DEF Handled
<1> QED
  BY <1>5, SameLoad

LEMMA NextLoad ==
  ASSUME WalkInv, LoadInv, [Next]_vars
  PROVE  LoadInv'
<1>1. CASE ResolveImport
  BY <1>1, ImportLoad
<1>2. CASE NextModule
  BY <1>2, OnwardLoad DEF NextModule
<1>3. CASE FinishImport \/ FinishFirst \/ FinishSecond \/ FinishGenerate
  <2>1. AllDone /\ \E next : Begin(next) /\ next # "import"
    BY <1>3 DEF FinishImport, FinishFirst, FinishSecond, FinishGenerate
  <2> QED
    BY <2>1, OnwardLoad DEF AllDone, Begin
<1>4. CASE Enter \/ LeaveFirst \/ LeaveSecond \/ LeaveInPanic \/ Register
  <2>1. UNCHANGED sourceVars /\ phase # "import" /\ phase' # "import"
    BY <1>4 DEF Enter, LeaveFirst, LeaveSecond, LeaveInPanic, Register
  <2>2. \A n \in Node : Handled(n)' => Handled(n)
    BY <2>1 DEF Handled, sourceVars
  <2> QED
    BY <2>1, <2>2, SameLoad
<1>5. CASE UNCHANGED vars
  <2>1. /\ UNCHANGED sourceVars /\ tree' = tree /\ modules' = modules
        /\ phase' = phase /\ module' = module /\ cursor' = cursor
    BY <1>5 DEF vars, sourceVars, walkVars
  <2>2. \A n \in Node : Handled(n)' => Handled(n)
    BY <2>1 DEF Handled
  <2> QED
    BY <2>1, <2>2, SameLoad
<1> QED
  BY <1>1, <1>2, <1>3, <1>4, <1>5 DEF Next, Proceed, Stopped

(* When every import has been handled, the list is closed, and so it is    *)
(* the least closed set.                                                   *)
LEMMA AllLoaded ==
  ASSUME WalkInv, LoadInv
  PROVE  ModulesLoaded
<1>1. SUFFICES ASSUME phase # "import"
               PROVE  /\ ModuleSet(modules) = Reference!Belonging(tree)
                      /\ Len(modules) = Cardinality(ModuleSet(modules))
                      /\ \A n \in Node : Belongs(n) /\ Kind(n) = "Import"
                           => module_link[n] = Reference!ModuleAt(tree, tree[n].path)
  BY DEF ModulesLoaded, ModuleSet
<1>2. Sound /\ ModulesInv
  BY StateFacts DEF WalkInv
<1>3. PICK S : S = ModuleSet(modules)
  OBVIOUS
<1>4. PICK l : l = Len(modules)
  OBVIOUS
<1>5. l \in Nat /\ modules \in Seq(Node) /\ DOMAIN modules = 1 .. l /\ 1 \in 1 .. l
  BY <1>2, <1>4 DEF ModulesInv
<1>6. ASSUME NEW n \in Node, Kind(n) = "Import", tree[n].root \in S
      PROVE  Loading(module_link, modules, n)
  <2>1. Handled(n)
    BY <1>1, <1>3, <1>4, <1>5, <1>6 DEF Handled, ModuleSet
  <2> QED
    BY <1>6, <2>1 DEF LoadInv
<1>7. S \in SUBSET Reference!Modules(tree)
  <2>1. \A i \in 1 .. l : modules[i] \in Node /\ Kind(modules[i]) = "Module"
    BY <1>2, <1>4, <1>5 DEF ModulesInv
  <2> QED
    BY <1>2, <1>3, <1>5, <2>1, ModuleFacts DEF ModuleSet
<1>8. Reference!Closed(tree, S)
  <2>1. modules[1] = Main
    BY <1>2 DEF ModulesInv
  <2>2. Reference!ModuleAt(tree, "main") \in S
    BY <1>2, <1>3, <1>5, <2>1, ModuleFacts DEF ModuleSet, FileOf
  <2>3. ASSUME NEW n \in 1 .. Len(tree), tree[n].kind = "Import", tree[n].root \in S
        PROVE  Reference!ModuleAt(tree, tree[n].path) \in S \union {NoNode}
    <3>1. n \in Node /\ Kind(n) = "Import"
      BY <1>2, <2>3, KidFacts DEF Node
    <3> QED
      BY <1>3, <1>6, <2>3, <3>1 DEF Loading, FileOf
  <2> QED
    BY <2>2, <2>3 DEF Reference!Closed
<1>9. Reference!Belonging(tree) = S
  <2>1. PICK closed :
          closed = {set \in SUBSET Reference!Modules(tree) : Reference!Closed(tree, set)}
    OBVIOUS
  <2>2. S \in closed
    BY <1>7, <1>8, <2>1
  <2>3. \A other \in closed : S \subseteq other
    BY <1>3, <2>1 DEF LoadInv, Needed
  <2>4. PICK c : c = CHOOSE set \in closed : \A other \in closed : set \subseteq other
    OBVIOUS
  <2>5. c \in closed /\ \A other \in closed : c \subseteq other
    BY <2>2, <2>3, <2>4
  <2>6. c = S
    BY <2>2, <2>3, <2>5
  <2> QED
    BY <2>1, <2>4, <2>6 DEF Reference!Belonging
<1>10. Len(modules) = Cardinality(S)
  <2>1. PICK f : f = [i \in 1 .. l |-> modules[i]]
    OBVIOUS
  <2>2. S = {modules[i] : i \in 1 .. l}
    BY <1>3, <1>5 DEF ModuleSet
  <2>3. \A i, j \in 1 .. l : modules[i] = modules[j] => i = j
    BY <1>2, <1>4 DEF ModulesInv
  <2>4. f \in Bijection(1 .. l, S)
    BY <2>1, <2>2, <2>3 DEF Bijection, Injection, Surjection, IsInjective
  <2>5. ExistsBijection(1 .. l, S)
    BY <2>4 DEF ExistsBijection
  <2>6. IsFiniteSet(1 .. l) /\ Cardinality(1 .. l) = l
    BY <1>5, FS_Interval
  <2> QED
    BY <1>4, <2>5, <2>6, FS_Bijection
<1>11. ASSUME NEW n \in Node, Belongs(n), Kind(n) = "Import"
       PROVE  module_link[n] = Reference!ModuleAt(tree, tree[n].path)
  <2>1. tree[n].root \in S
    BY <1>3, <1>4, <1>5, <1>11 DEF Belongs, ModuleSet
  <2> QED
    BY <1>6, <1>11, <2>1 DEF Loading, FileOf
<1> QED
  BY <1>3, <1>9, <1>10, <1>11

(* For any trees a parser may leave: when the imports have been resolved,  *)
(* the list of modules holds each module that the program needs, directly  *)
(* or through others, once, and no other, whoever imports whom in a circle *)
(* or from a file that is not there, and every import is linked to the     *)
(* module of its file (import.c:40-75).                                    *)
THEOREM WhatIsNeededIsLoaded == Spec => []ModulesLoaded
<1>1. Init => LoadInv
  BY InitWalk, InitLoad
<1>2. WalkInv /\ LoadInv /\ [Next]_vars => LoadInv'
  BY NextLoad
<1>3. WalkInv /\ LoadInv => ModulesLoaded
  BY AllLoaded
<1> QED
  BY <1>1, <1>2, <1>3, WalkAlways, PTL DEF Spec

=============================================================================
