----------------------------- MODULE TreeProofs -----------------------------
(***************************************************************************)
(* Who owns the nodes of the parser, for every source text: each one is    *)
(* below exactly one node that a frame or the answer holds, so that what   *)
(* is not in the tree at the end has been freed, and nothing twice.        *)
(***************************************************************************)
EXTENDS ParserProofs

\* The nodes a frame has hold of, and those of all frames but the last.
Own(f) == {f.node, f.held} \ {Null}
All(fs) == UNION {Own(fs[i]) : i \in 1 .. Len(fs)}
Rest(fs) == UNION {Own(fs[i]) : i \in 1 .. Len(fs) - 1}

\* A frame that holds no node twice, and none of S; frames that share none.
OwnApart(f, S) == (f.node # Null => f.node # f.held) /\ Own(f) \cap S = {}
Apart(fs) ==
    /\ \A i \in 1 .. Len(fs) : fs[i].node # Null => fs[i].node # fs[i].held
    /\ \A i, j \in 1 .. Len(fs) : i < j => Own(fs[i]) \cap Own(fs[j]) = {}

IsNode(r) == DOMAIN r = {"kind", "text", "note", "link", "kids", "below"}

\* The roots R own the nodes of the heap, each node once.
Forest(h, R) ==
    /\ h = [n \in DOMAIN h |-> h[n]]
    /\ \A n \in DOMAIN h : n # Null /\ IsNode(h[n]) /\ n \in h[n].below
    /\ R \subseteq DOMAIN h
    /\ \A x, y \in R : x # y => h[x].below \cap h[y].below = {}
    /\ \A x \in R : h[x].below \subseteq DOMAIN h
    /\ \A n \in DOMAIN h : \E x \in R : n \in h[x].below
    /\ \A x \in R : \A m \in h[x].below : h[m].below \subseteq h[x].below

\* The node of a frame is of a kind whose fields, still to be set, are those
\* that a traversal visits.
KindFits(h, f) ==
    /\ InStep(f) =>
          \A j \in f.at .. Len(StepsOf(f.rule)) : \A field \in Fills(StepsOf(f.rule)[j]) :
              f.node # Null /\ IsTraversed(h[f.node].kind, field)
    /\ f.phase \in {"item", "append"} =>
          f.node # Null /\ IsTraversed(h[f.node].kind, "element")
    /\ f.phase \in {"slices", "slice"} => f.node # Null /\ h[f.node].kind = "FString"
    /\ f.phase = "slice" => f.held # Null /\ h[f.held].kind = "FStringExpression"

TreeInv ==
    /\ Forest(heap, All(frames) \cup ({answer} \ {Null}))
    /\ Apart(frames) /\ answer \notin All(frames)
    /\ DOMAIN heap \subseteq 1 .. created
    /\ \A i \in 1 .. Len(frames) : KindFits(heap, frames[i])

-----------------------------------------------------------------------------
(* What the operations on nodes make of a forest: a new node is a root of  *)
(* its own, *)
LEMMA CreateForest ==
    ASSUME NEW h, NEW R, Forest(h, R), NEW id, id \notin DOMAIN h, id # Null,
           NEW kind, NEW text
    PROVE  LET g == Create(h, id, kind, text)
           IN  /\ Forest(g, R \cup {id}) /\ DOMAIN g = DOMAIN h \cup {id}
               /\ \A n \in DOMAIN h : g[n] = h[n]
               /\ g[id].kind = kind /\ IsNode(g[id])
PROOF
<1>. DEFINE g == Create(h, id, kind, text)
<1>1. /\ DOMAIN g = DOMAIN h \cup {id} /\ g[id] = Fresh(id, kind, text)
      /\ \A n \in DOMAIN h : g[n] = h[n]
      /\ g = [n \in DOMAIN g |-> g[n]]
    BY DEF Create
<1>. HIDE DEF g
<1>2. IsNode(Fresh(id, kind, text)) /\ Fresh(id, kind, text).below = {id}
      /\ Fresh(id, kind, text).kind = kind
    BY DEF Fresh, IsNode
<1>3. \A n \in DOMAIN g : n # Null /\ IsNode(g[n]) /\ n \in g[n].below
    BY <1>1, <1>2 DEF Forest
<1>4. \A x \in R : x \in DOMAIN h /\ x # id /\ g[x].below = h[x].below /\ id \notin g[x].below
    BY <1>1 DEF Forest
<1>5. \A x, y \in R \cup {id} : x # y => g[x].below \cap g[y].below = {}
    BY <1>1, <1>2, <1>4 DEF Forest
<1>6. /\ \A x \in R \cup {id} : g[x].below \subseteq DOMAIN g
      /\ \A n \in DOMAIN g : \E x \in R \cup {id} : n \in g[x].below
    BY <1>1, <1>2, <1>4 DEF Forest
<1>7. \A x \in R \cup {id} : \A m \in g[x].below : g[m].below \subseteq g[x].below
  <2>1. \A x \in R : \A m \in g[x].below : m \in DOMAIN h /\ g[m].below \subseteq g[x].below
      BY <1>1, <1>4 DEF Forest
  <2>. QED
      BY <1>1, <1>2, <2>1
<1>8. R \cup {id} \subseteq DOMAIN g
    BY <1>1 DEF Forest
<1>. QED
    BY <1>1, <1>2, <1>3, <1>5, <1>6, <1>7, <1>8 DEF Forest, g

(* setting a field that is traversed puts one root below another one, *)
LEMMA AttachForest ==
    ASSUME NEW h, NEW R, Forest(h, R), NEW node \in R, NEW kid \in R, node # kid,
           NEW field, IsTraversed(h[node].kind, field)
    PROVE  LET g == Attach(h, node, field, kid)
           IN  /\ Forest(g, R \ {kid}) /\ DOMAIN g = DOMAIN h
               /\ \A n \in DOMAIN h : g[n].kind = h[n].kind
               /\ \A n \in DOMAIN h \ {node} : g[n] = h[n]
PROOF
<1>. DEFINE g == Attach(h, node, field, kid)
            e == [h[node] EXCEPT !.kids = Append(@, [field |-> field, node |-> kid]),
                                 !.below = @ \cup h[kid].below]
<1>1. kid # Null /\ node \in DOMAIN h /\ kid \in DOMAIN h /\ IsNode(h[node])
    BY DEF Forest
<1>2. g = [h EXCEPT ![node] = e]
    BY <1>1 DEF Attach
<1>3. IsNode(e) /\ e.kind = h[node].kind /\ e.below = h[node].below \cup h[kid].below
    BY <1>1 DEF IsNode
<1>. HIDE DEF e
<1>4. /\ DOMAIN g = DOMAIN h /\ g[node] = e /\ \A n \in DOMAIN h \ {node} : g[n] = h[n]
      /\ g = [n \in DOMAIN g |-> g[n]]
    BY <1>1, <1>2
<1>. HIDE DEF g
<1>5. \A n \in DOMAIN g : n # Null /\ IsNode(g[n]) /\ n \in g[n].below
    BY <1>3, <1>4 DEF Forest
<1>6. \A x \in R : x \in DOMAIN h /\ x \in h[x].below
    BY DEF Forest
<1>7. /\ g[node].below = h[node].below \cup h[kid].below
      /\ \A x \in R \ {kid, node} : g[x].below = h[x].below
    BY <1>3, <1>4, <1>6
<1>8. \A x, y \in R \ {kid} : x # y => g[x].below \cap g[y].below = {}
  <2>1. \A x \in R \ {kid, node} : g[x].below \cap g[node].below = {}
      BY <1>7 DEF Forest
  <2>2. \A x, y \in R \ {kid, node} : x # y => g[x].below \cap g[y].below = {}
      BY <1>7 DEF Forest
  <2>. QED
      BY <2>1, <2>2
<1>9. /\ \A x \in R \ {kid} : g[x].below \subseteq DOMAIN g
      /\ \A n \in DOMAIN g : \E x \in R \ {kid} : n \in g[x].below
  <2>1. \A n \in DOMAIN h : \E x \in R : n \in h[x].below
      BY DEF Forest
  <2>2. \A n \in DOMAIN h : \E x \in R \ {kid} : n \in g[x].below
      BY <1>7, <2>1
  <2>3. \A x \in R : h[x].below \subseteq DOMAIN h
      BY DEF Forest
  <2>4. \A x \in R \ {kid} : g[x].below \subseteq DOMAIN h
      BY <1>7, <2>3
  <2>. QED
      BY <1>4, <2>2, <2>4
<1>10. \A x \in R \ {kid} : \A m \in g[x].below : g[m].below \subseteq g[x].below
  <2>1. \A x \in R : \A m \in h[x].below : m \in DOMAIN h /\ h[m].below \subseteq h[x].below
      BY DEF Forest
  <2>2. \A x \in R \ {kid, node} : node \notin h[x].below
      BY <1>6 DEF Forest
  <2>3. \A x \in R \ {kid, node} : \A m \in g[x].below : g[m].below \subseteq g[x].below
      BY <1>4, <1>7, <2>1, <2>2
  <2>4. \A m \in g[node].below : g[m].below \subseteq g[node].below
    <3>1. SUFFICES ASSUME NEW m \in g[node].below PROVE g[m].below \subseteq g[node].below
        OBVIOUS
    <3>2. CASE m = node
        BY <3>2
    <3>3. CASE m # node
      <4>1. m \in h[node].below \/ m \in h[kid].below
          BY <1>7
      <4>2. m \in DOMAIN h /\ (h[m].below \subseteq h[node].below \/ h[m].below \subseteq h[kid].below)
          BY <2>1, <4>1
      <4>. QED
          BY <1>4, <1>7, <3>3, <4>2
    <3>. QED
        BY <3>2, <3>3
  <2>. QED
      BY <2>3, <2>4
<1>11. R \ {kid} \subseteq DOMAIN g
    BY <1>4, <1>6
<1>12. \A n \in DOMAIN h : g[n].kind = h[n].kind
    BY <1>3, <1>4
<1>. QED
    BY <1>4, <1>5, <1>8, <1>9, <1>10, <1>11, <1>12 DEF Forest, g

(* freeing a root frees what is below it and nothing else, *)
LEMMA FreeForest ==
    ASSUME NEW h, NEW R, Forest(h, R), NEW node \in R
    PROVE  LET g == Free(h, node)
           IN  /\ Forest(g, R \ {node}) /\ DOMAIN g = DOMAIN h \ h[node].below
               /\ \A n \in DOMAIN g : g[n] = h[n]
PROOF
<1>. DEFINE g == Free(h, node)
<1>1. /\ DOMAIN g = DOMAIN h \ h[node].below /\ \A n \in DOMAIN g : g[n] = h[n]
      /\ g = [n \in DOMAIN g |-> g[n]]
    BY DEF Free
<1>. HIDE DEF g
<1>2. \A x \in R : x \in DOMAIN h /\ x \in h[x].below /\ h[x].below \subseteq DOMAIN h
    BY DEF Forest
<1>3. \A x \in R \ {node} : h[x].below \cap h[node].below = {}
    BY DEF Forest
<1>4. \A x \in R \ {node} : x \in DOMAIN g /\ g[x].below = h[x].below /\ g[x].below \subseteq DOMAIN g
    BY <1>1, <1>2, <1>3
<1>5. \A n \in DOMAIN g : n # Null /\ IsNode(g[n]) /\ n \in g[n].below
    BY <1>1 DEF Forest
<1>6. \A x, y \in R \ {node} : x # y => g[x].below \cap g[y].below = {}
    BY <1>4 DEF Forest
<1>7. /\ \A x \in R \ {node} : g[x].below \subseteq DOMAIN g
      /\ \A n \in DOMAIN g : \E x \in R \ {node} : n \in g[x].below
  <2>1. \A n \in DOMAIN g : \E x \in R \ {node} : n \in h[x].below
      BY <1>1 DEF Forest
  <2>. QED
      BY <1>4, <2>1
<1>8. \A x \in R \ {node} : \A m \in g[x].below : g[m].below \subseteq g[x].below
    BY <1>1, <1>4 DEF Forest
<1>. QED
    BY <1>1, <1>4, <1>5, <1>6, <1>7, <1>8 DEF Forest, g

(* and a change of texts, links and kids is no change of the forest. *)
LEMMA EditForest ==
    ASSUME NEW h, NEW R, Forest(h, R), NEW g, DOMAIN g = DOMAIN h,
           g = [n \in DOMAIN g |-> g[n]],
           \A n \in DOMAIN h : IsNode(g[n]) /\ g[n].below = h[n].below
    PROVE  Forest(g, R)
PROOF
<1>1. \A x \in R : x \in DOMAIN h /\ \A m \in h[x].below : m \in DOMAIN h
    BY DEF Forest
<1>2. /\ \A x \in R : g[x].below \subseteq DOMAIN g
      /\ \A n \in DOMAIN g : \E x \in R : n \in g[x].below
    BY <1>1 DEF Forest
<1>3. \A x \in R : \A m \in g[x].below : g[m].below \subseteq g[x].below
    BY <1>1 DEF Forest
<1>4. \A x, y \in R : x # y => g[x].below \cap g[y].below = {}
    BY <1>1 DEF Forest
<1>5. \A n \in DOMAIN g : n # Null /\ IsNode(g[n]) /\ n \in g[n].below
    BY DEF Forest
<1>6. R \subseteq DOMAIN g
    BY <1>1
<1>. QED
    BY <1>2, <1>3, <1>4, <1>5, <1>6 DEF Forest

\* g has the root m besides those of h.
Doubles(h, g, R, m, last) ==
    /\ Forest(g, R \cup {m}) /\ DOMAIN g \subseteq 1 .. last
    /\ \A n \in DOMAIN h : g[n] = h[n]
    /\ m \notin DOMAIN h

(* A copy is a root that shares no node with what there was. *)
LEMMA CopyForest ==
    ASSUME NEW h, NEW R, Forest(h, R), NEW node \in R, NEW shift \in Nat,
           DOMAIN h \subseteq 1 .. shift
    PROVE  Doubles(h, Copy(h, node, shift), R, node + shift, 2 * shift)
PROOF
<1>. DEFINE g == Copy(h, node, shift)
            below == h[node].below
            copies == {b + shift : b \in below}
            Moved(k, kind) == IF IsTraversed(kind, k.field)
                              THEN [k EXCEPT !.node = @ + shift] ELSE k
            Copied(n) == [h[n] EXCEPT
                            !.below = {b + shift : b \in @},
                            !.kids = [i \in DOMAIN @ |-> Moved(@[i], h[n].kind)]]
<1>1. /\ node \in DOMAIN h /\ node \in below /\ below \subseteq DOMAIN h
      /\ \A m \in below : h[m].below \subseteq below
    BY DEF Forest
<1>2. /\ DOMAIN g = DOMAIN h \cup copies
      /\ \A n \in DOMAIN h \cup copies : g[n] = IF n \in copies THEN Copied(n - shift) ELSE h[n]
      /\ g = [n \in DOMAIN g |-> g[n]]
    BY DEF Copy
<1>. HIDE DEF g, Moved
<1>3. \A b \in DOMAIN h : b \in 1 .. shift /\ b + shift \in shift + 1 .. 2 * shift
    BY <1>1
<1>4. \A c \in copies : \E b \in below : c = b + shift /\ c - shift = b
    BY <1>1, <1>3
<1>5. \A c \in copies : c \notin DOMAIN h /\ c # Null
    BY <1>1, <1>3, <1>4 DEF Null
<1>6. \A b \in DOMAIN h : /\ IsNode(Copied(b))
                          /\ Copied(b).below = {d + shift : d \in h[b].below}
  <2>1. \A b \in DOMAIN h : IsNode(h[b])
      BY DEF Forest
  <2>. QED
      BY <2>1 DEF IsNode
<1>. HIDE DEF Copied
<1>7. \A n \in DOMAIN h : g[n] = h[n]
    BY <1>2, <1>5
<1>8. \A b \in below : /\ b + shift \in copies /\ IsNode(g[b + shift])
                       /\ g[b + shift].below = {d + shift : d \in h[b].below}
  <2>1. SUFFICES ASSUME NEW b \in below
                 PROVE  /\ b + shift \in copies /\ IsNode(g[b + shift])
                        /\ g[b + shift].below = {d + shift : d \in h[b].below}
      OBVIOUS
  <2>2. b + shift \in copies /\ b \in DOMAIN h /\ (b + shift) - shift = b
      BY <1>1, <1>3
  <2>3. g[b + shift] = Copied(b)
      BY <1>2, <2>2
  <2>. QED
      BY <1>6, <2>2, <2>3
<1>9. \A b \in below : \A d \in h[b].below : d + shift \in copies
    BY <1>1
<1>10. \A n \in DOMAIN g : n # Null /\ IsNode(g[n]) /\ n \in g[n].below
  <2>1. \A n \in DOMAIN h : n # Null /\ IsNode(g[n]) /\ n \in g[n].below
      BY <1>7 DEF Forest
  <2>2. \A c \in copies : c # Null /\ IsNode(g[c]) /\ c \in g[c].below
    <3>1. SUFFICES ASSUME NEW b \in below
                   PROVE  IsNode(g[b + shift]) /\ b + shift \in g[b + shift].below
        BY <1>4, <1>5
    <3>2. b \in h[b].below
        BY <1>1 DEF Forest
    <3>. QED
        BY <1>8, <3>2
  <2>. QED
      BY <1>2, <2>1, <2>2
<1>11. g[node + shift].below = copies /\ node + shift \in copies
    BY <1>1, <1>8
<1>12. \A x \in R : x \in DOMAIN h /\ g[x].below = h[x].below /\ h[x].below \subseteq DOMAIN h
    BY <1>7 DEF Forest
<1>13. \A x, y \in R \cup {node + shift} : x # y => g[x].below \cap g[y].below = {}
  <2>1. \A x \in R : g[x].below \cap copies = {}
      BY <1>5, <1>12
  <2>2. \A x, y \in R : x # y => g[x].below \cap g[y].below = {}
      BY <1>12 DEF Forest
  <2>. QED
      BY <1>11, <2>1, <2>2
<1>14. /\ \A x \in R \cup {node + shift} : g[x].below \subseteq DOMAIN g
       /\ \A n \in DOMAIN g : \E x \in R \cup {node + shift} : n \in g[x].below
  <2>1. \A n \in DOMAIN h : \E x \in R : n \in g[x].below
      BY <1>12 DEF Forest
  <2>. QED
      BY <1>2, <1>11, <1>12, <2>1
<1>15. \A x \in R \cup {node + shift} : \A m \in g[x].below : g[m].below \subseteq g[x].below
  <2>1. \A x \in R : \A m \in g[x].below : g[m].below \subseteq g[x].below
      BY <1>7, <1>12 DEF Forest
  <2>2. \A c \in copies : g[c].below \subseteq copies
    <3>1. SUFFICES ASSUME NEW b \in below
                   PROVE  g[b + shift].below \subseteq copies
        BY <1>4
    <3>. QED
        BY <1>8, <1>9
  <2>. QED
      BY <1>11, <2>1, <2>2
<1>16. R \cup {node + shift} \subseteq DOMAIN g
    BY <1>2, <1>11, <1>12
<1>17. DOMAIN g \subseteq 1 .. 2 * shift
  <2>1. \A n \in DOMAIN h : n \in 1 .. 2 * shift
      BY <1>3
  <2>2. \A c \in copies : c \in 1 .. 2 * shift
      BY <1>1, <1>3, <1>4
  <2>. QED
      BY <1>2, <2>1, <2>2
<1>18. Forest(g, R \cup {node + shift})
    BY <1>2, <1>10, <1>13, <1>14, <1>15, <1>16 DEF Forest
<1>19. node + shift \notin DOMAIN h
    BY <1>5, <1>11
<1>. QED
    BY <1>7, <1>17, <1>18, <1>19 DEF g, Doubles

-----------------------------------------------------------------------------
(* The nodes of the frames, when the last frame changes, when one more is  *)
(* there, and one less.                                                    *)
LEMMA SplitRoots ==
    ASSUME NEW fs, IsSequence(fs), fs # <<>>, Apart(fs)
    PROVE  /\ All(fs) = Rest(fs) \cup Own(Last(fs)) /\ OwnApart(Last(fs), Rest(fs))
           /\ Null \notin All(fs) /\ Null \notin Rest(fs)
PROOF
<1>1. Len(fs) \in Nat \ {0} /\ Last(fs) = fs[Len(fs)]
    BY SequenceFacts
<1>2. \A i \in 1 .. Len(fs) : i \in 1 .. Len(fs) - 1 \/ i = Len(fs)
    BY <1>1
<1>3. \A i \in 1 .. Len(fs) - 1 : i \in 1 .. Len(fs) /\ i < Len(fs)
    BY <1>1
<1>4. Len(fs) \in 1 .. Len(fs)
    BY <1>1
<1>5. All(fs) = Rest(fs) \cup Own(Last(fs))
    BY <1>1, <1>2, <1>3, <1>4 DEF All, Rest
<1>6. OwnApart(Last(fs), Rest(fs))
    BY <1>1, <1>3, <1>4 DEF OwnApart, Apart, Rest
<1>7. Null \notin All(fs) /\ Null \notin Rest(fs)
    BY DEF All, Rest, Own
<1>. QED
    BY <1>5, <1>6, <1>7

LEMMA LastRoots ==
    ASSUME NEW fs, IsSequence(fs), fs # <<>>, Apart(fs), NEW f, OwnApart(f, Rest(fs))
    PROVE  /\ All(WithLast(fs, f)) = Rest(fs) \cup Own(f) /\ Apart(WithLast(fs, f))
           /\ Rest(WithLast(fs, f)) = Rest(fs)
PROOF
<1>. DEFINE gs == WithLast(fs, f)
            n == Len(fs)
<1>1. /\ n \in Nat \ {0} /\ Len(gs) = n /\ IsSequence(gs) /\ gs # <<>>
      /\ \A i \in 1 .. n : gs[i] = IF i = n THEN f ELSE fs[i]
      /\ Last(gs) = f
    BY SequenceFacts, WithLastFacts
<1>. HIDE DEF gs, n
<1>2. \A i \in 1 .. n - 1 : i \in 1 .. n /\ i < n /\ gs[i] = fs[i]
    BY <1>1
<1>3. Rest(gs) = Rest(fs)
    BY <1>1, <1>2 DEF Rest, n
<1>4. \A i \in 1 .. n : gs[i].node # Null => gs[i].node # gs[i].held
    BY <1>1, <1>2 DEF Apart, OwnApart, n
<1>5. \A i, j \in 1 .. n : i < j => Own(gs[i]) \cap Own(gs[j]) = {}
  <2>1. SUFFICES ASSUME NEW i \in 1 .. n, NEW j \in 1 .. n, i < j
                 PROVE  Own(gs[i]) \cap Own(gs[j]) = {}
      OBVIOUS
  <2>2. i \in 1 .. n - 1 /\ gs[i] = fs[i]
      BY <1>1, <2>1
  <2>3. Own(fs[i]) \subseteq Rest(fs)
      BY <2>2 DEF Rest, n
  <2>4. CASE j = n
      BY <1>1, <2>2, <2>3, <2>4 DEF OwnApart
  <2>5. CASE j # n
      BY <1>1, <2>1, <2>2, <2>5 DEF Apart, n
  <2>. QED
      BY <2>4, <2>5
<1>6. Apart(gs)
    BY <1>1, <1>4, <1>5 DEF Apart
<1>7. All(gs) = Rest(gs) \cup Own(Last(gs))
    BY <1>1, <1>6, SplitRoots
<1>. QED
    BY <1>1, <1>3, <1>6, <1>7 DEF gs

LEMMA PushRoots ==
    ASSUME NEW fs, IsSequence(fs), Apart(fs), NEW g, OwnApart(g, All(fs))
    PROVE  /\ All(Append(fs, g)) = All(fs) \cup Own(g) /\ Apart(Append(fs, g))
           /\ Rest(Append(fs, g)) = All(fs)
PROOF
<1>. DEFINE gs == Append(fs, g)
            n == Len(fs)
<1>1. /\ n \in Nat /\ Len(gs) = n + 1 /\ IsSequence(gs) /\ gs # <<>>
      /\ \A i \in 1 .. n : gs[i] = fs[i]
      /\ gs[n + 1] = g /\ Last(gs) = g
    BY SequenceFacts, AppendFacts
<1>. HIDE DEF gs, n
<1>2. Len(gs) - 1 = n /\ \A i \in 1 .. n + 1 : i \in 1 .. n \/ i = n + 1
    BY <1>1
<1>3. Rest(gs) = All(fs)
    BY <1>1, <1>2 DEF Rest, All, n
<1>4. \A i \in 1 .. n + 1 : gs[i].node # Null => gs[i].node # gs[i].held
    BY <1>1, <1>2 DEF Apart, OwnApart, n
<1>5. \A i, j \in 1 .. n + 1 : i < j => Own(gs[i]) \cap Own(gs[j]) = {}
  <2>1. SUFFICES ASSUME NEW i \in 1 .. n + 1, NEW j \in 1 .. n + 1, i < j
                 PROVE  Own(gs[i]) \cap Own(gs[j]) = {}
      OBVIOUS
  <2>2. i \in 1 .. n
      BY <1>1, <2>1
  <2>3. Own(gs[i]) = Own(fs[i]) /\ Own(fs[i]) \subseteq All(fs)
      BY <1>1, <2>2 DEF All, n
  <2>4. CASE j = n + 1
      BY <1>1, <2>3, <2>4 DEF OwnApart
  <2>5. CASE j # n + 1
      BY <1>1, <1>2, <2>1, <2>2, <2>5 DEF Apart, n
  <2>. QED
      BY <2>4, <2>5
<1>6. Apart(gs)
    BY <1>1, <1>4, <1>5 DEF Apart
<1>7. All(gs) = Rest(gs) \cup Own(Last(gs))
    BY <1>1, <1>6, SplitRoots
<1>. QED
    BY <1>1, <1>3, <1>6, <1>7 DEF gs

LEMMA FrontRoots ==
    ASSUME NEW fs, IsSequence(fs), fs # <<>>, Apart(fs)
    PROVE  All(Front(fs)) = Rest(fs) /\ Apart(Front(fs))
PROOF
<1>1. /\ Len(fs) \in Nat \ {0} /\ Len(Front(fs)) = Len(fs) - 1
      /\ \A i \in 1 .. Len(fs) - 1 : Front(fs)[i] = fs[i] /\ i \in 1 .. Len(fs)
    BY SequenceFacts, FrontFacts
<1>2. All(Front(fs)) = Rest(fs)
    BY <1>1 DEF All, Rest
<1>3. Apart(Front(fs))
    BY <1>1 DEF Apart
<1>. QED
    BY <1>2, <1>3

-----------------------------------------------------------------------------
(* A frame whose nodes keep their kinds fits as before. *)
LEMMA KindStays ==
    ASSUME NEW h, NEW g, NEW f, KindFits(h, f),
           \A n \in Own(f) : g[n].kind = h[n].kind
    PROVE  KindFits(g, f)
PROOF
<1>1. (f.node # Null => g[f.node].kind = h[f.node].kind)
      /\ (f.held # Null => g[f.held].kind = h[f.held].kind)
    BY DEF Own
<1>. QED
    BY <1>1 DEF KindFits

(* What a step of a rule finds of nodes. *)
LEMMA TopTree ==
    ASSUME ParserInv, TreeInv, Running
    PROVE  /\ Forest(heap, Rest(frames) \cup Own(Top) \cup ({answer} \ {Null}))
           /\ OwnApart(Top, Rest(frames)) /\ Null \notin Rest(frames)
           /\ answer \notin Rest(frames) \cup Own(Top)
           /\ Rest(frames) \cup Own(Top) \cup ({answer} \ {Null}) \subseteq DOMAIN heap
           /\ DOMAIN heap \subseteq 1 .. created /\ created \in Nat
           /\ \A n \in DOMAIN heap : n \in 1 .. created
           /\ \A k \in 1 .. 3 : created + k \notin DOMAIN heap /\ created + k # Null
           /\ KindFits(heap, Top)
           /\ \A i \in 1 .. Len(frames) - 1 : KindFits(heap, frames[i])
           /\ Null \notin DOMAIN heap
PROOF
<1>1. /\ frames # <<>> /\ IsSequence(frames) /\ Top = Last(frames) /\ created \in Nat
      /\ Len(frames) \in Nat \ {0} /\ Top = frames[Len(frames)]
    BY AtTop DEF Top
<1>2. /\ All(frames) = Rest(frames) \cup Own(Top) /\ OwnApart(Top, Rest(frames))
      /\ Null \notin Rest(frames)
    BY <1>1, SplitRoots DEF TreeInv
<1>3. Forest(heap, Rest(frames) \cup Own(Top) \cup ({answer} \ {Null}))
    BY <1>2 DEF TreeInv
<1>4. \A k \in 1 .. 3 : created + k \notin DOMAIN heap /\ created + k # Null
    BY <1>1 DEF TreeInv, Null
<1>5. KindFits(heap, Top) /\ \A i \in 1 .. Len(frames) - 1 : KindFits(heap, frames[i])
    BY <1>1 DEF TreeInv
<1>6. /\ Rest(frames) \cup Own(Top) \cup ({answer} \ {Null}) \subseteq DOMAIN heap
      /\ Null \notin DOMAIN heap
    BY <1>3 DEF Forest
<1>. QED
    BY <1>1, <1>2, <1>3, <1>4, <1>5, <1>6 DEF TreeInv

LEMMA GotoTree ==
    ASSUME ParserInv, TreeInv, Running, NEW f, frames' = WithLast(frames, f),
           OwnApart(f, Rest(frames)), answer' \notin Rest(frames) \cup Own(f),
           Forest(heap', Rest(frames) \cup Own(f) \cup ({answer'} \ {Null})),
           KindFits(heap', f), DOMAIN heap' \subseteq 1 .. created',
           \A n \in Rest(frames) : heap'[n].kind = heap[n].kind
    PROVE  TreeInv'
PROOF
<1>1. /\ frames # <<>> /\ IsSequence(frames) /\ Len(frames) \in Nat \ {0} /\ Apart(frames)
      /\ Len(frames') = Len(frames)
      /\ \A i \in 1 .. Len(frames) : frames'[i] = IF i = Len(frames) THEN f ELSE frames[i]
    BY AtTop, WithLastFacts DEF TreeInv
<1>2. All(frames') = Rest(frames) \cup Own(f) /\ Apart(frames')
    BY <1>1, LastRoots
<1>3. \A i \in 1 .. Len(frames) - 1 : KindFits(heap', frames[i])
  <2>1. SUFFICES ASSUME NEW i \in 1 .. Len(frames) - 1
                 PROVE  KindFits(heap', frames[i])
      OBVIOUS
  <2>2. \A n \in Own(frames[i]) : heap'[n].kind = heap[n].kind
      BY DEF Rest
  <2>3. KindFits(heap, frames[i])
      BY TopTree
  <2>. QED
      BY <2>2, <2>3, KindStays
<1>4. \A i \in 1 .. Len(frames') : KindFits(heap', frames'[i])
    BY <1>1, <1>3
<1>. QED
    BY <1>2, <1>4 DEF TreeInv

LEMMA CallTree ==
    ASSUME ParserInv, TreeInv, Running, NEW f, NEW g,
           frames' = Append(WithLast(frames, f), g),
           OwnApart(f, Rest(frames)), OwnApart(g, Rest(frames) \cup Own(f)),
           answer' = Null, Forest(heap', Rest(frames) \cup Own(f) \cup Own(g)),
           KindFits(heap', f), KindFits(heap', g), DOMAIN heap' \subseteq 1 .. created',
           \A n \in Rest(frames) : heap'[n].kind = heap[n].kind
    PROVE  TreeInv'
PROOF
<1>. DEFINE hs == WithLast(frames, f)
<1>1. /\ frames # <<>> /\ IsSequence(frames) /\ Len(frames) \in Nat \ {0} /\ Apart(frames)
      /\ Len(hs) = Len(frames) /\ IsSequence(hs)
      /\ \A i \in 1 .. Len(frames) : hs[i] = IF i = Len(frames) THEN f ELSE frames[i]
    BY AtTop, WithLastFacts DEF TreeInv
<1>2. All(hs) = Rest(frames) \cup Own(f) /\ Apart(hs)
    BY <1>1, LastRoots
<1>3. frames' = Append(hs, g)
    OBVIOUS
<1>. HIDE DEF hs
<1>4. /\ All(frames') = Rest(frames) \cup Own(f) \cup Own(g) /\ Apart(frames')
      /\ Len(frames') = Len(frames) + 1 /\ frames'[Len(frames) + 1] = g
      /\ \A i \in 1 .. Len(frames) : frames'[i] = hs[i]
  <2>1. /\ All(frames') = All(hs) \cup Own(g) /\ Apart(frames')
      BY <1>1, <1>2, <1>3, PushRoots
  <2>2. /\ Len(frames') = Len(hs) + 1 /\ frames'[Len(hs) + 1] = g
        /\ \A i \in 1 .. Len(hs) : frames'[i] = hs[i]
      BY <1>1, <1>3, AppendFacts
  <2>. QED
      BY <1>1, <1>2, <2>1, <2>2
<1>5. \A i \in 1 .. Len(frames) - 1 : KindFits(heap', frames[i])
  <2>1. SUFFICES ASSUME NEW i \in 1 .. Len(frames) - 1
                 PROVE  KindFits(heap', frames[i])
      OBVIOUS
  <2>2. \A n \in Own(frames[i]) : heap'[n].kind = heap[n].kind
      BY DEF Rest
  <2>3. KindFits(heap, frames[i])
      BY TopTree
  <2>. QED
      BY <2>2, <2>3, KindStays
<1>6. \A i \in 1 .. Len(frames') : KindFits(heap', frames'[i])
  <2>1. \A i \in 1 .. Len(frames) + 1 : \/ i = Len(frames) + 1 \/ i = Len(frames)
                                        \/ i \in 1 .. Len(frames) - 1
      BY <1>1
  <2>. QED
      BY <1>1, <1>4, <1>5, <2>1
<1>7. ({answer} \ {Null})' = {} /\ answer' \notin All(frames')
  <2>1. Null \notin Rest(frames)
      BY TopTree
  <2>. QED
      BY <1>4, <2>1 DEF Own
<1>8. Forest(heap', All(frames') \cup ({answer'} \ {Null}))
    BY <1>4, <1>7
<1>. QED
    BY <1>4, <1>6, <1>7, <1>8 DEF TreeInv

\* Texts, links and kids may change, kinds and what is below not.
Edited(h, g) ==
    /\ DOMAIN g = DOMAIN h /\ g = [n \in DOMAIN g |-> g[n]]
    /\ \A n \in DOMAIN h : IsNode(g[n]) /\ g[n].below = h[n].below /\ g[n].kind = h[n].kind

LEMMA Edits ==
    ASSUME NEW h, h = [n \in DOMAIN h |-> h[n]], \A n \in DOMAIN h : IsNode(h[n]),
           NEW x, NEW v
    PROVE  /\ Edited(h, h)
           /\ Edited(h, [h EXCEPT ![x].text = v])
           /\ Edited(h, [h EXCEPT ![x].note = v])
           /\ Edited(h, [h EXCEPT ![x].link = v])
PROOF
    BY DEF Edited, IsNode

(* The frame goes on in its list of steps with the nodes it has. *)
LEMMA OnwardFits ==
    ASSUME NEW t, Fine(t), InStep(t), RuleShape(t.rule), NEW n \in Nat, n >= t.at,
           NEW h, KindFits(h, t)
    PROVE  LET f == Onward(t, n)
           IN  f.node = t.node /\ f.held = t.held /\ KindFits(h, f)
PROOF
<1>. DEFINE f == Onward(t, n)
<1>1. /\ f.rule = t.rule /\ f.at = n /\ f.node = t.node /\ f.held = t.held
      /\ f.phase \in {"steps", "done"}
    BY DEF Onward, Fine
<1>. HIDE DEF f
<1>2. t.at \in Nat
    BY DEF Fine
<1>3. Len(StepsOf(t.rule)) \in Nat
    BY DEF Fine, InStep, RuleShape, IsList, StepsOf
<1>4. \A j \in n .. Len(StepsOf(t.rule)) : j \in t.at .. Len(StepsOf(t.rule))
    BY <1>2, <1>3
<1>5. \A j \in f.at .. Len(StepsOf(f.rule)) : \A field \in Fills(StepsOf(f.rule)[j]) :
          f.node # Null /\ IsTraversed(h[f.node].kind, field)
    BY <1>1, <1>4 DEF KindFits
<1>6. KindFits(h, f)
    BY <1>1, <1>5 DEF KindFits
<1>. QED
    BY <1>1, <1>6 DEF f

LEMMA StepTree ==
    ASSUME ParserInv, TreeInv, Running, Top.phase = "steps", NEW n \in Nat, n >= Top.at,
           frames' = WithLast(frames, Onward(Top, n)), answer' = answer,
           created' = created, Edited(heap, heap')
    PROVE  TreeInv'
PROOF
<1>. DEFINE f == Onward(Top, n)
<1>1. /\ Forest(heap, Rest(frames) \cup Own(Top) \cup ({answer} \ {Null}))
      /\ OwnApart(Top, Rest(frames)) /\ answer \notin Rest(frames) \cup Own(Top)
      /\ Rest(frames) \cup Own(Top) \subseteq DOMAIN heap
      /\ DOMAIN heap \subseteq 1 .. created /\ KindFits(heap, Top)
    BY TopTree
<1>2. Fine(Top) /\ InStep(Top)
    BY AtTop DEF InStep
<1>3. \A m \in DOMAIN heap : heap'[m].kind = heap[m].kind
    BY DEF Edited
<1>4. KindFits(heap', Top)
    BY <1>1, <1>3, KindStays
<1>5. f.node = Top.node /\ f.held = Top.held /\ KindFits(heap', f)
    BY <1>2, <1>4, AtTop, OnwardFits
<1>. HIDE DEF f
<1>6. Own(f) = Own(Top) /\ OwnApart(f, Rest(frames))
    BY <1>1, <1>5 DEF Own, OwnApart
<1>7. Forest(heap', Rest(frames) \cup Own(f) \cup ({answer'} \ {Null}))
    BY <1>1, <1>6, EditForest DEF Edited
<1>8. DOMAIN heap' \subseteq 1 .. created' /\ answer' \notin Rest(frames) \cup Own(f)
    BY <1>1, <1>6 DEF Edited
<1>9. frames' = WithLast(frames, f)
    BY DEF f
<1>. QED
    BY <1>1, <1>3, <1>5, <1>6, <1>7, <1>8, <1>9, GotoTree

-----------------------------------------------------------------------------
(* In these phases a frame sets no fields. *)
LEMMA NothingToSet ==
    ASSUME NEW h, NEW f,
           f.phase \notin {"steps", "child", "item", "append", "slices", "slice"}
    PROVE  KindFits(h, f)
PROOF
    BY DEF KindFits, InStep

(* A frame that starts with its steps fits, *)
LEMMA FirstFits ==
    ASSUME NEW t, Fine(t), RuleShape(t.rule),
           Rules[t.rule].form \in {"construct", "suffix", "wrap"},
           NEW g, DOMAIN g = DOMAIN t, g.rule = t.rule, g.node # Null,
           NEW h, h[g.node].kind = Rules[t.rule].kind
    PROVE  LET f == Onward(g, 1)
           IN  f.node = g.node /\ f.held = g.held /\ KindFits(h, f)
PROOF
<1>. DEFINE f == Onward(g, 1)
<1>1. /\ f.rule = t.rule /\ f.at = 1 /\ f.node = g.node /\ f.held = g.held
      /\ f.phase \in {"steps", "done"}
    BY DEF Onward, Fine
<1>. HIDE DEF f
<1>2. /\ Len(StepsOf(t.rule)) \in Nat /\ DOMAIN StepsOf(t.rule) = 1 .. Len(StepsOf(t.rule))
      /\ \A i \in DOMAIN StepsOf(t.rule) : StepShape(t.rule, i)
    BY DEF RuleShape, IsList, StepsOf, Stepping
<1>3. \A j \in 1 .. Len(StepsOf(t.rule)) : \A field \in Fills(StepsOf(t.rule)[j]) :
          IsTraversed(Rules[t.rule].kind, field)
    BY <1>2 DEF StepShape
<1>4. \A j \in f.at .. Len(StepsOf(f.rule)) : \A field \in Fills(StepsOf(f.rule)[j]) :
          f.node # Null /\ IsTraversed(h[f.node].kind, field)
    BY <1>1, <1>3
<1>5. KindFits(h, f)
    BY <1>1, <1>4 DEF KindFits
<1>. QED
    BY <1>1, <1>5 DEF f

(* and so does one that has no fields left to set. *)
LEMMA NoFillsFit ==
    ASSUME NEW h, NEW f, f.phase \in {"steps", "child", "done"},
           \A j \in f.at .. Len(StepsOf(f.rule)) : Fills(StepsOf(f.rule)[j]) = {}
    PROVE  KindFits(h, f)
PROOF
    BY DEF KindFits

LEMMA ScopedFills ==
    ASSUME NEW r \in DOMAIN Rules, Rules[r].form = "scoped"
    PROVE  /\ Len(StepsOf(r)) \in Nat
           /\ \A j \in 1 .. Len(StepsOf(r)) : Fills(StepsOf(r)[j]) = {}
PROOF
<1>1. /\ Len(StepsOf(r)) \in Nat /\ DOMAIN StepsOf(r) = 1 .. Len(StepsOf(r))
      /\ \A i \in DOMAIN StepsOf(r) : StepShape(r, i)
    BY RulesAssumption DEF RuleShape, IsList, StepsOf, Stepping
<1>2. \A j \in 1 .. Len(StepsOf(r)) : StepsOf(r)[j].do \in {"expect", "become", "scoped"}
    BY <1>1 DEF StepShape
<1>3. \A j \in 1 .. Len(StepsOf(r)) : Fills(StepsOf(r)[j]) = {}
    BY <1>2 DEF Fills
<1>. QED
    BY <1>1, <1>3

(* A rule that is called starts with no node. *)
LEMMA FreshFrame ==
    ASSUME NEW r \in Callable, NEW h, NEW S
    PROVE  Own(Frame(r)) = {} /\ OwnApart(Frame(r), S) /\ KindFits(h, Frame(r))
PROOF
<1>. DEFINE g == Frame(r)
<1>1. /\ g.rule = r /\ g.at = 1 /\ g.node = Null /\ g.held = Null /\ r \in DOMAIN Rules
      /\ g.phase = IF Rules[r].form = "scoped" THEN "steps" ELSE "enter"
    BY DEF Frame, Callable
<1>. HIDE DEF g
<1>2. Own(g) = {} /\ OwnApart(g, S)
    BY <1>1 DEF Own, OwnApart
<1>3. CASE Rules[r].form = "scoped"
  <2>1. \A j \in g.at .. Len(StepsOf(g.rule)) : Fills(StepsOf(g.rule)[j]) = {}
      BY <1>1, <1>3, ScopedFills
  <2>2. KindFits(h, g)
      BY <1>1, <1>3, <2>1 DEF KindFits
  <2>. QED
      BY <1>2, <2>2 DEF g
<1>4. CASE Rules[r].form # "scoped"
  <2>1. KindFits(h, g)
      BY <1>1, <1>4, NothingToSet
  <2>. QED
      BY <1>2, <2>1 DEF g
<1>. QED
    BY <1>3, <1>4

LEMMA CallRuleTree ==
    ASSUME ParserInv, TreeInv, Running, NEW f, NEW r \in Callable,
           frames' = Append(WithLast(frames, f), Frame(r)),
           OwnApart(f, Rest(frames)), answer' = Null,
           Forest(heap', Rest(frames) \cup Own(f)),
           KindFits(heap', f), DOMAIN heap' \subseteq 1 .. created',
           \A n \in Rest(frames) : heap'[n].kind = heap[n].kind
    PROVE  TreeInv'
PROOF
<1>. DEFINE g == Frame(r)
<1>1. /\ Own(g) = {} /\ OwnApart(g, Rest(frames) \cup Own(f)) /\ KindFits(heap', g)
    BY FreshFrame
<1>2. frames' = Append(WithLast(frames, f), g)
    OBVIOUS
<1>. HIDE DEF g
<1>3. Forest(heap', Rest(frames) \cup Own(f) \cup Own(g))
    BY <1>1
<1>. QED
    BY <1>1, <1>2, <1>3, CallTree

(* The rule is done, with a node that nobody else has or with none. *)
LEMMA DoneTree ==
    ASSUME ParserInv, TreeInv, Running, NEW m,
           frames' = WithLast(frames, Done(m)), m \notin Rest(frames), answer' = Null,
           Forest(heap', Rest(frames) \cup ({m} \ {Null})),
           DOMAIN heap' \subseteq 1 .. created',
           \A n \in Rest(frames) : heap'[n].kind = heap[n].kind
    PROVE  TreeInv'
PROOF
<1>. DEFINE f == Done(m)
<1>1. f.node = m /\ f.held = Null /\ f.phase = "done"
    BY AtTop DEF Done, Fine
<1>2. frames' = WithLast(frames, f)
    OBVIOUS
<1>. HIDE DEF f
<1>3. Own(f) = {m} \ {Null} /\ OwnApart(f, Rest(frames))
    BY <1>1 DEF Own, OwnApart
<1>4. KindFits(heap', f)
    BY <1>1, NothingToSet
<1>5. answer' \notin Rest(frames) \cup Own(f)
    BY <1>3, TopTree
<1>6. Forest(heap', Rest(frames) \cup Own(f) \cup ({answer'} \ {Null}))
  <2>1. Rest(frames) \cup Own(f) \cup ({answer'} \ {Null}) = Rest(frames) \cup ({m} \ {Null})
      BY <1>3
  <2>. QED
      BY <2>1
<1>. QED
    BY <1>2, <1>3, <1>4, <1>5, <1>6, GotoTree

(* The rule goes on in its steps, with the nodes it has. *)
LEMMA OnTree ==
    ASSUME ParserInv, TreeInv, Running, InStep(Top), NEW n \in Nat, n >= Top.at,
           frames' = WithLast(frames, Onward(Top, n)), answer' = Null,
           Forest(heap', Rest(frames) \cup Own(Top)),
           DOMAIN heap' \subseteq 1 .. created',
           \A m \in Rest(frames) \cup Own(Top) : heap'[m].kind = heap[m].kind
    PROVE  TreeInv'
PROOF
<1>. DEFINE f == Onward(Top, n)
<1>1. /\ OwnApart(Top, Rest(frames)) /\ KindFits(heap, Top)
      /\ Null \notin Rest(frames) /\ Null \notin Own(Top)
    BY TopTree DEF Own
<1>2. KindFits(heap', Top)
    BY <1>1, KindStays
<1>3. f.node = Top.node /\ f.held = Top.held /\ KindFits(heap', f)
    BY <1>2, AtTop, OnwardFits
<1>4. frames' = WithLast(frames, f)
    OBVIOUS
<1>. HIDE DEF f
<1>5. Own(f) = Own(Top) /\ OwnApart(f, Rest(frames))
    BY <1>1, <1>3 DEF Own, OwnApart
<1>6. Rest(frames) \cup Own(f) \cup ({answer'} \ {Null}) = Rest(frames) \cup Own(Top)
    BY <1>5
<1>7. answer' \notin Rest(frames) \cup Own(f)
    BY <1>1, <1>5
<1>8. Forest(heap', Rest(frames) \cup Own(f) \cup ({answer'} \ {Null}))
    BY <1>6
<1>. QED
    BY <1>3, <1>4, <1>5, <1>7, <1>8, GotoTree

-----------------------------------------------------------------------------
\* g has the nodes N besides those of h, which keep their kinds.
Grows(h, g, R, N) ==
    /\ Forest(g, R) /\ DOMAIN g = DOMAIN h \cup N
    /\ \A n \in DOMAIN h : g[n].kind = h[n].kind

LEMMA CreateGrows ==
    ASSUME NEW h, NEW R, Forest(h, R), NEW id, id \notin DOMAIN h, id # Null,
           NEW kind, NEW text
    PROVE  Grows(h, Create(h, id, kind, text), R \cup {id}, {id})
PROOF
<1>1. Forest(Create(h, id, kind, text), R \cup {id})
    BY CreateForest
<1>. QED
    BY <1>1 DEF Create, Grows

(* A node in a field, or none, *)
LEMMA AttachGrows ==
    ASSUME NEW h, NEW R, Forest(h, R), NEW node \in R, NEW kid,
           NEW field, kid = Null \/ (kid \in R /\ kid # node /\ IsTraversed(h[node].kind, field))
    PROVE  Grows(h, Attach(h, node, field, kid), R \ {kid}, {})
PROOF
<1>1. CASE kid = Null
  <2>1. R \ {kid} = R
      BY <1>1 DEF Forest
  <2>2. Attach(h, node, field, kid) = h
      BY <1>1 DEF Attach
  <2>. QED
      BY <2>1, <2>2 DEF Grows
<1>2. CASE kid # Null
  <2>. DEFINE g == Attach(h, node, field, kid)
  <2>1. Forest(g, R \ {kid})
      BY <1>2, AttachForest
  <2>2. DOMAIN g = DOMAIN h
      BY <1>2 DEF Attach
  <2>3. \A n \in DOMAIN h : g[n].kind = h[n].kind
    <3>1. \A n \in DOMAIN h : IsNode(h[n])
        BY DEF Forest
    <3>. QED
        BY <3>1 DEF Attach, IsNode
  <2>. QED
      BY <2>1, <2>2, <2>3 DEF Grows
<1>. QED
    BY <1>1, <1>2

(* a new node around another one or none, *)
LEMMA AroundGrows ==
    ASSUME NEW h, NEW R, Forest(h, R), NEW id, id \notin DOMAIN h, id # Null,
           NEW kind, NEW text, NEW kid,
           NEW field, kid = Null \/ (kid \in R /\ IsTraversed(kind, field))
    PROVE  Grows(h, Attach(Create(h, id, kind, text), id, field, kid), (R \ {kid}) \cup {id},
                 {id})
PROOF
<1>. DEFINE c == Create(h, id, kind, text)
            g == Attach(c, id, field, kid)
<1>1. Forest(c, R \cup {id})
    BY CreateForest
<1>2. /\ DOMAIN c = DOMAIN h \cup {id} /\ \A n \in DOMAIN h : c[n] = h[n]
      /\ c[id].kind = kind
    BY DEF Create, Fresh
<1>3. id \notin R /\ (kid # Null => kid # id)
    BY DEF Forest
<1>. HIDE DEF c
<1>4. Grows(c, g, (R \cup {id}) \ {kid}, {})
    BY <1>1, <1>2, <1>3, AttachGrows
<1>5. (R \cup {id}) \ {kid} = (R \ {kid}) \cup {id}
    BY <1>3
<1>. HIDE DEF g
<1>6. Grows(h, g, (R \ {kid}) \cup {id}, {id})
    BY <1>2, <1>4, <1>5 DEF Grows
<1>. QED
    BY <1>6 DEF g, c

LEMMA AroundKind ==
    ASSUME NEW h, NEW id, NEW kind, NEW text, NEW field, NEW kid
    PROVE  Attach(Create(h, id, kind, text), id, field, kid)[id].kind = kind
PROOF
    BY DEF Attach, Create, Fresh

(* and a new node below one that is there. *)
LEMMA BelowGrows ==
    ASSUME NEW h, NEW R, Forest(h, R), NEW id, id \notin DOMAIN h, id # Null,
           NEW kind, NEW text, NEW node \in R, NEW field, IsTraversed(h[node].kind, field)
    PROVE  Grows(h, Attach(Create(h, id, kind, text), node, field, id), R, {id})
PROOF
<1>. DEFINE c == Create(h, id, kind, text)
            g == Attach(c, node, field, id)
<1>1. Forest(c, R \cup {id})
    BY CreateForest
<1>2. DOMAIN c = DOMAIN h \cup {id} /\ \A n \in DOMAIN h : c[n] = h[n]
    BY DEF Create, Fresh
<1>3. id \notin R /\ node \in DOMAIN h /\ id # node
    BY DEF Forest
<1>. HIDE DEF c
<1>4. Grows(c, g, (R \cup {id}) \ {id}, {})
    BY <1>1, <1>2, <1>3, AttachGrows
<1>5. (R \cup {id}) \ {id} = R
    BY <1>3
<1>. HIDE DEF g
<1>6. Grows(h, g, R, {id})
    BY <1>2, <1>4, <1>5 DEF Grows
<1>. QED
    BY <1>6 DEF g, c

-----------------------------------------------------------------------------
(* Steps that change no more than the texts and links of nodes. *)
LEMMA HeapNodes ==
    ASSUME TreeInv
    PROVE  heap = [n \in DOMAIN heap |-> heap[n]] /\ \A n \in DOMAIN heap : IsNode(heap[n])
PROOF
    BY DEF TreeInv, Forest

LEMMA TextEdits ==
    ASSUME TreeInv,
           ReadText \/ LinkJump \/ MarkScoped \/ Constructor \/ Alias \/ IndexList \/ Concat
    PROVE  Edited(heap, heap')
PROOF
<1>1. heap = [n \in DOMAIN heap |-> heap[n]] /\ \A n \in DOMAIN heap : IsNode(heap[n])
    BY HeapNodes
<1>2. Edited(heap, heap)
    BY <1>1, Edits
<1>3. CASE ReadText
    BY <1>1, <1>3, Edits DEF ReadText
<1>4. CASE LinkJump
    BY <1>1, <1>4, Edits DEF LinkJump
<1>5. CASE MarkScoped
    BY <1>1, <1>2, <1>5, Edits DEF MarkScoped
<1>6. CASE Constructor
    BY <1>1, <1>6 DEF Constructor, Edited, IsNode
<1>7. CASE Alias
  <2>1. PICK text : text = heap[Kid(heap, Top.node, "identifier")].text
      OBVIOUS
  <2>2. heap' = heap \/ heap' = [heap EXCEPT ![Top.node].text = text]
      BY <1>7, <2>1 DEF Alias
  <2>3. CASE heap' = heap
      BY <1>2, <2>3
  <2>4. CASE heap' = [heap EXCEPT ![Top.node].text = text]
      BY <1>1, <2>4 DEF Edited, IsNode
  <2>. QED
      BY <2>2, <2>3, <2>4
<1>8. CASE IndexList
  <2>1. CASE Step.do = "index"
      BY <1>2, <1>8, <2>1 DEF IndexList
  <2>2. CASE Step.do # "index"
    <3>1. PICK S : heap' = [n \in DOMAIN heap |->
                              IF n \in S THEN [heap[n] EXCEPT !.link = Top.node] ELSE heap[n]]
        BY <1>8, <2>2 DEF IndexList
    <3>. QED
        BY <1>1, <3>1 DEF Edited, IsNode
  <2>. QED
      BY <2>1, <2>2
<1>9. CASE Concat
  <2>1. CASE Fits("string")
    <3>1. heap' = [heap EXCEPT ![Top.node].text = @ \o Current]
        BY <1>9, <2>1 DEF Concat
    <3>. QED
        BY <1>1, <3>1 DEF Edited, IsNode
  <2>2. CASE ~Fits("string")
      BY <1>2, <1>9, <2>2 DEF Concat
  <2>. QED
      BY <2>1, <2>2
<1>. QED
    BY <1>3, <1>4, <1>5, <1>6, <1>7, <1>8, <1>9

LEMMA StepsTree ==
    ASSUME ParserInv, TreeInv,
           \/ ExpectToken \/ ReadText \/ LinkJump \/ Check \/ IndexList
           \/ MarkScoped \/ Declare \/ Constructor \/ OptionalToken \/ Alias
           \/ EnterScope \/ LeaveScope \/ Loop
    PROVE  TreeInv'
PROOF
<1>1. /\ Running /\ Top.phase = "steps" /\ answer' = answer /\ created' = created
    BY DEF ExpectToken, ReadText, LinkJump, Check, IndexList, MarkScoped, Declare,
           Constructor, OptionalToken, Alias, EnterScope, LeaveScope, Loop,
           AtStep, At, OnlyFrames, SameTree
<1>2. Top.at \in Nat /\ StepShape(Top.rule, Top.at) /\ Step = StepsOf(Top.rule)[Top.at]
    BY <1>1, StepFacts DEF InStep
<1>3. \E n \in Nat : n >= Top.at /\ frames' = WithLast(frames, Onward(Top, n))
  <2>1. CASE OptionalToken
    <3>1. Step.over \in Nat
        BY <1>2, <2>1 DEF StepShape, OptionalToken, AtStep
    <3>2. /\ Top.at + 1 \in Nat /\ Top.at + 1 >= Top.at
          /\ Top.at + 1 + Step.over \in Nat /\ Top.at + 1 + Step.over >= Top.at
        BY <1>2, <3>1
    <3>. QED
        BY <2>1, <3>2 DEF OptionalToken, Goto, NextStep
  <2>2. CASE ~OptionalToken
    <3>1. /\ Top.at + 1 \in Nat /\ Top.at + 1 >= Top.at
          /\ Top.at + 2 \in Nat /\ Top.at + 2 >= Top.at
        BY <1>2
    <3>2. \/ frames' = WithLast(frames, Onward(Top, Top.at + 1))
          \/ frames' = WithLast(frames, Onward(Top, Top.at + 2))
        BY <2>2 DEF ExpectToken, ReadText, LinkJump, Check, IndexList, MarkScoped, Declare,
           Constructor, Alias, EnterScope, LeaveScope, Loop, Goto, NextStep
    <3>. QED
        BY <3>1, <3>2
  <2>. QED
      BY <2>1, <2>2
<1>4. Edited(heap, heap')
  <2>1. CASE heap' = heap
      BY <2>1, HeapNodes, Edits
  <2>2. CASE heap' # heap
    <3>1. ReadText \/ LinkJump \/ IndexList \/ MarkScoped \/ Constructor \/ Alias
        BY <2>2 DEF ExpectToken, Check, Declare, OptionalToken, EnterScope, LeaveScope,
           Loop, SameTree
    <3>. QED
        BY <3>1, TextEdits
  <2>. QED
      BY <2>1, <2>2
<1>. QED
    BY <1>1, <1>3, <1>4, StepTree

LEMMA SameFramesTree ==
    ASSUME TreeInv, UNCHANGED <<frames, answer, created>>, Edited(heap, heap')
    PROVE  TreeInv'
PROOF
<1>. DEFINE R == All(frames) \cup ({answer} \ {Null})
<1>1. Forest(heap, R) /\ All(frames') \cup ({answer'} \ {Null}) = R
    BY DEF TreeInv, All
<1>. HIDE DEF R
<1>2. Forest(heap', R)
    BY <1>1, EditForest DEF Edited
<1>3. \A i \in 1 .. Len(frames) : KindFits(heap', frames[i])
  <2>1. SUFFICES ASSUME NEW i \in 1 .. Len(frames)
                 PROVE  KindFits(heap', frames[i])
      OBVIOUS
  <2>2. \A n \in Own(frames[i]) : n \in DOMAIN heap
      BY <1>1 DEF All, R, Forest
  <2>3. \A n \in Own(frames[i]) : heap'[n].kind = heap[n].kind
      BY <2>2 DEF Edited
  <2>. QED
      BY <2>3, KindStays DEF TreeInv
<1>4. DOMAIN heap' \subseteq 1 .. created'
    BY DEF TreeInv, Edited
<1>5. Apart(frames') /\ answer' \notin All(frames')
    BY DEF TreeInv, Apart, All
<1>. QED
    BY <1>1, <1>2, <1>3, <1>4, <1>5 DEF TreeInv

LEMMA ConcatTree ==
    ASSUME ParserInv, TreeInv, Concat
    PROVE  TreeInv'
PROOF
<1>1. /\ Running /\ Top.phase = "steps" /\ answer' = answer /\ created' = created
    BY DEF Concat, AtStep, At, OnlyFrames
<1>2. Edited(heap, heap')
    BY TextEdits
<1>3. Top.at + 1 \in Nat /\ Top.at + 1 >= Top.at
    BY <1>1, StepFacts DEF InStep
<1>4. frames' = frames \/ frames' = WithLast(frames, Onward(Top, Top.at + 1))
    BY DEF Concat, Goto, NextStep
<1>. QED
    BY <1>1, <1>2, <1>3, <1>4, StepTree, SameFramesTree

LEMMA TypeDefinitionTree ==
    ASSUME TreeInv, TypeDefinition \/ UNCHANGED vars
    PROVE  TreeInv'
PROOF
<1>1. UNCHANGED <<frames, answer, created, heap>>
    BY DEF TypeDefinition, SameTree, vars
<1>2. Edited(heap, heap')
    BY <1>1, HeapNodes, Edits
<1>. QED
    BY <1>1, <1>2, SameFramesTree

-----------------------------------------------------------------------------
(* The frame keeps its nodes, and has the answer as well, *)
LEMMA MoveTree ==
    ASSUME ParserInv, TreeInv, Running, UNCHANGED <<heap, created>>, answer' = Null,
           NEW f, frames' = WithLast(frames, f), KindFits(heap, f),
           f.node # Null => f.node # f.held, Own(f) = Own(Top) \cup ({answer} \ {Null})
    PROVE  TreeInv'
PROOF
<1>1. /\ Forest(heap, Rest(frames) \cup Own(Top) \cup ({answer} \ {Null}))
      /\ OwnApart(Top, Rest(frames)) /\ Null \notin Rest(frames)
      /\ answer \notin Rest(frames)
      /\ DOMAIN heap \subseteq 1 .. created
    BY TopTree
<1>2. OwnApart(f, Rest(frames)) /\ answer' \notin Rest(frames) \cup Own(f)
    BY <1>1 DEF OwnApart, Own
<1>3. Rest(frames) \cup Own(f) \cup ({answer'} \ {Null})
          = Rest(frames) \cup Own(Top) \cup ({answer} \ {Null})
    OBVIOUS
<1>4. Forest(heap', Rest(frames) \cup Own(f) \cup ({answer'} \ {Null}))
    BY <1>1, <1>3
<1>. QED
    BY <1>1, <1>2, <1>4, GotoTree

(* also when it calls a rule. *)
LEMMA MoveCallTree ==
    ASSUME ParserInv, TreeInv, Running, UNCHANGED <<heap, created>>, answer' = Null,
           NEW f, NEW r \in Callable, frames' = Append(WithLast(frames, f), Frame(r)),
           KindFits(heap, f),
           f.node # Null => f.node # f.held, Own(f) = Own(Top) \cup ({answer} \ {Null})
    PROVE  TreeInv'
PROOF
<1>1. /\ Forest(heap, Rest(frames) \cup Own(Top) \cup ({answer} \ {Null}))
      /\ OwnApart(Top, Rest(frames)) /\ answer \notin Rest(frames)
      /\ DOMAIN heap \subseteq 1 .. created
    BY TopTree
<1>2. OwnApart(f, Rest(frames))
    BY <1>1 DEF OwnApart, Own
<1>3. Rest(frames) \cup Own(f) = Rest(frames) \cup Own(Top) \cup ({answer} \ {Null})
    OBVIOUS
<1>4. Forest(heap', Rest(frames) \cup Own(f))
    BY <1>1, <1>3
<1>. QED
    BY <1>1, <1>2, <1>4, CallRuleTree

LEMMA KeepDone ==
    ASSUME ParserInv, TreeInv, Running, UNCHANGED <<heap, created>>, answer' = Null,
           NEW m, frames' = WithLast(frames, Done(m)),
           {m} \ {Null} = Own(Top) \cup ({answer} \ {Null})
    PROVE  TreeInv'
PROOF
<1>. DEFINE f == Done(m)
<1>1. f.node = m /\ f.held = Null /\ f.phase = "done"
    BY AtTop DEF Done, Fine
<1>2. frames' = WithLast(frames, f)
    OBVIOUS
<1>. HIDE DEF f
<1>3. Own(f) = {m} \ {Null}
    BY <1>1 DEF Own
<1>4. KindFits(heap, f)
    BY <1>1, NothingToSet
<1>. QED
    BY <1>1, <1>2, <1>3, <1>4, MoveTree

(* Which nodes a frame has in which phase. *)
LEMMA Owns ==
    ASSUME ParserInv, Running
    PROVE  /\ Top.phase \notin Waiting => answer = Null
           /\ Top.phase \in Bare => Top.node = Null
           /\ Top.held # Null => \/ Top.phase \in {"right", "append", "slice"}
                                 \/ Top.phase = "enter" /\ Rule.form = "suffix"
           /\ Top.phase \in Building => Top.node # Null
PROOF
    BY AtTop DEF Fine, Rule

LEMMA ReturnTree ==
    ASSUME ParserInv, TreeInv, Return
    PROVE  TreeInv'
PROOF
<1>1. Running /\ Top.phase = "done" /\ frames' = Front(frames) /\ created' = created
    BY DEF Return, At
<1>2. Top.held = Null /\ answer = Null
    BY <1>1, Owns DEF Waiting
<1>3. /\ Forest(heap, Rest(frames) \cup Own(Top) \cup ({answer} \ {Null}))
      /\ OwnApart(Top, Rest(frames)) /\ Null \notin Rest(frames)
      /\ DOMAIN heap \subseteq 1 .. created
    BY <1>1, TopTree
<1>4. Own(Top) = {Top.node} \ {Null}
    BY <1>2 DEF Own
<1>5. Forest(heap, Rest(frames) \cup ({Top.node} \ {Null}))
  <2>1. Rest(frames) \cup Own(Top) \cup ({answer} \ {Null})
            = Rest(frames) \cup ({Top.node} \ {Null})
      BY <1>2, <1>4
  <2>. QED
      BY <1>3, <2>1
<1>6. Top.node \notin Rest(frames)
    BY <1>3, <1>4 DEF OwnApart
<1>7. /\ Forest(heap', Rest(frames) \cup ({answer'} \ {Null}))
      /\ answer' \notin Rest(frames) /\ DOMAIN heap' \subseteq DOMAIN heap
      /\ \A n \in DOMAIN heap' : heap'[n] = heap[n]
  <2>1. CASE Top.node # Null /\ ~Calm
    <3>1. answer' = Null /\ heap' = Free(heap, Top.node)
        BY <2>1 DEF Return
    <3>2. Forest(heap', (Rest(frames) \cup ({Top.node} \ {Null})) \ {Top.node})
        BY <1>5, <2>1, <3>1, FreeForest
    <3>3. (Rest(frames) \cup ({Top.node} \ {Null})) \ {Top.node}
              = Rest(frames) \cup ({answer'} \ {Null})
        BY <1>6, <3>1
    <3>. QED
        BY <1>3, <3>1, <3>2, <3>3 DEF Free
  <2>2. CASE ~(Top.node # Null /\ ~Calm)
    <3>1. answer' = Top.node /\ heap' = heap
        BY <2>2 DEF Return
    <3>. QED
        BY <1>5, <1>6, <3>1
  <2>. QED
      BY <2>1, <2>2
<1>8. /\ frames # <<>> /\ IsSequence(frames) /\ Len(frames) \in Nat \ {0}
      /\ Len(frames') = Len(frames) - 1
      /\ \A i \in 1 .. Len(frames) - 1 : frames'[i] = frames[i]
    BY <1>1, AtTop, FrontFacts
<1>9. All(frames') = Rest(frames) /\ Apart(frames')
    BY <1>1, <1>8, FrontRoots DEF TreeInv
<1>10. \A i \in 1 .. Len(frames) - 1 : KindFits(heap', frames[i])
  <2>1. SUFFICES ASSUME NEW i \in 1 .. Len(frames) - 1
                 PROVE  KindFits(heap', frames[i])
      OBVIOUS
  <2>2. \A n \in Own(frames[i]) : n \in Rest(frames)
      BY DEF Rest
  <2>3. \A n \in Rest(frames) : n \in DOMAIN heap'
      BY <1>7 DEF Forest
  <2>4. \A n \in Own(frames[i]) : heap'[n].kind = heap[n].kind
      BY <1>7, <2>2, <2>3
  <2>. QED
      BY <1>1, <2>4, KindStays, TopTree
<1>11. Forest(heap', All(frames') \cup ({answer'} \ {Null}))
    BY <1>7, <1>9
<1>. QED
    BY <1>1, <1>3, <1>7, <1>8, <1>9, <1>10, <1>11 DEF TreeInv

LEMMA BeginTree ==
    ASSUME ParserInv, TreeInv, Begin
    PROVE  TreeInv'
PROOF
<1>. DEFINE id == created + 1
            R == Rest(frames)
<1>1. /\ Running /\ Top.phase = "enter" /\ Rule.form \in {"construct", "suffix", "chain"}
      /\ Otherwise /\ answer' = answer /\ Rule = Rules[Top.rule]
    BY DEF Begin, In, At, OnlyFrames, Rule
<1>2. /\ Fine(Top) /\ RuleShape(Top.rule) /\ Top.node = Null /\ answer = Null
      /\ Top.held # Null <=> Rule.form = "suffix"
    BY <1>1, AtTop, Owns DEF Waiting, Bare, Fine
<1>3. /\ Forest(heap, R \cup Own(Top) \cup ({answer} \ {Null}))
      /\ OwnApart(Top, R) /\ Null \notin R /\ R \subseteq DOMAIN heap
      /\ DOMAIN heap \subseteq 1 .. created /\ created \in Nat
      /\ id \notin DOMAIN heap /\ id # Null
    BY <1>1, TopTree
<1>4. Own(Top) = {Top.held} \ {Null}
    BY <1>2 DEF Own
<1>5. Forest(heap, R \cup ({Top.held} \ {Null}))
  <2>1. R \cup Own(Top) \cup ({answer} \ {Null}) = R \cup ({Top.held} \ {Null})
      BY <1>2, <1>4
  <2>. QED
      BY <1>3, <2>1
<1>. HIDE DEF id, R
<1>6. CASE Starts(Rule.start)
  <2>1. PICK text, field, kid :
            /\ heap' = Attach(Create(heap, id, Rule.kind, text), id, field, kid)
            /\ kid = Top.held
            /\ kid # Null => IsTraversed(Rule.kind, field)
    <3>1. CASE Rule.form = "suffix"
      <4>1. heap' = Attach(Create(heap, id, Rule.kind, Current), id, Rule.field, Top.held)
          BY <1>6, <3>1 DEF Begin, NewAround, id
      <4>2. IsTraversed(Rule.kind, Rule.field)
          BY <1>1, <1>2, <3>1 DEF RuleShape
      <4>. QED
          BY <4>1, <4>2
    <3>2. CASE Rule.form # "suffix"
      <4>1. heap' = Attach(Create(heap, id, Rule.kind,
                              IF Rule.start = {} THEN "none" ELSE Current), id, "none", Null)
          BY <1>6, <3>2 DEF Begin, NewAround, id
      <4>2. Top.held = Null
          BY <1>2, <3>2
      <4>. QED
          BY <4>1, <4>2
    <3>. QED
        BY <3>1, <3>2
  <2>2. /\ Forest(heap', ((R \cup ({Top.held} \ {Null})) \ {kid}) \cup {id})
        /\ DOMAIN heap' = DOMAIN heap \cup {id}
        /\ \A n \in DOMAIN heap : heap'[n].kind = heap[n].kind
        /\ heap'[id].kind = Rule.kind
    <3>1. PICK S : S = R \cup ({Top.held} \ {Null})
        OBVIOUS
    <3>2. Forest(heap, S) /\ (kid = Null \/ (kid \in S /\ IsTraversed(Rule.kind, field)))
        BY <1>5, <2>1, <3>1
    <3>3. Grows(heap, heap', (S \ {kid}) \cup {id}, {id})
        BY <1>3, <2>1, <3>2, AroundGrows
    <3>. QED
        BY <2>1, <3>1, <3>3, AroundKind DEF Grows
  <2>3. ((R \cup ({Top.held} \ {Null})) \ {kid}) \cup {id} = R \cup {id}
      BY <1>3, <1>4, <2>1 DEF OwnApart
  <2>4. Forest(heap', R \cup {id})
      BY <2>2, <2>3
  <2>5. created' = id /\ DOMAIN heap' \subseteq 1 .. created'
    <3>1. created' = id
        BY <1>6 DEF Begin, NewAround, id
    <3>. QED
        BY <1>3, <2>2, <3>1 DEF id
  <2>6. \E f : /\ frames' = WithLast(frames, f) /\ f.node = id /\ f.held = Null
               /\ KindFits(heap', f)
    <3>1. CASE Rule.form = "chain"
      <4>. DEFINE f == [Top EXCEPT !.phase = "suffixes", !.node = id]
      <4>1. frames' = WithLast(frames, f)
          BY <1>6, <3>1 DEF Begin, Goto, id
      <4>2. f.node = id /\ f.held = Null /\ f.phase = "suffixes"
          BY <1>2, <3>1 DEF Fine
      <4>. HIDE DEF f
      <4>3. KindFits(heap', f)
          BY <4>2, NothingToSet
      <4>. QED
          BY <4>1, <4>2, <4>3
    <3>2. CASE Rule.form # "chain"
      <4>. DEFINE g == [Top EXCEPT !.node = id, !.held = Null]
                  f == Onward(g, 1)
      <4>1. frames' = WithLast(frames, f)
          BY <1>6, <3>2 DEF Begin, Goto, id
      <4>2. /\ DOMAIN g = DOMAIN Top /\ g.rule = Top.rule /\ g.node = id /\ g.held = Null
          BY <1>2 DEF Fine
      <4>. HIDE DEF g
      <4>3. Rules[Top.rule].form \in {"construct", "suffix", "wrap"} /\ g.node # Null
            /\ heap'[g.node].kind = Rules[Top.rule].kind
          BY <1>1, <1>3, <2>2, <3>2, <4>2
      <4>4. f.node = g.node /\ f.held = g.held /\ KindFits(heap', f)
          BY <1>2, <4>2, <4>3, FirstFits
      <4>. QED
          BY <4>1, <4>2, <4>4
    <3>. QED
        BY <3>1, <3>2
  <2>7. PICK f : /\ frames' = WithLast(frames, f) /\ f.node = id /\ f.held = Null
                 /\ KindFits(heap', f)
      BY <2>6
  <2>8. Own(f) = {id} /\ OwnApart(f, R) /\ answer' \notin R \cup Own(f)
      BY <1>1, <1>2, <1>3, <2>7 DEF Own, OwnApart
  <2>9. R \cup Own(f) \cup ({answer'} \ {Null}) = R \cup {id}
      BY <1>1, <1>2, <2>8
  <2>10. \A n \in R : heap'[n].kind = heap[n].kind
      BY <1>3, <2>2
  <2>11. Forest(heap', R \cup Own(f) \cup ({answer'} \ {Null}))
      BY <2>4, <2>9
  <2>. QED
      BY <1>1, <2>5, <2>7, <2>8, <2>10, <2>11, GotoTree DEF R
<1>7. CASE ~Starts(Rule.start)
  <2>1. /\ frames' = WithLast(frames, Done(Null)) /\ UNCHANGED <<heap, created>>
      BY <1>7 DEF Begin, Goto, SameTree
  <2>2. Rule.form # "suffix"
      BY <1>1, <1>7, AtTop DEF ParserInv, FramesInv
  <2>3. {Null} \ {Null} = Own(Top) \cup ({answer} \ {Null})
      BY <1>2, <1>4, <2>2
  <2>. QED
      BY <1>1, <1>2, <2>1, <2>3, KeepDone
<1>. QED
    BY <1>6, <1>7

LEMMA CallChildTree ==
    ASSUME ParserInv, TreeInv, CallChild
    PROVE  TreeInv'
PROOF
<1>. DEFINE f == [Top EXCEPT !.phase = "child"]
<1>1. /\ Running /\ Top.phase = "steps" /\ Step.do \in {"child", "become"}
      /\ frames' = Append(WithLast(frames, f), Frame(Step.rule))
      /\ answer' = answer /\ UNCHANGED <<heap, created>>
    BY DEF CallChild, AtStep, At, OnlyFrames, SameTree, Call
<1>2. answer = Null /\ Fine(Top) /\ OwnApart(Top, Rest(frames)) /\ KindFits(heap, Top)
    BY <1>1, Owns, AtTop, TopTree DEF Waiting
<1>3. Step.rule \in Callable
    BY <1>1, StepFacts DEF StepShape, InStep
<1>4. /\ f.rule = Top.rule /\ f.at = Top.at /\ f.node = Top.node /\ f.held = Top.held
      /\ f.phase = "child"
    BY <1>2 DEF Fine
<1>. HIDE DEF f
<1>5. KindFits(heap, f)
    BY <1>1, <1>2, <1>4 DEF KindFits, InStep
<1>6. Own(f) = Own(Top) \cup ({answer} \ {Null}) /\ (f.node # Null => f.node # f.held)
    BY <1>2, <1>4 DEF Own, OwnApart
<1>. QED
    BY <1>1, <1>2, <1>3, <1>5, <1>6, MoveCallTree

LEMMA TakeChildTree ==
    ASSUME ParserInv, TreeInv, TakeChild
    PROVE  TreeInv'
PROOF
<1>1. /\ Running /\ Top.phase = "child" /\ InStep(Top) /\ answer' = Null
      /\ created' = created
    BY DEF TakeChild, At, Taking, InStep
<1>2. /\ Step = StepsOf(Top.rule)[Top.at] /\ StepShape(Top.rule, Top.at)
      /\ Top.at \in Nat /\ Top.held = Null /\ Top.at \in DOMAIN StepsOf(Top.rule)
      /\ Rule.form # "scoped" => Top.node # Null
      /\ Rule = Rules[Top.rule]
    BY <1>1, StepFacts
<1>3. /\ Fine(Top) /\ Top.rule \in DOMAIN Rules /\ RuleShape(Top.rule)
    BY <1>1, AtTop
<1>4. /\ Forest(heap, Rest(frames) \cup Own(Top) \cup ({answer} \ {Null}))
      /\ OwnApart(Top, Rest(frames)) /\ Null \notin Rest(frames)
      /\ answer \notin Rest(frames) \cup Own(Top)
      /\ Rest(frames) \cup Own(Top) \subseteq DOMAIN heap
      /\ DOMAIN heap \subseteq 1 .. created /\ KindFits(heap, Top)
    BY <1>1, TopTree
<1>5. CASE Step.do = "become"
  <2>. DEFINE g == [Top EXCEPT !.node = answer]
              f == Onward(g, Top.at + 1)
  <2>1. frames' = WithLast(frames, f) /\ heap' = heap
      BY <1>5 DEF TakeChild, Goto
  <2>2. Rules[Top.rule].form = "scoped" /\ Top.at = 2 /\ Top.node = Null
      BY <1>1, <1>2, <1>3, <1>5 DEF StepShape, Fine
  <2>3. /\ f.rule = Top.rule /\ f.at = 3 /\ f.node = answer /\ f.held = Null
        /\ f.phase \in {"steps", "done"}
      BY <1>2, <1>3, <2>2 DEF Onward, Fine
  <2>. HIDE DEF f
  <2>4. \A j \in f.at .. Len(StepsOf(f.rule)) : Fills(StepsOf(f.rule)[j]) = {}
    <3>1. /\ Len(StepsOf(Top.rule)) \in Nat
          /\ \A j \in 1 .. Len(StepsOf(Top.rule)) : Fills(StepsOf(Top.rule)[j]) = {}
        BY <1>3, <2>2, ScopedFills
    <3>2. \A j \in 3 .. Len(StepsOf(Top.rule)) : j \in 1 .. Len(StepsOf(Top.rule))
        BY <3>1
    <3>. QED
        BY <2>3, <3>1, <3>2
  <2>5. KindFits(heap, f)
      BY <2>3, <2>4 DEF KindFits
  <2>6. Own(f) = Own(Top) \cup ({answer} \ {Null}) /\ (f.node # Null => f.node # f.held)
      BY <1>2, <2>2, <2>3 DEF Own
  <2>. QED
      BY <1>1, <2>1, <2>5, <2>6, MoveTree
<1>6. CASE Step.do # "become"
  <2>1. Step.do = "child" /\ Rule.form # "scoped"
      BY <1>1, <1>2, <1>3, <1>6 DEF Fine, StepShape
  <2>2. /\ frames' = WithLast(frames, Onward(Top, Top.at + 1))
        /\ heap' = Attach(heap, Top.node, Step.field, answer)
      BY <1>6 DEF TakeChild, Goto, NextStep
  <2>3. Own(Top) = {Top.node} /\ Top.node # Null
      BY <1>2, <2>1 DEF Own
  <2>4. IsTraversed(heap[Top.node].kind, Step.field)
    <3>1. Step.field \in Fills(StepsOf(Top.rule)[Top.at])
        BY <1>2, <2>1 DEF Fills
    <3>2. Top.at \in Top.at .. Len(StepsOf(Top.rule))
        BY <1>2, <1>3 DEF RuleShape, IsList, StepsOf, Fine, InStep
    <3>. QED
        BY <1>1, <1>4, <3>1, <3>2 DEF KindFits
  <2>5. /\ Forest(heap', (Rest(frames) \cup Own(Top) \cup ({answer} \ {Null})) \ {answer})
        /\ DOMAIN heap' = DOMAIN heap
        /\ \A n \in DOMAIN heap : heap'[n].kind = heap[n].kind
    <3>1. PICK S : S = Rest(frames) \cup Own(Top) \cup ({answer} \ {Null})
        OBVIOUS
    <3>2. /\ Forest(heap, S) /\ Top.node \in S
          /\ answer # Null => answer \in S /\ answer # Top.node
        BY <1>4, <2>3, <3>1
    <3>3. Grows(heap, heap', S \ {answer}, {})
        BY <2>2, <2>4, <3>2, AttachGrows
    <3>. QED
        BY <3>1, <3>3 DEF Grows
  <2>6. (Rest(frames) \cup Own(Top) \cup ({answer} \ {Null})) \ {answer}
            = Rest(frames) \cup Own(Top)
      BY <1>4
  <2>7. Top.at + 1 \in Nat /\ Top.at + 1 >= Top.at
      BY <1>2
  <2>8. /\ Forest(heap', Rest(frames) \cup Own(Top)) /\ DOMAIN heap' \subseteq 1 .. created'
        /\ \A m \in Rest(frames) \cup Own(Top) : heap'[m].kind = heap[m].kind
      BY <1>1, <1>4, <2>5, <2>6
  <2>. QED
      BY <1>1, <2>2, <2>7, <2>8, OnTree
<1>. QED
    BY <1>5, <1>6

-----------------------------------------------------------------------------
(* Rules that are no lists of steps: choices, definitions, chains, levels. *)
LEMMA PlainMove ==
    ASSUME ParserInv, TreeInv, Running, UNCHANGED <<heap, created>>, answer' = Null,
           NEW f, f.phase \notin {"steps", "child", "item", "append", "slices", "slice"},
           f.node # Null => f.node # f.held, Own(f) = Own(Top) \cup ({answer} \ {Null}),
           \/ frames' = WithLast(frames, f)
           \/ \E r \in Callable : frames' = Append(WithLast(frames, f), Frame(r))
    PROVE  TreeInv'
PROOF
<1>1. KindFits(heap, f)
    BY NothingToSet
<1>2. CASE frames' = WithLast(frames, f)
    BY <1>1, <1>2, MoveTree
<1>3. ASSUME NEW r \in Callable, frames' = Append(WithLast(frames, f), Frame(r))
      PROVE  TreeInv'
    BY <1>1, <1>3, MoveCallTree
<1>. QED
    BY <1>2, <1>3

LEMMA ChooseTree ==
    ASSUME ParserInv, TreeInv, Choose
    PROVE  TreeInv'
PROOF
<1>1. /\ Running
      /\ \/ Top.phase = "enter" /\ Rule.form = "choice"
         \/ Top.phase = "choose" /\ Rule.form = "definition"
      /\ answer' = answer /\ UNCHANGED <<heap, created>>
    BY DEF Choose, In, At, OnlyFrames, SameTree
<1>2. /\ Rule = Rules[Top.rule] /\ RuleShape(Top.rule) /\ Fine(Top)
    BY <1>1, AsideFacts
<1>3. Top.node = Null /\ Top.held = Null /\ answer = Null
    BY <1>1, Owns DEF Bare, Waiting
<1>4. Own(Top) = {}
    BY <1>3 DEF Own
<1>. DEFINE left == {i \in Top.at .. Len(Rule.of) : Starts(Rules[Rule.of[i]].start)}
<1>5. ASSUME NEW first \in left,
             frames' = Append(WithLast(frames, [Top EXCEPT !.phase = "chosen", !.at = first + 1]),
                              Frame(Rule.of[first]))
      PROVE  TreeInv'
  <2>. DEFINE f == [Top EXCEPT !.phase = "chosen", !.at = first + 1]
  <2>1. first \in DOMAIN Rule.of /\ Rule.of[first] \in Callable
      BY <1>1, <1>2 DEF Fine, RuleShape, IsList
  <2>2. f.node = Null /\ f.held = Null /\ f.phase = "chosen"
      BY <1>2, <1>3 DEF Fine
  <2>3. \E r \in Callable : frames' = Append(WithLast(frames, f), Frame(r))
      BY <1>5, <2>1
  <2>. HIDE DEF f
  <2>4. Own(f) = Own(Top) \cup ({answer} \ {Null})
      BY <1>3, <1>4, <2>2 DEF Own
  <2>. QED
      BY <1>1, <1>3, <2>2, <2>3, <2>4, PlainMove
<1>6. CASE frames' = WithLast(frames, Done(Null))
  <2>1. {Null} \ {Null} = Own(Top) \cup ({answer} \ {Null})
      BY <1>3, <1>4
  <2>. QED
      BY <1>1, <1>3, <1>6, <2>1, KeepDone
<1>. QED
    BY <1>5, <1>6 DEF Choose, Call, Goto

LEMMA TakeChosenTree ==
    ASSUME ParserInv, TreeInv, TakeChosen
    PROVE  TreeInv'
PROOF
<1>1. /\ Running /\ Top.phase = "chosen" /\ answer' = Null /\ UNCHANGED <<heap, created>>
    BY DEF TakeChosen, At, Taking, SameTree
<1>2. Top.node = Null /\ Top.held = Null /\ Fine(Top)
    BY <1>1, Owns, AtTop DEF Bare
<1>3. Own(Top) = {}
    BY <1>2 DEF Own
<1>4. CASE frames' = WithLast(frames, Done(answer))
  <2>1. {answer} \ {Null} = Own(Top) \cup ({answer} \ {Null})
      BY <1>3
  <2>. QED
      BY <1>1, <1>4, <2>1, KeepDone
<1>5. ASSUME NEW p \in {"enter", "choose", "define"},
             frames' = WithLast(frames, [Top EXCEPT !.phase = p, !.node = answer])
      PROVE  TreeInv'
  <2>. DEFINE f == [Top EXCEPT !.phase = p, !.node = answer]
  <2>1. f.node = answer /\ f.held = Null /\ f.phase = p
      BY <1>2 DEF Fine
  <2>2. frames' = WithLast(frames, f)
      BY <1>5
  <2>. HIDE DEF f
  <2>3. Own(f) = Own(Top) \cup ({answer} \ {Null})
      BY <1>3, <2>1 DEF Own
  <2>. QED
      BY <1>1, <2>1, <2>2, <2>3, PlainMove
<1>6. CASE frames' = WithLast(frames, [Top EXCEPT !.phase = "enter"]) /\ answer = Null
  <2>. DEFINE f == [Top EXCEPT !.phase = "enter"]
  <2>1. f.node = Null /\ f.held = Null /\ f.phase = "enter"
      BY <1>2 DEF Fine
  <2>2. frames' = WithLast(frames, f)
      BY <1>6
  <2>. HIDE DEF f
  <2>3. Own(f) = Own(Top) \cup ({answer} \ {Null})
      BY <1>3, <1>6, <2>1 DEF Own
  <2>. QED
      BY <1>1, <2>1, <2>2, <2>3, PlainMove
<1>7. frames' = WithLast(frames,
            IF Rule.form = "choice"
            THEN IF answer = Null THEN [Top EXCEPT !.phase = "enter"] ELSE Done(answer)
            ELSE [Top EXCEPT !.phase = IF answer = Null THEN "choose" ELSE "define",
                             !.node = answer])
    BY DEF TakeChosen, Goto
<1>8. CASE Rule.form = "choice"
    BY <1>4, <1>6, <1>7, <1>8
<1>9. CASE Rule.form # "choice"
  <2>1. PICK p : p = IF answer = Null THEN "choose" ELSE "define"
      OBVIOUS
  <2>2. frames' = WithLast(frames, [Top EXCEPT !.phase = p, !.node = answer])
      BY <1>7, <1>9, <2>1
  <2>. QED
      BY <1>5, <2>1, <2>2
<1>. QED
    BY <1>8, <1>9

LEMMA ReadVisibilityTree ==
    ASSUME ParserInv, TreeInv, ReadVisibility
    PROVE  TreeInv'
PROOF
<1>1. /\ Running /\ Top.phase = "enter" /\ Rule.form = "definition" /\ answer' = answer
      /\ UNCHANGED <<heap, created>>
    BY DEF ReadVisibility, In, At, OnlyFrames, SameTree
<1>2. Top.node = Null /\ Top.held = Null /\ Fine(Top) /\ answer = Null
    BY <1>1, Owns, AtTop DEF Bare, Waiting
<1>3. \E f : frames' = WithLast(frames, f) /\ f.node = Null /\ f.held = Null /\ f.phase = "choose"
  <2>1. \A t : LET f == [Top EXCEPT !.phase = "choose", !.text = t]
                   g == [Top EXCEPT !.phase = "choose"]
               IN  /\ f.node = Null /\ f.held = Null /\ f.phase = "choose"
                   /\ g.node = Null /\ g.held = Null /\ g.phase = "choose"
      BY <1>2 DEF Fine
  <2>. QED
      BY <2>1 DEF ReadVisibility, Goto
<1>4. PICK f : /\ frames' = WithLast(frames, f) /\ f.node = Null /\ f.held = Null
               /\ f.phase = "choose"
    BY <1>3
<1>5. Own(f) = Own(Top) \cup ({answer} \ {Null})
    BY <1>2, <1>4 DEF Own
<1>. QED
    BY <1>1, <1>2, <1>4, <1>5, PlainMove

LEMMA TakeSuffixTree ==
    ASSUME ParserInv, TreeInv, TakeSuffix
    PROVE  TreeInv'
PROOF
<1>1. /\ Running /\ Top.phase = "suffixes" /\ Rule.form = "chain"
      /\ answer' = answer /\ UNCHANGED <<heap, created>>
    BY DEF TakeSuffix, In, At, OnlyFrames, SameTree
<1>2. Rule = Rules[Top.rule] /\ Fine(Top) /\ RuleShape(Top.rule)
    BY <1>1, AsideFacts
<1>3. Top.node # Null /\ Top.held = Null /\ answer = Null
    BY <1>1, Owns DEF Building, Waiting
<1>4. Own(Top) = {Top.node}
    BY <1>3 DEF Own
<1>5. CASE frames' = WithLast(frames, Done(Top.node))
  <2>1. {Top.node} \ {Null} = Own(Top) \cup ({answer} \ {Null})
      BY <1>3, <1>4
  <2>. QED
      BY <1>1, <1>3, <1>5, <2>1, KeepDone
<1>6. ASSUME NEW r \in ToSet(Rule.of),
             frames' = Append(WithLast(frames, [Top EXCEPT !.phase = "suffixed", !.node = Null]),
                              [Frame(r) EXCEPT !.held = Top.node])
      PROVE  TreeInv'
  <2>. DEFINE f == [Top EXCEPT !.phase = "suffixed", !.node = Null]
              g == [Frame(r) EXCEPT !.held = Top.node]
  <2>1. f.node = Null /\ f.held = Null /\ f.phase = "suffixed"
      BY <1>2, <1>3 DEF Fine
  <2>2. Rules[r].form = "suffix"
      BY <1>1, <1>2 DEF RuleShape, IsList, ToSet
  <2>3. g.node = Null /\ g.held = Top.node /\ g.phase = "enter"
      BY <2>2 DEF Frame
  <2>4. frames' = Append(WithLast(frames, f), g)
      BY <1>6
  <2>. HIDE DEF f, g
  <2>5. Own(f) = {} /\ Own(g) = Own(Top) /\ OwnApart(f, Rest(frames))
      BY <1>3, <1>4, <2>1, <2>3 DEF Own, OwnApart
  <2>6. OwnApart(g, Rest(frames) \cup Own(f))
      BY <1>1, <2>3, <2>5, TopTree DEF OwnApart
  <2>7. Forest(heap', Rest(frames) \cup Own(f) \cup Own(g))
    <3>1. Rest(frames) \cup Own(Top) \cup ({answer} \ {Null})
              = Rest(frames) \cup Own(f) \cup Own(g)
        BY <1>3, <2>5
    <3>. QED
        BY <1>1, <3>1, TopTree
  <2>8. KindFits(heap', f) /\ KindFits(heap', g)
      BY <2>1, <2>3, NothingToSet
  <2>9. DOMAIN heap' \subseteq 1 .. created'
      BY <1>1, TopTree
  <2>. QED
      BY <1>1, <1>3, <2>4, <2>5, <2>6, <2>7, <2>8, <2>9, CallTree
<1>. QED
    BY <1>5, <1>6 DEF TakeSuffix, Call, Goto

LEMMA TakeSuffixedTree ==
    ASSUME ParserInv, TreeInv, TakeSuffixed
    PROVE  TreeInv'
PROOF
<1>1. /\ Running /\ Top.phase = "suffixed" /\ answer' = Null /\ UNCHANGED <<heap, created>>
    BY DEF TakeSuffixed, At, Taking, SameTree
<1>2. Top.node = Null /\ Top.held = Null /\ Fine(Top)
    BY <1>1, Owns, AtTop DEF Bare
<1>3. Own(Top) = {}
    BY <1>2 DEF Own
<1>4. CASE answer = Null
  <2>1. frames' = WithLast(frames, Done(Null))
      BY <1>4 DEF TakeSuffixed, Goto
  <2>2. {Null} \ {Null} = Own(Top) \cup ({answer} \ {Null})
      BY <1>3, <1>4
  <2>. QED
      BY <1>1, <2>1, <2>2, KeepDone
<1>5. CASE answer # Null
  <2>. DEFINE f == [Top EXCEPT !.phase = "suffixes", !.node = answer]
  <2>1. f.node = answer /\ f.held = Null /\ f.phase = "suffixes"
      BY <1>2 DEF Fine
  <2>2. frames' = WithLast(frames, f)
      BY <1>5 DEF TakeSuffixed, Goto
  <2>. HIDE DEF f
  <2>3. Own(f) = Own(Top) \cup ({answer} \ {Null})
      BY <1>3, <2>1 DEF Own
  <2>. QED
      BY <1>1, <2>1, <2>2, <2>3, PlainMove
<1>. QED
    BY <1>4, <1>5

LEMMA DefineTree ==
    ASSUME ParserInv, TreeInv, Define
    PROVE  TreeInv'
PROOF
<1>1. /\ Running /\ Top.phase = "define" /\ answer' = answer /\ created' = created
      /\ frames' = WithLast(frames, Done(Top.node))
      /\ heap' = [heap EXCEPT ![Top.node].note = Top.text]
    BY DEF Define, At, Goto
<1>2. Top.held = Null /\ answer = Null
    BY <1>1, Owns DEF Waiting
<1>3. Edited(heap, heap')
    BY <1>1, HeapNodes, Edits
<1>4. Own(Top) = {Top.node} \ {Null}
    BY <1>2 DEF Own
<1>5. Forest(heap, Rest(frames) \cup ({Top.node} \ {Null}))
  <2>1. Rest(frames) \cup Own(Top) \cup ({answer} \ {Null})
            = Rest(frames) \cup ({Top.node} \ {Null})
      BY <1>2, <1>4
  <2>. QED
      BY <1>1, <2>1, TopTree
<1>6. Forest(heap', Rest(frames) \cup ({Top.node} \ {Null}))
    BY <1>3, <1>5, EditForest DEF Edited
<1>7. /\ DOMAIN heap' \subseteq 1 .. created'
      /\ \A n \in Rest(frames) : heap'[n].kind = heap[n].kind
  <2>1. DOMAIN heap \subseteq 1 .. created /\ Rest(frames) \subseteq DOMAIN heap
      BY <1>1, TopTree
  <2>. QED
      BY <1>1, <1>3, <2>1 DEF Edited
<1>8. Top.node \notin Rest(frames)
  <2>1. OwnApart(Top, Rest(frames)) /\ Null \notin Rest(frames)
      BY <1>1, TopTree
  <2>. QED
      BY <1>4, <2>1 DEF OwnApart
<1>. QED
    BY <1>1, <1>2, <1>6, <1>7, <1>8, DoneTree

LEMMA CallOperandTree ==
    ASSUME ParserInv, TreeInv, CallOperand \/ CallFirst \/ BeginAssign
    PROVE  TreeInv'
PROOF
<1>1. /\ Running /\ Top.phase = "enter" /\ Rule.form \in {"level", "wrap", "assign"}
      /\ answer' = answer /\ UNCHANGED <<heap, created>>
    BY DEF CallOperand, CallFirst, BeginAssign, In, At, OnlyFrames, SameTree
<1>2. /\ Top.node = Null /\ Top.held = Null /\ Fine(Top) /\ answer = Null
      /\ RuleShape(Top.rule) /\ Rule = Rules[Top.rule]
    BY <1>1, Owns, AtTop DEF Bare, Waiting, Rule
<1>3. PICK p \in {"left", "first", "target"}, r \in Callable :
          frames' = Append(WithLast(frames, [Top EXCEPT !.phase = p]), Frame(r))
  <2>1. CASE CallOperand
    <3>1. Rule.operand \in Callable
        BY <1>2, <2>1 DEF CallOperand, In, RuleShape
    <3>. QED
        BY <2>1, <3>1 DEF CallOperand, Call
  <2>2. CASE CallFirst
    <3>1. Rule.first \in Callable
        BY <1>2, <2>2 DEF CallFirst, In, RuleShape
    <3>. QED
        BY <2>2, <3>1 DEF CallFirst, Call
  <2>3. CASE BeginAssign
    <3>1. "primary" \in Callable
        BY RulesAssumption
    <3>. QED
        BY <2>3, <3>1 DEF BeginAssign, Call
  <2>. QED
      BY <2>1, <2>2, <2>3
<1>. DEFINE f == [Top EXCEPT !.phase = p]
<1>4. f.node = Null /\ f.held = Null /\ f.phase = p
    BY <1>2 DEF Fine
<1>5. \E c \in Callable : frames' = Append(WithLast(frames, f), Frame(c))
    BY <1>3
<1>. HIDE DEF f
<1>6. Own(f) = Own(Top) \cup ({answer} \ {Null})
    BY <1>2, <1>4 DEF Own
<1>. QED
    BY <1>1, <1>2, <1>4, <1>5, <1>6, PlainMove

LEMMA TakeLeftTree ==
    ASSUME ParserInv, TreeInv, TakeLeft
    PROVE  TreeInv'
PROOF
<1>1. /\ Running /\ Top.phase = "left" /\ answer' = Null /\ UNCHANGED <<heap, created>>
    BY DEF TakeLeft, At, Taking, SameTree
<1>2. /\ Top.node = Null /\ Top.held = Null /\ Fine(Top)
      /\ RuleShape(Top.rule) /\ Rule = Rules[Top.rule]
    BY <1>1, Owns, AtTop DEF Bare, Rule
<1>3. Own(Top) = {}
    BY <1>2 DEF Own
<1>4. CASE frames' = WithLast(frames, Done(answer))
  <2>1. {answer} \ {Null} = Own(Top) \cup ({answer} \ {Null})
      BY <1>3
  <2>. QED
      BY <1>1, <1>4, <2>1, KeepDone
<1>5. CASE frames' = Append(WithLast(frames,
                        [Top EXCEPT !.phase = "right", !.held = answer, !.text = Current]),
                        Frame(Rule.self))
  <2>. DEFINE f == [Top EXCEPT !.phase = "right", !.held = answer, !.text = Current]
  <2>1. Rule.self \in Callable
      BY <1>1, <1>2 DEF Fine, RuleShape
  <2>2. f.node = Null /\ f.held = answer /\ f.phase = "right"
      BY <1>2 DEF Fine
  <2>3. \E r \in Callable : frames' = Append(WithLast(frames, f), Frame(r))
      BY <1>5, <2>1
  <2>. HIDE DEF f
  <2>4. Own(f) = Own(Top) \cup ({answer} \ {Null})
      BY <1>3, <2>2 DEF Own
  <2>. QED
      BY <1>1, <2>2, <2>3, <2>4, PlainMove
<1>. QED
    BY <1>4, <1>5 DEF TakeLeft, Call, Goto

LEMMA TakeRightTree ==
    ASSUME ParserInv, TreeInv, TakeRight
    PROVE  TreeInv'
PROOF
<1>. DEFINE id == created + 1
            one == Attach(Create(heap, id, Rule.kind, Top.text), id, "left_operand", Top.held)
            R == Rest(frames) \cup Own(Top) \cup ({answer} \ {Null})
<1>1. /\ Running /\ Top.phase = "right" /\ answer' = Null /\ created' = id
      /\ heap' = Attach(one, id, "right_operand", answer)
      /\ frames' = WithLast(frames, Done(id))
    BY DEF TakeRight, At, Taking, Goto
<1>2. /\ Top.node = Null /\ Fine(Top) /\ RuleShape(Top.rule) /\ Rule = Rules[Top.rule]
    BY <1>1, Owns, AtTop DEF Bare, Rule
<1>3. IsTraversed(Rule.kind, "left_operand") /\ IsTraversed(Rule.kind, "right_operand")
    BY <1>1, <1>2 DEF Fine, RuleShape
<1>4. Own(Top) = {Top.held} \ {Null}
    BY <1>2 DEF Own
<1>5. /\ Forest(heap, R) /\ OwnApart(Top, Rest(frames)) /\ Null \notin Rest(frames)
      /\ answer \notin Rest(frames) \cup Own(Top)
      /\ Rest(frames) \subseteq DOMAIN heap /\ R \subseteq DOMAIN heap
      /\ DOMAIN heap \subseteq 1 .. created /\ created \in Nat
      /\ id \notin DOMAIN heap /\ id # Null
    BY <1>1, TopTree
<1>6. (Top.held # Null => Top.held \in R) /\ (answer # Null => answer \in R /\ answer # id)
    BY <1>4, <1>5
<1>. HIDE DEF R
<1>7. Grows(heap, one, (R \ {Top.held}) \cup {id}, {id})
    BY <1>3, <1>5, <1>6, AroundGrows
<1>8. one[id].kind = Rule.kind
    BY AroundKind
<1>. HIDE DEF one, id
<1>9. answer # Null => answer # Top.held
    BY <1>4, <1>5
<1>10. Forest(one, (R \ {Top.held}) \cup {id})
    BY <1>7 DEF Grows
<1>11. Grows(one, heap', ((R \ {Top.held}) \cup {id}) \ {answer}, {})
    BY <1>1, <1>3, <1>6, <1>8, <1>9, <1>10, AttachGrows
<1>12. ((R \ {Top.held}) \cup {id}) \ {answer} = Rest(frames) \cup ({id} \ {Null})
    BY <1>4, <1>5, <1>6 DEF R, OwnApart
<1>13. /\ Forest(heap', Rest(frames) \cup ({id} \ {Null}))
       /\ DOMAIN heap' = DOMAIN heap \cup {id}
       /\ \A n \in DOMAIN heap : heap'[n].kind = heap[n].kind
    BY <1>7, <1>11, <1>12 DEF Grows
<1>14. DOMAIN heap' \subseteq 1 .. created'
    BY <1>1, <1>5, <1>13 DEF id
<1>. QED
    BY <1>1, <1>5, <1>13, <1>14, DoneTree

LEMMA TakeFirstTree ==
    ASSUME ParserInv, TreeInv, TakeFirst
    PROVE  TreeInv'
PROOF
<1>. DEFINE id == created + 1
            R == Rest(frames)
            g == [Top EXCEPT !.node = id]
            f == Onward(g, 1)
<1>1. /\ Running /\ Top.phase = "first" /\ answer' = Null
    BY DEF TakeFirst, At, Taking
<1>2. /\ Top.node = Null /\ Top.held = Null /\ Fine(Top) /\ RuleShape(Top.rule)
      /\ Rule = Rules[Top.rule]
    BY <1>1, Owns, AtTop DEF Bare, Rule
<1>3. Rule.form = "wrap" /\ IsTraversed(Rule.kind, Rule.field)
    BY <1>1, <1>2 DEF Fine, RuleShape
<1>4. Own(Top) = {}
    BY <1>2 DEF Own
<1>5. CASE answer = Null
  <2>1. frames' = WithLast(frames, Done(Null)) /\ UNCHANGED <<heap, created>>
      BY <1>5 DEF TakeFirst, Goto, SameTree
  <2>2. {Null} \ {Null} = Own(Top) \cup ({answer} \ {Null})
      BY <1>4, <1>5
  <2>. QED
      BY <1>1, <2>1, <2>2, KeepDone
<1>6. CASE answer # Null
  <2>1. /\ Forest(heap, R \cup {answer}) /\ Null \notin R /\ answer \notin R
        /\ R \subseteq DOMAIN heap /\ answer \in DOMAIN heap
        /\ DOMAIN heap \subseteq 1 .. created /\ created \in Nat
        /\ id \notin DOMAIN heap /\ id # Null
    <3>. HIDE DEF f, g
    <3>1. Rest(frames) \cup Own(Top) \cup ({answer} \ {Null}) = R \cup {answer}
        BY <1>4, <1>6
    <3>2. Forest(heap, R \cup {answer})
        BY <1>1, <3>1, TopTree
    <3>3. /\ Null \notin R /\ answer \notin R
          /\ DOMAIN heap \subseteq 1 .. created /\ created \in Nat
          /\ id \notin DOMAIN heap /\ id # Null
        BY <1>1, TopTree
    <3>4. R \subseteq DOMAIN heap /\ answer \in DOMAIN heap
        BY <3>2 DEF Forest
    <3>. QED
        BY <3>2, <3>3, <3>4
  <2>2. frames' = WithLast(frames, f) /\ created' = id
      BY <1>6 DEF TakeFirst, Goto, NewAround
  <2>3. DOMAIN g = DOMAIN Top /\ g.rule = Top.rule /\ g.node = id /\ g.held = Null
      BY <1>2 DEF Fine
  <2>. HIDE DEF g
  <2>4. /\ Forest(heap', R \cup {id}) /\ DOMAIN heap' \subseteq DOMAIN heap \cup {id}
        /\ \A n \in R : heap'[n].kind = heap[n].kind
        /\ heap'[id].kind = Rule.kind
    <3>1. CASE heap' = Attach(Create(heap, id, Rule.kind, "none"), id, Rule.field, answer)
      <4>. HIDE DEF R, id
      <4>1. Grows(heap, heap', ((R \cup {answer}) \ {answer}) \cup {id}, {id})
          BY <1>3, <2>1, <3>1, AroundGrows
      <4>2. ((R \cup {answer}) \ {answer}) \cup {id} = R \cup {id}
          BY <2>1
      <4>3. heap'[id].kind = Rule.kind
          BY <3>1, AroundKind
      <4>. QED
          BY <2>1, <4>1, <4>2, <4>3 DEF Grows
    <3>2. CASE /\ Rule.kind = "Type"
               /\ heap' = Create(Free(heap, answer), id, "Type", heap[answer].text)
      <4>. HIDE DEF R, id
      <4>. DEFINE h == Free(heap, answer)
      <4>1. Forest(h, (R \cup {answer}) \ {answer})
          BY <2>1, FreeForest
      <4>2. (R \cup {answer}) \ {answer} = R
          BY <2>1
      <4>3. DOMAIN h \subseteq DOMAIN heap /\ \A n \in DOMAIN h : h[n] = heap[n]
          BY DEF Free
      <4>. HIDE DEF h
      <4>4. Forest(h, R) /\ id \notin DOMAIN h /\ R \subseteq DOMAIN h
          BY <2>1, <4>1, <4>2, <4>3 DEF Forest
      <4>5. heap' = Create(h, id, "Type", heap[answer].text)
          BY <3>2 DEF h
      <4>6. Grows(h, heap', R \cup {id}, {id})
          BY <2>1, <4>4, <4>5, CreateGrows
      <4>7. heap'[id].kind = "Type"
          BY <4>5 DEF Create, Fresh
      <4>. QED
          BY <3>2, <4>3, <4>4, <4>6, <4>7 DEF Grows
    <3>. QED
        BY <1>6, <3>1, <3>2 DEF TakeFirst, NewAround
  <2>5. f.node = id /\ f.held = Null /\ KindFits(heap', f)
    <3>1. /\ Rules[Top.rule].form \in {"construct", "suffix", "wrap"} /\ g.node # Null
          /\ heap'[g.node].kind = Rules[Top.rule].kind
        BY <1>2, <1>3, <2>1, <2>3, <2>4
    <3>. QED
        BY <1>2, <2>3, <3>1, FirstFits
  <2>. HIDE DEF f
  <2>6. Own(f) = {id} /\ OwnApart(f, R) /\ answer' \notin R \cup Own(f)
      BY <1>1, <2>1, <2>5 DEF Own, OwnApart
  <2>7. R \cup Own(f) \cup ({answer'} \ {Null}) = R \cup {id}
      BY <1>1, <2>6
  <2>8. Forest(heap', R \cup Own(f) \cup ({answer'} \ {Null}))
      BY <2>4, <2>7
  <2>9. DOMAIN heap' \subseteq 1 .. created'
      BY <2>1, <2>2, <2>4
  <2>. HIDE DEF id
  <2>. QED
      BY <1>1, <2>2, <2>4, <2>5, <2>6, <2>8, <2>9, GotoTree
<1>. QED
    BY <1>5, <1>6

-----------------------------------------------------------------------------
(* Sequences of what a rule returns. *)
LEMMA BeginManyTree ==
    ASSUME ParserInv, TreeInv, BeginMany
    PROVE  TreeInv'
PROOF
<1>. DEFINE id == created + 1
            R == Rest(frames)
            f == [Top EXCEPT !.phase = "item", !.node = id, !.calm = Last(parsers').calm]
            made == Create(heap, id, Rule.kind, "none")
<1>1. /\ Running /\ Top.phase = "enter" /\ Rule.form = "many" /\ answer' = answer
    BY DEF BeginMany, In, At, OnlyFrames
<1>2. /\ Top.node = Null /\ Top.held = Null /\ Fine(Top) /\ answer = Null
      /\ RuleShape(Top.rule) /\ Rule = Rules[Top.rule]
    BY <1>1, Owns, AtTop DEF Bare, Waiting, Rule
<1>3. Rule.of \in Callable /\ IsTraversed(Rule.kind, "element")
    BY <1>1, <1>2 DEF RuleShape
<1>4. Own(Top) = {}
    BY <1>2 DEF Own
<1>5. CASE Starts(Rule.start)
  <2>. HIDE DEF f
  <2>1. /\ frames' = Append(WithLast(frames, f), Frame(Rule.of))
        /\ heap' = [made EXCEPT ![id].note = Rule.note] /\ created' = id
      BY <1>5 DEF BeginMany, CallItem, Call, f
  <2>2. Forest(heap, R)
    <3>1. R \cup Own(Top) \cup ({answer} \ {Null}) = R
        BY <1>2, <1>4
    <3>. QED
        BY <1>1, <3>1, TopTree
  <2>3. /\ Null \notin R /\ DOMAIN heap \subseteq 1 .. created /\ created \in Nat
        /\ id \notin DOMAIN heap /\ id # Null
      BY <1>1, TopTree
  <2>4. f.node = id /\ f.held = Null /\ f.phase = "item"
      BY <1>2 DEF Fine, f
  <2>. HIDE DEF R, id
  <2>5. Grows(heap, made, R \cup {id}, {id})
      BY <2>2, <2>3, CreateGrows
  <2>6. made[id].kind = Rule.kind
      BY DEF Create, Fresh
  <2>. HIDE DEF made
  <2>7. /\ made = [n \in DOMAIN made |-> made[n]] /\ \A n \in DOMAIN made : IsNode(made[n])
        /\ DOMAIN made = DOMAIN heap \cup {id} /\ Forest(made, R \cup {id})
        /\ \A n \in DOMAIN heap : made[n].kind = heap[n].kind
      BY <2>5 DEF Grows, Forest
  <2>8. Edited(made, heap')
      BY <2>1, <2>7, Edits
  <2>9. Forest(heap', R \cup {id})
      BY <2>7, <2>8, EditForest DEF Edited
  <2>10. /\ DOMAIN heap' = DOMAIN heap \cup {id} /\ heap'[id].kind = Rule.kind
         /\ \A n \in DOMAIN heap : heap'[n].kind = heap[n].kind
      BY <2>6, <2>7, <2>8 DEF Edited
  <2>11. DOMAIN heap' \subseteq 1 .. created'
      BY <2>1, <2>3, <2>10 DEF id
  <2>12. Own(f) = {id} /\ OwnApart(f, R)
    <3>1. id \notin R
        BY <2>2, <2>3 DEF Forest
    <3>. QED
        BY <2>3, <2>4, <3>1 DEF Own, OwnApart
  <2>13. KindFits(heap', f)
      BY <1>3, <2>3, <2>4, <2>10 DEF KindFits, InStep
  <2>14. \A n \in R : heap'[n].kind = heap[n].kind
      BY <2>2, <2>10 DEF Forest
  <2>15. Forest(heap', R \cup Own(f)) /\ answer' = Null
      BY <1>1, <1>2, <2>9, <2>12
  <2>. QED
      BY <1>1, <1>3, <2>1, <2>11, <2>12, <2>13, <2>14, <2>15, CallRuleTree DEF R
<1>6. CASE ~Starts(Rule.start)
  <2>1. frames' = WithLast(frames, Done(Null)) /\ UNCHANGED <<heap, created>>
      BY <1>6 DEF BeginMany, Goto, SameTree
  <2>2. {Null} \ {Null} = Own(Top) \cup ({answer} \ {Null})
      BY <1>2, <1>4
  <2>. QED
      BY <1>1, <1>2, <2>1, <2>2, KeepDone
<1>. QED
    BY <1>5, <1>6

LEMMA TakeItemTree ==
    ASSUME ParserInv, TreeInv, TakeItem
    PROVE  TreeInv'
PROOF
<1>1. /\ Running /\ Top.phase = "item" /\ answer' = Null /\ UNCHANGED <<heap, created>>
    BY DEF TakeItem, At, Taking, SameTree
<1>2. /\ Top.node # Null /\ Top.held = Null /\ Fine(Top)
      /\ RuleShape(Top.rule) /\ Rule = Rules[Top.rule]
    BY <1>1, Owns, AtTop DEF Building, Rule
<1>3. Rule.of \in Callable
    BY <1>1, <1>2 DEF Fine, RuleShape
<1>4. Own(Top) = {Top.node} /\ KindFits(heap, Top) /\ answer \notin Own(Top)
    BY <1>1, <1>2, TopTree DEF Own
<1>5. CASE frames' = WithLast(frames,
                        [Top EXCEPT !.phase = "append", !.held = answer, !.text = "none"])
  <2>. DEFINE f == [Top EXCEPT !.phase = "append", !.held = answer, !.text = "none"]
  <2>1. f.node = Top.node /\ f.held = answer /\ f.phase = "append"
      BY <1>2 DEF Fine
  <2>2. frames' = WithLast(frames, f)
      BY <1>5
  <2>. HIDE DEF f
  <2>3. KindFits(heap, f)
      BY <1>1, <1>4, <2>1 DEF KindFits, InStep
  <2>4. Own(f) = Own(Top) \cup ({answer} \ {Null}) /\ f.node # f.held
      BY <1>2, <1>4, <2>1 DEF Own
  <2>. QED
      BY <1>1, <2>2, <2>3, <2>4, MoveTree
<1>6. CASE /\ answer = Null
           /\ frames' = Append(WithLast(frames, [Top EXCEPT !.text = "recover", !.phase = "item"]),
                               Frame(Rule.of))
  <2>. DEFINE f == [Top EXCEPT !.text = "recover", !.phase = "item"]
  <2>1. f.node = Top.node /\ f.held = Null /\ f.phase = "item"
      BY <1>2 DEF Fine
  <2>2. frames' = Append(WithLast(frames, f), Frame(Rule.of))
      BY <1>6
  <2>. HIDE DEF f
  <2>3. KindFits(heap, f)
      BY <1>1, <1>4, <2>1 DEF KindFits, InStep
  <2>4. Own(f) = Own(Top) \cup ({answer} \ {Null}) /\ f.node # f.held
      BY <1>2, <1>4, <1>6, <2>1 DEF Own
  <2>. QED
      BY <1>1, <1>3, <2>2, <2>3, <2>4, MoveCallTree
<1>7. CASE answer # Null \/ (Calm /\ Top.text # "recover") \/ IsOf(Current, "EOF")
    BY <1>5, <1>7 DEF TakeItem, Goto
<1>8. CASE ~(answer # Null \/ (Calm /\ Top.text # "recover") \/ IsOf(Current, "EOF"))
  <2>1. [[Top EXCEPT !.text = "recover"] EXCEPT !.phase = "item"]
            = [Top EXCEPT !.text = "recover", !.phase = "item"]
      OBVIOUS
  <2>. QED
      BY <1>6, <1>8, <2>1 DEF TakeItem, CallItem, Call
<1>. QED
    BY <1>7, <1>8

LEMMA AppendItemTree ==
    ASSUME ParserInv, TreeInv, AppendItem
    PROVE  TreeInv'
PROOF
<1>. DEFINE R == Rest(frames)
<1>1. /\ Running /\ Top.phase = "append" /\ answer' = answer /\ created' = created
      /\ heap' = Attach(heap, Top.node, "element", Top.held)
    BY DEF AppendItem, At, OnlyFrames
<1>2. /\ Top.node # Null /\ answer = Null /\ Fine(Top)
      /\ RuleShape(Top.rule) /\ Rule = Rules[Top.rule]
    BY <1>1, Owns, AtTop DEF Building, Rule, Waiting
<1>3. Rule.of \in Callable
    BY <1>1, <1>2 DEF Fine, RuleShape
<1>4. /\ Own(Top) = {Top.node, Top.held} \ {Null} /\ OwnApart(Top, R)
      /\ Null \notin R /\ R \subseteq DOMAIN heap /\ DOMAIN heap \subseteq 1 .. created
      /\ KindFits(heap, Top) /\ Own(Top) \subseteq DOMAIN heap
    BY <1>1, TopTree DEF Own
<1>5. Forest(heap, R \cup Own(Top))
  <2>1. R \cup Own(Top) \cup ({answer} \ {Null}) = R \cup Own(Top)
      BY <1>2
  <2>. QED
      BY <1>1, <2>1, TopTree
<1>. HIDE DEF R
<1>6. IsTraversed(heap[Top.node].kind, "element")
    BY <1>1, <1>4 DEF KindFits
<1>7. Grows(heap, heap', (R \cup Own(Top)) \ {Top.held}, {})
  <2>1. /\ Top.node \in R \cup Own(Top)
        /\ Top.held = Null \/ (Top.held \in R \cup Own(Top) /\ Top.held # Top.node)
      BY <1>2, <1>4 DEF OwnApart
  <2>. QED
      BY <1>1, <1>5, <1>6, <2>1, AttachGrows
<1>8. (R \cup Own(Top)) \ {Top.held} = R \cup {Top.node}
    BY <1>2, <1>4 DEF OwnApart
<1>9. /\ Forest(heap', R \cup {Top.node}) /\ DOMAIN heap' = DOMAIN heap
      /\ \A n \in DOMAIN heap : heap'[n].kind = heap[n].kind
    BY <1>7, <1>8 DEF Grows
<1>10. ASSUME NEW f, f.node = Top.node, f.held = Null, f.phase \in {"item", "close"},
              \/ frames' = WithLast(frames, f)
              \/ frames' = Append(WithLast(frames, f), Frame(Rule.of))
       PROVE  TreeInv'
  <2>1. Own(f) = {Top.node} /\ OwnApart(f, R) /\ answer' \notin R \cup Own(f)
      BY <1>1, <1>2, <1>4, <1>10 DEF Own, OwnApart
  <2>2. KindFits(heap', f)
    <3>1. heap'[f.node].kind = heap[Top.node].kind
        BY <1>2, <1>4, <1>9, <1>10
    <3>. QED
        BY <1>2, <1>6, <1>10, <3>1 DEF KindFits, InStep
  <2>3. /\ R \cup Own(f) = R \cup {Top.node}
        /\ R \cup Own(f) \cup ({answer'} \ {Null}) = R \cup {Top.node}
      BY <1>1, <1>2, <2>1
  <2>4. Forest(heap', R \cup Own(f)) /\ Forest(heap', R \cup Own(f) \cup ({answer'} \ {Null}))
      BY <1>9, <2>3
  <2>5. /\ DOMAIN heap' \subseteq 1 .. created'
        /\ \A n \in R : heap'[n].kind = heap[n].kind
      BY <1>1, <1>4, <1>9
  <2>6. CASE frames' = WithLast(frames, f)
      BY <1>1, <2>1, <2>2, <2>4, <2>5, <2>6, GotoTree DEF R
  <2>7. CASE frames' = Append(WithLast(frames, f), Frame(Rule.of))
      BY <1>1, <1>2, <1>3, <2>1, <2>2, <2>4, <2>5, <2>7, CallRuleTree DEF R
  <2>. QED
      BY <1>10, <2>6, <2>7
<1>. DEFINE kept == [Top EXCEPT !.held = Null]
            f == [kept EXCEPT !.phase = "item"]
            g == [kept EXCEPT !.phase = "close"]
<1>11. /\ f.node = Top.node /\ f.held = Null /\ f.phase = "item"
       /\ g.node = Top.node /\ g.held = Null /\ g.phase = "close"
    BY <1>2 DEF Fine
<1>12. \/ frames' = Append(WithLast(frames, f), Frame(Rule.of))
       \/ frames' = WithLast(frames, g)
    BY DEF AppendItem, CallItem, Call, Goto
<1>. HIDE DEF f, g
<1>. QED
    BY <1>10, <1>11, <1>12

LEMMA EndTree ==
    ASSUME ParserInv, TreeInv, EndMany \/ EndFString
    PROVE  TreeInv'
PROOF
<1>1. /\ Running /\ Top.phase \in {"close", "slices"} /\ answer' = answer
      /\ UNCHANGED <<heap, created>> /\ frames' = WithLast(frames, Done(Top.node))
    BY DEF EndMany, EndFString, At, OnlyFrames, SameTree, Goto
<1>2. Top.held = Null /\ answer = Null
    BY <1>1, Owns DEF Waiting
<1>3. {Top.node} \ {Null} = Own(Top) \cup ({answer} \ {Null})
    BY <1>2 DEF Own
<1>. QED
    BY <1>1, <1>2, <1>3, KeepDone

-----------------------------------------------------------------------------
(* Assignments: the target passes to the rule behind it, or a copy of it. *)
LEMMA TargetTree ==
    ASSUME ParserInv, TreeInv, Running, Top.phase = "target", answer # Null,
           NEW t, NEW m, NEW r \in {"assignment", "compound"}, m # Null,
           frames' = Append(WithLast(frames, Assigned(t)), [Frame(r) EXCEPT !.held = m]),
           answer' = Null, Forest(heap', Rest(frames) \cup ({t} \ {Null}) \cup {m}),
           m # t, m \notin Rest(frames), t \notin Rest(frames),
           DOMAIN heap' \subseteq 1 .. created',
           \A n \in Rest(frames) : heap'[n].kind = heap[n].kind
    PROVE  TreeInv'
PROOF
<1>. DEFINE f == Assigned(t)
            g == [Frame(r) EXCEPT !.held = m]
<1>1. Fine(Top) /\ Top.node = Null
    BY AtTop, Owns DEF Bare
<1>2. f.node = Null /\ f.held = t /\ f.phase = "assigned"
    BY <1>1 DEF Fine, Assigned
<1>3. r \in DOMAIN Rules /\ Rules[r].form = "suffix"
    BY RulesAssumption DEF Callable
<1>4. g.node = Null /\ g.held = m /\ g.phase = "enter"
    BY <1>3 DEF Frame
<1>5. frames' = Append(WithLast(frames, f), g)
    OBVIOUS
<1>. HIDE DEF f, g
<1>6. /\ Own(f) = {t} \ {Null} /\ Own(g) = {m}
      /\ OwnApart(f, Rest(frames)) /\ OwnApart(g, Rest(frames) \cup Own(f))
    BY <1>2, <1>4 DEF Own, OwnApart
<1>7. KindFits(heap', f) /\ KindFits(heap', g)
    BY <1>2, <1>4, NothingToSet
<1>8. Forest(heap', Rest(frames) \cup Own(f) \cup Own(g))
    BY <1>6
<1>. QED
    BY <1>5, <1>6, <1>7, <1>8, CallTree

LEMMA TakeTargetTree ==
    ASSUME ParserInv, TreeInv, TakeTarget
    PROVE  TreeInv'
PROOF
<1>. DEFINE id == created + 1
            R == Rest(frames)
<1>1. Running /\ Top.phase = "target" /\ answer' = Null
    BY DEF TakeTarget, At
<1>2. Top.node = Null /\ Top.held = Null
    BY <1>1, Owns DEF Bare
<1>3. Own(Top) = {}
    BY <1>2 DEF Own
<1>4. CASE answer = Null
  <2>1. frames' = WithLast(frames, Done(Null)) /\ UNCHANGED <<heap, created>>
      BY <1>4 DEF TakeTarget, Goto, SameTree
  <2>2. {Null} \ {Null} = Own(Top) \cup ({answer} \ {Null})
      BY <1>3, <1>4
  <2>. QED
      BY <1>1, <2>1, <2>2, KeepDone
<1>5. ASSUME answer # Null
      PROVE  /\ Forest(heap, R \cup {answer}) /\ Null \notin R /\ answer \notin R
             /\ R \subseteq DOMAIN heap /\ answer \in 1 .. created
             /\ DOMAIN heap \subseteq 1 .. created /\ created \in Nat
             /\ id \notin DOMAIN heap /\ id # Null
  <2>1. R \cup Own(Top) \cup ({answer} \ {Null}) = R \cup {answer}
      BY <1>3, <1>5
  <2>2. Forest(heap, R \cup {answer})
      BY <1>1, <2>1, TopTree
  <2>3. /\ Null \notin R /\ answer \notin R
        /\ DOMAIN heap \subseteq 1 .. created /\ created \in Nat
        /\ id \notin DOMAIN heap /\ id # Null
      BY <1>1, TopTree
  <2>4. R \subseteq DOMAIN heap /\ answer \in DOMAIN heap
      BY <2>2 DEF Forest
  <2>. QED
      BY <2>2, <2>3, <2>4
<1>6. CASE answer # Null /\ Fits("=")
  <2>1. /\ frames' = Append(WithLast(frames, Assigned(Null)),
                            [Frame("assignment") EXCEPT !.held = answer])
        /\ UNCHANGED <<heap, created>>
      BY <1>6 DEF TakeTarget, Call, SameTree
  <2>2. R \cup ({Null} \ {Null}) \cup {answer} = R \cup {answer}
      OBVIOUS
  <2>3. Forest(heap', Rest(frames) \cup ({Null} \ {Null}) \cup {answer})
      BY <1>5, <1>6, <2>1, <2>2
  <2>. QED
      BY <1>1, <1>5, <1>6, <2>1, <2>3, TargetTree
<1>7. CASE answer # Null /\ ~Fits("=") /\ Compound
  <2>. DEFINE m == answer + created
  <2>1. /\ frames' = Append(WithLast(frames, Assigned(answer)),
                            [Frame("compound") EXCEPT !.held = m])
        /\ created' = 2 * created /\ heap' = Copy(heap, answer, created)
      BY <1>7 DEF TakeTarget, Call
  <2>2. PICK S : S = R \cup {answer}
      OBVIOUS
  <2>3. /\ Forest(heap', S \cup {m}) /\ DOMAIN heap' \subseteq 1 .. 2 * created
        /\ \A n \in DOMAIN heap : heap'[n] = heap[n]
        /\ m \notin DOMAIN heap
    <3>1. Forest(heap, S) /\ answer \in S
        BY <1>5, <1>7, <2>2
    <3>2. created \in Nat /\ DOMAIN heap \subseteq 1 .. created
        BY <1>5, <1>7
    <3>3. Doubles(heap, heap', S, m, 2 * created)
        BY <2>1, <3>1, <3>2, CopyForest
    <3>. QED
        BY <3>3 DEF Doubles
  <2>4. m # Null /\ m # answer /\ m \notin R
      BY <1>5, <1>7, <2>3 DEF Null, Forest
  <2>. HIDE DEF m
  <2>5. S \cup {m} = R \cup ({answer} \ {Null}) \cup {m}
      BY <1>7, <2>2
  <2>6. Forest(heap', Rest(frames) \cup ({answer} \ {Null}) \cup {m})
      BY <2>3, <2>5
  <2>7. \A n \in Rest(frames) : heap'[n].kind = heap[n].kind
      BY <1>5, <1>7, <2>3
  <2>. QED
      BY <1>1, <1>5, <1>7, <2>1, <2>3, <2>4, <2>6, <2>7, TargetTree
<1>8. CASE answer # Null /\ ~Fits("=") /\ ~Compound
  <2>1. /\ frames' = WithLast(frames, Done(id)) /\ created' = id
        /\ heap' = Attach(Create(heap, id, "ExpressionStatement", ";"), id, "expression", answer)
      BY <1>8 DEF TakeTarget, Goto
  <2>2. IsTraversed("ExpressionStatement", "expression")
      BY DEF IsTraversed, Traversed
  <2>. HIDE DEF id, R
  <2>3. Grows(heap, heap', ((R \cup {answer}) \ {answer}) \cup {id}, {id})
      BY <1>5, <1>8, <2>1, <2>2, AroundGrows
  <2>4. ((R \cup {answer}) \ {answer}) \cup {id} = R \cup ({id} \ {Null})
      BY <1>5, <1>8
  <2>5. /\ Forest(heap', R \cup ({id} \ {Null})) /\ DOMAIN heap' = DOMAIN heap \cup {id}
        /\ \A n \in R : heap'[n].kind = heap[n].kind
      BY <1>5, <1>8, <2>3, <2>4 DEF Grows
  <2>6. id \notin R /\ DOMAIN heap' \subseteq 1 .. created'
    <3>1. /\ created \in Nat /\ DOMAIN heap \subseteq 1 .. created
          /\ DOMAIN heap' = DOMAIN heap \cup {created + 1} /\ created' = created + 1
        BY <1>5, <1>8, <2>1, <2>5 DEF id
    <3>3. DOMAIN heap' \subseteq 1 .. created'
        BY <3>1
    <3>2. id \notin R
        BY <1>5, <1>8
    <3>. QED
        BY <3>2, <3>3
  <2>. QED
      BY <1>1, <2>1, <2>5, <2>6, DoneTree DEF R
<1>. QED
    BY <1>4, <1>6, <1>7, <1>8

LEMMA TakeAssignedTree ==
    ASSUME ParserInv, TreeInv, TakeAssigned
    PROVE  TreeInv'
PROOF
<1>1. /\ Running /\ Top.phase = "assigned" /\ answer' = Null /\ UNCHANGED <<heap, created>>
      /\ frames' = WithLast(frames, Done(answer))
    BY DEF TakeAssigned, At, SameTree, Goto
<1>2. Top.node = Null /\ Top.held = Null
    BY <1>1, Owns, AtTop DEF Bare
<1>3. {answer} \ {Null} = Own(Top) \cup ({answer} \ {Null})
    BY <1>2 DEF Own
<1>. QED
    BY <1>1, <1>3, KeepDone

\* gs is fs but for its last two elements.
Ends(gs, fs, n, e, f) ==
    /\ Len(gs) = n
    /\ \A i \in 1 .. n : gs[i] = IF i = n THEN f ELSE IF i = n - 1 THEN e ELSE fs[i]

(* The last frame changes and the one in front of it hands over its node. *)
LEMMA HandedRoots ==
    ASSUME NEW fs, IsSequence(fs), Apart(fs), NEW n, n = Len(fs), n > 1,
           NEW gs, NEW f, NEW e, Ends(gs, fs, n, e, f),
           Own(e) = {}, OwnApart(f, Rest(fs))
    PROVE  Apart(gs) /\ All(gs) = (Rest(fs) \ Own(fs[n - 1])) \cup Own(f)
PROOF
<1>1. n \in Nat /\ n - 1 \in 1 .. n /\ n \in 1 .. n
    BY SequenceFacts
<1>2. gs[n] = f /\ gs[n - 1] = e /\ Len(gs) = n
    BY <1>1 DEF Ends
<1>3. \A i \in 1 .. n : \/ i = n \/ i = n - 1
                        \/ i \in 1 .. n - 1 /\ i < n - 1 /\ gs[i] = fs[i]
    BY <1>1 DEF Ends
<1>4. \A i \in 1 .. n - 1 : i \in 1 .. n /\ Own(fs[i]) \subseteq Rest(fs)
    BY <1>1 DEF Rest
<1>5. Own(f) \cap Rest(fs) = {} /\ (f.node # Null => f.node # f.held)
    BY DEF OwnApart
<1>6. e.node = Null
    BY DEF Own
<1>7. \A i \in 1 .. n : gs[i].node # Null => gs[i].node # gs[i].held
  <2>1. \A i \in 1 .. n : fs[i].node # Null => fs[i].node # fs[i].held
      BY DEF Apart
  <2>. QED
      BY <1>2, <1>3, <1>4, <1>5, <1>6, <2>1
<1>8. \A i, j \in 1 .. n : i < j => Own(gs[i]) \cap Own(gs[j]) = {}
  <2>1. SUFFICES ASSUME NEW i \in 1 .. n, NEW j \in 1 .. n, i < j
                 PROVE  Own(gs[i]) \cap Own(gs[j]) = {}
      OBVIOUS
  <2>2. CASE i = n - 1 \/ j = n - 1
      BY <1>2, <2>2
  <2>3. CASE i # n - 1 /\ j # n - 1
    <3>1. i \in 1 .. n - 1 /\ gs[i] = fs[i] /\ Own(fs[i]) \subseteq Rest(fs)
        BY <1>1, <1>3, <1>4, <2>1, <2>3
    <3>2. CASE j = n
        BY <1>2, <1>5, <3>1, <3>2
    <3>3. CASE j # n
      <4>1. gs[j] = fs[j]
          BY <1>3, <2>3, <3>3
      <4>. QED
          BY <2>1, <3>1, <4>1 DEF Apart
    <3>. QED
        BY <3>2, <3>3
  <2>. QED
      BY <2>2, <2>3
<1>9. Apart(gs)
    BY <1>2, <1>7, <1>8 DEF Apart
<1>10. All(gs) \subseteq (Rest(fs) \ Own(fs[n - 1])) \cup Own(f)
  <2>1. SUFFICES ASSUME NEW i \in 1 .. n, NEW x \in Own(gs[i])
                 PROVE  x \in (Rest(fs) \ Own(fs[n - 1])) \cup Own(f)
      BY <1>2 DEF All
  <2>2. CASE i = n \/ i = n - 1
      BY <1>2, <2>1, <2>2
  <2>3. CASE i # n /\ i # n - 1
    <3>1. i \in 1 .. n - 1 /\ i < n - 1 /\ gs[i] = fs[i]
        BY <1>3, <2>3
    <3>2. Own(fs[i]) \cap Own(fs[n - 1]) = {}
        BY <1>1, <3>1 DEF Apart
    <3>. QED
        BY <1>4, <2>1, <3>1, <3>2
  <2>. QED
      BY <2>2, <2>3
<1>11. (Rest(fs) \ Own(fs[n - 1])) \cup Own(f) \subseteq All(gs)
  <2>1. Own(f) \subseteq All(gs)
      BY <1>1, <1>2 DEF All
  <2>2. ASSUME NEW i \in 1 .. n - 1, NEW x \in Own(fs[i]), x \notin Own(fs[n - 1])
        PROVE  x \in All(gs)
    <3>1. i # n - 1 /\ i \in 1 .. n
        BY <1>4, <2>2
    <3>2. gs[i] = fs[i]
        BY <1>3, <1>1, <3>1
    <3>. QED
        BY <1>2, <2>2, <3>1, <3>2 DEF All
  <2>3. \A x \in Rest(fs) : \E i \in 1 .. n - 1 : x \in Own(fs[i])
      BY DEF Rest
  <2>. QED
      BY <2>1, <2>2, <2>3
<1>. QED
    BY <1>9, <1>10, <1>11

(* Assign makes an assignment of the target that the caller has and of what *)
(* has been parsed behind it.                                              *)
LEMMA AssignTree ==
    ASSUME ParserInv, TreeInv, Assign
    PROVE  TreeInv'
PROOF
<1>. DEFINE n == Len(frames)
            id == created + 1
            k == Top.at + 1
            g == [Top EXCEPT !.node = id]
            f == Onward(g, k)
            fs == WithLast(frames, f)
            c == frames[n - 1]
            e == [c EXCEPT !.held = Null]
            R == Rest(frames)
<1>1. /\ Running /\ Top.phase = "steps" /\ Step.do = "assign"
      /\ frames' = [fs EXCEPT ![n - 1].held = Null]
      /\ created' = id /\ answer' = answer
    BY DEF Assign, AtStep, At, OnlyFrames
<1>2. /\ frames # <<>> /\ IsSequence(frames) /\ n \in Nat \ {0}
      /\ Fine(Top) /\ Top = frames[n] /\ answer = Null /\ created \in Nat
    BY <1>1, AtTop DEF Waiting
<1>3. /\ StepShape(Top.rule, Top.at) /\ Top.at \in Nat /\ Top.node # Null /\ Top.held = Null
      /\ Step = StepsOf(Top.rule)[Top.at]
  <2>1. /\ StepShape(Top.rule, Top.at) /\ Top.at \in Nat /\ Top.held = Null
        /\ Step = StepsOf(Top.rule)[Top.at]
        /\ Rule.form # "scoped" => Top.node # Null
      BY <1>1, StepFacts DEF InStep
  <2>2. Rule.form # "scoped"
      BY <1>1, <2>1 DEF StepShape, Rule
  <2>. QED
      BY <2>1, <2>2
<1>4. /\ Top.rule = "compound"
      /\ \A j \in k .. Len(StepsOf(Top.rule)) : Fills(StepsOf(Top.rule)[j]) = {}
    BY <1>1, <1>3 DEF StepShape
<1>5. n > 1
  <2>1. "compound" # "module" /\ frames[1].rule = "module"
      BY <1>2 DEF ParserInv, FramesInv
  <2>2. n # 1
      BY <1>2, <1>4, <2>1
  <2>. HIDE DEF n
  <2>. QED
      BY <1>2, <2>2
<1>6. n - 1 \in 1 .. n - 1 /\ n - 1 \in 1 .. n /\ n \in 1 .. n
  <2>. HIDE DEF n
  <2>. QED
      BY <1>2, <1>5
<1>7. c.phase = "assigned" /\ Fine(c)
    BY <1>2, <1>4, <1>6 DEF ParserInv, FramesInv
<1>8. c.node = Null /\ e.node = Null /\ e.held = Null /\ e.phase = "assigned"
    BY <1>7 DEF Fine, Bare
<1>9. /\ f.rule = Top.rule /\ f.at = k /\ f.node = id /\ f.held = Null
      /\ f.phase \in {"steps", "done"}
    BY <1>2, <1>3 DEF Fine, Onward
<1>. HIDE DEF f
<1>10. /\ IsSequence(fs) /\ Len(fs) = n
       /\ \A i \in 1 .. n : fs[i] = IF i = n THEN f ELSE frames[i]
    BY <1>2, WithLastFacts
<1>11. fs[n - 1] = c
    BY <1>6, <1>10
<1>12. frames' = [fs EXCEPT ![n - 1] = e]
    BY <1>1, <1>11
<1>. HIDE DEF fs, e, c
<1>13. /\ Len(frames') = n
       /\ \A i \in 1 .. n : frames'[i] = IF i = n THEN f ELSE IF i = n - 1 THEN e ELSE frames[i]
  <2>1. PICK S : fs \in Seq(S)
      BY <1>10 DEF IsSequence
  <2>2. fs \in Seq(S \cup {e}) /\ e \in S \cup {e} /\ n - 1 \in 1 .. Len(fs)
      BY <1>6, <1>10, <2>1
  <2>3. Len(frames') = Len(fs) /\ DOMAIN fs = 1 .. Len(fs)
      BY <1>12, <2>2
  <2>. HIDE DEF n
  <2>4. \A i \in 1 .. n : frames'[i] = IF i = n - 1 THEN e ELSE fs[i]
      BY <1>10, <1>12, <2>3
  <2>. QED
      BY <1>2, <1>6, <1>10, <2>3, <2>4
<1>14. /\ Forest(heap, R \cup {Top.node}) /\ Own(Top) = {Top.node} /\ Top.node \notin R
       /\ Null \notin R /\ R \cup {Top.node} \subseteq DOMAIN heap
       /\ DOMAIN heap \subseteq 1 .. created /\ id \notin DOMAIN heap /\ id # Null
  <2>1. Own(Top) = {Top.node}
      BY <1>3 DEF Own
  <2>2. Rest(frames) \cup Own(Top) \cup ({answer} \ {Null}) = R \cup {Top.node}
      BY <1>2, <2>1
  <2>3. Forest(heap, R \cup {Top.node})
      BY <1>1, <2>2, TopTree
  <2>4. /\ OwnApart(Top, R) /\ Null \notin R
        /\ DOMAIN heap \subseteq 1 .. created /\ id \notin DOMAIN heap /\ id # Null
      BY <1>1, TopTree
  <2>5. R \cup {Top.node} \subseteq DOMAIN heap
      BY <2>3 DEF Forest
  <2>. QED
      BY <2>1, <2>3, <2>4, <2>5 DEF OwnApart
<1>15. Own(c) = {c.held} \ {Null} /\ Own(c) \subseteq R /\ Own(e) = {}
    BY <1>6, <1>8 DEF Own, Rest, c
<1>16. Own(f) = {id} /\ OwnApart(f, R)
    BY <1>9, <1>14 DEF Own, OwnApart
<1>17. Apart(frames') /\ All(frames') = (R \ Own(c)) \cup Own(f)
  <2>1. Apart(frames) /\ IsSequence(frames) /\ OwnApart(f, Rest(frames)) /\ n = Len(frames)
      BY <1>2, <1>16 DEF TreeInv
  <2>2. PICK gs : gs = frames'
      OBVIOUS
  <2>. HIDE DEF n, R
  <2>3. Ends(gs, frames, n, e, f)
      BY <1>13, <2>2 DEF Ends
  <2>4. Apart(gs) /\ All(gs) = (Rest(frames) \ Own(frames[n - 1])) \cup Own(f)
      BY <1>5, <1>15, <2>1, <2>3, HandedRoots
  <2>. QED
      BY <2>2, <2>4 DEF c, R
<1>. HIDE DEF n, id, R
<1>18. /\ Forest(heap', (R \ {c.held}) \cup {id}) /\ DOMAIN heap' = DOMAIN heap \cup {id}
       /\ \A m \in DOMAIN heap : heap'[m].kind = heap[m].kind
  <2>. DEFINE operation == [heap EXCEPT ![Top.node].text = OperatorOf[@]]
              one == Attach(Create(operation, id, "Assignment", "="), id, "identifier", c.held)
  <2>1. heap' = Attach(one, id, "value", Top.node)
      BY DEF Assign, n, id, c
  <2>2. Edited(heap, operation)
      BY HeapNodes DEF Edited, IsNode
  <2>. HIDE DEF operation
  <2>3. Forest(operation, R \cup {Top.node}) /\ DOMAIN operation = DOMAIN heap
        /\ \A m \in DOMAIN heap : operation[m].kind = heap[m].kind
      BY <1>14, <2>2, EditForest DEF Edited
  <2>4. PICK S : S = R \cup {Top.node}
      OBVIOUS
  <2>5. IsTraversed("Assignment", "identifier") /\ IsTraversed("Assignment", "value")
      BY DEF IsTraversed, Traversed
  <2>6. c.held = Null \/ c.held \in S
      BY <1>15, <2>4
  <2>7. Grows(operation, one, (S \ {c.held}) \cup {id}, {id})
      BY <1>14, <2>3, <2>4, <2>5, <2>6, AroundGrows
  <2>8. one[id].kind = "Assignment"
      BY AroundKind
  <2>. HIDE DEF one
  <2>9. PICK T : T = (S \ {c.held}) \cup {id}
      OBVIOUS
  <2>10. Forest(one, T) /\ id \in T /\ Top.node \in T /\ Top.node # id
    <3>1. Top.node # c.held
        BY <1>3, <1>14, <1>15
    <3>. QED
        BY <1>14, <2>4, <2>7, <2>9, <3>1 DEF Grows
  <2>11. Grows(one, heap', T \ {Top.node}, {})
      BY <2>1, <2>5, <2>8, <2>10, AttachGrows
  <2>12. T \ {Top.node} = (R \ {c.held}) \cup {id}
      BY <1>14, <2>4, <2>9, <2>10
  <2>. QED
      BY <2>3, <2>7, <2>11, <2>12 DEF Grows
<1>19. R \ {c.held} = R \ Own(c)
    BY <1>14, <1>15
<1>20. All(frames') \cup ({answer'} \ {Null}) = (R \ {c.held}) \cup {id}
    BY <1>1, <1>2, <1>16, <1>17, <1>19
<1>21. Forest(heap', All(frames') \cup ({answer'} \ {Null}))
    BY <1>18, <1>20
<1>22. answer' \notin All(frames')
    BY <1>1, <1>2, <1>14, <1>16, <1>17
<1>23. DOMAIN heap' \subseteq 1 .. created'
    BY <1>1, <1>2, <1>14, <1>18 DEF id
<1>24. \A i \in 1 .. Len(frames') : KindFits(heap', frames'[i])
  <2>1. KindFits(heap', f)
      BY <1>4, <1>9, NoFillsFit
  <2>2. KindFits(heap', e)
      BY <1>8, NothingToSet
  <2>3. ASSUME NEW i \in 1 .. n, i # n
        PROVE  KindFits(heap', frames[i])
    <3>1. i \in 1 .. n - 1
        BY <1>2, <2>3
    <3>2. \A m \in Own(frames[i]) : m \in R
        BY <3>1 DEF R, Rest, n
    <3>3. \A m \in Own(frames[i]) : heap'[m].kind = heap[m].kind
        BY <1>14, <1>18, <3>2
    <3>4. KindFits(heap, frames[i])
        BY DEF TreeInv, n
    <3>. QED
        BY <3>3, <3>4, KindStays
  <2>. QED
      BY <1>13, <2>1, <2>2, <2>3
<1>. QED
    BY <1>17, <1>21, <1>22, <1>23, <1>24 DEF TreeInv

-----------------------------------------------------------------------------
(* The nodes of an f-string and of its slices. *)
LEMMA BeginFStringTree ==
    ASSUME ParserInv, TreeInv, BeginFString
    PROVE  TreeInv'
PROOF
<1>. DEFINE id == created + 1
            R == Rest(frames)
            f == [Top EXCEPT !.phase = "slices", !.node = id, !.text = Current]
<1>1. /\ Running /\ Top.phase = "enter" /\ Rule.form = "fstring" /\ answer' = answer
    BY DEF BeginFString, In, At, OnlyFrames
<1>2. Top.node = Null /\ Top.held = Null /\ Fine(Top) /\ answer = Null
    BY <1>1, Owns, AtTop DEF Bare, Waiting
<1>3. Own(Top) = {}
    BY <1>2 DEF Own
<1>4. CASE Starts(Rule.start)
  <2>1. /\ frames' = WithLast(frames, f) /\ created' = id
        /\ heap' = Create(heap, id, "FString", Current)
      BY <1>4 DEF BeginFString, Goto
  <2>2. f.node = id /\ f.held = Null /\ f.phase = "slices"
      BY <1>2 DEF Fine
  <2>. HIDE DEF f
  <2>3. Forest(heap, R)
    <3>1. R \cup Own(Top) \cup ({answer} \ {Null}) = R
        BY <1>2, <1>3
    <3>. QED
        BY <1>1, <3>1, TopTree
  <2>4. /\ Null \notin R /\ DOMAIN heap \subseteq 1 .. created /\ created \in Nat
        /\ id \notin DOMAIN heap /\ id # Null
      BY <1>1, TopTree
  <2>. HIDE DEF R, id
  <2>5. Grows(heap, heap', R \cup {id}, {id}) /\ heap'[id].kind = "FString"
    <3>1. Grows(heap, heap', R \cup {id}, {id})
        BY <2>1, <2>3, <2>4, CreateGrows
    <3>2. heap'[id].kind = "FString"
        BY <2>1 DEF Create, Fresh
    <3>. QED
        BY <3>1, <3>2
  <2>6. R \subseteq DOMAIN heap /\ id \notin R
      BY <2>3, <2>4 DEF Forest
  <2>7. Own(f) = {id} /\ OwnApart(f, R) /\ answer' \notin R \cup Own(f)
      BY <1>1, <1>2, <2>2, <2>4, <2>6 DEF Own, OwnApart
  <2>8. R \cup Own(f) \cup ({answer'} \ {Null}) = R \cup {id}
      BY <1>1, <1>2, <2>7
  <2>9. /\ Forest(heap', R \cup {id}) /\ DOMAIN heap' = DOMAIN heap \cup {id}
        /\ \A n \in R : heap'[n].kind = heap[n].kind
      BY <2>5, <2>6 DEF Grows
  <2>10. Forest(heap', R \cup Own(f) \cup ({answer'} \ {Null}))
      BY <2>8, <2>9
  <2>11. DOMAIN heap' \subseteq 1 .. created'
      BY <2>1, <2>4, <2>9 DEF id
  <2>12. KindFits(heap', f)
      BY <2>2, <2>4, <2>5 DEF KindFits, InStep
  <2>. QED
      BY <1>1, <2>1, <2>7, <2>9, <2>10, <2>11, <2>12, GotoTree DEF R
<1>5. CASE ~Starts(Rule.start)
  <2>1. frames' = WithLast(frames, Done(Null)) /\ UNCHANGED <<heap, created>>
      BY <1>5 DEF BeginFString, Goto, SameTree
  <2>2. {Null} \ {Null} = Own(Top) \cup ({answer} \ {Null})
      BY <1>2, <1>3
  <2>. QED
      BY <1>1, <1>2, <2>1, <2>2, KeepDone
<1>. QED
    BY <1>4, <1>5

LEMMA TextSliceTree ==
    ASSUME ParserInv, TreeInv, TextSlice
    PROVE  TreeInv'
PROOF
<1>. DEFINE id == created + 1
            R == Rest(frames)
            f == [Top EXCEPT !.at = @ + 1]
<1>1. /\ Running /\ Top.phase = "slices" /\ answer' = answer /\ created' = id
      /\ frames' = WithLast(frames, f)
    BY DEF TextSlice, At, OnlyFrames, Goto
<1>2. Top.node # Null /\ Top.held = Null /\ Fine(Top) /\ answer = Null
    BY <1>1, Owns, AtTop DEF Building, Waiting
<1>3. Own(Top) = {Top.node}
    BY <1>2 DEF Own
<1>4. f.node = Top.node /\ f.held = Null /\ f.phase = "slices"
    BY <1>1, <1>2 DEF Fine
<1>. HIDE DEF f
<1>5. PICK S : S = R \cup {Top.node}
    OBVIOUS
<1>6. Forest(heap, S) /\ Top.node \in S
  <2>1. Rest(frames) \cup Own(Top) \cup ({answer} \ {Null}) = S
      BY <1>2, <1>3, <1>5
  <2>2. Forest(heap, S)
      BY <1>1, <2>1, TopTree
  <2>. QED
      BY <1>5, <2>2
<1>7. /\ Null \notin R /\ OwnApart(Top, R) /\ KindFits(heap, Top)
      /\ DOMAIN heap \subseteq 1 .. created /\ created \in Nat
      /\ id \notin DOMAIN heap /\ id # Null
    BY <1>1, TopTree
<1>8. heap[Top.node].kind = "FString" /\ IsTraversed("FString", "element")
  <2>1. heap[Top.node].kind = "FString"
      BY <1>1, <1>7 DEF KindFits
  <2>. QED
      BY <2>1 DEF IsTraversed, Traversed
<1>. HIDE DEF R, id
<1>9. PICK text : heap' = Attach(Create(heap, id, "FStringString", text), Top.node, "element", id)
    BY DEF TextSlice, id
<1>10. Grows(heap, heap', S, {id})
    BY <1>6, <1>7, <1>8, <1>9, BelowGrows
<1>11. S \subseteq DOMAIN heap
    BY <1>6 DEF Forest
<1>12. /\ Forest(heap', S) /\ DOMAIN heap' = DOMAIN heap \cup {id}
       /\ \A n \in S : heap'[n].kind = heap[n].kind
    BY <1>10, <1>11 DEF Grows
<1>13. Own(f) = {Top.node} /\ OwnApart(f, R) /\ answer' \notin R \cup Own(f)
    BY <1>1, <1>2, <1>3, <1>4, <1>7 DEF Own, OwnApart
<1>14. R \cup Own(f) \cup ({answer'} \ {Null}) = S
    BY <1>1, <1>2, <1>5, <1>13
<1>15. Forest(heap', R \cup Own(f) \cup ({answer'} \ {Null}))
    BY <1>12, <1>14
<1>16. DOMAIN heap' \subseteq 1 .. created'
    BY <1>1, <1>7, <1>12 DEF id
<1>17. KindFits(heap', f)
    BY <1>2, <1>4, <1>6, <1>8, <1>12 DEF KindFits, InStep
<1>18. \A n \in R : heap'[n].kind = heap[n].kind
    BY <1>5, <1>12
<1>. QED
    BY <1>1, <1>13, <1>15, <1>16, <1>17, <1>18, GotoTree DEF R

LEMMA OpenSliceTree ==
    ASSUME ParserInv, TreeInv, OpenSlice
    PROVE  TreeInv'
PROOF
<1>. DEFINE id == created + 1
            R == Rest(frames)
            f == [Top EXCEPT !.phase = "slice", !.held = id]
<1>1. /\ Running /\ Top.phase = "slices" /\ answer' = answer /\ created' = id
      /\ frames' = Append(WithLast(frames, f), Frame("expression"))
      /\ heap' = Create(heap, id, "FStringExpression", "none")
    BY DEF OpenSlice, At, Call
<1>2. Top.node # Null /\ Top.held = Null /\ Fine(Top) /\ answer = Null
    BY <1>1, Owns, AtTop DEF Building, Waiting
<1>3. Own(Top) = {Top.node}
    BY <1>2 DEF Own
<1>4. f.node = Top.node /\ f.held = id /\ f.phase = "slice"
    BY <1>2 DEF Fine
<1>. HIDE DEF f
<1>5. PICK S : S = R \cup {Top.node}
    OBVIOUS
<1>6. Forest(heap, S) /\ Top.node \in S
  <2>1. Rest(frames) \cup Own(Top) \cup ({answer} \ {Null}) = S
      BY <1>2, <1>3, <1>5
  <2>2. Forest(heap, S)
      BY <1>1, <2>1, TopTree
  <2>. QED
      BY <1>5, <2>2
<1>7. /\ Null \notin R /\ OwnApart(Top, R) /\ KindFits(heap, Top)
      /\ DOMAIN heap \subseteq 1 .. created /\ created \in Nat
      /\ id \notin DOMAIN heap /\ id # Null
    BY <1>1, TopTree
<1>8. heap[Top.node].kind = "FString"
    BY <1>1, <1>7 DEF KindFits
<1>. HIDE DEF R, id
<1>9. Grows(heap, heap', S \cup {id}, {id}) /\ heap'[id].kind = "FStringExpression"
  <2>1. Grows(heap, heap', S \cup {id}, {id})
      BY <1>1, <1>6, <1>7, CreateGrows
  <2>2. heap'[id].kind = "FStringExpression"
      BY <1>1 DEF Create, Fresh
  <2>. QED
      BY <2>1, <2>2
<1>10. S \subseteq DOMAIN heap
    BY <1>6 DEF Forest
<1>11. /\ Forest(heap', S \cup {id}) /\ DOMAIN heap' = DOMAIN heap \cup {id}
       /\ \A n \in S : heap'[n].kind = heap[n].kind
    BY <1>9, <1>10 DEF Grows
<1>12. id \notin S
    BY <1>7, <1>10
<1>13. Own(f) = {Top.node, id} /\ OwnApart(f, R)
    BY <1>2, <1>3, <1>4, <1>5, <1>6, <1>7, <1>12 DEF Own, OwnApart
<1>14. R \cup Own(f) = S \cup {id}
    BY <1>5, <1>13
<1>15. Forest(heap', R \cup Own(f))
    BY <1>11, <1>14
<1>16. DOMAIN heap' \subseteq 1 .. created'
    BY <1>1, <1>7, <1>11 DEF id
<1>17. KindFits(heap', f)
    BY <1>2, <1>4, <1>6, <1>7, <1>8, <1>9, <1>11 DEF KindFits, InStep
<1>18. \A n \in R : heap'[n].kind = heap[n].kind
    BY <1>5, <1>11
<1>19. "expression" \in Callable /\ answer' = Null
    BY <1>1, <1>2, RulesAssumption
<1>. QED
    BY <1>1, <1>13, <1>15, <1>16, <1>17, <1>18, <1>19, CallRuleTree DEF R

LEMMA CloseSliceTree ==
    ASSUME ParserInv, TreeInv, CloseSlice
    PROVE  TreeInv'
PROOF
<1>. DEFINE R == Rest(frames)
            one == Attach(heap, Top.held, "expression", answer)
            f == [Top EXCEPT !.phase = "slices", !.at = @ + 1, !.held = Null]
<1>1. /\ Running /\ Top.phase = "slice" /\ answer' = Null /\ created' = created
      /\ frames' = WithLast(frames, f) /\ heap' = Attach(one, Top.node, "element", Top.held)
    BY DEF CloseSlice, At, Goto
<1>2. Fine(Top)
    BY <1>1, AtTop
<1>3. f.node = Top.node /\ f.held = Null /\ f.phase = "slices"
    BY <1>2 DEF Fine
<1>. HIDE DEF f
<1>4. /\ Null \notin R /\ OwnApart(Top, R) /\ KindFits(heap, Top)
      /\ DOMAIN heap \subseteq 1 .. created /\ answer \notin R \cup Own(Top)
    BY <1>1, TopTree
<1>5. /\ Top.node # Null /\ heap[Top.node].kind = "FString"
      /\ Top.held # Null /\ heap[Top.held].kind = "FStringExpression"
    BY <1>1, <1>4 DEF KindFits
<1>6. Own(Top) = {Top.node, Top.held} /\ Top.node # Top.held
    BY <1>4, <1>5 DEF Own, OwnApart
<1>7. IsTraversed("FString", "element") /\ IsTraversed("FStringExpression", "expression")
    BY DEF IsTraversed, Traversed
<1>8. PICK S : S = R \cup Own(Top) \cup ({answer} \ {Null})
    OBVIOUS
<1>9. Forest(heap, S) /\ S \subseteq DOMAIN heap
  <2>1. Forest(heap, S)
      BY <1>1, <1>8, TopTree
  <2>. QED
      BY <2>1 DEF Forest
<1>10. Top.held \in S /\ (answer = Null \/ (answer \in S /\ answer # Top.held))
    BY <1>4, <1>6, <1>8
<1>. HIDE DEF R
<1>11. Grows(heap, one, S \ {answer}, {})
    BY <1>5, <1>7, <1>9, <1>10, AttachGrows
<1>. HIDE DEF one
<1>12. PICK T : T = R \cup Own(Top)
    OBVIOUS
<1>13. S \ {answer} = T
    BY <1>4, <1>8, <1>12
<1>14. /\ Forest(one, T) /\ DOMAIN one = DOMAIN heap
       /\ \A n \in DOMAIN heap : one[n].kind = heap[n].kind
    BY <1>11, <1>13 DEF Grows
<1>15. Top.node \in T /\ Top.held \in T /\ T \subseteq DOMAIN heap
    BY <1>6, <1>8, <1>9, <1>12
<1>16. Grows(one, heap', T \ {Top.held}, {})
    BY <1>1, <1>5, <1>6, <1>7, <1>14, <1>15, AttachGrows
<1>17. Own(f) = {Top.node} /\ OwnApart(f, R) /\ answer' \notin R \cup Own(f)
    BY <1>1, <1>3, <1>4, <1>5, <1>6 DEF Own, OwnApart
<1>18. R \cup Own(f) \cup ({answer'} \ {Null}) = T \ {Top.held}
    BY <1>1, <1>4, <1>6, <1>12, <1>17 DEF OwnApart
<1>19. Forest(heap', R \cup Own(f) \cup ({answer'} \ {Null}))
    BY <1>16, <1>18 DEF Grows
<1>20. /\ DOMAIN heap' = DOMAIN heap /\ \A n \in DOMAIN heap : heap'[n].kind = heap[n].kind
    BY <1>14, <1>16 DEF Grows
<1>21. DOMAIN heap' \subseteq 1 .. created' /\ \A n \in R : heap'[n].kind = heap[n].kind
    BY <1>1, <1>4, <1>12, <1>15, <1>20
<1>22. KindFits(heap', f)
    BY <1>3, <1>5, <1>15, <1>20 DEF KindFits, InStep
<1>. QED
    BY <1>1, <1>17, <1>19, <1>21, <1>22, GotoTree DEF R

-----------------------------------------------------------------------------
(* Steps that make several nodes, and put them into the node of the frame. *)
LEMMA FillingStep ==
    ASSUME ParserInv, TreeInv, Running, Top.phase = "steps", Fills(Step) # {}
    PROVE  /\ answer = Null /\ InStep(Top) /\ Own(Top) = {Top.node}
           /\ Forest(heap, Rest(frames) \cup Own(Top))
           /\ \A field \in Fills(Step) : IsTraversed(heap[Top.node].kind, field)
           /\ DOMAIN heap \subseteq 1 .. created /\ created \in Nat
           /\ Top.at + 1 \in Nat /\ Top.at + 1 >= Top.at
PROOF
<1>1. /\ answer = Null /\ Top.held = Null /\ KindFits(heap, Top) /\ InStep(Top)
      /\ Step = StepsOf(Top.rule)[Top.at] /\ Top.at \in Nat
      /\ DOMAIN heap \subseteq 1 .. created /\ created \in Nat
    BY Owns, TopTree, StepFacts DEF Waiting, InStep
<1>2. Top.at \in Top.at .. Len(StepsOf(Top.rule))
    BY <1>1, AtTop DEF RuleShape, IsList, StepsOf, Fine, InStep
<1>3. /\ \A field \in Fills(Step) : Top.node # Null /\ IsTraversed(heap[Top.node].kind, field)
    BY <1>1, <1>2 DEF KindFits
<1>4. Own(Top) = {Top.node}
    BY <1>1, <1>3 DEF Own
<1>5. Rest(frames) \cup Own(Top) \cup ({answer} \ {Null}) = Rest(frames) \cup Own(Top)
    BY <1>1
<1>6. Forest(heap, Rest(frames) \cup Own(Top))
    BY <1>5, TopTree
<1>. QED
    BY <1>1, <1>3, <1>4, <1>6

LEMMA DefaultRangeTree ==
    ASSUME ParserInv, TreeInv, DefaultRange
    PROVE  TreeInv'
PROOF
<1>. DEFINE R == Rest(frames)
<1>1. /\ Running /\ Top.phase = "steps" /\ Step.do = "range" /\ answer' = answer
      /\ frames' = WithLast(frames, Onward(Top, Top.at + 1)) /\ created' = created + 2
    BY DEF DefaultRange, AtStep, At, OnlyFrames, Goto, NextStep
<1>2. Fills(Step) = {"start", "stepsize"}
    BY <1>1 DEF Fills
<1>3. /\ answer = Null /\ InStep(Top) /\ Own(Top) = {Top.node}
      /\ Forest(heap, R \cup Own(Top))
      /\ IsTraversed(heap[Top.node].kind, "start")
      /\ IsTraversed(heap[Top.node].kind, "stepsize")
      /\ DOMAIN heap \subseteq 1 .. created /\ created \in Nat
      /\ Top.at + 1 \in Nat /\ Top.at + 1 >= Top.at
    BY <1>1, <1>2, FillingStep
<1>4. PICK i, j : i = created + 1 /\ j = i + 1
    OBVIOUS
<1>5. /\ i \notin DOMAIN heap /\ i # Null /\ j \notin DOMAIN heap /\ j # Null /\ j # i
      /\ DOMAIN heap \cup {i, j} \subseteq 1 .. created'
    BY <1>1, <1>3, <1>4 DEF Null
<1>6. PICK S : S = R \cup Own(Top)
    OBVIOUS
<1>7. Forest(heap, S) /\ Top.node \in S /\ S \subseteq DOMAIN heap
    BY <1>3, <1>6 DEF Forest
<1>. DEFINE one == Create(heap, i, "Literal", "1")
            two == Create(one, j, "Literal", "1")
            three == Attach(two, Top.node, "start", i)
<1>8. heap' = Attach(three, Top.node, "stepsize", j)
    BY <1>4 DEF DefaultRange
<1>9. Grows(heap, one, S \cup {i}, {i})
    BY <1>5, <1>7, CreateGrows
<1>. HIDE DEF one
<1>10. PICK T : T = S \cup {i}
    OBVIOUS
<1>11. Forest(one, T) /\ j \notin DOMAIN one
    BY <1>5, <1>9, <1>10 DEF Grows
<1>12. Grows(one, two, T \cup {j}, {j})
    BY <1>5, <1>11, CreateGrows
<1>. HIDE DEF two
<1>13. PICK U : U = T \cup {j}
    OBVIOUS
<1>14. /\ Forest(two, U) /\ Top.node \in U /\ i \in U /\ i # Top.node /\ j # Top.node
       /\ two[Top.node].kind = heap[Top.node].kind
    BY <1>5, <1>7, <1>9, <1>10, <1>12, <1>13 DEF Grows
<1>15. Grows(two, three, U \ {i}, {})
    BY <1>3, <1>14, AttachGrows
<1>. HIDE DEF three
<1>16. PICK V : V = U \ {i}
    OBVIOUS
<1>17. /\ Forest(three, V) /\ Top.node \in V /\ j \in V
       /\ three[Top.node].kind = heap[Top.node].kind
    BY <1>5, <1>7, <1>9, <1>12, <1>13, <1>14, <1>15, <1>16 DEF Grows
<1>18. Grows(three, heap', V \ {j}, {})
    BY <1>3, <1>8, <1>14, <1>17, AttachGrows
<1>19. V \ {j} = S
    BY <1>5, <1>7, <1>10, <1>13, <1>16
<1>20. /\ Forest(heap', S) /\ DOMAIN heap' = DOMAIN heap \cup {i, j}
       /\ \A n \in DOMAIN heap : heap'[n].kind = heap[n].kind
    BY <1>9, <1>12, <1>15, <1>18, <1>19 DEF Grows
<1>21. /\ Forest(heap', R \cup Own(Top)) /\ DOMAIN heap' \subseteq 1 .. created'
       /\ \A n \in R \cup Own(Top) : heap'[n].kind = heap[n].kind
    BY <1>5, <1>6, <1>7, <1>20
<1>. QED
    BY <1>1, <1>3, <1>21, OnTree

LEMMA IteratorTree ==
    ASSUME ParserInv, TreeInv, Iterator
    PROVE  TreeInv'
PROOF
<1>. DEFINE R == Rest(frames)
<1>1. /\ Running /\ Top.phase = "steps" /\ Step.do = "iterator" /\ answer' = answer
      /\ frames' = WithLast(frames, Onward(Top, Top.at + 1)) /\ created' = created + 1 + 2
    BY DEF Iterator, AtStep, At, Goto, NextStep
<1>2. Fills(Step) = {"identifier"}
    BY <1>1 DEF Fills
<1>3. /\ answer = Null /\ InStep(Top) /\ Own(Top) = {Top.node}
      /\ Forest(heap, R \cup Own(Top))
      /\ IsTraversed(heap[Top.node].kind, "identifier")
      /\ DOMAIN heap \subseteq 1 .. created /\ created \in Nat
      /\ Top.at + 1 \in Nat /\ Top.at + 1 >= Top.at
    BY <1>1, <1>2, FillingStep
<1>4. PICK i, j, k : i = created + 1 /\ j = i + 1 /\ k = i + 2
    OBVIOUS
<1>5. /\ i \notin DOMAIN heap /\ i # Null /\ j \notin DOMAIN heap /\ j # Null /\ j # i
      /\ k \notin DOMAIN heap /\ k # Null /\ k # i /\ k # j
      /\ DOMAIN heap \cup {i, j, k} \subseteq 1 .. created'
    BY <1>1, <1>3, <1>4 DEF Null
<1>6. PICK S : S = R \cup Own(Top)
    OBVIOUS
<1>7. Forest(heap, S) /\ Top.node \in S /\ S \subseteq DOMAIN heap
    BY <1>3, <1>6 DEF Forest
<1>8. PICK text : text = heap[Top.node].text
    OBVIOUS
<1>. DEFINE one == Create(heap, i, "Variable", text)
            two == Attach(Create(one, j, "Type", "Integer"), i, "type", j)
            all == Attach(Create(two, k, "Literal", "0"), i, "value", k)
            named == [all EXCEPT ![Top.node].text = "for"]
<1>9. heap' = Attach(named, Top.node, "identifier", i)
    BY <1>4, <1>8 DEF Iterator
<1>10. IsTraversed("Variable", "type") /\ IsTraversed("Variable", "value")
    BY DEF IsTraversed, Traversed
<1>11. Grows(heap, one, S \cup {i}, {i})
    BY <1>5, <1>7, CreateGrows
<1>12. one[i].kind = "Variable"
    BY DEF Create, Fresh
<1>. HIDE DEF one
<1>13. PICK T : T = S \cup {i}
    OBVIOUS
<1>14. /\ Forest(one, T) /\ i \in T /\ j \notin DOMAIN one /\ k \notin DOMAIN one
       /\ i \in DOMAIN one
    BY <1>5, <1>11, <1>13 DEF Grows
<1>15. Grows(one, two, T, {j})
    BY <1>5, <1>10, <1>12, <1>14, BelowGrows
<1>. HIDE DEF two
<1>16. Forest(two, T) /\ two[i].kind = "Variable" /\ k \notin DOMAIN two
    BY <1>5, <1>12, <1>14, <1>15 DEF Grows
<1>17. Grows(two, all, T, {k})
    BY <1>5, <1>10, <1>14, <1>16, BelowGrows
<1>. HIDE DEF all
<1>18. Forest(all, T)
    BY <1>17 DEF Grows
<1>19. Edited(all, named)
    BY <1>18, Edits DEF Forest
<1>. HIDE DEF named
<1>20. Forest(named, T)
    BY <1>18, <1>19, EditForest DEF Edited
<1>21. /\ DOMAIN named = DOMAIN heap \cup {i, j, k}
       /\ \A n \in DOMAIN heap : named[n].kind = heap[n].kind
    BY <1>11, <1>15, <1>17, <1>19 DEF Grows, Edited
<1>22. Top.node \in T /\ i # Top.node /\ named[Top.node].kind = heap[Top.node].kind
    BY <1>5, <1>7, <1>13, <1>21
<1>23. Grows(named, heap', T \ {i}, {})
    BY <1>3, <1>9, <1>14, <1>20, <1>22, AttachGrows
<1>24. T \ {i} = S
    BY <1>5, <1>7, <1>13
<1>25. /\ Forest(heap', S) /\ DOMAIN heap' = DOMAIN heap \cup {i, j, k}
       /\ \A n \in DOMAIN heap : heap'[n].kind = heap[n].kind
    BY <1>21, <1>23, <1>24 DEF Grows
<1>26. /\ Forest(heap', R \cup Own(Top)) /\ DOMAIN heap' \subseteq 1 .. created'
       /\ \A n \in R \cup Own(Top) : heap'[n].kind = heap[n].kind
    BY <1>5, <1>6, <1>7, <1>25
<1>. QED
    BY <1>1, <1>3, <1>26, OnTree

-----------------------------------------------------------------------------
(* Before a file is opened and behind its end there are no frames. *)
LEMMA EmptyTree ==
    ASSUME heap = <<>>, frames = <<>>, answer = Null
    PROVE  TreeInv
PROOF
<1>1. DOMAIN heap = {} /\ Len(frames) = 0
    OBVIOUS
<1>2. heap = [n \in DOMAIN heap |-> heap[n]]
    OBVIOUS
<1>3. \A i \in 1 .. Len(frames) : FALSE
    BY <1>1
<1>4. All(frames) = {} /\ Apart(frames)
    BY <1>3 DEF All, Apart
<1>5. All(frames) \cup ({answer} \ {Null}) = {}
    BY <1>4
<1>6. Forest(heap, {})
    BY <1>1, <1>2 DEF Forest
<1>. QED
    BY <1>1, <1>3, <1>4, <1>5, <1>6 DEF TreeInv

LEMMA RestartTree ==
    ASSUME Restart
    PROVE  TreeInv'
PROOF
<1>1. heap' = <<>> /\ frames' = <<>> /\ answer' = Null
    BY DEF Restart, Reset
<1>2. DOMAIN heap' = {} /\ Len(frames') = 0
    BY <1>1
<1>3. heap' = [n \in DOMAIN heap' |-> heap'[n]]
    BY <1>1
<1>4. \A i \in 1 .. Len(frames') : FALSE
    BY <1>2
<1>5. All(frames') = {} /\ Apart(frames')
    BY <1>4 DEF All, Apart
<1>6. All(frames') \cup ({answer'} \ {Null}) = {}
    BY <1>1, <1>5
<1>7. Forest(heap', {})
    BY <1>2, <1>3 DEF Forest
<1>. QED
    BY <1>1, <1>2, <1>4, <1>5, <1>6, <1>7 DEF TreeInv

LEMMA FileTree ==
    ASSUME ParserInv, TreeInv, OpenFile \/ FailToOpen \/ CloseFile
    PROVE  TreeInv'
PROOF
<1>1. /\ answer' = answer /\ UNCHANGED <<heap, created>> /\ frames = <<>>
    BY DEF OpenFile, FailToOpen, CloseFile, ParserInv, Stages
<1>2. Edited(heap, heap')
    BY <1>1, HeapNodes, Edits
<1>3. CASE frames' = frames
    BY <1>1, <1>2, <1>3, SameFramesTree
<1>4. CASE frames' # frames
  <2>. DEFINE g == Frame("module")
  <2>1. frames' = <<g>> /\ answer = Null
      BY <1>4 DEF OpenFile, FailToOpen, CloseFile, ParserInv, Stages
  <2>2. "module" \in Callable
      BY RulesAssumption
  <2>3. Own(g) = {} /\ OwnApart(g, {}) /\ KindFits(heap', g)
      BY <2>2, FreshFrame
  <2>. HIDE DEF g
  <2>4. Len(frames') = 1 /\ frames'[1] = g
      BY <2>1, OneFacts
  <2>5. \A i \in 1 .. Len(frames') : i = 1 /\ frames'[i] = g
      BY <2>4
  <2>6. All(frames') = {} /\ All(frames) = {}
    <3>1. All(frames') = {}
        BY <2>3, <2>5 DEF All
    <3>2. Len(frames) = 0
        BY <1>1
    <3>3. \A i \in 1 .. Len(frames) : FALSE
        BY <3>2
    <3>. QED
        BY <3>1, <3>3 DEF All
  <2>7. Apart(frames')
      BY <2>3, <2>5 DEF Apart, OwnApart
  <2>8. All(frames') \cup ({answer'} \ {Null}) = All(frames) \cup ({answer} \ {Null})
      BY <1>1, <2>6
  <2>9. Forest(heap', All(frames') \cup ({answer'} \ {Null}))
      BY <1>1, <2>8 DEF TreeInv
  <2>. QED
      BY <1>1, <2>3, <2>5, <2>6, <2>7, <2>9 DEF TreeInv
<1>. QED
    BY <1>3, <1>4

LEMMA ParsingTree ==
    ASSUME ParserInv, TreeInv, [Parsing \/ Restart]_vars
    PROVE  TreeInv'
PROOF
<1>1. CASE Restart
    BY <1>1, RestartTree
<1>2. CASE OpenFile \/ FailToOpen \/ CloseFile \/ UNCHANGED vars
    BY <1>2, FileTree, TypeDefinitionTree
<1>3. CASE Begin \/ Return \/ ExpectToken \/ OptionalToken \/ ReadText \/ CallChild \/ TakeChild
    BY <1>3, BeginTree, ReturnTree, StepsTree, CallChildTree, TakeChildTree
<1>4. CASE Choose \/ TakeChosen \/ ReadVisibility \/ TakeSuffix \/ TakeSuffixed
    BY <1>4, ChooseTree, TakeChosenTree, ReadVisibilityTree, TakeSuffixTree,
       TakeSuffixedTree
<1>5. CASE CallOperand \/ TakeLeft \/ TakeRight \/ CallFirst \/ TakeFirst
    BY <1>5, CallOperandTree, TakeLeftTree, TakeRightTree, TakeFirstTree
<1>6. CASE BeginMany \/ TakeItem \/ AppendItem \/ EndMany
    BY <1>6, BeginManyTree, TakeItemTree, AppendItemTree, EndTree
<1>7. CASE BeginAssign \/ TakeTarget \/ TakeAssigned \/ Assign
    BY <1>7, CallOperandTree, TakeTargetTree, TakeAssignedTree, AssignTree
<1>8. CASE BeginFString \/ EndFString \/ TextSlice \/ OpenSlice \/ CloseSlice
    BY <1>8, BeginFStringTree, EndTree, TextSliceTree, OpenSliceTree, CloseSliceTree
<1>9. CASE Concat \/ Declare \/ Define \/ Constructor \/ Iterator
    BY <1>9, ConcatTree, StepsTree, DefineTree, IteratorTree
<1>10. CASE EnterScope \/ LeaveScope \/ Loop \/ LinkJump \/ Check \/ IndexList
    BY <1>10, StepsTree
<1>11. CASE DefaultRange \/ Alias \/ MarkScoped \/ TypeDefinition
    BY <1>11, DefaultRangeTree, StepsTree, TypeDefinitionTree
<1>12. CASE Syntax
    BY <1>3, <1>4, <1>5, <1>6, <1>12 DEF Syntax
<1>13. CASE Semantics
    BY <1>7, <1>8, <1>9, <1>10, <1>11, <1>13 DEF Semantics
<1>. QED
    BY <1>1, <1>2, <1>12, <1>13 DEF Parsing

-----------------------------------------------------------------------------
(* Whatever the text: every node that is allocated is below exactly one    *)
(* node that a rule under way or the answer has hold of, so that no rule   *)
(* frees, returns or links in a node that another one still has            *)
(* (parse.c:196-205, 1372, 1414).                                          *)
THEOREM EveryNodeHasItsOwner == Spec => [](ParserInv /\ TreeInv)
PROOF
<1>1. Init => ParserInv /\ TreeInv
    BY InitControl, EmptyTree DEF Init
<1>2. ParserInv /\ TreeInv /\ [Parsing \/ Restart]_vars => (ParserInv /\ TreeInv)'
    BY StepControl, ParsingTree
<1>. QED
    BY <1>1, <1>2, PTL DEF Spec

(* When a file has been parsed, the nodes that are left are those of the   *)
(* tree that is returned, for every text and whatever errors there were:   *)
(* what a rule that gives up had built is freed, and nothing in the tree.  *)
THEOREM OnlyTheTreeIsLeft == Spec => []NothingLost
PROOF
<1>1. ParserInv /\ TreeInv => NothingLost
  <2>1. SUFFICES ASSUME ParserInv, TreeInv, Finished
                 PROVE  DOMAIN heap = Tree
      BY DEF NothingLost
  <2>2. Len(frames) = 0
      BY <2>1 DEF Finished, ParserInv, Stages
  <2>3. \A i \in 1 .. Len(frames) : FALSE
      BY <2>2
  <2>4. All(frames) = {}
      BY <2>3 DEF All
  <2>5. All(frames) \cup ({answer} \ {Null}) = {answer} \ {Null}
      BY <2>4
  <2>6. Forest(heap, {answer} \ {Null})
      BY <2>1, <2>5 DEF TreeInv
  <2>. QED
      BY <2>6 DEF Forest, Tree
<1>. QED
    BY <1>1, EveryNodeHasItsOwner, PTL

-----------------------------------------------------------------------------
\* A scope that is entered has symbols, and streams are opened up to a limit.
SymbolsInv ==
    /\ fault \in {"none", "assert", "stale"}
    /\ \A k \in 1 .. Len(scopes) : scopes[k] \in DOMAIN symbols
    /\ fault = "none" => Len(streams) <= Limit

(* The node of a scope that is entered is one of a frame's, and allocated. *)
LEMMA ScopeNodes ==
    ASSUME ParserInv, TreeInv, NEW k \in 1 .. Len(scopes)
    PROVE  scopes[k] \in DOMAIN heap
PROOF
<1>1. PICK p : /\ Orders(p, Len(scopes), Entered(frames))
               /\ \A i \in 1 .. Len(scopes) : scopes[i] = frames[p[i]].node
    BY DEF ParserInv, ScopesInv
<1>2. p[k] \in Entered(frames)
    BY <1>1 DEF Orders
<1>3. PICK n \in 1 .. Len(frames) : scopes[k] = frames[n].node /\ InScope(frames[n])
    BY <1>1, <1>2 DEF Entered
<1>. DEFINE f == frames[n]
<1>4. Fine(f) /\ InStep(f) /\ Between(f.rule, f.at, "enter", "leave")
    BY <1>3 DEF ParserInv, FramesInv, InScope
<1>5. Rules[f.rule].form \in Stepping /\ f.rule \in DOMAIN Rules
    BY <1>4 DEF Fine, InStep
<1>6. \A i \in DOMAIN StepsOf(f.rule) : StepShape(f.rule, i)
    BY <1>5, RulesAssumption DEF RuleShape, StepsOf
<1>7. Rules[f.rule].form = "construct"
    BY <1>4, <1>6 DEF Between, StepShape
<1>8. f.node # Null
    BY <1>4, <1>7 DEF Fine, InStep
<1>9. f.node \in All(frames)
    BY <1>8 DEF All, Own
<1>. QED
    BY <1>3, <1>9 DEF TreeInv, Forest

\* The same of all of them, for the step.
ScopesAllocated == \A k \in 1 .. Len(scopes) : scopes[k] \in DOMAIN heap

LEMMA ScopesKnown == ParserInv /\ TreeInv => ScopesAllocated
PROOF
    BY ScopeNodes DEF ScopesAllocated

LEMMA LeavesEntered ==
    ASSUME ParserInv, LeaveScope
    PROVE  scopes # <<>>
PROOF
<1>. DEFINE n == Len(frames)
<1>1. /\ Running /\ Top.phase = "steps" /\ Step.do = "leave"
      /\ frames' = WithLast(frames, NextStep) /\ answer' = answer
      /\ UNCHANGED <<created, parsers, stage, streams>>
    BY DEF LeaveScope, AtStep, At, Goto, SameTree, SameFile
<1>2. /\ n \in Nat \ {0}
      /\ StepShape(Top.rule, Top.at) /\ Step = StepsOf(Top.rule)[Top.at]
    BY <1>1, OwnStep
<1>3. Between(Top.rule, Top.at, "enter", "leave")
    BY <1>1, <1>2 DEF StepShape, Brackets
<1>4. Top = frames[n] /\ IsSequence(scopes)
    BY <1>1, AtTop DEF Top
<1>5. n \in Entered(frames)
    BY <1>1, <1>2, <1>3, <1>4 DEF Entered, InScope, InStep
<1>6. PICK p : Orders(p, Len(scopes), Entered(frames))
    BY DEF ParserInv, ScopesInv
<1>7. \E k \in 1 .. Len(scopes) : p[k] = n
    BY <1>5, <1>6 DEF Orders
<1>8. Len(scopes) # 0
    BY <1>7
<1>. QED
    BY <1>4, <1>8, SequenceFacts

LEMMA AddedSymbols ==
    ASSUME NEW h, NEW node, Added(h, node), fault \in {"none", "assert", "stale"}
    PROVE  DOMAIN symbols' = DOMAIN symbols /\ fault' \in {"none", "assert", "stale"}
PROOF
<1>1. \A s, name : Compared(h, s, name) \in {"stale", "assert", "equal", "different"}
    BY DEF Compared
<1>2. \/ UNCHANGED <<symbols, fault>>
      \/ UNCHANGED fault /\ symbols' = [symbols EXCEPT ![Last(scopes)] = Append(@, node)]
      \/ \E i \in Met(h, h[node].text) :
            /\ fault' = Compared(h, SymbolAt(i), h[node].text) /\ UNCHANGED symbols
            /\ fault' # "equal"
    BY DEF Added
<1>3. CASE UNCHANGED <<symbols, fault>>
    BY <1>3
<1>4. CASE UNCHANGED fault /\ symbols' = [symbols EXCEPT ![Last(scopes)] = Append(@, node)]
    BY <1>4
<1>5. ASSUME NEW i \in Met(h, h[node].text), UNCHANGED symbols,
             fault' = Compared(h, SymbolAt(i), h[node].text), fault' # "equal"
      PROVE  DOMAIN symbols' = DOMAIN symbols /\ fault' \in {"none", "assert", "stale"}
  <2>1. fault' # "different"
      BY <1>5 DEF Met
  <2>. QED
      BY <1>1, <1>5, <2>1
<1>. QED
    BY <1>2, <1>3, <1>4, <1>5

\* What most actions do with faults and scopes.
Steadily ==
    /\ fault' \in {"none", "assert", "stale"}
    /\ UNCHANGED scopes /\ DOMAIN symbols' = DOMAIN symbols /\ UNCHANGED streams

LEMMA SteadyRules ==
    ASSUME fault = "none",
           \/ Begin \/ ExpectToken \/ OptionalToken \/ ReadText \/ CallChild \/ TakeChild
           \/ Choose \/ TakeChosen \/ ReadVisibility \/ TakeSuffix \/ TakeSuffixed
           \/ CallOperand \/ TakeLeft \/ TakeRight \/ CallFirst \/ TakeFirst
           \/ BeginMany \/ TakeItem \/ AppendItem \/ EndMany
    PROVE  Steadily
PROOF
    BY DEF Steadily, Otherwise, OnlyFrames, Taking, SameScopes, SameFile,
           Begin, ExpectToken, OptionalToken, ReadText, CallChild, TakeChild,
           Choose, TakeChosen, ReadVisibility, TakeSuffix, TakeSuffixed,
           CallOperand, TakeLeft, TakeRight, CallFirst, TakeFirst,
           BeginMany, TakeItem, AppendItem, EndMany

LEMMA SteadySteps ==
    ASSUME fault = "none",
           \/ BeginAssign \/ TakeTarget \/ TakeAssigned \/ Assign
           \/ BeginFString \/ EndFString \/ TextSlice \/ Concat
           \/ Declare \/ Define \/ Constructor \/ Iterator
           \/ Loop \/ LinkJump \/ Check \/ IndexList
           \/ DefaultRange \/ Alias \/ MarkScoped \/ TypeDefinition
    PROVE  Steadily
PROOF
<1>1. CASE \/ BeginAssign \/ TakeTarget \/ TakeAssigned \/ Assign
           \/ BeginFString \/ EndFString \/ TextSlice \/ Concat
    BY <1>1 DEF Steadily, Otherwise, OnlyFrames, SameScopes, SameFile,
           BeginAssign, TakeTarget, TakeAssigned, Assign,
           BeginFString, EndFString, TextSlice, Concat
<1>2. CASE Declare \/ Define \/ Constructor \/ Iterator
  <2>1. PICK h, node : Added(h, node) /\ UNCHANGED <<scopes, streams>>
      BY <1>2 DEF Declare, Define, Constructor, Iterator, SameFile
  <2>. QED
      BY <2>1, AddedSymbols DEF Steadily
<1>3. CASE Loop \/ LinkJump \/ Check \/ MarkScoped \/ DefaultRange
    BY <1>3 DEF Steadily, Otherwise, OnlyFrames, SameScopes, SameFile,
           Loop, LinkJump, Check, MarkScoped, DefaultRange
<1>4. CASE Alias \/ IndexList \/ TypeDefinition
    BY <1>4 DEF Steadily, SameScopes, SameFile, Alias, IndexList, TypeDefinition
<1>. QED
    BY <1>1, <1>2, <1>3, <1>4

LEMMA SymbolsSteadily ==
    ASSUME SymbolsInv, fault = "none", Steadily
    PROVE  SymbolsInv'
PROOF
    BY DEF SymbolsInv, Steadily

LEMMA ScopeSymbols ==
    ASSUME ParserInv, TreeInv, SymbolsInv, ParserInv', TreeInv',
           Return \/ EnterScope \/ LeaveScope
    PROVE  SymbolsInv'
PROOF
<1>1. fault = "none" /\ IsSequence(scopes) /\ streams' = streams
    BY AtTop DEF Return, EnterScope, LeaveScope, AtStep, At, Running, SameFile
<1>2. fault' \in {"none", "assert", "stale"}
    BY <1>1 DEF Return, EnterScope, LeaveScope
<1>3. Return \/ EnterScope \/ LeaveScope => \A k \in 1 .. Len(scopes') : scopes'[k] \in DOMAIN symbols'
  <2>1. CASE Return
    <3>1. /\ scopes' = scopes /\ DOMAIN symbols' = DOMAIN symbols \cap DOMAIN heap'
        BY <2>1 DEF Return
    <3>2. \A k \in 1 .. Len(scopes') : scopes'[k] \in DOMAIN heap'
      <4>1. (ParserInv /\ TreeInv => ScopesAllocated)'
          BY ScopesKnown, PTL
      <4>. QED
          BY <4>1 DEF ScopesAllocated
    <3>. QED
        BY <3>1, <3>2 DEF SymbolsInv
  <2>2. CASE EnterScope
    <3>1. scopes' = Append(scopes, Top.node) /\ DOMAIN symbols' = DOMAIN symbols \cup {Top.node}
        BY <2>2 DEF EnterScope
    <3>2. /\ Len(scopes') = Len(scopes) + 1 /\ scopes'[Len(scopes) + 1] = Top.node
          /\ \A k \in 1 .. Len(scopes) : scopes'[k] = scopes[k]
        BY <1>1, <3>1, AppendFacts
    <3>3. \A k \in 1 .. Len(scopes) + 1 : k \in 1 .. Len(scopes) \/ k = Len(scopes) + 1
        BY <1>1, SequenceFacts
    <3>. QED
        BY <3>1, <3>2, <3>3 DEF SymbolsInv
  <2>3. CASE LeaveScope
    <3>1. scopes' = Front(scopes) /\ symbols' = symbols
        BY <2>3 DEF LeaveScope
    <3>2. scopes # <<>>
        BY <2>3, LeavesEntered
    <3>3. /\ Len(scopes') = Len(scopes) - 1
          /\ \A k \in 1 .. Len(scopes) - 1 : scopes'[k] = scopes[k]
        BY <1>1, <3>1, <3>2, FrontFacts
    <3>4. \A k \in 1 .. Len(scopes) - 1 : k \in 1 .. Len(scopes)
        BY <1>1, SequenceFacts
    <3>. QED
        BY <3>1, <3>3, <3>4 DEF SymbolsInv
  <2>. QED
      BY <2>1, <2>2, <2>3
<1>. QED
    BY <1>1, <1>2, <1>3 DEF SymbolsInv

LEMMA StreamSymbols ==
    ASSUME ParserInv, SymbolsInv, OpenSlice \/ CloseSlice \/ CloseFile
    PROVE  SymbolsInv'
PROOF
<1>1. /\ fault = "none" /\ IsSequence(streams) /\ streams # <<>>
      /\ scopes' = scopes /\ symbols' = symbols
    BY DEF OpenSlice, CloseSlice, CloseFile, At, Running, SameScopes, ParserInv, StreamsInv
<1>2. Len(streams) \in Nat /\ Len(streams) <= Limit
    BY <1>1, SequenceFacts DEF SymbolsInv
<1>3. CASE OpenSlice
  <2>1. /\ streams' = Append(streams, NewStream)
        /\ fault' = IF Len(streams) = Limit THEN "assert" ELSE fault
      BY <1>3 DEF OpenSlice
  <2>2. Len(streams') = Len(streams) + 1
      BY <1>1, <2>1, AppendFacts
  <2>3. CASE Len(streams) = Limit
      BY <1>1, <2>1, <2>3 DEF SymbolsInv
  <2>4. CASE Len(streams) # Limit
    <3>1. fault' = "none"
        BY <1>1, <2>1, <2>4
    <3>2. Len(streams') <= Limit
      <4>1. Len(streams) <= 8 /\ Len(streams) # 8
          BY <1>1, <1>2, <2>4 DEF Limit
      <4>2. \A n \in Nat : n <= 8 /\ n # 8 => n + 1 <= 8
          OBVIOUS
      <4>3. Len(streams) + 1 <= 8
          BY <1>2, <4>1, <4>2
      <4>. QED
          BY <2>2, <4>3 DEF Limit
    <3>. QED
        BY <1>1, <3>1, <3>2 DEF SymbolsInv
  <2>. QED
      BY <2>3, <2>4
<1>4. CASE CloseSlice \/ CloseFile
  <2>1. /\ streams' = Front(streams) /\ fault' \in {"assert", fault}
      BY <1>4 DEF CloseSlice, CloseFile
  <2>2. Len(streams') = Len(streams) - 1
      BY <1>1, <2>1, FrontFacts
  <2>3. Len(streams') <= Limit
      BY <1>2, <2>2 DEF Limit
  <2>4. fault' \in {"none", "assert", "stale"}
      BY <1>1, <2>1
  <2>. QED
      BY <1>1, <2>3, <2>4 DEF SymbolsInv
<1>. QED
    BY <1>3, <1>4

LEMMA OutsideSymbols ==
    ASSUME ParserInv, SymbolsInv, OpenFile \/ FailToOpen \/ Restart \/ UNCHANGED vars
    PROVE  SymbolsInv'
PROOF
<1>1. CASE OpenFile
  <2>1. streams = <<>> /\ streams' = Append(streams, NewStream)
      BY <1>1 DEF OpenFile, ParserInv, Stages
  <2>2. Len(streams) = 0 /\ IsSequence(streams)
      BY <2>1 DEF ParserInv, StreamsInv
  <2>3. Len(streams') = 1
      BY <2>1, <2>2, AppendFacts
  <2>. QED
      BY <1>1, <2>3 DEF SymbolsInv, OpenFile, Limit
<1>2. CASE FailToOpen \/ UNCHANGED vars
    BY <1>2 DEF SymbolsInv, FailToOpen, vars
<1>3. CASE Restart
  <2>1. scopes' = <<>> /\ streams' = <<>> /\ fault' = "none"
      BY <1>3 DEF Restart, Reset
  <2>2. Len(scopes') = 0 /\ Len(streams') = 0
      BY <2>1
  <2>3. \A k \in 1 .. Len(scopes') : FALSE
      BY <2>2
  <2>. QED
      BY <2>1, <2>2, <2>3 DEF SymbolsInv, Limit
<1>. QED
    BY <1>1, <1>2, <1>3

LEMMA SyntaxRuns ==
    ASSUME Syntax
    PROVE  fault = "none"
PROOF
    BY DEF Syntax, Running, At, In, AtStep,
           Begin, Return, ExpectToken, OptionalToken, ReadText, CallChild, TakeChild,
           Choose, TakeChosen, ReadVisibility, TakeSuffix, TakeSuffixed,
           CallOperand, TakeLeft, TakeRight, CallFirst, TakeFirst,
           BeginMany, TakeItem, AppendItem, EndMany

LEMMA SemanticsRuns ==
    ASSUME Semantics
    PROVE  fault = "none"
PROOF
    BY DEF Semantics, Running, At, In, AtStep,
           BeginAssign, TakeTarget, TakeAssigned, Assign,
           BeginFString, EndFString, TextSlice, OpenSlice, CloseSlice,
           Concat, Declare, Define, Constructor, Iterator,
           EnterScope, LeaveScope, Loop, LinkJump, Check, IndexList,
           DefaultRange, Alias, MarkScoped, TypeDefinition

LEMMA StepSymbols ==
    ASSUME ParserInv, TreeInv, SymbolsInv, ParserInv', TreeInv', [Parsing \/ Restart]_vars
    PROVE  SymbolsInv'
PROOF
<1>1. CASE OpenFile \/ FailToOpen \/ Restart \/ UNCHANGED vars
    BY <1>1, OutsideSymbols
<1>2. CASE OpenSlice \/ CloseSlice \/ CloseFile
    BY <1>2, StreamSymbols
<1>3. CASE Return \/ EnterScope \/ LeaveScope
    BY <1>3, ScopeSymbols
<1>4. CASE Syntax
  <2>1. fault = "none"
      BY <1>4, SyntaxRuns
  <2>. QED
      BY <1>3, <1>4, <2>1, SteadyRules, SymbolsSteadily DEF Syntax
<1>5. CASE Semantics
  <2>1. fault = "none"
      BY <1>5, SemanticsRuns
  <2>. QED
      BY <1>2, <1>3, <1>5, <2>1, SteadySteps, SymbolsSteadily DEF Semantics
<1>. QED
    BY <1>1, <1>2, <1>4, <1>5 DEF Parsing

(* Whatever the text: nodes, tokens and errors are what they are typed as, *)
(* the nodes that frames, scopes and the tree refer to are allocated, each *)
(* scope that is entered has its symbols (scope.c:40-60), and no stream is *)
(* opened above the limit without a failed assertion (iostream.c:23).      *)
THEOREM ParserTypes == Spec => []TypeOK
PROOF
<1>1. Init => SymbolsInv
  <2>1. SUFFICES ASSUME Init
                 PROVE  SymbolsInv
      OBVIOUS
  <2>2. Len(scopes) = 0 /\ Len(streams) = 0 /\ fault = "none"
      BY <2>1 DEF Init
  <2>3. \A k \in 1 .. Len(scopes) : FALSE
      BY <2>2
  <2>. QED
      BY <2>2, <2>3 DEF SymbolsInv, Limit
<1>2. /\ SymbolsInv /\ (ParserInv /\ TreeInv) /\ (ParserInv /\ TreeInv)'
      /\ [Parsing \/ Restart]_vars
      => SymbolsInv'
    BY StepSymbols
<1>3. ParserInv /\ TreeInv /\ SymbolsInv => TypeOK
  <2>1. SUFFICES ASSUME ParserInv, TreeInv, SymbolsInv
                 PROVE  TypeOK
      OBVIOUS
  <2>. DEFINE R == All(frames) \cup ({answer} \ {Null})
  <2>2. IsSequence(frames) /\ IsSequence(parsers) /\ IsSequence(scopes)
      BY <2>1 DEF ParserInv, FramesInv, ParsersInv, ScopesInv
  <2>3. \A p \in ToSet(parsers) : p.at \in Nat /\ p.calm \in BOOLEAN /\ p.errors \in Nat
    <3>1. SUFFICES ASSUME NEW k \in 1 .. Len(parsers)
                   PROVE  ParserFine(parsers[k])
        BY <2>2, SequenceFacts DEF ToSet, ParserFine
    <3>. QED
        BY <2>1 DEF ParserInv, ParsersInv
  <2>4. \A f \in ToSet(frames) : f.rule \in DOMAIN Rules /\ f.node \in DOMAIN heap \cup {Null}
    <3>1. SUFFICES ASSUME NEW i \in 1 .. Len(frames)
                   PROVE  /\ frames[i].rule \in DOMAIN Rules
                          /\ frames[i].node \in DOMAIN heap \cup {Null}
        BY <2>2, SequenceFacts DEF ToSet
    <3>2. frames[i].rule \in DOMAIN Rules
        BY <2>1 DEF ParserInv, FramesInv, Fine
    <3>3. CASE frames[i].node # Null
      <4>1. frames[i].node \in All(frames)
          BY <3>3 DEF All, Own
      <4>. QED
          BY <2>1, <3>2, <4>1 DEF TreeInv, Forest
    <3>. QED
        BY <3>2, <3>3
  <2>5. \A n \in DOMAIN heap : heap[n].below \subseteq DOMAIN heap
    <3>1. Forest(heap, R)
        BY <2>1 DEF TreeInv
    <3>. HIDE DEF R
    <3>2. TAKE n \in DOMAIN heap
    <3>3. PICK x \in R : n \in heap[x].below
        BY <3>1 DEF Forest
    <3>. QED
        BY <3>1, <3>3 DEF Forest
  <2>6. ToSet(scopes) \subseteq DOMAIN symbols
      BY <2>1, <2>2, SequenceFacts DEF ToSet, SymbolsInv
  <2>. QED
      BY <2>1, <2>3, <2>4, <2>5, <2>6 DEF TypeOK, ParserInv, Stages, TreeInv, SymbolsInv
<1>. QED
    BY <1>1, <1>2, <1>3, EveryNodeHasItsOwner, PTL DEF Spec

=============================================================================
