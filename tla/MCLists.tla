------------------------------- MODULE MCLists -------------------------------
(***************************************************************************)
(* Model-checking instance of Lists: two variables that hold lists of      *)
(* pairs, which are looked up by their first half, as the items of a       *)
(* dictionary are (match_item, dictionary.c:4).                            *)
(***************************************************************************)
EXTENDS Lists, TLC

CONSTANTS Key, Value

MCElement == Key \X Value

MatchItem(e, o) == e[1] = o

Symmetry == Permutations(Block) \union Permutations(List)
==============================================================================
