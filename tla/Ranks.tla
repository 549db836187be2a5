-------------------------------- MODULE Ranks --------------------------------
(***************************************************************************)
(* Sorting by counting what comes before, so that what it returns can be   *)
(* proved.                                                                 *)
(***************************************************************************)
EXTENDS Integers, FiniteSets

(* The members of S, the lower ranks first; no two have the same rank.      *)
ByRank(S, rank) ==
  [n \in 1 .. Cardinality(S) |->
     CHOOSE x \in S : Cardinality({y \in S : rank[y] < rank[x]}) = n - 1]

Ascending(S) == ByRank(S, [x \in S |-> x])

(* The elements of a sequence at the places in I, in their order.           *)
Subsequence(s, I) == LET at == Ascending(I) IN [n \in DOMAIN at |-> s[at[n]]]
=============================================================================
