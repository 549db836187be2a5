----------------------------- MODULE SetLemmas -----------------------------
(***************************************************************************)
(* Facts about finite sets: the sum of a function over one, in which the   *)
(* books of the fund, the statistics of the predictions and the money of   *)
(* the backtest are written, the largest of its members, and their order   *)
(* by rank.                                                                *)
(*                                                                         *)
(* A sum is defined by recursion on the set, and so the facts need an      *)
(* induction: each takes a minimal set for which it fails, which exists    *)
(* because strict inclusion is well founded among the subsets of a finite  *)
(* set, and finds a smaller one.                                           *)
(***************************************************************************)
EXTENDS Ranks, Functions, FiniteSetTheorems, WellFoundedInduction, TLAPS

(* The member a sum takes out first, and the function its recursion defines *)
(* on the subsets of S.                                                     *)
Chosen(s) == CHOOSE x \in s : TRUE

IsSummation(h, g, S) ==
  h = [s \in SUBSET S |-> IF s = {} THEN 0 ELSE g[Chosen(s)] + h[s \ {Chosen(s)}]]

SummationOf(g, S) == CHOOSE h : IsSummation(h, g, S)

(* A sum is that function at the whole set.                                 *)
LEMMA SumUnfolded ==
  ASSUME NEW g, NEW S
  PROVE  SumFunctionOnSet(g, S) = SummationOf(g, S)[S]
BY DEF SumFunctionOnSet, FoldFunctionOnSet, MapThenFoldSet,
       SummationOf, IsSummation, Chosen

(* A non-empty set of subsets of a finite set has a minimal member.         *)
LEMMA MinimalSubset ==
  ASSUME NEW S, IsFiniteSet(S), NEW B, B \subseteq SUBSET S, B # {}
  PROVE  \E U \in B : \A V \in B : V \subseteq U => V = U
<1>1. IsWellFoundedOn(StrictSubsetOrdering(S), FiniteSubsetsOf(S))
  BY FS_StrictSubsetOrderingWellFounded
<1>2. B \subseteq FiniteSubsetsOf(S)
  BY FS_FiniteSubsetsOfFinite
<1>3. PICK U \in B : \A V \in B : <<V, U>> \notin StrictSubsetOrdering(S)
  BY <1>1, <1>2, WFMin
<1>4. ASSUME NEW V \in B, V \subseteq U, V # U
      PROVE  <<V, U>> \in StrictSubsetOrdering(S)
  BY <1>4 DEF StrictSubsetOrdering
<1>5. \A V \in B : V \subseteq U => V = U
  BY <1>3, <1>4
<1> QED
  BY <1>5

(* The choice is of a member.                                               *)
LEMMA ChosenIn == \A s : s # {} => Chosen(s) \in s
BY DEF Chosen

(* On the subsets of W, the recursion over a larger set and the one over W  *)
(* agree.                                                                   *)
LEMMA SummationUnique ==
  ASSUME NEW g, NEW S, IsFiniteSet(S), NEW h, IsSummation(h, g, S),
         NEW W \in SUBSET S, NEW k, IsSummation(k, g, W)
  PROVE  \A s \in SUBSET W : h[s] = k[s]
<1> DEFINE B == {s \in SUBSET W : h[s] # k[s]}
<1> SUFFICES ASSUME B # {} PROVE FALSE
  OBVIOUS
<1>1. IsFiniteSet(W)
  BY FS_Subset
<1>2. PICK U \in B : \A V \in B : V \subseteq U => V = U
  <2>1. B \subseteq SUBSET W
    OBVIOUS
  <2> HIDE DEF B
  <2> QED BY <1>1, <2>1, MinimalSubset
<1>3. U \in SUBSET W /\ h[U] # k[U]
  OBVIOUS
<1>4. h[U] = IF U = {} THEN 0 ELSE g[Chosen(U)] + h[U \ {Chosen(U)}]
  BY <1>3 DEF IsSummation
<1>5. k[U] = IF U = {} THEN 0 ELSE g[Chosen(U)] + k[U \ {Chosen(U)}]
  BY <1>3 DEF IsSummation
<1>6. CASE U # {}
  <2>1. U \ {Chosen(U)} \in SUBSET W /\ U \ {Chosen(U)} \subseteq U /\ U \ {Chosen(U)} # U
    BY <1>3, <1>6, ChosenIn
  <2>2. h[U \ {Chosen(U)}] = k[U \ {Chosen(U)}]
    BY <1>2, <2>1
  <2> QED
    BY <2>2, <1>3, <1>4, <1>5
<1> QED
  BY <1>3, <1>4, <1>5, <1>6

(* The recursive definition of a sum over a finite set defines a function.  *)
LEMMA SummationExists ==
  ASSUME NEW g, NEW S, IsFiniteSet(S)
  PROVE  IsSummation(SummationOf(g, S), g, S)
<1> DEFINE B == {U \in SUBSET S : ~\E h : IsSummation(h, g, U)}
<1>1. B = {}
  <2> SUFFICES ASSUME B # {} PROVE FALSE
    OBVIOUS
  <2>1. PICK U \in B : \A V \in B : V \subseteq U => V = U
    <3>1. B \subseteq SUBSET S
      OBVIOUS
    <3> HIDE DEF B
    <3> QED BY <3>1, MinimalSubset
  <2>2. U \in SUBSET S /\ IsFiniteSet(U)
    BY FS_Subset
  <2> DEFINE f == [s \in SUBSET U |->
                    IF s = {} THEN 0
                    ELSE g[Chosen(s)] + SummationOf(g, s \ {Chosen(s)})[s \ {Chosen(s)}]]
  <2>3. ASSUME NEW V \in SUBSET U, V # U
        PROVE  IsSummation(SummationOf(g, V), g, V)
    <3>1. V \in SUBSET S /\ V \notin B
      BY <2>1, <2>2, <2>3
    <3>2. \E h : IsSummation(h, g, V)
      BY <3>1
    <3> QED
      BY <3>2 DEF SummationOf
  <2>4. ASSUME NEW V \in SUBSET U, V # U
        PROVE  f[V] = SummationOf(g, V)[V]
    <3> DEFINE h == SummationOf(g, V)
               R == V \ {Chosen(V)}
    <3>1. IsSummation(h, g, V)
      BY <2>3, <2>4
    <3>2. h[V] = IF V = {} THEN 0 ELSE g[Chosen(V)] + h[R]
      BY <3>1 DEF IsSummation
    <3>3. CASE V # {}
      <4>1. R \in SUBSET V /\ R \in SUBSET U /\ R # U
        BY <2>4, <3>3, ChosenIn
      <4>2. IsSummation(SummationOf(g, R), g, R)
        BY <4>1, <2>3
      <4>3. IsFiniteSet(V)
        BY <2>2, FS_Subset
      <4>4. h[R] = SummationOf(g, R)[R]
        <5> HIDE DEF h, R
        <5> QED BY <3>1, <4>1, <4>2, <4>3, SummationUnique
      <4> QED
        BY <3>2, <3>3, <4>4
    <3> QED
      BY <3>2, <3>3
  <2>5. IsSummation(f, g, U)
    <3>1. ASSUME NEW s \in SUBSET U, s # {}
          PROVE  SummationOf(g, s \ {Chosen(s)})[s \ {Chosen(s)}] = f[s \ {Chosen(s)}]
      <4>1. s \ {Chosen(s)} \in SUBSET U /\ s \ {Chosen(s)} # U
        BY <3>1, ChosenIn
      <4> HIDE DEF f
      <4> QED
        BY <4>1, <2>4
    <3> QED
      BY <3>1 DEF IsSummation
  <2> HIDE DEF f
  <2> QED
    BY <2>1, <2>5
<1>2. \E h : IsSummation(h, g, S)
  BY <1>1
<1> QED
  BY <1>2 DEF SummationOf

(* The equation a sum satisfies.                                            *)
LEMMA SumByChoice ==
  ASSUME NEW g, NEW S, IsFiniteSet(S)
  PROVE  SumFunctionOnSet(g, S) =
           IF S = {} THEN 0 ELSE g[Chosen(S)] + SumFunctionOnSet(g, S \ {Chosen(S)})
<1>1. IsSummation(SummationOf(g, S), g, S)
  BY SummationExists
<1>2. SummationOf(g, S)[S] =
        IF S = {} THEN 0 ELSE g[Chosen(S)] + SummationOf(g, S)[S \ {Chosen(S)}]
  BY <1>1 DEF IsSummation
<1>3. CASE S = {}
  BY <1>2, <1>3, SumUnfolded
<1>4. CASE S # {}
  <2> DEFINE R == S \ {Chosen(S)}
  <2>1. IsFiniteSet(R) /\ R \in SUBSET S
    BY FS_Subset
  <2>2. IsSummation(SummationOf(g, R), g, R)
    BY <2>1, SummationExists
  <2>3. SummationOf(g, S)[R] = SummationOf(g, R)[R]
    <3> HIDE DEF R
    <3> QED BY <1>1, <2>1, <2>2, SummationUnique
  <2> QED
    BY <1>2, <1>4, <2>3, SumUnfolded
<1> QED
  BY <1>3, <1>4

(* A sum of nothing is zero.                                                *)
LEMMA SumOfNothing == \A g : SumFunctionOnSet(g, {}) = 0
BY SumByChoice, FS_EmptySet

(* A sum of integers is an integer.                                         *)
LEMMA SumIsInt ==
  ASSUME NEW S, IsFiniteSet(S), NEW g, \A x \in S : g[x] \in Int
  PROVE  SumFunctionOnSet(g, S) \in Int
<1> DEFINE B == {U \in SUBSET S : SumFunctionOnSet(g, U) \notin Int}
<1> SUFFICES ASSUME B # {} PROVE FALSE
  OBVIOUS
<1>1. PICK U \in B : \A V \in B : V \subseteq U => V = U
  <2>1. B \subseteq SUBSET S
    OBVIOUS
  <2> HIDE DEF B
  <2> QED BY <2>1, MinimalSubset
<1>2. U \in SUBSET S /\ SumFunctionOnSet(g, U) \notin Int /\ IsFiniteSet(U)
  BY FS_Subset
<1>3. U # {}
  BY <1>2, SumOfNothing
<1> DEFINE R == U \ {Chosen(U)}
<1>4. Chosen(U) \in U
  BY <1>3, ChosenIn
<1>5. SumFunctionOnSet(g, U) = g[Chosen(U)] + SumFunctionOnSet(g, R)
  BY <1>2, <1>3, SumByChoice
<1>6. SumFunctionOnSet(g, R) \in Int
  BY <1>1, <1>2, <1>4
<1> QED
  BY <1>2, <1>4, <1>5, <1>6

(* Any member may be taken out first.                                      *)
LEMMA SumWithout ==
  ASSUME NEW S, IsFiniteSet(S), NEW g, \A x \in S : g[x] \in Int, NEW m \in S
  PROVE  SumFunctionOnSet(g, S) = g[m] + SumFunctionOnSet(g, S \ {m})
<1> DEFINE B == {U \in SUBSET S :
                   \E x \in U : SumFunctionOnSet(g, U) # g[x] + SumFunctionOnSet(g, U \ {x})}
<1> SUFFICES ASSUME B # {} PROVE FALSE
  OBVIOUS
<1>1. PICK U \in B : \A V \in B : V \subseteq U => V = U
  <2>1. B \subseteq SUBSET S
    OBVIOUS
  <2> HIDE DEF B
  <2> QED BY <2>1, MinimalSubset
<1>2. PICK x \in U : SumFunctionOnSet(g, U) # g[x] + SumFunctionOnSet(g, U \ {x})
  OBVIOUS
<1>3. U \in SUBSET S /\ IsFiniteSet(U)
  BY FS_Subset
<1> DEFINE p == Chosen(U)
           R == U \ {p}
           T == U \ {x}
           Q == R \ {x}
<1>4. p \in U
  BY <1>2, ChosenIn
<1>5. SumFunctionOnSet(g, U) = g[p] + SumFunctionOnSet(g, R)
  BY <1>2, <1>3, SumByChoice
<1>6. x # p
  BY <1>2, <1>5
<1>7. SumFunctionOnSet(g, R) = g[x] + SumFunctionOnSet(g, Q)
  <2>1. R \in SUBSET S /\ R \subseteq U /\ R # U /\ x \in R
    BY <1>2, <1>3, <1>4, <1>6
  <2> QED
    BY <1>1, <2>1
<1>8. SumFunctionOnSet(g, T) = g[p] + SumFunctionOnSet(g, Q)
  <2>1. T \in SUBSET S /\ T \subseteq U /\ T # U /\ p \in T /\ T \ {p} = Q
    BY <1>2, <1>3, <1>4, <1>6
  <2> QED
    BY <1>1, <2>1
<1>9. g[x] \in Int /\ g[p] \in Int /\ SumFunctionOnSet(g, Q) \in Int
  <2>1. IsFiniteSet(Q) /\ Q \subseteq S
    BY <1>3, FS_Subset
  <2>2. SumFunctionOnSet(g, Q) \in Int
    BY <2>1, SumIsInt
  <2> QED
    BY <1>2, <1>3, <1>4, <2>2
<1> QED
  BY <1>2, <1>5, <1>7, <1>8, <1>9

(* A sum depends on the summands alone.                                     *)
LEMMA SumAlike ==
  ASSUME NEW S, IsFiniteSet(S), NEW g, NEW h, \A x \in S : g[x] = h[x]
  PROVE  SumFunctionOnSet(g, S) = SumFunctionOnSet(h, S)
<1> DEFINE B == {U \in SUBSET S : SumFunctionOnSet(g, U) # SumFunctionOnSet(h, U)}
<1> SUFFICES ASSUME B # {} PROVE FALSE
  OBVIOUS
<1>1. PICK U \in B : \A V \in B : V \subseteq U => V = U
  <2>1. B \subseteq SUBSET S
    OBVIOUS
  <2> HIDE DEF B
  <2> QED BY <2>1, MinimalSubset
<1>2. U \in SUBSET S /\ SumFunctionOnSet(g, U) # SumFunctionOnSet(h, U) /\ IsFiniteSet(U)
  BY FS_Subset
<1>3. U # {}
  BY <1>2, SumOfNothing
<1> DEFINE R == U \ {Chosen(U)}
<1>4. Chosen(U) \in U
  BY <1>3, ChosenIn
<1>5. /\ SumFunctionOnSet(g, U) = g[Chosen(U)] + SumFunctionOnSet(g, R)
      /\ SumFunctionOnSet(h, U) = h[Chosen(U)] + SumFunctionOnSet(h, R)
  BY <1>2, <1>3, SumByChoice
<1>6. SumFunctionOnSet(g, R) = SumFunctionOnSet(h, R)
  BY <1>1, <1>2, <1>4
<1> QED
  BY <1>2, <1>4, <1>5, <1>6

(* A summand added.                                                         *)
LEMMA SumWith ==
  ASSUME NEW S, IsFiniteSet(S), NEW g, \A x \in S : g[x] \in Int,
         NEW m, m \notin S, g[m] \in Int
  PROVE  SumFunctionOnSet(g, S \cup {m}) = SumFunctionOnSet(g, S) + g[m]
<1>1. IsFiniteSet(S \cup {m})
  BY FS_AddElement
<1>2. PICK W : W = S \cup {m} /\ W \ {m} = S
  OBVIOUS
<1>3. SumFunctionOnSet(g, W) = g[m] + SumFunctionOnSet(g, W \ {m})
  BY <1>1, <1>2, SumWithout
<1>4. SumFunctionOnSet(g, W) = g[m] + SumFunctionOnSet(g, S)
  BY <1>2, <1>3
<1>5. SumFunctionOnSet(g, S) \in Int
  BY SumIsInt
<1>6. SumFunctionOnSet(g, W) = SumFunctionOnSet(g, S) + g[m]
  BY <1>4, <1>5
<1> QED
  BY <1>2, <1>6

(* One summand changed.                                                    *)
LEMMA SumChanged ==
  ASSUME NEW S, IsFiniteSet(S), NEW g, NEW h, NEW m \in S,
         \A x \in S : g[x] \in Int, h[m] \in Int,
         \A x \in S \ {m} : h[x] = g[x]
  PROVE  SumFunctionOnSet(h, S) = SumFunctionOnSet(g, S) - g[m] + h[m]
<1>1. IsFiniteSet(S \ {m})
  BY FS_RemoveElement
<1>2. SumFunctionOnSet(g, S \ {m}) = SumFunctionOnSet(h, S \ {m})
  BY <1>1, SumAlike
<1>3. SumFunctionOnSet(g, S \ {m}) \in Int
  BY <1>1, SumIsInt
<1>4. SumFunctionOnSet(g, S) = g[m] + SumFunctionOnSet(g, S \ {m})
  BY SumWithout
<1>5. SumFunctionOnSet(h, S) = h[m] + SumFunctionOnSet(h, S \ {m})
  BY SumWithout
<1> QED
  BY <1>2, <1>3, <1>4, <1>5

(* A sum of zeros is zero.                                                  *)
LEMMA SumOfZeros ==
  ASSUME NEW S, IsFiniteSet(S), NEW g, \A x \in S : g[x] = 0
  PROVE  SumFunctionOnSet(g, S) = 0
<1> DEFINE B == {U \in SUBSET S : SumFunctionOnSet(g, U) # 0}
<1> SUFFICES ASSUME B # {} PROVE FALSE
  OBVIOUS
<1>1. PICK U \in B : \A V \in B : V \subseteq U => V = U
  <2>1. B \subseteq SUBSET S
    OBVIOUS
  <2> HIDE DEF B
  <2> QED BY <2>1, MinimalSubset
<1>2. U \in SUBSET S /\ SumFunctionOnSet(g, U) # 0 /\ IsFiniteSet(U)
  BY FS_Subset
<1>3. U # {}
  BY <1>2, SumOfNothing
<1> DEFINE R == U \ {Chosen(U)}
<1>4. Chosen(U) \in U
  BY <1>3, ChosenIn
<1>5. SumFunctionOnSet(g, U) = g[Chosen(U)] + SumFunctionOnSet(g, R)
  BY <1>2, <1>3, SumByChoice
<1>6. SumFunctionOnSet(g, R) = 0
  BY <1>1, <1>2, <1>4
<1> QED
  BY <1>2, <1>4, <1>5, <1>6
(* Finitely many numbers have a largest.                                     *)
LEMMA LargestExists ==
  ASSUME NEW S, IsFiniteSet(S), \A x \in S : x \in Nat, S # {}
  PROVE  \E x \in S : \A y \in S : x >= y
<1> DEFINE B == {U \in SUBSET S : U # {} /\ ~\E x \in U : \A y \in U : x >= y}
<1>1. B = {}
  <2> SUFFICES ASSUME B # {} PROVE FALSE
    OBVIOUS
  <2>1. PICK U \in B : \A V \in B : V \subseteq U => V = U
    <3>1. B \subseteq SUBSET S
      OBVIOUS
    <3> HIDE DEF B
    <3> QED BY <3>1, MinimalSubset
  <2>2. U \subseteq Nat /\ U \in SUBSET S /\ U # {} /\ ~\E x \in U : \A y \in U : x >= y
    OBVIOUS
  <2>3. PICK m \in U : TRUE
    BY <2>2
  <2> DEFINE R == U \ {m}
  <2>4. R # {}
    BY <2>2, <2>3
  <2>5. R \in SUBSET S /\ R \subseteq U /\ R # U
    BY <2>2, <2>3
  <2>6. PICK x \in R : \A y \in R : x >= y
    BY <2>1, <2>4, <2>5
  <2>7. \A y \in U : y = m \/ x >= y
    BY <2>6
  <2>8. x \in Nat /\ m \in Nat /\ x \in U
    BY <2>2, <2>6
  <2>9. CASE x >= m
    BY <2>2, <2>7, <2>8, <2>9
  <2>10. CASE m >= x
    <3>1. \A y \in U : y \in Nat /\ m >= y
      BY <2>2, <2>7, <2>8, <2>10
    <3> QED BY <2>2, <3>1
  <2> QED
    BY <2>8, <2>9, <2>10
<1> QED
  BY <1>1

(* And a smallest.                                                          *)
LEMMA SmallestExists ==
  ASSUME NEW S, IsFiniteSet(S), \A x \in S : x \in Nat, S # {}
  PROVE  \E x \in S : \A y \in S : x <= y
<1>1. PICK m \in S : \A y \in S : m >= y
  BY LargestExists
<1>2. m \in Nat
  BY <1>1
<1> DEFINE T == {m - x : x \in S}
<1>3. IsFiniteSet(T)
  <2>1. [x \in S |-> m - x] \in Surjection(S, T)
    BY DEF Surjection
  <2> HIDE DEF T
  <2> QED BY <2>1, FS_Surjection
<1>4. (\A x \in T : x \in Nat) /\ T # {}
  BY <1>1, <1>2
<1>5. PICK d \in T : \A e \in T : d >= e
  <2> HIDE DEF T
  <2> QED BY <1>3, <1>4, LargestExists
<1>6. PICK x \in S : d = m - x
  BY <1>5
<1>7. \A y \in S : m - x >= m - y
  BY <1>5, <1>6
<1> QED
  BY <1>2, <1>6, <1>7

(* Summands that are no more than in proportion add up to no more than in   *)
(* proportion.                                                              *)
LEMMA SumsInProportion ==
  ASSUME NEW S, IsFiniteSet(S), NEW g, NEW h, NEW a \in Int, NEW b \in Int,
         \A x \in S : g[x] \in Int /\ h[x] \in Int /\ a * g[x] <= b * h[x]
  PROVE  a * SumFunctionOnSet(g, S) <= b * SumFunctionOnSet(h, S)
<1> DEFINE B == {U \in SUBSET S : ~(a * SumFunctionOnSet(g, U) <= b * SumFunctionOnSet(h, U))}
<1> SUFFICES ASSUME B # {} PROVE FALSE
  OBVIOUS
<1>1. PICK U \in B : \A V \in B : V \subseteq U => V = U
  <2>1. B \subseteq SUBSET S
    OBVIOUS
  <2> HIDE DEF B
  <2> QED BY <2>1, MinimalSubset
<1>2. U \in SUBSET S /\ ~(a * SumFunctionOnSet(g, U) <= b * SumFunctionOnSet(h, U)) /\ IsFiniteSet(U)
  BY FS_Subset
<1>3. U # {}
  <2>1. a * 0 <= b * 0
    OBVIOUS
  <2> QED
    BY <1>2, <2>1, SumOfNothing
<1> DEFINE p == Chosen(U)
           R == U \ {Chosen(U)}
<1>4. p \in U
  BY <1>3, ChosenIn
<1>5. /\ SumFunctionOnSet(g, U) = g[p] + SumFunctionOnSet(g, R)
      /\ SumFunctionOnSet(h, U) = h[p] + SumFunctionOnSet(h, R)
  BY <1>2, <1>3, SumByChoice
<1>6. a * SumFunctionOnSet(g, R) <= b * SumFunctionOnSet(h, R)
  BY <1>1, <1>2, <1>4
<1>7. IsFiniteSet(R) /\ R \subseteq S
  BY <1>2, FS_Subset
<1>8. SumFunctionOnSet(g, R) \in Int /\ SumFunctionOnSet(h, R) \in Int
  BY <1>7, SumIsInt
<1>9. g[p] \in Int /\ h[p] \in Int /\ a * g[p] <= b * h[p]
  BY <1>2, <1>4
<1>10. \A u, v, x, y \in Int : a * u <= b * v /\ a * x <= b * y => a * (u + x) <= b * (v + y)
  OBVIOUS
<1> QED
  BY <1>2, <1>5, <1>6, <1>8, <1>9, <1>10

(* Every place in the order of a rank is taken by one member.               *)
LEMMA Places ==
  ASSUME NEW S, IsFiniteSet(S), NEW rank, \A x \in S : rank[x] \in Int
  PROVE  \A x \in S : /\ Cardinality({y \in S : rank[y] < rank[x]}) \in 0 .. Cardinality(S) - 1
                      /\ Cardinality(S) \in Nat
<1> SUFFICES ASSUME NEW x \in S
             PROVE  /\ Cardinality({y \in S : rank[y] < rank[x]}) \in 0 .. Cardinality(S) - 1
                    /\ Cardinality(S) \in Nat
  OBVIOUS
<1>1. PICK B : B = {y \in S : rank[y] < rank[x]}
  OBVIOUS
<1>2. B \in SUBSET S /\ x \notin B
  BY <1>1
<1>3. IsFiniteSet(B) /\ Cardinality(B) <= Cardinality(S) /\ Cardinality(S) # Cardinality(B)
  BY <1>2, FS_Subset
<1>4. Cardinality(B) \in Nat /\ Cardinality(S) \in Nat
  BY <1>3, FS_CardinalityType
<1>5. Cardinality(B) \in 0 .. Cardinality(S) - 1
  BY <1>3, <1>4
<1> QED
  BY <1>1, <1>4, <1>5

LEMMA PlacesAreTaken ==
  ASSUME NEW S, IsFiniteSet(S), NEW rank, \A x \in S : rank[x] \in Int,
         \A x, y \in S : rank[x] = rank[y] => x = y,
         NEW place, place = [x \in S |-> Cardinality({y \in S : rank[y] < rank[x]})]
  PROVE  /\ \A x, y \in S : rank[x] < rank[y] => place[x] < place[y]
         /\ \A x, y \in S : place[x] = place[y] => x = y
         /\ \A n \in 0 .. Cardinality(S) - 1 : \E x \in S : place[x] = n
<1> DEFINE below(x) == {y \in S : rank[y] < rank[x]}
<1>1. PICK N : N = Cardinality(S)
  OBVIOUS
<1>2. N \in Nat
  BY <1>1, FS_CardinalityType
<1>3. \A x \in S : place[x] = Cardinality(below(x)) /\ place[x] \in 0 .. N - 1
  BY <1>1, Places
<1>4. ASSUME NEW x \in S, NEW y \in S, rank[x] < rank[y] PROVE place[x] < place[y]
  <2>1. PICK B, C : B = below(x) /\ C = below(y)
    OBVIOUS
  <2>2. B \in SUBSET C /\ x \in C /\ x \notin B /\ C \in SUBSET S
    BY <1>4, <2>1
  <2>3. IsFiniteSet(C)
    BY <2>2, FS_Subset
  <2>4. Cardinality(B) <= Cardinality(C) /\ Cardinality(C) # Cardinality(B)
    BY <2>2, <2>3, FS_Subset
  <2>5. place[x] = Cardinality(B) /\ place[y] = Cardinality(C)
    BY <1>3, <2>1
  <2>6. place[x] \in Nat /\ place[y] \in Nat
    BY <1>2, <1>3
  <2> QED
    BY <2>4, <2>5, <2>6
<1> HIDE DEF below
<1>5. \A x, y \in S : place[x] = place[y] => x = y
  <2> SUFFICES ASSUME NEW x \in S, NEW y \in S, place[x] = place[y] PROVE x = y
    OBVIOUS
  <2>1. place[x] \in Int /\ ~(rank[x] < rank[y]) /\ ~(rank[y] < rank[x])
    BY <1>2, <1>3, <1>4
  <2>2. rank[x] = rank[y]
    BY <2>1
  <2> QED
    BY <2>2
<1>10. \A x \in S : place[x] \in Int
  BY <1>2, <1>3
<1> DEFINE count == [x \in S |-> place[x] + 1]
<1>6. count \in [S -> 1 .. N]
  BY <1>2, <1>3
<1>7. \A x, y \in S : count[x] = count[y] => x = y
  <2> SUFFICES ASSUME NEW x \in S, NEW y \in S, count[x] = count[y] PROVE x = y
    OBVIOUS
  <2>1. place[x] \in Int /\ place[y] \in Int
    BY <1>10
  <2>2. place[x] = place[y]
    BY <2>1
  <2> QED
    BY <1>5, <2>2
<1>8. count \in Surjection(S, 1 .. N)
  <2>1. PICK c : c = count
    OBVIOUS
  <2>2. c \in Injection(S, 1 .. N)
    <3> HIDE DEF count
    <3> QED BY <1>6, <1>7, <2>1 DEF Injection, IsInjective
  <2>3. IsFiniteSet(1 .. N) /\ Cardinality(1 .. N) = N
    BY <1>2, FS_Interval
  <2>4. Cardinality(S) = Cardinality(1 .. N)
    BY <1>1, <2>3
  <2>5. c \in Surjection(S, 1 .. N)
    BY <2>2, <2>3, <2>4, FS_Injection
  <2> QED
    BY <2>1, <2>5
<1>9. ASSUME NEW n \in 0 .. N - 1 PROVE \E x \in S : place[x] = n
  <2>1. n + 1 \in 1 .. N
    BY <1>2
  <2>2. PICK x \in S : count[x] = n + 1
    <3> HIDE DEF count
    <3> QED BY <1>8, <2>1 DEF Surjection
  <2>3. place[x] \in Int
    BY <1>2, <1>3
  <2> QED
    BY <1>2, <2>2, <2>3
<1> QED
  BY <1>1, <1>4, <1>5, <1>9

(* The members with the lowest ranks, as many as asked for if there are.    *)
Lowest(S, rank, q) == {x \in S : Cardinality({y \in S : rank[y] < rank[x]}) < q}
IsUpTo(L, S, q) ==
  /\ IsFiniteSet(L) /\ Cardinality(L) \in Nat /\ Cardinality(L) <= q
  /\ Cardinality(L) < q => L = S

LEMMA LowestRanks ==
  ASSUME NEW S, IsFiniteSet(S), NEW rank, \A x \in S : rank[x] \in Int,
         \A x, y \in S : rank[x] = rank[y] => x = y, NEW q \in Nat,
         NEW L, L = Lowest(S, rank, q)
  PROVE  IsUpTo(L, S, q)
<1>1. PICK place : place = [x \in S |-> Cardinality({y \in S : rank[y] < rank[x]})]
  OBVIOUS
<1>2. PICK N : N = Cardinality(S)
  OBVIOUS
<1>3. N \in Nat
  BY <1>2, FS_CardinalityType
<1>4. \A x \in S : place[x] \in 0 .. N - 1
  BY <1>1, <1>2, Places
<1>5. /\ \A x, y \in S : place[x] = place[y] => x = y
      /\ \A n \in 0 .. N - 1 : \E x \in S : place[x] = n
  BY <1>1, <1>2, PlacesAreTaken
<1>6. L = {x \in S : place[x] < q}
  BY <1>1 DEF Lowest
<1>7. PICK m : m = (IF q <= N THEN q ELSE N)
  OBVIOUS
<1>8. m \in Nat /\ m <= q /\ m <= N
  BY <1>3, <1>7
<1>9. PICK f : f = [x \in L |-> place[x] + 1]
  OBVIOUS
<1>10. f \in [L -> 1 .. m] /\ \A x, y \in L : f[x] = f[y] => x = y
  <2>1. \A x \in L : x \in S /\ place[x] \in 0 .. N - 1 /\ place[x] < q
    BY <1>4, <1>6
  <2>2. \A x \in L : place[x] + 1 \in 1 .. m /\ place[x] \in Int
    BY <1>3, <1>7, <2>1
  <2>3. f \in [L -> 1 .. m]
    BY <1>9, <2>2
  <2>4. ASSUME NEW x \in L, NEW y \in L, f[x] = f[y] PROVE x = y
    <3>1. place[x] = place[y]
      BY <1>9, <2>2, <2>4
    <3> QED
      BY <1>5, <2>1, <3>1
  <2> QED
    BY <2>3, <2>4
<1>11. f \in Injection(L, 1 .. m)
  BY <1>10 DEF Injection, IsInjective
<1>12. \A n \in 1 .. m : \E x \in L : f[x] = n
  <2> SUFFICES ASSUME NEW n \in 1 .. m PROVE \E x \in L : f[x] = n
    OBVIOUS
  <2>1. n - 1 \in 0 .. N - 1 /\ n - 1 < q
    BY <1>3, <1>8
  <2>2. PICK x \in S : place[x] = n - 1
    BY <1>5, <2>1
  <2>3. x \in L
    BY <1>6, <2>1, <2>2
  <2>4. f[x] = n
    BY <1>8, <1>9, <2>2, <2>3
  <2> QED
    BY <2>3, <2>4
<1>13. f \in Surjection(L, 1 .. m)
  BY <1>10, <1>12 DEF Surjection
<1>14. IsFiniteSet(1 .. m) /\ Cardinality(1 .. m) = m
  BY <1>8, FS_Interval
<1>15. IsFiniteSet(L) /\ Cardinality(L) = m
  BY <1>11, <1>13, <1>14, FS_Injection
<1>16. ASSUME Cardinality(L) < q PROVE L = S
  <2>1. m = N
    BY <1>3, <1>7, <1>15, <1>16
  <2>2. L \in SUBSET S /\ Cardinality(L) = Cardinality(S)
    BY <1>2, <1>6, <1>15, <2>1
  <2> QED
    BY <2>2, FS_Subset
<1> QED
  BY <1>8, <1>15, <1>16 DEF IsUpTo

(* Sorting by rank lists every member once, the lower ranks first.          *)
LEMMA Ranked ==
  ASSUME NEW S, IsFiniteSet(S), NEW rank, \A x \in S : rank[x] \in Int,
         \A x, y \in S : rank[x] = rank[y] => x = y
  PROVE  /\ DOMAIN ByRank(S, rank) = 1 .. Cardinality(S) /\ Cardinality(S) \in Nat
         /\ \A n \in 1 .. Cardinality(S) : ByRank(S, rank)[n] \in S
         /\ \A x \in S : \E n \in 1 .. Cardinality(S) : ByRank(S, rank)[n] = x
         /\ \A m, n \in 1 .. Cardinality(S) :
              m < n => rank[ByRank(S, rank)[m]] < rank[ByRank(S, rank)[n]]
<1> DEFINE below(x) == {y \in S : rank[y] < rank[x]}
<1>1. PICK N, place : N = Cardinality(S) /\ place = [x \in S |-> Cardinality(below(x))]
  OBVIOUS
<1>2. N \in Nat
  BY <1>1, FS_CardinalityType
<1>3. \A x \in S : place[x] = Cardinality(below(x)) /\ place[x] \in 0 .. N - 1
  BY <1>1, Places
<1>4. /\ \A x, y \in S : rank[x] < rank[y] => place[x] < place[y]
      /\ \A x, y \in S : place[x] = place[y] => x = y
      /\ \A n \in 0 .. N - 1 : \E x \in S : place[x] = n
  BY <1>1, PlacesAreTaken
<1>9. PICK s : s = ByRank(S, rank)
  OBVIOUS
<1>10. ASSUME NEW n \in 1 .. N PROVE s[n] \in S /\ place[s[n]] = n - 1
  <2>1. PICK x \in S : place[x] = n - 1
    BY <1>2, <1>4
  <2>2. s[n] = CHOOSE y \in S : Cardinality(below(y)) = n - 1
    BY <1>1, <1>9 DEF ByRank
  <2>3. Cardinality(below(x)) = n - 1
    BY <1>3, <2>1
  <2>4. s[n] \in S /\ Cardinality(below(s[n])) = n - 1
    <3> HIDE DEF below
    <3> QED BY <2>2, <2>3
  <2> QED
    BY <1>3, <2>4
<1>11. DOMAIN s = 1 .. N
  BY <1>1, <1>9 DEF ByRank
<1> HIDE DEF below
<1>12. ASSUME NEW x \in S PROVE \E n \in 1 .. N : s[n] = x
  <2>1. place[x] + 1 \in 1 .. N /\ place[x] \in Int
    BY <1>2, <1>3
  <2>2. s[place[x] + 1] \in S /\ place[s[place[x] + 1]] = place[x]
    BY <1>10, <2>1
  <2> QED
    BY <1>4, <2>1, <2>2
<1>13. ASSUME NEW m \in 1 .. N, NEW n \in 1 .. N, m < n PROVE rank[s[m]] < rank[s[n]]
  <2>1. PICK x \in S, y \in S : x = s[m] /\ y = s[n] /\ place[x] = m - 1 /\ place[y] = n - 1
    BY <1>10
  <2>2. x # y /\ ~(rank[y] < rank[x])
    BY <1>2, <1>4, <1>13, <2>1
  <2>3. rank[x] < rank[y]
    BY <2>2
  <2> QED
    BY <2>1, <2>3
<1> QED
  BY <1>1, <1>2, <1>9, <1>10, <1>11, <1>12, <1>13

(* A subsequence t of s has the elements at the places in I, in their order.*)
Lists(at, N, s, I, t) ==
  /\ N \in Nat /\ at \in [1 .. N -> I]
  /\ \A i \in I : \E k \in 1 .. N : at[k] = i
  /\ \A j, k \in 1 .. N : j < k => at[j] < at[k]
  /\ t = [k \in 1 .. N |-> s[at[k]]]

LEMMA SubsequenceLists ==
  ASSUME NEW s, NEW n \in Nat, NEW I, I \subseteq 1 .. n
  PROVE  \E N, at : Lists(at, N, s, I, Subsequence(s, I))
<1>1. IsFiniteSet(I)
  <2>1. IsFiniteSet(1 .. n) /\ I \in SUBSET (1 .. n)
    BY FS_Interval
  <2> QED
    BY <2>1, FS_Subset
<1>2. PICK rank : rank = [x \in I |-> x]
  OBVIOUS
<1>3. /\ \A x \in I : rank[x] = x /\ rank[x] \in Int
      /\ \A x, y \in I : rank[x] = rank[y] => x = y
  BY <1>2
<1>4. PICK N, at : N = Cardinality(I) /\ at = ByRank(I, rank)
  OBVIOUS
<1>5. /\ DOMAIN at = 1 .. N /\ N \in Nat
      /\ \A k \in 1 .. N : at[k] \in I
      /\ \A i \in I : \E k \in 1 .. N : at[k] = i
      /\ \A j, k \in 1 .. N : j < k => rank[at[j]] < rank[at[k]]
  <2>1. /\ DOMAIN ByRank(I, rank) = 1 .. Cardinality(I) /\ Cardinality(I) \in Nat
        /\ \A k \in 1 .. Cardinality(I) : ByRank(I, rank)[k] \in I
        /\ \A i \in I : \E k \in 1 .. Cardinality(I) : ByRank(I, rank)[k] = i
        /\ \A j, k \in 1 .. Cardinality(I) :
             j < k => rank[ByRank(I, rank)[j]] < rank[ByRank(I, rank)[k]]
    BY <1>1, <1>3, Ranked
  <2> QED
    BY <1>4, <2>1
<1>6. at \in [1 .. N -> I]
  <2>1. at = [k \in 1 .. N |-> at[k]]
    BY <1>4, <1>5 DEF ByRank
  <2> QED
    BY <1>5, <2>1
<1>7. \A j, k \in 1 .. N : j < k => at[j] < at[k]
  BY <1>3, <1>5
<1>8. Subsequence(s, I) = [k \in 1 .. N |-> s[at[k]]]
  <2>1. Ascending(I) = at
    BY <1>2, <1>4 DEF Ascending
  <2> QED
    BY <1>5, <2>1 DEF Subsequence
<1>9. Lists(at, N, s, I, Subsequence(s, I))
  BY <1>5, <1>6, <1>7, <1>8 DEF Lists
<1> QED
  BY <1>9

LEMMA RankedIsList ==
  ASSUME NEW S, NEW rank, NEW Q, Cardinality(S) \in Nat,
         \A n \in 1 .. Cardinality(S) : ByRank(S, rank)[n] \in Q
  PROVE  ByRank(S, rank) \in [1 .. Cardinality(S) -> Q]
<1>1. PICK N, at : N = Cardinality(S) /\ at = ByRank(S, rank)
  OBVIOUS
<1>2. N \in Nat /\ \A n \in 1 .. N : at[n] \in Q
  BY <1>1
<1> DEFINE member(n) == CHOOSE x \in S : Cardinality({y \in S : rank[y] < rank[x]}) = n - 1
<1>3. at = [n \in 1 .. N |-> member(n)]
  BY <1>1 DEF ByRank
<1> HIDE DEF member
<1>4. at \in [1 .. N -> Q]
  BY <1>2, <1>3
<1> QED
  BY <1>1, <1>4
=============================================================================
