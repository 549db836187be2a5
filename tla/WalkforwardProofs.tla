-------------------------- MODULE WalkforwardProofs --------------------------
(***************************************************************************)
(* Proofs about the backtest: that neither SOL nor slots are made or lost, *)
(* that no token is passed over without cause, that the stop is kept, that *)
(* a profit has its label, that models are trained on the past, and that   *)
(* the report says what the folds made.                                    *)
(***************************************************************************)
EXTENDS WalkforwardProps, SetLemmas, SequenceTheorems, TLAPS

-----------------------------------------------------------------------------
(* Frames. *)

OneRowEach(f) == \A i, j \in DOMAIN f : f[i].mint = f[j].mint => i = j
ByTime(f) == \A i, j \in DOMAIN f : i <= j => f[i].time <= f[j].time

(* Part of a frame is a frame.                                              *)
LEMMA PartOfFrame ==
  ASSUME NEW R, NEW f \in Seq(R), OneRowEach(f), ByTime(f),
         NEW I, I \subseteq DOMAIN f, NEW Q, \A i \in I : f[i] \in Q
  PROVE  /\ Subsequence(f, I) \in Seq(Q)
         /\ OneRowEach(Subsequence(f, I)) /\ ByTime(Subsequence(f, I))
         /\ Range(Subsequence(f, I)) = {f[i] : i \in I}
<1>1. PICK n \in Nat : n = Len(f) /\ DOMAIN f = 1 .. n
  OBVIOUS
<1>2. I \subseteq 1 .. n
  BY <1>1
<1>3. PICK N, at : Lists(at, N, f, I, Subsequence(f, I))
  BY <1>2, SubsequenceLists
<1>0. /\ N \in Nat /\ at \in [1 .. N -> I]
      /\ \A i \in I : \E k \in 1 .. N : at[k] = i
      /\ \A j, k \in 1 .. N : j < k => at[j] < at[k]
      /\ Subsequence(f, I) = [k \in 1 .. N |-> f[at[k]]]
  BY <1>3 DEF Lists
<1>4. PICK s : s = Subsequence(f, I) /\ s = [k \in 1 .. N |-> f[at[k]]]
  BY <1>0
<1>5. s \in [1 .. N -> Q]
  BY <1>0, <1>4
<1>6. s \in Seq(Q)
  BY <1>0, <1>5, SeqDef
<1>7. OneRowEach(s)
  <2> SUFFICES ASSUME NEW j \in 1 .. N, NEW k \in 1 .. N, s[j].mint = s[k].mint PROVE j = k
    BY <1>5 DEF OneRowEach
  <2>1. at[j] = at[k]
    BY <1>0, <1>4 DEF OneRowEach
  <2>2. at[j] \in Int
    BY <1>0, <1>1
  <2> QED
    BY <1>0, <2>1, <2>2
<1>8. ByTime(s)
  <2> SUFFICES ASSUME NEW j \in 1 .. N, NEW k \in 1 .. N, j <= k PROVE s[j].time <= s[k].time
    BY <1>5 DEF ByTime
  <2>1. at[j] \in DOMAIN f /\ at[k] \in DOMAIN f
    BY <1>0
  <2>2. at[j] \in Int /\ at[k] \in Int
    BY <1>1, <2>1
  <2>3. at[j] <= at[k]
    <3>1. CASE j = k
      BY <2>2, <3>1
    <3>2. CASE j < k
      <4>1. at[j] < at[k]
        BY <1>0, <3>2
      <4> QED
        BY <2>2, <4>1
    <3> QED
      BY <1>0, <3>1, <3>2
  <2> QED
    BY <1>4, <2>1, <2>3 DEF ByTime
<1>9. Range(s) = {f[i] : i \in I}
  <2>1. DOMAIN s = 1 .. N /\ \A k \in 1 .. N : s[k] = f[at[k]]
    BY <1>4
  <2>2. Range(s) = {s[k] : k \in 1 .. N}
    BY <2>1 DEF Range
  <2>3. \A k \in 1 .. N : at[k] \in I /\ s[k] = f[at[k]]
    BY <1>0, <2>1
  <2>4. \A i \in I : \E k \in 1 .. N : s[k] = f[i]
    BY <1>0, <2>1, Zenon
  <2> HIDE <1>0
  <2>5. {s[k] : k \in 1 .. N} \subseteq {f[i] : i \in I}
    BY <2>3
  <2>6. {f[i] : i \in I} \subseteq {s[k] : k \in 1 .. N}
    BY <2>4
  <2> QED
    BY <2>2, <2>5, <2>6, Zenon
<1> QED
  BY <1>4, <1>6, <1>7, <1>8, <1>9

(* A loaded row: its entry liquidity may be unknown or nothing.             *)
LoadedRow == [mint : STRING, time : Nat, base : Number, quote : Number, launches : Number,
              curve : Number, outcome : Pool, checked : Nat, snaps : [1 .. Days -> Pool]]

(* The place of a row in the order of time decides between equal times.     *)
LEMMA PlaceBreaksTies ==
  ASSUME NEW n \in Nat, NEW t \in Nat, NEW u \in Nat, NEW i \in 1 .. n, NEW j \in 1 .. n,
         n * t + i <= n * u + j
  PROVE  t <= u
<1> SUFFICES ASSUME t > u PROVE FALSE
  OBVIOUS
<1>1. PICK d \in Nat : t = u + 1 + d
  <2>1. t - u - 1 \in Nat /\ t = u + 1 + (t - u - 1)
    OBVIOUS
  <2> QED
    BY <2>1
<1>2. n * t = n * u + n + n * d
  <2>1. \A a, b, c \in Nat : a * (b + 1 + c) = a * b + a + a * c
    OBVIOUS
  <2> QED
    BY <1>1, <2>1
<1>3. n * d \in Nat /\ n * u \in Nat
  <2>1. \A a, b \in Nat : a * b \in Nat
    OBVIOUS
  <2> QED
    BY <1>1, <2>1
<1> QED
  BY <1>2, <1>3

LEMMA DailyType ==
  ASSUME NEW snapshots \in SUBSET Snapshot, NEW mint
  PROVE  DailySnapshots(mint, snapshots) \in [1 .. Days -> Pool]
<1> SUFFICES ASSUME NEW i \in 1 .. Days
             PROVE  DailySnapshots(mint, snapshots)[i] \in Pool
  BY DEF DailySnapshots
<1>1. CASE \E s \in snapshots : s.mint = mint /\ s.index = i
  <2>1. PICK s : s = CHOOSE x \in snapshots : x.mint = mint /\ x.index = i
    OBVIOUS
  <2>2. s \in snapshots
    BY <1>1, <2>1
  <2>3. DailySnapshots(mint, snapshots)[i] = [base |-> s.base, quote |-> s.quote]
    BY <1>1, <2>1 DEF DailySnapshots
  <2> QED
    BY <2>2, <2>3 DEF Snapshot, Pool
<1>2. CASE ~\E s \in snapshots : s.mint = mint /\ s.index = i
  <2>1. DailySnapshots(mint, snapshots)[i] = Unknown
    BY <1>2 DEF DailySnapshots
  <2> QED
    BY <2>1 DEF Unknown, Pool, Number
<1> QED
  BY <1>1, <1>2

(* What is loaded has a row for each graduation, in the order of time.      *)
LEMMA LoadedByTime ==
  ASSUME NEW table \in Seq(Graduation), OneRowEach(table), NEW snapshots \in SUBSET Snapshot
  PROVE  LET f == LoadDataframe(table, snapshots)
         IN f \in Seq(LoadedRow) /\ OneRowEach(f) /\ ByTime(f)
<1>1. PICK n \in Nat : n = Len(table) /\ DOMAIN table = 1 .. n
  OBVIOUS
<1>2. PICK S : S = DOMAIN table
  OBVIOUS
<1>3. PICK rank : rank = [i \in S |-> n * table[i].time + i]
  OBVIOUS
<1>4. \A i \in S : table[i] \in Graduation /\ table[i].time \in Nat /\ i \in 1 .. n
  <2> SUFFICES ASSUME NEW i \in S PROVE table[i] \in Graduation /\ table[i].time \in Nat /\ i \in 1 .. n
    OBVIOUS
  <2>1. table[i] \in Graduation
    BY <1>2
  <2>2. table[i].time \in Nat
    BY <2>1 DEF Graduation
  <2> QED
    BY <1>1, <1>2, <2>1, <2>2
<1>5. \A i \in S : rank[i] \in Int /\ rank[i] = n * table[i].time + i
  <2> SUFFICES ASSUME NEW i \in S PROVE rank[i] \in Int /\ rank[i] = n * table[i].time + i
    OBVIOUS
  <2>1. \A a, b \in Nat : \A c \in Int : a * b + c \in Int
    OBVIOUS
  <2>2. i \in Int /\ table[i].time \in Nat
    BY <1>4
  <2>3. n * table[i].time + i \in Int
    BY <2>1, <2>2
  <2> QED
    BY <1>3, <2>3
<1>6. \A i, j \in S : rank[i] <= rank[j] => table[i].time <= table[j].time
  <2> SUFFICES ASSUME NEW i \in S, NEW j \in S, rank[i] <= rank[j]
               PROVE  table[i].time <= table[j].time
    OBVIOUS
  <2>1. PICK t \in Nat, u \in Nat : t = table[i].time /\ u = table[j].time
    BY <1>4
  <2>2. n * t + i <= n * u + j /\ i \in 1 .. n /\ j \in 1 .. n
    BY <1>4, <1>5, <2>1
  <2>3. t <= u
    BY <2>2, PlaceBreaksTies
  <2> QED
    BY <2>1, <2>3
<1>7. \A i, j \in S : rank[i] = rank[j] => i = j
  <2> SUFFICES ASSUME NEW i \in S, NEW j \in S, rank[i] = rank[j] PROVE i = j
    OBVIOUS
  <2>1. rank[i] <= rank[j] /\ rank[j] <= rank[i]
    BY <1>5
  <2>2. table[i].time <= table[j].time /\ table[j].time <= table[i].time
    BY <1>6, <2>1
  <2>3. table[i].time = table[j].time
    BY <1>4, <2>2
  <2>4. n * table[i].time + i = n * table[i].time + j
    BY <1>5, <2>3
  <2>5. n * table[i].time \in Nat
    <3>1. \A a, b \in Nat : a * b \in Nat
      OBVIOUS
    <3> QED
      BY <1>1, <1>4, <3>1
  <2> QED
    BY <1>4, <2>4, <2>5
<1>8. IsFiniteSet(S)
  BY <1>1, <1>2, FS_Interval
<1>9. Cardinality(S) = n
  <2>1. Cardinality(1 .. n) = IF 1 > n THEN 0 ELSE n - 1 + 1
    BY FS_Interval
  <2> QED
    BY <1>1, <1>2, <2>1, n = 0 \/ n >= 1
<1>10. PICK order : order = ByRank(S, rank)
  OBVIOUS
<1>11. /\ \A k \in 1 .. n : order[k] \in S
       /\ \A j, k \in 1 .. n : j < k => rank[order[j]] < rank[order[k]]
  <2>1. /\ \A k \in 1 .. Cardinality(S) : ByRank(S, rank)[k] \in S
        /\ \A j, k \in 1 .. Cardinality(S) :
             j < k => rank[ByRank(S, rank)[j]] < rank[ByRank(S, rank)[k]]
    BY <1>5, <1>7, <1>8, Ranked
  <2> QED
    BY <1>9, <1>10, <2>1
<1> DEFINE row(g) == [mint |-> g.mint, time |-> g.time, base |-> g.base, quote |-> g.quote,
                      launches |-> g.launches, curve |-> g.curve, outcome |-> g.outcome,
                      checked |-> g.checked, snaps |-> DailySnapshots(g.mint, snapshots)]
<1>12. PICK f : f = LoadDataframe(table, snapshots)
  OBVIOUS
<1>13. f = [k \in 1 .. n |-> row(table[order[k]])]
  <2>1. order = ByRank(DOMAIN table, [i \in DOMAIN table |-> Len(table) * table[i].time + i])
    BY <1>1, <1>2, <1>3, <1>10
  <2>2. f = [k \in DOMAIN table |-> row(table[order[k]])]
    BY <1>12, <2>1 DEF LoadDataframe
  <2> QED
    BY <1>1, <2>2
<1>14. \A k \in 1 .. n : f[k] \in LoadedRow /\ f[k].mint = table[order[k]].mint
                          /\ f[k].time = table[order[k]].time
  <2> SUFFICES ASSUME NEW k \in 1 .. n
               PROVE  f[k] \in LoadedRow /\ f[k].mint = table[order[k]].mint
                        /\ f[k].time = table[order[k]].time
    OBVIOUS
  <2>1. PICK g : g = table[order[k]]
    OBVIOUS
  <2>2. g \in Graduation
    BY <1>4, <1>11, <2>1
  <2>3. f[k] = row(g)
    BY <1>13, <2>1
  <2>4. DailySnapshots(g.mint, snapshots) \in [1 .. Days -> Pool]
    BY DailyType
  <2>5. row(g) \in LoadedRow
    BY <2>2, <2>4 DEF Graduation, LoadedRow
  <2> QED
    BY <2>1, <2>3, <2>5
<1>15. f \in [1 .. n -> LoadedRow]
  BY <1>13, <1>14
<1>16. f \in Seq(LoadedRow)
  BY <1>15, SeqDef
<1>17. OneRowEach(f)
  <2> SUFFICES ASSUME NEW j \in 1 .. n, NEW k \in 1 .. n, f[j].mint = f[k].mint PROVE j = k
    BY <1>15 DEF OneRowEach
  <2>1. order[j] = order[k]
    BY <1>2, <1>11, <1>14 DEF OneRowEach
  <2>2. rank[order[j]] \in Int
    BY <1>5, <1>11
  <2> QED
    BY <1>11, <2>1, <2>2
<1>18. ByTime(f)
  <2> SUFFICES ASSUME NEW j \in 1 .. n, NEW k \in 1 .. n, j <= k PROVE f[j].time <= f[k].time
    BY <1>15 DEF ByTime
  <2>1. rank[order[j]] <= rank[order[k]]
    <3>1. rank[order[j]] \in Int /\ rank[order[k]] \in Int
      BY <1>5, <1>11
    <3> QED
      BY <1>11, <3>1
  <2> QED
    BY <1>6, <1>11, <1>14, <2>1
<1> QED
  BY <1>12, <1>16, <1>17, <1>18

(* The frame that is kept is one.                                           *)
LEMMA FrameIsLoaded ==
  ASSUME NEW table \in Seq(Graduation), OneRowEach(table), NEW snapshots \in SUBSET Snapshot
  PROVE  IsFrame(FilterGarbage(LoadDataframe(table, snapshots)))
<1>1. PICK f : f = LoadDataframe(table, snapshots)
  OBVIOUS
<1>2. f \in Seq(LoadedRow) /\ OneRowEach(f) /\ ByTime(f)
  BY <1>1, LoadedByTime
<1>3. PICK I : I = {i \in DOMAIN f : Kept(f[i])}
  OBVIOUS
<1>4. I \subseteq DOMAIN f
  BY <1>3
<1>5. \A i \in I : f[i] \in FrameRow
  <2> SUFFICES ASSUME NEW i \in I PROVE f[i] \in FrameRow
    OBVIOUS
  <2>1. f[i] \in LoadedRow
    BY <1>2, <1>4
  <2>2. f[i].quote \in Nat \ {0}
    BY <1>3, <2>1, GraduationsAssumption DEF Kept, LoadedRow, Number, NaN
  <2> QED
    BY <2>1, <2>2 DEF LoadedRow, FrameRow
<1>6. /\ Subsequence(f, I) \in Seq(FrameRow)
      /\ OneRowEach(Subsequence(f, I)) /\ ByTime(Subsequence(f, I))
  BY <1>2, <1>4, <1>5, PartOfFrame
<1>7. FilterGarbage(f) = Subsequence(f, I)
  BY <1>3 DEF FilterGarbage
<1> QED
  BY <1>1, <1>6, <1>7 DEF IsFrame, OneRowEach, ByTime

(* The rows of the months before one, and those of the month.               *)
LEMMA FoldsAreFrames ==
  ASSUME NEW f, IsFrame(f), NEW m
  PROVE  /\ IsFrame(TrainRows(f, m)) /\ IsFrame(TestRows(f, m))
         /\ Range(TrainRows(f, m)) = {r \in Range(f) : MonthOf(r.time) < m}
         /\ Range(TestRows(f, m)) = {r \in Range(f) : MonthOf(r.time) = m}
<1>1. f \in Seq(FrameRow) /\ OneRowEach(f) /\ ByTime(f)
  BY DEF IsFrame, OneRowEach, ByTime
<1>2. ASSUME NEW I, I \subseteq DOMAIN f
      PROVE  /\ IsFrame(Subsequence(f, I))
             /\ Range(Subsequence(f, I)) = {f[i] : i \in I}
  <2>1. \A i \in I : f[i] \in FrameRow
    BY <1>1, <1>2
  <2>2. /\ Subsequence(f, I) \in Seq(FrameRow)
        /\ OneRowEach(Subsequence(f, I)) /\ ByTime(Subsequence(f, I))
        /\ Range(Subsequence(f, I)) = {f[i] : i \in I}
    BY <1>1, <1>2, <2>1, PartOfFrame
  <2> QED
    BY <2>2 DEF IsFrame, OneRowEach, ByTime
<1>3. PICK I : I = {i \in DOMAIN f : MonthOf(f[i].time) < m}
  OBVIOUS
<1>4. PICK J : J = {i \in DOMAIN f : MonthOf(f[i].time) = m}
  OBVIOUS
<1>5. IsFrame(TrainRows(f, m)) /\ Range(TrainRows(f, m)) = {f[i] : i \in I}
  BY <1>2, <1>3 DEF TrainRows
<1>6. IsFrame(TestRows(f, m)) /\ Range(TestRows(f, m)) = {f[i] : i \in J}
  BY <1>2, <1>4 DEF TestRows
<1>7. /\ {f[i] : i \in I} = {r \in Range(f) : MonthOf(r.time) < m}
      /\ {f[i] : i \in J} = {r \in Range(f) : MonthOf(r.time) = m}
  BY <1>3, <1>4 DEF Range
<1> QED
  BY <1>5, <1>6, <1>7

LEMMA FrameType ==
  ASSUME NEW f, IsFrame(f)
  PROVE  /\ f \in Seq(FrameRow) /\ \A r \in Range(f) : r \in FrameRow
         /\ \A r, q \in Range(f) : r.mint = q.mint => r = q
<1>1. f \in Seq(FrameRow) /\ \A i, j \in DOMAIN f : f[i].mint = f[j].mint => i = j
  BY DEF IsFrame
<1>2. \A i \in DOMAIN f : f[i] \in FrameRow
  BY <1>1
<1> QED
  BY <1>1, <1>2 DEF Range

LEMMA MonthIsNumber ==
  ASSUME NEW time \in Nat
  PROVE  /\ MonthOf(time) \in Nat /\ Month \in Nat \ {0}
         /\ time \in MonthOf(time) * Month .. MonthOf(time) * Month + Month - 1
         /\ \A m \in Nat : MonthOf(time) < m => time < m * Month
<1>1. Month \in Nat \ {0}
  BY GraduationsAssumption
<1>2. \A t \in Nat, d \in Nat \ {0} :
        t \div d \in Nat /\ t \in (t \div d) * d .. (t \div d) * d + d - 1
  OBVIOUS
<1>3. MonthOf(time) \in Nat /\ time \in MonthOf(time) * Month .. MonthOf(time) * Month + Month - 1
  BY <1>1, <1>2 DEF MonthOf
<1>4. ASSUME NEW m \in Nat, MonthOf(time) < m PROVE time < m * Month
  <2>1. PICK q \in Nat : q = MonthOf(time)
    BY <1>3
  <2>2. \A a, b \in Nat, d \in Nat \ {0} : a < b => a * d + d <= b * d
    <3>1. SUFFICES ASSUME NEW a \in Nat, NEW b \in Nat, NEW d \in Nat \ {0}, a < b
                   PROVE  a * d + d <= b * d
      OBVIOUS
    <3>2. PICK c \in Nat : b = a + 1 + c
      <4>1. b - a - 1 \in Nat /\ b = a + 1 + (b - a - 1)
        BY <3>1
      <4> QED
        BY <4>1
    <3>3. b * d = a * d + d + c * d
      BY <3>2
    <3>4. c * d \in Nat /\ a * d \in Nat
      BY <3>2
    <3> QED
      BY <3>3, <3>4
  <2>3. q * Month + Month <= m * Month
    BY <1>1, <1>4, <2>1, <2>2
  <2>4. q * Month \in Nat /\ m * Month \in Nat
    BY <1>1
  <2> QED
    BY <1>1, <1>3, <2>1, <2>3, <2>4
<1> QED
  BY <1>1, <1>3, <1>4

LEMMA TestMonthsType ==
  ASSUME NEW f, IsFrame(f)
  PROVE  TestMonths(f) \in Seq(Nat)
<1>1. \A r \in Range(f) : r.time \in Nat
  BY FrameType DEF FrameRow
<1>2. Months(f) \subseteq Nat
  BY <1>1, MonthIsNumber DEF Months
<1>3. IsFiniteSet(Months(f))
  <2>1. PICK n \in Nat : n = Len(f) /\ DOMAIN f = 1 .. n
    <3>1. f \in Seq(FrameRow)
      BY FrameType
    <3> QED
      BY <3>1
  <2>2. IsFiniteSet(1 .. n)
    BY FS_Interval
  <2>3. [i \in 1 .. n |-> MonthOf(f[i].time)] \in Surjection(1 .. n, Months(f))
    BY <2>1 DEF Surjection, Months, Range
  <2> QED
    BY <2>2, <2>3, FS_Surjection
<1>4. PICK T : T = {m \in Months(f) : Cardinality({k \in Months(f) : k < m}) >= 2}
  OBVIOUS
<1>5. T \subseteq Nat /\ T \in SUBSET Months(f)
  BY <1>2, <1>4
<1>6. IsFiniteSet(T)
  BY <1>3, <1>5, FS_Subset
<1>7. PICK rank : rank = [x \in T |-> x]
  OBVIOUS
<1>8. /\ \A x \in T : rank[x] \in Int
      /\ \A x, y \in T : rank[x] = rank[y] => x = y
  BY <1>5, <1>7
<1>9. PICK s, N : s = ByRank(T, rank) /\ N = Cardinality(T)
  OBVIOUS
<1>10. N \in Nat /\ \A n \in 1 .. Cardinality(T) : ByRank(T, rank)[n] \in Nat
  <2>1. /\ Cardinality(T) \in Nat
        /\ \A n \in 1 .. Cardinality(T) : ByRank(T, rank)[n] \in T
    BY <1>6, <1>8, Ranked
  <2> QED
    BY <1>5, <1>9, <2>1
<1>11. ByRank(T, rank) \in [1 .. Cardinality(T) -> Nat]
  BY <1>9, <1>10, RankedIsList
<1>12. s \in Seq(Nat)
  <2>1. s \in [1 .. N -> Nat]
    BY <1>9, <1>11
  <2> QED
    BY <1>10, <2>1, SeqDef
<1>13. s = TestMonths(f)
  BY <1>4, <1>7, <1>9 DEF TestMonths, Ascending
<1> QED
  BY <1>12, <1>13

LEMMA FoldMints ==
  ASSUME NEW f, IsFrame(f), NEW m
  PROVE  Mints(TestRows(f, m)) \subseteq Mints(f)
BY FoldsAreFrames DEF Mints

LEMMA WorldIsTable ==
  Folding => /\ tables.graduations \in Seq(Graduation) /\ OneRowEach(tables.graduations)
             /\ tables.snapshots \in SUBSET Snapshot
BY WalkforwardAssumption DEF Folding, OneRowEach

-----------------------------------------------------------------------------
(* The folds.                                                               *)

LEMMA ArmsType == Arms \in Seq(Range(Arms)) /\ Range(Arms) # {}
<1>1. Range(Arms) = {Arms[i] : i \in 1 .. 5}
  BY DEF Range, Arms
<1>2. \A i \in 1 .. 5 : Arms[i] \in Range(Arms)
  BY <1>1
<1>3. Arms = [i \in 1 .. 5 |-> Arms[i]]
  BY DEF Arms
<1>4. Arms \in [1 .. 5 -> Range(Arms)]
  BY <1>2, <1>3
<1>5. Arms \in Seq(Range(Arms))
  BY <1>4, SeqDef
<1>6. Arms[1] \in Range(Arms)
  BY <1>2
<1> QED
  BY <1>5, <1>6

LEMMA FoldingStarts == Init => Folding /\ BacktestInv
<1> SUFFICES ASSUME Init PROVE Folding /\ BacktestInv
  OBVIOUS
<1>1. pc = "load" /\ tables \in UNION Range(World) /\ basket = {} /\ frame = << >> /\ months = << >>
  BY DEF Init
<1>2. IsFrame(frame)
  BY <1>1 DEF IsFrame
<1>3. arms \in Seq(Range(Arms))
  BY DEF Init
<1>4. results \in [Range(Arms) -> Seq([month : Nat, curve : Seq(Int) \ {<< >>}])]
  BY DEF Init
<1>5. /\ rows = << >> /\ stop = FALSE /\ pending = {} /\ bankroll = Bankroll /\ free = SlotCount
      /\ open = << >> /\ positions = << >>
  BY DEF Init, Idle
<1>6. DOMAIN open = {} /\ DOMAIN positions = {} /\ DOMAIN rows = {}
  BY <1>5
<1>7. IsFrame(rows) /\ Scheduled /\ Chronological
  <2>1. IsFrame(rows)
    BY <1>5 DEF IsFrame
  <2>2. Range(rows) = {}
    BY <1>6 DEF Range
  <2>3. Scheduled
    BY <1>5, <1>6, <2>2 DEF Scheduled
  <2> QED
    BY <1>5, <2>1, <2>3 DEF Chronological
<1>8. Balanced
  <2>1. \A g : SumFunctionOnSet(g, {}) = 0
    BY SumOfNothing
  <2>2. SumFunction([m \in DOMAIN open |-> open[m].sol]) = 0 /\ Gained = 0
    BY <1>6, <2>1 DEF SumFunction, Gained
  <2>3. Bankroll \in Nat /\ SlotCount \in Nat
    BY BacktestAssumption
  <2>4. Equity(bankroll, open) = Bankroll + Gained
    BY <1>5, <2>2 DEF Equity
  <2>5. IsFiniteSet(DOMAIN open) /\ Cardinality(DOMAIN open) = 0
    BY <1>6, FS_EmptySet
  <2>6. positions \in Seq(Position)
    BY <1>5
  <2>7. open = [m \in DOMAIN open |-> open[m]]
    BY <1>5
  <2> QED
    BY <1>5, <2>3, <2>4, <2>5, <2>6, <2>7 DEF Balanced
<1> QED
  BY <1>1, <1>2, <1>3, <1>4, <1>7, <1>8 DEF Folding, BacktestInv, Walking

LEMMA LoadFolds == Folding /\ Load => Folding'
<1> SUFFICES ASSUME Folding, Load PROVE Folding'
  OBVIOUS
<1>1. /\ pc = "load" /\ pc' = "folds" /\ months' = TestMonths(frame') /\ tables' = tables
      /\ frame' = FilterGarbage(LoadDataframe(tables.graduations, tables.snapshots))
      /\ basket' = basket /\ arms' = arms /\ results' = results
  BY DEF Load
<1>2. PICK f : f = FilterGarbage(LoadDataframe(tables.graduations, tables.snapshots))
  OBVIOUS
<1>3. PICK t, s : t = tables.graduations /\ s = tables.snapshots
  OBVIOUS
<1>4. t \in Seq(Graduation) /\ OneRowEach(t) /\ s \in SUBSET Snapshot
  BY <1>3, WorldIsTable
<1>5. IsFrame(FilterGarbage(LoadDataframe(t, s)))
  BY <1>4, FrameIsLoaded
<1>6. IsFrame(f)
  BY <1>2, <1>3, <1>5
<1>7. TestMonths(f) \in Seq(Nat)
  BY <1>6, TestMonthsType
<1>8. IsFrame(frame') /\ months' \in Seq(Nat)
  BY <1>1, <1>2, <1>6, <1>7
<1>9. basket' = {}
  BY <1>1 DEF Folding
<1> QED
  BY <1>1, <1>8, <1>9 DEF Folding, Walking

LEMMA SkipFoldFolds == Folding /\ SkipFold => Folding'
<1> SUFFICES ASSUME Folding, SkipFold PROVE Folding'
  OBVIOUS
<1>1. months' \in Seq(Nat)
  BY DEF Folding, SkipFold
<1> QED
  BY <1>1 DEF Folding, SkipFold, Walking

LEMMA TrainFolds == Folding /\ Train => Folding'
<1> SUFFICES ASSUME Folding, Train PROVE Folding'
  OBVIOUS
<1>1. /\ pc = "folds" /\ pc' = "arms" /\ tables' = tables /\ frame' = frame /\ months' = months
      /\ arms' = Arms /\ results' = results /\ months # << >>
      /\ model' = Split(TrainRows(frame, Head(months)))
  BY DEF Train
<1>2. ~TooThin(Head(months)) /\ ~TooThin(Head(months))'
  BY <1>1 DEF Train, TooThin
<1>3. basket' \subseteq Mints(TestRows(frame, Head(months)))
  BY DEF Train
<1>4. IsFrame(frame)
  BY DEF Folding
<1>5. basket' \subseteq Mints(frame)
  BY <1>3, <1>4, FoldMints
<1>6. arms' \in Seq(Range(Arms))
  BY <1>1, ArmsType
<1> QED
  BY <1>1, <1>2, <1>3, <1>5, <1>6 DEF Folding, Walking

LEMMA StartArmFolds == Folding /\ (\E b \in SUBSET Mints(frame) : StartArm(b)) => Folding'
<1> SUFFICES ASSUME Folding, NEW b \in SUBSET Mints(frame), StartArm(b) PROVE Folding'
  OBVIOUS
<1>1. /\ pc = "arms" /\ pc' = "backtest" /\ arms # << >> /\ rows' = TestRows(frame, Head(months))
      /\ UNCHANGED <<tables, frame, months, model, basket, arms, results>>
  BY DEF StartArm, Begin
<1>2. ~TooThin(Head(months))'
  BY <1>1 DEF Folding, TooThin
<1> QED
  BY <1>1, <1>2 DEF Folding, Walking

LEMMA WalkFolds == Folding /\ Walk => Folding'
<1> SUFFICES ASSUME Folding, Walk PROVE Folding'
  OBVIOUS
<1>1. pc = "backtest" /\ UNCHANGED <<tables, frame, months, model, basket, arms, results, pc>>
  BY DEF Walk
<1>2. rows' = rows
  BY DEF Walk, Enter, Skip, Close, Miss
<1>3. ~TooThin(Head(months))'
  BY <1>1 DEF Folding, TooThin
<1> QED
  BY <1>1, <1>2, <1>3 DEF Folding, Walking

LEMMA FinishArmFolds == Folding /\ BacktestInv /\ FinishArm => Folding'
<1> SUFFICES ASSUME Folding, BacktestInv, FinishArm PROVE Folding'
  OBVIOUS
<1>1. /\ pc = "backtest" /\ pc' = "arms" /\ arms' = Tail(arms)
      /\ UNCHANGED <<tables, frame, months, model, basket>>
      /\ results' = [results EXCEPT ![Head(arms)]
                       = Append(@, [month |-> Head(months), curve |-> curve])]
  BY DEF FinishArm
<1>2. /\ arms \in Seq(Range(Arms)) /\ arms # << >> /\ months \in Seq(Nat) /\ months # << >>
      /\ results \in [Range(Arms) -> Seq([month : Nat, curve : Seq(Int) \ {<< >>}])]
  BY <1>1 DEF Folding, Walking
<1>3. curve \in Seq(Int) \ {<< >>}
  BY <1>1 DEF BacktestInv, Drawn, Walking
<1>4. Head(arms) \in Range(Arms) /\ Tail(arms) \in Seq(Range(Arms)) /\ Head(months) \in Nat
  BY <1>2
<1>5. [month |-> Head(months), curve |-> curve] \in [month : Nat, curve : Seq(Int) \ {<< >>}]
  BY <1>3, <1>4
<1>6. PICK R : R = [month : Nat, curve : Seq(Int) \ {<< >>}]
  OBVIOUS
<1>7. results' \in [Range(Arms) -> Seq(R)]
  <2>1. results \in [Range(Arms) -> Seq(R)]
    BY <1>2, <1>6
  <2>2. PICK x \in R : x = [month |-> Head(months), curve |-> curve]
    BY <1>5, <1>6
  <2>3. Append(results[Head(arms)], x) \in Seq(R)
    BY <1>4, <2>1
  <2> QED
    BY <1>1, <2>1, <2>2, <2>3
<1>8. ~TooThin(Head(months))'
  BY <1>1 DEF Folding, TooThin
<1> QED
  BY <1>1, <1>4, <1>6, <1>7, <1>8 DEF Folding, Walking

LEMMA EndFoldFolds == Folding /\ EndFold => Folding'
<1> SUFFICES ASSUME Folding, EndFold PROVE Folding'
  OBVIOUS
<1>1. months' \in Seq(Nat)
  BY DEF Folding, EndFold
<1> QED
  BY <1>1 DEF Folding, EndFold, Walking

LEMMA ReportFolds == Folding /\ WriteReport => Folding'
BY DEF Folding, WriteReport, Walking

LEMMA StutterFolds == Folding /\ UNCHANGED vars => Folding'
BY DEF Folding, vars, backtestVars, Walking, TooThin

(* The folds go on as Folding says, whatever the step.                      *)
LEMMA FoldingHolds == Folding /\ BacktestInv /\ [Next]_vars => Folding'
BY LoadFolds, SkipFoldFolds, TrainFolds, StartArmFolds, WalkFolds, FinishArmFolds, EndFoldFolds,
   ReportFolds, StutterFolds DEF Next

-----------------------------------------------------------------------------
(* One backtest: its rows, their events and their fills.                    *)

LEMMA FillType ==
  ASSUME NEW x \in Int, NEW into \in Int, NEW out \in Int
  PROVE  Swapped(x, into, out) \in Nat
<1>1. CASE x <= 0 \/ into <= 0 \/ out <= 0
  BY <1>1 DEF Swapped
<1>2. CASE x > 0 /\ into > 0 /\ out > 0
  <2>1. PICK k \in Nat \ {0} : k = 100 - FeePct
    BY FeeAssumption
  <2>2. \A a, b, c \in Nat \ {0} : a * b * c \in Nat /\ 100 * a + b * c \in Nat \ {0}
    <3>1. \A a, b \in Nat \ {0} : a * b \in Nat \ {0}
      OBVIOUS
    <3>2. \A b, c, y \in Nat \ {0} : y = b * c => \A a \in Nat \ {0} : 100 * a + y \in Nat \ {0}
      OBVIOUS
    <3>3. \A a, b, c \in Nat \ {0} : a * b * c \in Nat
      <4> SUFFICES ASSUME NEW a \in Nat \ {0}, NEW b \in Nat \ {0}, NEW c \in Nat \ {0}
                   PROVE  a * b * c \in Nat
        OBVIOUS
      <4>1. PICK y \in Nat \ {0} : y = a * b
        BY <3>1
      <4> QED
        BY <3>1, <4>1
    <3> QED
      BY <3>1, <3>2, <3>3
  <2>3. \A n \in Nat, d \in Nat \ {0} : n \div d \in Nat
    OBVIOUS
  <2>4. out * x * k \in Nat /\ 100 * into + x * k \in Nat \ {0}
    BY <1>2, <2>1, <2>2
  <2>5. Swapped(x, into, out) = (out * x * k) \div (100 * into + x * k)
    BY <1>2, <2>1 DEF Swapped
  <2> QED
    BY <2>3, <2>4, <2>5
<1> QED
  BY <1>1, <1>2

LEMMA FirstStop ==
  ASSUME NEW r, Stops(r) # {}
  PROVE  Min(Stops(r)) \in Stops(r) /\ \A i \in Stops(r) : Min(Stops(r)) <= i
<1>1. Stops(r) \subseteq 1 .. Days /\ Days \in Nat
  BY GraduationsAssumption DEF Stops
<1>2. IsFiniteSet(1 .. Days) /\ Stops(r) \in SUBSET (1 .. Days)
  BY <1>1, FS_Interval
<1>3. IsFiniteSet(Stops(r))
  BY <1>2, FS_Subset
<1>4. \A i \in Stops(r) : i \in Nat
  BY <1>1
<1>5. \E x \in Stops(r) : \A y \in Stops(r) : x <= y
  BY <1>3, <1>4, SmallestExists
<1> QED
  BY <1>5 DEF Min

LEMMA ExitType ==
  ASSUME NEW r \in FrameRow, NEW s \in BOOLEAN
  PROVE  /\ EntryTime(r) \in Nat /\ ExitTime(r, s) \in Nat /\ EntryTime(r) < ExitTime(r, s)
         /\ ExitEvent(r, s).time \in Nat /\ ExitEvent(r, s).base \in Int
         /\ ExitEvent(r, s).quote \in Int
<1>1. r.time \in Nat /\ r.checked \in Nat /\ r.outcome \in Pool /\ r.snaps \in [1 .. Days -> Pool]
  BY DEF FrameRow
<1>2. EntryTime(r) \in Nat
  BY <1>1, BacktestAssumption, GraduationsAssumption DEF EntryTime
<1>3. /\ ExitEvent(r, s).time \in Nat /\ ExitEvent(r, s).base \in Int
      /\ ExitEvent(r, s).quote \in Int
  <2>1. CASE s /\ Stops(r) # {}
    <3>1. PICK i : i = Min(Stops(r))
      OBVIOUS
    <3>2. i \in 1 .. Days
      BY <2>1, <3>1, FirstStop DEF Stops
    <3>3. r.snaps[i] \in Pool
      BY <1>1, <3>2
    <3>4. ExitEvent(r, s) = [time |-> r.time + i * Day, base |-> r.snaps[i].base,
                             quote |-> r.snaps[i].quote]
      BY <2>1, <3>1 DEF ExitEvent
    <3>5. i * Day \in Nat
      <4>1. \A a, b \in Nat : a * b \in Nat
        OBVIOUS
      <4>2. i \in Nat /\ Day \in Nat
        BY <3>2, GraduationsAssumption
      <4> QED
        BY <4>1, <4>2
    <3>6. r.snaps[i].base \in Int /\ r.snaps[i].quote \in Int
      BY <3>3 DEF Pool, Number, NaN
    <3> QED
      BY <1>1, <3>4, <3>5, <3>6
  <2>2. CASE ~(s /\ Stops(r) # {})
    <3>1. ExitEvent(r, s) = [time |-> r.checked, base |-> r.outcome.base,
                             quote |-> r.outcome.quote]
      BY <2>2 DEF ExitEvent
    <3>2. r.outcome.base \in Int /\ r.outcome.quote \in Int
      BY <1>1 DEF Pool, Number, NaN
    <3> QED
      BY <1>1, <3>1, <3>2
  <2> QED
    BY <2>1, <2>2
<1>4. ExitTime(r, s) \in Nat /\ EntryTime(r) < ExitTime(r, s)
  BY <1>2, <1>3 DEF ExitTime
<1> QED
  BY <1>2, <1>3, <1>4

LEMMA RowOf ==
  ASSUME NEW f, IsFrame(f), NEW r \in Range(f)
  PROVE  Row(f, r.mint) = r
<1>1. \A q \in Range(f) : q.mint = r.mint => q = r
  BY FrameType
<1> QED
  BY <1>1 DEF Row

(* The events of a frame: a token enters once, leaves once, and later.      *)
LEMMA EventFacts ==
  ASSUME IsFrame(rows), stop \in BOOLEAN
  PROVE  /\ \A r \in Range(rows) :
              /\ EntryOf(r).time = EntryTime(r) /\ ExitOf(r).time = ExitTime(r, stop)
              /\ EntryTime(r) \in Nat /\ ExitTime(r, stop) \in Nat
              /\ EntryTime(r) < ExitTime(r, stop)
              /\ EntryOf(r).kind = 1 /\ ExitOf(r).kind = 0
              /\ EntryOf(r).mint = r.mint /\ ExitOf(r).mint = r.mint
              /\ Row(rows, r.mint) = r
         /\ \A r, q \in Range(rows) :
              r.mint = q.mint => r = q
<1>1. \A r \in Range(rows) : r \in FrameRow
  BY FrameType
<1>2. \A r \in Range(rows) :
        EntryTime(r) \in Nat /\ ExitTime(r, stop) \in Nat /\ EntryTime(r) < ExitTime(r, stop)
  BY <1>1, ExitType
<1>3. \A r \in Range(rows) : Row(rows, r.mint) = r
  BY RowOf
<1>4. \A r, q \in Range(rows) : r.mint = q.mint => r = q
  BY FrameType
<1> QED
  BY <1>2, <1>3, <1>4 DEF EntryOf, ExitOf

(* What a step does not touch.                                              *)
LEMMA StillTheSame ==
  ASSUME rows' = rows, stop' = stop
  PROVE  /\ \A r : EntryOf(r)' = EntryOf(r) /\ ExitOf(r)' = ExitOf(r)
         /\ \A r : ExitTime(r, stop)' = ExitTime(r, stop) /\ EntryTime(r)' = EntryTime(r)
         /\ \A r : ExitEvent(r, stop)' = ExitEvent(r, stop)
BY DEF EntryOf, ExitOf, ExitTime, ExitEvent, EntryTime

LEMMA Underway ==
  ASSUME Folding, BacktestInv, Walking
  PROVE  /\ Scheduled /\ Chronological /\ Balanced /\ Drawn /\ SkippedForCause
         /\ IsFrame(rows) /\ rows = TestRows(frame, Head(months)) /\ stop \in BOOLEAN
         /\ arms \in Seq(Range(Arms)) /\ arms # << >>
<1>1. Scheduled /\ Chronological /\ Balanced /\ Drawn /\ SkippedForCause /\ IsFrame(rows)
  BY DEF BacktestInv
<1>2. rows = TestRows(frame, Head(months))
  BY DEF Folding
<1> QED
  BY <1>1, <1>2 DEF Scheduled, Folding

(* A backtest begins with nothing done and everything to come.              *)
LEMMA BacktestBegins ==
  Folding /\ (\E b \in SUBSET Mints(frame) : StartArm(b)) => BacktestInv'
<1> SUFFICES ASSUME Folding, NEW b, StartArm(b)
             PROVE  /\ IsFrame(rows)' /\ Scheduled' /\ Chronological' /\ Balanced'
                    /\ Drawn' /\ SkippedForCause'
  BY DEF BacktestInv
<1>1. PICK f, s : f = TestRows(frame, Head(months)) /\ s = (Head(arms) = Candidate)
  OBVIOUS
<1>2. /\ rows' = f /\ stop' = s /\ pending' = Events(f, b, s) /\ bankroll' = Bankroll
      /\ free' = SlotCount /\ open' = [m \in {} |-> 0] /\ positions' = << >>
      /\ curve' = <<Bankroll>> /\ arms' = arms
  BY <1>1 DEF StartArm, Begin
<1>3. IsFrame(f) /\ s \in BOOLEAN
  BY <1>1, FoldsAreFrames DEF Folding
<1>4. \A r, q \in Range(f) : r.mint = q.mint => r = q
  BY <1>3, FrameType
<1>5. PICK T : T = {r \in Range(f) : r.mint \in b /\ HasEntryLiquidity(r)}
  OBVIOUS
<1>6. \A r : /\ EntryOf(r)' = [time |-> EntryTime(r), kind |-> 1, mint |-> r.mint]
             /\ ExitOf(r)' = [time |-> ExitTime(r, s), kind |-> 0, mint |-> r.mint]
  BY <1>2 DEF EntryOf, ExitOf, ExitTime, ExitEvent, EntryTime
<1>7. pending' = {[time |-> EntryTime(r), kind |-> 1, mint |-> r.mint] : r \in T} \cup
                 {[time |-> ExitTime(r, s), kind |-> 0, mint |-> r.mint] : r \in T}
  BY <1>2, <1>5 DEF Events
<1>8. /\ \A e \in pending' : \E r \in T : e = EntryOf(r)' \/ e = ExitOf(r)'
      /\ \A r \in T : EntryOf(r)' \in pending' /\ ExitOf(r)' \in pending'
  BY <1>6, <1>7
<1>9. \A r \in Range(f) : EntryOf(r)' \in pending' => r \in T
  <2> SUFFICES ASSUME NEW r \in Range(f), EntryOf(r)' \in pending' PROVE r \in T
    OBVIOUS
  <2>1. PICK q \in T : EntryOf(r)' = EntryOf(q)' \/ EntryOf(r)' = ExitOf(q)'
    BY <1>8
  <2>2. EntryOf(r)'.kind = 1 /\ ExitOf(q)'.kind = 0 /\ EntryOf(r)'.mint = r.mint
        /\ EntryOf(q)'.mint = q.mint
    BY <1>6
  <2>3. r.mint = q.mint
    BY <2>1, <2>2
  <2>4. q \in Range(f)
    BY <1>5
  <2> QED
    BY <1>4, <2>3, <2>4
<1>10. DOMAIN open' = {} /\ DOMAIN positions' = {}
  BY <1>2
<1>11. Scheduled'
  <2>1. \A e \in pending' : \E r \in Range(f) : HasEntryLiquidity(r) /\ e \in {EntryOf(r)', ExitOf(r)'}
    BY <1>5, <1>8
  <2>2. \A r \in Range(f) : EntryOf(r)' \in pending' => ExitOf(r)' \in pending'
    BY <1>8, <1>9
  <2>3. \A m : ~Completed(m)'
    BY <1>10 DEF Completed
  <2>4. stop' \in BOOLEAN
    BY <1>2, <1>3
  <2> QED
    BY <1>2, <1>10, <2>1, <2>2, <2>3, <2>4 DEF Scheduled, HasEntryLiquidity
<1>12. Chronological'
  BY <1>10 DEF Chronological
<1>13. Balanced' /\ Drawn'
  <2>1. SumFunctionOnSet([m \in {} |-> 0], {}) = 0 /\ \A g : SumFunctionOnSet(g, {}) = 0
    BY SumOfNothing
  <2>2. Equity(bankroll, open)' = Bankroll + SumFunction([m \in DOMAIN open' |-> open'[m].sol])
    BY <1>2 DEF Equity
  <2>3. SumFunction([m \in DOMAIN open' |-> open'[m].sol]) = 0
    BY <1>10, <2>1 DEF SumFunction
  <2>4. Gained' = 0
    BY <1>10, <2>1 DEF SumFunction, Gained
  <2>5. Bankroll \in Nat /\ SlotCount \in Nat
    BY BacktestAssumption
  <2>6. Equity(bankroll, open)' = Bankroll + Gained'
    BY <2>2, <2>3, <2>4
  <2>7. IsFiniteSet(DOMAIN open') /\ Cardinality(DOMAIN open') = 0
    BY <1>10, FS_EmptySet
  <2>8. curve' \in Seq(Int) /\ curve' # << >> /\ Last(curve') = Bankroll
    BY <1>2, <2>5 DEF Last
  <2>9. positions' \in Seq(Position)
    BY <1>2
  <2>10. Last(curve)' = Equity(bankroll, open)'
    BY <2>2, <2>3, <2>5, <2>8 DEF Last
  <2>11. bankroll' \in Nat /\ free' \in 0 .. SlotCount /\ free' + Cardinality(DOMAIN open') = SlotCount
    BY <1>2, <2>5, <2>7
  <2>12. open' = [m \in DOMAIN open' |-> open'[m]]
    BY <1>2
  <2> QED
    BY <2>6, <2>7, <2>8, <2>9, <2>10, <2>11, <2>12 DEF Balanced, Drawn
<1>14. SkippedForCause'
  <2> SUFFICES ASSUME Head(arms)' \in {"buy_everything", Candidate}, NEW r \in Range(f),
                      PassedOver(r)'
               PROVE  FALSE
    BY <1>2 DEF SkippedForCause
  <2>1. Head(arms) \in {"buy_everything", Candidate}
    BY <1>2
  <2>2. Baskets(Head(arms)) = {BuyEverything(f)}
    BY <1>1, <2>1 DEF Baskets, Candidate
  <2>3. b = Mints(f)
    BY <2>2 DEF StartArm, BuyEverything
  <2>4. HasEntryLiquidity(r) /\ EntryOf(r)' \notin pending'
    BY DEF PassedOver, HasEntryLiquidity
  <2>5. r \in T
    BY <1>5, <2>3, <2>4 DEF Mints
  <2> QED
    BY <1>8, <2>4, <2>5
<1>15. IsFrame(rows)'
  BY <1>2, <1>3 DEF IsFrame
<1> QED
  BY <1>11, <1>12, <1>13, <1>14, <1>15

LEMMA EventTimes ==
  ASSUME Folding, BacktestInv, Walking, NEW e \in pending
  PROVE  /\ \E r \in Range(rows) : /\ HasEntryLiquidity(r) /\ e.mint = r.mint
                                   /\ \/ e = EntryOf(r) /\ e.kind = 1
                                      \/ e = ExitOf(r) /\ e.kind = 0
         /\ e.time \in Nat /\ e.kind \in {0, 1}
<1>1. Scheduled /\ IsFrame(rows) /\ stop \in BOOLEAN
  BY Underway
<1>2. PICK r \in Range(rows) : HasEntryLiquidity(r) /\ e \in {EntryOf(r), ExitOf(r)}
  BY <1>1 DEF Scheduled
<1> QED
  BY <1>1, <1>2, EventFacts

(* An event that is passed by leaves the schedule as it is.                 *)
LEMMA PassingKeepsSchedule ==
  ASSUME Folding, BacktestInv, Walking, NEW e, Skip(e) \/ Miss(e)
  PROVE  Scheduled' /\ Chronological' /\ Balanced' /\ Drawn'
<1>1. /\ Scheduled /\ Chronological /\ Balanced /\ Drawn /\ IsFrame(rows) /\ stop \in BOOLEAN
  BY Underway
<1>2. /\ e \in pending /\ e \in First /\ pending' = pending \ {e}
      /\ rows' = rows /\ stop' = stop /\ bankroll' = bankroll /\ free' = free /\ open' = open
      /\ positions' = positions /\ curve' = curve
      /\ e.kind = 1 \/ (e.kind = 0 /\ e.mint \notin DOMAIN open)
  BY DEF Skip, Miss, First
<1>3. \A r : EntryOf(r)' = EntryOf(r) /\ ExitOf(r)' = ExitOf(r)
  BY <1>2, StillTheSame
<1>4. \A r \in Range(rows) : EntryOf(r) \in pending => ExitOf(r) # e
  <2> SUFFICES ASSUME NEW r \in Range(rows), EntryOf(r) \in pending, ExitOf(r) = e PROVE FALSE
    OBVIOUS
  <2>1. /\ EntryOf(r).time = EntryTime(r) /\ ExitOf(r).time = ExitTime(r, stop)
        /\ EntryTime(r) \in Nat /\ ExitTime(r, stop) \in Nat /\ EntryTime(r) < ExitTime(r, stop)
    BY <1>1, EventFacts
  <2>2. Before(e, EntryOf(r))
    BY <1>2 DEF First
  <2> QED
    BY <2>1, <2>2 DEF Before
<1>5. \A r \in Range(rows) : r.mint \in DOMAIN open => ExitOf(r) # e
  BY <1>1, <1>2, EventFacts
<1>6. \A m : Completed(m)' <=> Completed(m)
  BY <1>2 DEF Completed
<1>7. Scheduled'
  <2>1. \A f \in pending' : \E r \in Range(rows) : HasEntryLiquidity(r) /\ f \in {EntryOf(r), ExitOf(r)}
    BY <1>1, <1>2 DEF Scheduled
  <2>2. \A r \in Range(rows) : EntryOf(r) \in pending' =>
          ExitOf(r) \in pending' /\ r.mint \notin DOMAIN open /\ ~Completed(r.mint)
    BY <1>1, <1>2, <1>4 DEF Scheduled
  <2>3. ASSUME NEW m \in DOMAIN open PROVE ~Completed(m) /\ \E r \in Range(rows) : OpenFor(m, r)'
    <3>1. PICK r \in Range(rows) : OpenFor(m, r)
      BY <1>1, <2>3 DEF Scheduled
    <3>2. ExitOf(r)' \in pending'
      BY <1>2, <1>3, <1>5, <2>3, <3>1 DEF OpenFor
    <3>3. OpenFor(m, r)'
      BY <1>2, <3>1, <3>2 DEF OpenFor, HasEntryLiquidity, EntryTime
    <3> QED
      BY <1>1, <2>3, <3>3 DEF Scheduled
  <2>4. ASSUME NEW i \in DOMAIN positions PROVE \E r \in Range(rows) : TripOf(positions[i], r)'
    <3>1. PICK r \in Range(rows) : TripOf(positions[i], r)
      BY <1>1, <2>4 DEF Scheduled
    <3>2. ExitOf(r)' \notin pending'
      BY <1>2, <1>3, <3>1 DEF TripOf
    <3>3. ExitTime(r, stop)' = ExitTime(r, stop) /\ ExitEvent(r, stop)' = ExitEvent(r, stop)
      BY <1>2, StillTheSame
    <3>4. TripOf(positions[i], r)'
      BY <1>2, <3>1, <3>2, <3>3 DEF TripOf, HasEntryLiquidity, EntryTime
    <3> QED
      BY <3>4
  <2>5. \A i, j \in DOMAIN positions : positions[i].mint = positions[j].mint => i = j
    BY <1>1 DEF Scheduled
  <2> QED
    BY <1>1, <1>2, <1>3, <1>6, <2>1, <2>2, <2>3, <2>4, <2>5 DEF Scheduled, HasEntryLiquidity
<1>8. Chronological'
  BY <1>1, <1>2 DEF Chronological
<1>9. Balanced' /\ Drawn'
  BY <1>1, <1>2 DEF Balanced, Drawn, Gained, Equity
<1> QED
  BY <1>7, <1>8, <1>9

LEMMA OpenType ==
  ASSUME Scheduled
  PROVE  \A m \in DOMAIN open : open[m].sol \in Nat \ {0}
BY DEF Scheduled, OpenFor

LEMMA PositionType ==
  ASSUME Balanced, NEW i \in DOMAIN positions
  PROVE  /\ positions[i].entry \in Nat /\ positions[i].exit \in Nat
         /\ positions[i].in \in Nat \ {0} /\ positions[i].out \in Nat
<1>1. positions \in Seq(Position)
  BY DEF Balanced
<1>2. positions[i] \in Position
  BY <1>1
<1> QED
  BY <1>2 DEF Position

(* At an instant before which everything happened, what is held is what is  *)
(* open, and what is idle is the bankroll.                                  *)
LEMMA AllSoFar ==
  ASSUME Balanced, Scheduled, IsFrame(rows), NEW t \in Nat, \A m \in DOMAIN open : open[m].time <= t,
         \A i \in DOMAIN positions : positions[i].exit <= t
  PROVE  HeldAt(t) = SlotCount - free /\ IdleSoFar(t) = bankroll
<1>1. {m \in DOMAIN open : open[m].time <= t} = DOMAIN open
  OBVIOUS
<1>2. {i \in DOMAIN positions : positions[i].entry <= t /\ t < positions[i].exit} = {}
  BY PositionType
<1>3. /\ IsFiniteSet(DOMAIN open) /\ free + Cardinality(DOMAIN open) = SlotCount /\ free \in Nat
      /\ bankroll \in Nat /\ Equity(bankroll, open) = Bankroll + Gained
  BY BacktestAssumption DEF Balanced
<1>4. Cardinality(DOMAIN open) \in Nat
  BY <1>3, FS_CardinalityType
<1>5. HeldAt(t) = SlotCount - free
  <2>1. HeldAt(t) = Cardinality(DOMAIN open) + Cardinality({})
    BY <1>1, <1>2 DEF HeldAt
  <2>2. Cardinality({}) = 0
    BY FS_EmptySet
  <2> QED
    BY <1>3, <1>4, <2>1, <2>2
<1>6. PICK g, S : g = [m \in DOMAIN open |-> open[m].sol] /\ S = SumFunction(g)
  OBVIOUS
<1>7. S \in Int
  <2>1. DOMAIN g = DOMAIN open /\ \A m \in DOMAIN open : g[m] \in Int
    BY <1>6, OpenType
  <2>2. SumFunctionOnSet(g, DOMAIN open) \in Int
    BY <1>3, <2>1, SumIsInt
  <2> QED
    BY <1>6, <2>1, <2>2 DEF SumFunction
<1>8. [m \in DOMAIN open |-> IF open[m].time <= t THEN open[m].sol ELSE 0] = g
  BY <1>6
<1>9. [i \in DOMAIN positions |-> Moved(positions[i], t)]
        = [i \in DOMAIN positions |-> positions[i].out - positions[i].in]
  BY DEF Moved
<1>10. IdleAt(t) = Bankroll + Gained
  BY <1>9 DEF IdleAt, Gained
<1>11. IdleSoFar(t) = IdleAt(t) - S
  BY <1>6, <1>8 DEF IdleSoFar
<1>12. Equity(bankroll, open) = bankroll + S
  BY <1>6 DEF Equity
<1>13. IdleSoFar(t) = bankroll
  BY <1>3, <1>7, <1>10, <1>11, <1>12
<1> QED
  BY <1>5, <1>13

LEMMA SkipIsForCause ==
  ASSUME Folding, BacktestInv, Walking, arms' = arms, NEW e, Skip(e)
  PROVE  SkippedForCause'
<1>1. /\ Scheduled /\ Chronological /\ Balanced /\ SkippedForCause
      /\ IsFrame(rows) /\ stop \in BOOLEAN
  BY Underway
<1>2. /\ e \in pending /\ pending' = pending \ {e} /\ e.kind = 1 /\ Slice = 0
      /\ rows' = rows /\ stop' = stop /\ bankroll' = bankroll /\ free' = free /\ open' = open
      /\ positions' = positions /\ \A f \in pending : Before(e, f)
  BY DEF Skip, First
<1>3. e.time \in Nat
  BY <1>2, EventTimes
<1>4. \A t : HeldAt(t)' = HeldAt(t) /\ IdleSoFar(t)' = IdleSoFar(t)
  BY <1>2 DEF HeldAt, IdleSoFar, IdleAt
<1>5. Slice' = 0
  BY <1>2 DEF Slice
<1>6. ASSUME NEW t, NothingWasLeft(t) PROVE NothingWasLeft(t)'
  BY <1>2, <1>4, <1>5, <1>6 DEF NothingWasLeft
<1>7. NothingWasLeft(e.time)'
  <2>1. PICK t \in Nat : t = e.time
    BY <1>3
  <2>2. /\ \A m \in DOMAIN open : open[m].time <= t
        /\ \A i \in DOMAIN positions : positions[i].exit <= t
    BY <1>1, <1>2, <2>1 DEF Chronological
  <2>3. HeldAt(t) = SlotCount - free /\ IdleSoFar(t) = bankroll
    BY <1>1, <2>2, AllSoFar
  <2>4. /\ bankroll \in Nat /\ free \in 0 .. SlotCount /\ SlotCount \in Nat
    BY <1>1, BacktestAssumption DEF Balanced
  <2>5. free = 0 \/ bankroll < free
    <3>1. \A a \in Nat, b \in Nat \ {0} : a \div b = 0 => a < b
      OBVIOUS
    <3> QED
      BY <1>2, <2>4, <3>1 DEF Slice
  <2>6. HeldAt(t) = SlotCount \/ IdleSoFar(t) < SlotCount - HeldAt(t)
    BY <2>3, <2>4, <2>5
  <2>7. \A f \in pending' : f.time > t \/ (f.time = t /\ f.kind = 1)
    <3> SUFFICES ASSUME NEW f \in pending' PROVE f.time > t \/ (f.time = t /\ f.kind = 1)
      OBVIOUS
    <3>1. Before(e, f) /\ f.time \in Nat /\ f.kind \in {0, 1}
      BY <1>2, EventTimes
    <3> QED
      BY <1>2, <2>1, <3>1 DEF Before
  <2>8. NothingWasLeft(t)'
    BY <1>4, <1>5, <2>6, <2>7 DEF NothingWasLeft
  <2> QED
    BY <1>2, <2>1, <2>8 DEF NothingWasLeft, HeldAt, IdleSoFar, IdleAt, Slice, Moved
<1> SUFFICES ASSUME Head(arms) \in {"buy_everything", Candidate}, NEW r \in Range(rows),
                    PassedOver(r)'
             PROVE  NothingWasLeft(EntryTime(r))'
  BY <1>2 DEF SkippedForCause
<1>8. PICK t : t = EntryTime(r)
  OBVIOUS
<1>9. NothingWasLeft(t)'
  <2>1. /\ HasEntryLiquidity(r) /\ EntryOf(r) \notin pending \ {e} /\ r.mint \notin DOMAIN open
        /\ ~Completed(r.mint)
    BY <1>2, StillTheSame DEF PassedOver, HasEntryLiquidity, Completed
  <2>2. CASE EntryOf(r) = e
    <3>1. t = e.time
      BY <1>1, <1>8, <2>2, EventFacts
    <3> QED
      BY <1>7, <3>1
  <2>3. CASE EntryOf(r) # e
    <3>1. PassedOver(r)
      BY <2>1, <2>3 DEF PassedOver
    <3>2. NothingWasLeft(t)
      BY <1>1, <1>8, <3>1 DEF SkippedForCause
    <3> QED
      BY <1>6, <3>2
  <2> QED
    BY <2>2, <2>3
<1> QED
  BY <1>8, <1>9 DEF EntryTime

LEMMA MissIsForCause ==
  ASSUME Folding, BacktestInv, Walking, arms' = arms, NEW e, Miss(e)
  PROVE  SkippedForCause'
<1>1. SkippedForCause /\ IsFrame(rows) /\ stop \in BOOLEAN
  BY Underway
<1>2. /\ e \in pending /\ pending' = pending \ {e} /\ e.kind = 0
      /\ rows' = rows /\ stop' = stop /\ bankroll' = bankroll /\ free' = free /\ open' = open
      /\ positions' = positions
  BY DEF Miss, First
<1>3. \A t : HeldAt(t)' = HeldAt(t) /\ IdleSoFar(t)' = IdleSoFar(t)
  BY <1>2 DEF HeldAt, IdleSoFar, IdleAt
<1>4. Slice' = Slice
  BY <1>2 DEF Slice
<1>5. ASSUME NEW t, NothingWasLeft(t) PROVE NothingWasLeft(t)'
  BY <1>2, <1>3, <1>4, <1>5 DEF NothingWasLeft
<1> SUFFICES ASSUME Head(arms) \in {"buy_everything", Candidate}, NEW r \in Range(rows),
                    PassedOver(r)'
             PROVE  NothingWasLeft(EntryTime(r))'
  BY <1>2 DEF SkippedForCause
<1>6. PICK t : t = EntryTime(r)
  OBVIOUS
<1>7. /\ HasEntryLiquidity(r) /\ EntryOf(r) \notin pending \ {e} /\ r.mint \notin DOMAIN open
      /\ ~Completed(r.mint)
  BY <1>2, StillTheSame DEF PassedOver, HasEntryLiquidity, Completed
<1>8. EntryOf(r) # e
  BY <1>1, <1>2, EventFacts
<1>9. PassedOver(r)
  BY <1>7, <1>8 DEF PassedOver
<1>10. NothingWasLeft(t)
  BY <1>1, <1>6, <1>9 DEF SkippedForCause
<1>11. NothingWasLeft(t)'
  BY <1>5, <1>10
<1> QED
  BY <1>6, <1>11 DEF EntryTime

(* What an entry does.                                                      *)
LEMMA Entering ==
  ASSUME Folding, BacktestInv, Walking, NEW e, Enter(e)
  PROVE  /\ e \in pending /\ pending' = pending \ {e} /\ e.kind = 1
         /\ rows' = rows /\ stop' = stop /\ positions' = positions
         /\ bankroll' = bankroll - Slice /\ free' = free - 1
         /\ curve' = Append(curve, Equity(bankroll, open)')
         /\ DOMAIN open' = DOMAIN open \cup {e.mint} /\ e.mint \notin DOMAIN open
         /\ \A m \in DOMAIN open : open'[m] = open[m]
         /\ free \in 1 .. SlotCount /\ bankroll \in Nat /\ Slice \in 1 .. bankroll
         /\ Slice \in Nat \ {0} /\ open'[e.mint].sol = Slice
         /\ \A f \in pending : e.time <= f.time
         /\ \E r \in Range(rows) :
              /\ e = EntryOf(r) /\ e.mint = r.mint /\ HasEntryLiquidity(r) /\ ~Completed(r.mint)
              /\ ExitOf(r) \in pending
              /\ open'[e.mint] = [time |-> EntryTime(r), sol |-> Slice,
                                  tokens |-> EntryFill(Slice, r.base, r.quote)]
<1>1. /\ Scheduled /\ Balanced /\ IsFrame(rows) /\ stop \in BOOLEAN
  BY Underway
<1>2. /\ e \in pending /\ pending' = pending \ {e} /\ e.kind = 1 /\ Slice > 0 /\ open' = Bought(e)
      /\ rows' = rows /\ stop' = stop /\ positions' = positions
      /\ bankroll' = bankroll - Slice /\ free' = free - 1
      /\ curve' = Append(curve, Equity(bankroll, open)')
  BY DEF Enter, First, Equity
<1>3. bankroll \in Nat /\ free \in 0 .. SlotCount /\ SlotCount \in Nat
  BY <1>1, BacktestAssumption DEF Balanced
<1>4. free \in 1 .. SlotCount /\ Slice \in 1 .. bankroll
  <2>1. free # 0
    BY <1>2 DEF Slice
  <2>2. \A a \in Nat, b \in Nat \ {0} : a \div b \in Nat /\ a \div b <= a
    OBVIOUS
  <2>3. Slice = bankroll \div free
    BY <2>1 DEF Slice
  <2>4. Slice \in Nat /\ Slice <= bankroll
    BY <1>3, <2>1, <2>2, <2>3
  <2> QED
    BY <1>2, <1>3, <2>1, <2>4
<1>5. PICK r \in Range(rows) : HasEntryLiquidity(r) /\ e.mint = r.mint
                                 /\ (e = EntryOf(r) \/ (e = ExitOf(r) /\ e.kind = 0))
  BY <1>2, EventTimes
<1>6. e = EntryOf(r) /\ Row(rows, e.mint) = r /\ e.time = EntryTime(r)
  BY <1>1, <1>2, <1>5, EventFacts
<1>7. ExitOf(r) \in pending /\ r.mint \notin DOMAIN open /\ ~Completed(r.mint)
  BY <1>1, <1>2, <1>6 DEF Scheduled
<1>8. \A f \in pending : e.time <= f.time
  <2> SUFFICES ASSUME NEW f \in pending PROVE e.time <= f.time
    OBVIOUS
  <2>1. Before(e, f) /\ f.time \in Nat /\ e.time \in Nat
    BY <1>2, EventTimes DEF Enter, First
  <2> QED
    BY <2>1 DEF Before
<1>9. PICK position : position = [time |-> EntryTime(r), sol |-> Slice,
                                  tokens |-> EntryFill(Slice, r.base, r.quote)]
  OBVIOUS
<1>10. open' = [m \in DOMAIN open \cup {e.mint} |-> IF m = e.mint THEN position ELSE open[m]]
  BY <1>2, <1>6, <1>9 DEF Bought
<1>11. /\ DOMAIN open' = DOMAIN open \cup {e.mint} /\ open'[e.mint] = position
       /\ \A m \in DOMAIN open : open'[m] = open[m]
  BY <1>5, <1>7, <1>10
<1>12. Slice \in Nat \ {0} /\ open'[e.mint].sol = Slice
  BY <1>3, <1>4, <1>9, <1>11
<1> QED
  BY <1>2, <1>3, <1>4, <1>5, <1>6, <1>7, <1>8, <1>9, <1>11, <1>12

LEMMA EnterKeepsSchedule ==
  ASSUME Folding, BacktestInv, Walking, NEW e, Enter(e)
  PROVE  Scheduled' /\ Chronological'
<1>1. /\ Scheduled /\ Chronological /\ IsFrame(rows) /\ stop \in BOOLEAN
  BY Underway
<1>2. /\ e \in pending /\ pending' = pending \ {e} /\ e.kind = 1
      /\ rows' = rows /\ stop' = stop /\ positions' = positions
      /\ DOMAIN open' = DOMAIN open \cup {e.mint} /\ e.mint \notin DOMAIN open
      /\ \A m \in DOMAIN open : open'[m] = open[m]
      /\ \A f \in pending : e.time <= f.time
      /\ Slice \in Nat \ {0}
  BY Entering, Zenon
<1>3. PICK q \in Range(rows) :
        /\ e = EntryOf(q) /\ e.mint = q.mint /\ HasEntryLiquidity(q) /\ ~Completed(q.mint)
        /\ ExitOf(q) \in pending
        /\ open'[e.mint] = [time |-> EntryTime(q), sol |-> Slice,
                            tokens |-> EntryFill(Slice, q.base, q.quote)]
  BY Entering, Zenon
<1>4. \A r : EntryOf(r)' = EntryOf(r) /\ ExitOf(r)' = ExitOf(r)
  BY <1>2, StillTheSame
<1>5. \A r \in Range(rows) : ExitOf(r) # e
  BY <1>1, <1>2, EventFacts
<1>6. \A m : Completed(m)' <=> Completed(m)
  BY <1>2 DEF Completed
<1>7. Scheduled'
  <2>1. \A f \in pending' : \E r \in Range(rows) : HasEntryLiquidity(r) /\ f \in {EntryOf(r), ExitOf(r)}
    BY <1>1, <1>2 DEF Scheduled
  <2>2. ASSUME NEW r \in Range(rows), EntryOf(r) \in pending'
        PROVE  ExitOf(r) \in pending' /\ r.mint \notin DOMAIN open' /\ ~Completed(r.mint)
    <3>1. EntryOf(r) \in pending /\ EntryOf(r) # e
      BY <1>2, <2>2
    <3>2. r.mint # q.mint
      BY <1>1, <1>3, <3>1, EventFacts
    <3>3. ExitOf(r) \in pending /\ r.mint \notin DOMAIN open /\ ~Completed(r.mint)
      BY <1>1, <3>1 DEF Scheduled
    <3> QED
      BY <1>2, <1>3, <1>5, <3>2, <3>3
  <2>3. ASSUME NEW m \in DOMAIN open' PROVE ~Completed(m) /\ \E r \in Range(rows) : OpenFor(m, r)'
    <3>1. CASE m \in DOMAIN open
      <4>1. PICK r \in Range(rows) : OpenFor(m, r)
        BY <1>1, <3>1 DEF Scheduled
      <4>2. ExitOf(r)' \in pending'
        BY <1>2, <1>4, <1>5, <4>1 DEF OpenFor
      <4>3. OpenFor(m, r)'
        BY <1>2, <3>1, <4>1, <4>2 DEF OpenFor, HasEntryLiquidity, EntryTime
      <4> QED
        BY <1>1, <3>1, <4>3 DEF Scheduled
    <3>2. CASE m = e.mint
      <4>1. ExitOf(q)' \in pending'
        BY <1>2, <1>3, <1>4, <1>5
      <4>2. OpenFor(m, q)'
        BY <1>2, <1>3, <3>2, <4>1 DEF OpenFor, HasEntryLiquidity, EntryTime
      <4> QED
        BY <1>3, <3>2, <4>2
    <3> QED
      BY <1>2, <2>3, <3>1, <3>2
  <2>4. ASSUME NEW i \in DOMAIN positions PROVE \E r \in Range(rows) : TripOf(positions[i], r)'
    <3>1. PICK r \in Range(rows) : TripOf(positions[i], r)
      BY <1>1, <2>4 DEF Scheduled
    <3>2. ExitOf(r)' \notin pending'
      BY <1>2, <1>4, <3>1 DEF TripOf
    <3>3. ExitTime(r, stop)' = ExitTime(r, stop) /\ ExitEvent(r, stop)' = ExitEvent(r, stop)
      BY <1>2, StillTheSame
    <3>4. TripOf(positions[i], r)'
      BY <1>2, <3>1, <3>2, <3>3 DEF TripOf, HasEntryLiquidity, EntryTime
    <3> QED
      BY <3>4
  <2>5. \A i, j \in DOMAIN positions : positions[i].mint = positions[j].mint => i = j
    BY <1>1 DEF Scheduled
  <2> QED
    BY <1>1, <1>2, <1>4, <1>6, <2>1, <2>2, <2>3, <2>4, <2>5 DEF Scheduled, HasEntryLiquidity
<1>8. Chronological'
  <2> SUFFICES ASSUME NEW f \in pending'
               PROVE  /\ \A m \in DOMAIN open' : open'[m].time <= f.time
                      /\ \A i \in DOMAIN positions : positions[i].exit <= f.time
    BY <1>2 DEF Chronological
  <2>1. f \in pending
    BY <1>2
  <2>2. /\ \A m \in DOMAIN open : open[m].time <= f.time
        /\ \A i \in DOMAIN positions : positions[i].exit <= f.time
    BY <1>1, <2>1 DEF Chronological
  <2>3. open'[e.mint].time <= f.time
    BY <1>1, <1>2, <1>3, <2>1, EventFacts
  <2> QED
    BY <1>2, <2>2, <2>3
<1> QED
  BY <1>7, <1>8

LEMMA EnterBalances ==
  ASSUME Folding, BacktestInv, Walking, NEW e, Enter(e)
  PROVE  Balanced' /\ Drawn'
<1>1. Scheduled /\ Balanced /\ Drawn
  BY Underway
<1>2. /\ positions' = positions /\ bankroll' = bankroll - Slice /\ free' = free - 1
      /\ curve' = Append(curve, Equity(bankroll, open)')
      /\ DOMAIN open' = DOMAIN open \cup {e.mint} /\ e.mint \notin DOMAIN open
      /\ \A m \in DOMAIN open : open'[m] = open[m]
      /\ free \in 1 .. SlotCount /\ bankroll \in Nat /\ Slice \in 1 .. bankroll
      /\ open'[e.mint].sol = Slice
  BY Entering, Zenon
<1>3. /\ IsFiniteSet(DOMAIN open) /\ free + Cardinality(DOMAIN open) = SlotCount
      /\ positions \in Seq(Position) /\ Equity(bankroll, open) = Bankroll + Gained
      /\ curve \in Seq(Int) /\ SlotCount \in Nat /\ Bankroll \in Nat
  BY <1>1, BacktestAssumption DEF Balanced, Drawn
<1>4. PICK D, x, g, h : D = DOMAIN open /\ x = e.mint /\ g = [m \in DOMAIN open |-> open[m].sol]
                          /\ h = [m \in DOMAIN open' |-> open'[m].sol]
  OBVIOUS
<1>5. /\ IsFiniteSet(D) /\ x \notin D /\ h[x] = Slice /\ h[x] \in Int
      /\ \A m \in D : h[m] = g[m] /\ h[m] \in Int
  BY <1>1, <1>2, <1>3, <1>4, OpenType
<1>6. SumFunctionOnSet(h, D \cup {x}) = SumFunctionOnSet(h, D) + h[x]
  BY <1>5, SumWith
<1>7. SumFunctionOnSet(h, D) = SumFunctionOnSet(g, D)
  BY <1>5, SumAlike
<1>8. SumFunctionOnSet(h, D) \in Int
  BY <1>5, SumIsInt
<1>9. SumFunction(g) = SumFunctionOnSet(g, D) /\ SumFunction(h) = SumFunctionOnSet(h, D \cup {x})
  BY <1>2, <1>4 DEF SumFunction
<1>10. Equity(bankroll, open) = bankroll + SumFunction(g)
  BY <1>4 DEF Equity
<1>11. Equity(bankroll, open)' = bankroll' + SumFunction(h)
  BY <1>4 DEF Equity
<1>12. Equity(bankroll, open)' = Equity(bankroll, open) /\ Equity(bankroll, open) \in Int
  BY <1>2, <1>5, <1>6, <1>7, <1>8, <1>9, <1>10, <1>11
<1>13. Gained' = Gained
  BY <1>2 DEF Gained
<1>14. /\ curve' \in Seq(Int) /\ curve' # << >> /\ Last(curve') = Equity(bankroll, open)'
  BY <1>2, <1>3, <1>12 DEF Last
<1>15. IsFiniteSet(D \cup {x}) /\ Cardinality(D \cup {x}) = Cardinality(D) + 1
  BY <1>5, FS_AddElement
<1>16. Cardinality(D) \in Nat
  BY <1>5, FS_CardinalityType
<1>17. IsFiniteSet(DOMAIN open') /\ free' + Cardinality(DOMAIN open') = SlotCount
  BY <1>2, <1>3, <1>4, <1>15, <1>16
<1>18. bankroll' \in Nat /\ free' \in 0 .. SlotCount
  BY <1>2, <1>3
<1>19. Last(curve)' = Equity(bankroll, open)'
  BY <1>14 DEF Last
<1>20. open' = [m \in DOMAIN open' |-> open'[m]]
  BY DEF Enter, Bought
<1> QED
  BY <1>2, <1>3, <1>12, <1>13, <1>14, <1>17, <1>18, <1>19, <1>20 DEF Balanced, Drawn

(* What was passed over before an entry could not have been bought: its     *)
(* instant is over, and the entry changes nothing of it.                    *)
LEMMA EnterIsForCause ==
  ASSUME Folding, BacktestInv, Walking, arms' = arms, NEW e, Enter(e)
  PROVE  SkippedForCause'
<1>1. /\ Scheduled /\ Balanced /\ SkippedForCause /\ IsFrame(rows) /\ stop \in BOOLEAN
  BY Underway
<1>2. /\ e \in pending /\ pending' = pending \ {e} /\ e.kind = 1
      /\ rows' = rows /\ stop' = stop /\ positions' = positions
      /\ DOMAIN open' = DOMAIN open \cup {e.mint} /\ e.mint \notin DOMAIN open
      /\ \A m \in DOMAIN open : open'[m] = open[m]
      /\ \A f \in pending : e.time <= f.time
      /\ Slice \in Nat \ {0}
  BY Entering, Zenon
<1>3. e.time \in Nat
  BY <1>2, EventTimes
<1>4. open'[e.mint].time = e.time
  <2>1. PICK q \in Range(rows) : /\ e = EntryOf(q)
                                 /\ open'[e.mint] = [time |-> EntryTime(q), sol |-> Slice,
                                      tokens |-> EntryFill(Slice, q.base, q.quote)]
    BY Entering, Zenon
  <2> QED
    BY <1>1, <2>1, EventFacts
<1>5. ASSUME NEW t \in Nat, t < e.time
      PROVE  HeldAt(t)' = HeldAt(t) /\ IdleSoFar(t)' = IdleSoFar(t)
  <2>1. {m \in DOMAIN open' : open'[m].time <= t} = {m \in DOMAIN open : open[m].time <= t}
    BY <1>2, <1>3, <1>4, <1>5
  <2>2. HeldAt(t)' = HeldAt(t)
    BY <1>2, <2>1 DEF HeldAt
  <2>3. PICK D, x, g, h : /\ D = DOMAIN open /\ x = e.mint
                          /\ g = [m \in DOMAIN open |-> IF open[m].time <= t THEN open[m].sol ELSE 0]
                          /\ h = [m \in DOMAIN open' |-> IF open'[m].time <= t THEN open'[m].sol ELSE 0]
    OBVIOUS
  <2>4. /\ IsFiniteSet(D) /\ x \notin D /\ DOMAIN g = D /\ DOMAIN h = D \cup {x}
    BY <1>1, <1>2, <2>3 DEF Balanced
  <2>5. h[x] = 0
    BY <1>2, <1>3, <1>4, <1>5, <2>3
  <2>6. \A m \in D : h[m] = g[m] /\ h[m] \in Int
    BY <1>1, <1>2, <2>3, OpenType
  <2>7. SumFunctionOnSet(h, D \cup {x}) = SumFunctionOnSet(h, D) + h[x]
    BY <2>4, <2>5, <2>6, SumWith
  <2>8. SumFunctionOnSet(h, D) = SumFunctionOnSet(g, D)
    BY <2>4, <2>6, SumAlike
  <2>9. SumFunctionOnSet(h, D) \in Int
    BY <2>4, <2>6, SumIsInt
  <2>10. SumFunction(h) = SumFunction(g)
    BY <2>4, <2>5, <2>7, <2>8, <2>9 DEF SumFunction
  <2>11. IdleAt(t)' = IdleAt(t)
    BY <1>2 DEF IdleAt
  <2>12. IdleSoFar(t)' = IdleAt(t)' - SumFunction(h) /\ IdleSoFar(t) = IdleAt(t) - SumFunction(g)
    BY <2>3 DEF IdleSoFar
  <2> QED
    BY <2>2, <2>10, <2>11, <2>12
<1> SUFFICES ASSUME Head(arms) \in {"buy_everything", Candidate}, NEW r \in Range(rows),
                    PassedOver(r)'
             PROVE  NothingWasLeft(EntryTime(r))'
  BY <1>2 DEF SkippedForCause
<1>6. PICK t \in Nat : t = EntryTime(r)
  BY <1>1, EventFacts
<1>7. /\ HasEntryLiquidity(r) /\ EntryOf(r) \notin pending \ {e} /\ r.mint \notin DOMAIN open'
      /\ ~Completed(r.mint)
  BY <1>2, StillTheSame DEF PassedOver, HasEntryLiquidity, Completed
<1>8. EntryOf(r) # e
  BY <1>1, <1>2, <1>7, EventFacts
<1>9. PassedOver(r)
  BY <1>2, <1>7, <1>8 DEF PassedOver
<1>10. NothingWasLeft(t)
  BY <1>1, <1>6, <1>9 DEF SkippedForCause
<1>11. t < e.time
  BY <1>2, <1>3, <1>10 DEF NothingWasLeft
<1>12. \A f \in pending' : f.time > t
  <2> SUFFICES ASSUME NEW f \in pending' PROVE f.time > t
    OBVIOUS
  <2>1. f \in pending /\ f.time \in Nat
    BY <1>2, EventTimes
  <2> QED
    BY <1>2, <1>3, <1>11, <2>1
<1>13. NothingWasLeft(t)'
  BY <1>5, <1>10, <1>11, <1>12 DEF NothingWasLeft
<1> QED
  BY <1>6, <1>13 DEF EntryTime

(* A sum over a list that grows by one.                                     *)
LEMMA SumOfLonger ==
  ASSUME NEW n \in Nat, NEW g, NEW h, DOMAIN g = 1 .. n, DOMAIN h = 1 .. n + 1,
         \A i \in 1 .. n : g[i] \in Int /\ h[i] = g[i], h[n + 1] \in Int
  PROVE  SumFunction(h) = SumFunction(g) + h[n + 1]
<1>1. PICK S, x : S = 1 .. n /\ x = n + 1
  OBVIOUS
<1>2. IsFiniteSet(S)
  BY <1>1, FS_Interval
<1>3. x \notin S /\ DOMAIN h = S \cup {x} /\ \A i \in S : h[i] \in Int /\ h[i] = g[i]
  BY <1>1
<1>4. SumFunctionOnSet(h, S \cup {x}) = SumFunctionOnSet(h, S) + h[x]
  BY <1>1, <1>2, <1>3, SumWith
<1>5. SumFunctionOnSet(h, S) = SumFunctionOnSet(g, S)
  BY <1>2, <1>3, SumAlike
<1> QED
  BY <1>1, <1>3, <1>4, <1>5 DEF SumFunction

(* What a sale does.                                                        *)
LEMMA Closing ==
  ASSUME Folding, BacktestInv, Walking, NEW e, Close(e)
  PROVE  /\ e \in pending /\ pending' = pending \ {e} /\ e.kind = 0 /\ e.time \in Nat
         /\ rows' = rows /\ stop' = stop
         /\ bankroll' = bankroll + Proceeds(e.mint) /\ free' = free + 1
         /\ Proceeds(e.mint) \in Nat
         /\ curve' = Append(curve, Equity(bankroll, open)')
         /\ DOMAIN open' = DOMAIN open \ {e.mint} /\ e.mint \in DOMAIN open
         /\ \A m \in DOMAIN open' : open'[m] = open[m]
         /\ \A f \in pending : e.time <= f.time
         /\ positions' = Append(positions,
              [mint |-> e.mint, entry |-> open[e.mint].time, exit |-> e.time,
               in |-> open[e.mint].sol, out |-> Proceeds(e.mint)])
         /\ \E r \in Range(rows) :
              /\ e = ExitOf(r) /\ e.mint = r.mint /\ e.time = ExitTime(r, stop)
              /\ OpenFor(e.mint, r)
              /\ Proceeds(e.mint) = ExitFill(open[e.mint].tokens, ExitEvent(r, stop).base,
                                             ExitEvent(r, stop).quote)
<1>1. /\ Scheduled /\ Balanced /\ IsFrame(rows) /\ stop \in BOOLEAN
  BY Underway
<1>2. /\ e \in pending /\ pending' = pending \ {e} /\ e.kind = 0 /\ e.mint \in DOMAIN open
      /\ rows' = rows /\ stop' = stop
      /\ bankroll' = bankroll + Proceeds(e.mint) /\ free' = free + 1
      /\ open' = [m \in DOMAIN open \ {e.mint} |-> open[m]]
      /\ curve' = Append(curve, Equity(bankroll, open)')
      /\ positions' = Append(positions,
              [mint |-> e.mint, entry |-> open[e.mint].time, exit |-> e.time,
               in |-> open[e.mint].sol, out |-> Proceeds(e.mint)])
  BY DEF Close, First, Equity
<1>3. PICK r \in Range(rows) : HasEntryLiquidity(r) /\ e.mint = r.mint
                                 /\ ((e = EntryOf(r) /\ e.kind = 1) \/ e = ExitOf(r))
  BY <1>2, EventTimes
<1>4. e = ExitOf(r) /\ Row(rows, e.mint) = r /\ e.time = ExitTime(r, stop) /\ r \in FrameRow
  BY <1>1, <1>2, <1>3, EventFacts, FrameType
<1>5. PICK q \in Range(rows) : OpenFor(e.mint, q)
  BY <1>1, <1>2 DEF Scheduled
<1>6. q = r
  BY <1>1, <1>3, <1>5, EventFacts DEF OpenFor
<1>7. \A f \in pending : e.time <= f.time
  <2> SUFFICES ASSUME NEW f \in pending PROVE e.time <= f.time
    OBVIOUS
  <2>1. Before(e, f) /\ f.time \in Nat /\ e.time \in Nat
    BY <1>2, EventTimes DEF Close, First
  <2> QED
    BY <2>1 DEF Before
<1>8. PICK x : x = ExitEvent(r, stop)
  OBVIOUS
<1>9. Proceeds(e.mint) = ExitFill(open[e.mint].tokens, x.base, x.quote)
  BY <1>4, <1>8 DEF Proceeds
<1>10. x.base \in Int /\ x.quote \in Int
  BY <1>1, <1>4, <1>8, ExitType
<1>11. open[e.mint].tokens \in Int
  <2>1. r.base \in Int /\ r.quote \in Int
    BY <1>4 DEF FrameRow, Number, NaN
  <2>2. open[e.mint].sol \in Int /\ open[e.mint].tokens = Swapped(open[e.mint].sol, r.quote, r.base)
    BY <1>5, <1>6 DEF OpenFor, EntryFill
  <2>3. Swapped(open[e.mint].sol, r.quote, r.base) \in Nat
    BY <2>1, <2>2, FillType
  <2> QED
    BY <2>2, <2>3
<1>12. Proceeds(e.mint) \in Nat
  <2>1. Swapped(open[e.mint].tokens, x.base, x.quote) \in Nat
    BY <1>10, <1>11, FillType
  <2> QED
    BY <1>9, <2>1 DEF ExitFill
<1>13. e.time \in Nat
  BY <1>2, EventTimes
<1>14. DOMAIN open' = DOMAIN open \ {e.mint} /\ \A m \in DOMAIN open' : open'[m] = open[m]
  BY <1>2
<1> QED
  BY <1>2, <1>3, <1>4, <1>5, <1>6, <1>7, <1>8, <1>9, <1>12, <1>13, <1>14

(* The list of round trips after one more.                                  *)
LEMMA LongerBook ==
  ASSUME Folding, BacktestInv, Walking, NEW e, Close(e)
  PROVE  \E n \in Nat :
           /\ positions \in Seq(Position) /\ DOMAIN positions = 1 .. n /\ DOMAIN positions' = 1 .. n + 1
           /\ \A i \in 1 .. n : positions'[i] = positions[i]
           /\ positions'[n + 1] =
                [mint |-> e.mint, entry |-> open[e.mint].time, exit |-> e.time,
                 in |-> open[e.mint].sol, out |-> Proceeds(e.mint)]
           /\ positions'[n + 1] \in Position /\ positions' \in Seq(Position)
<1>1. positions \in Seq(Position)
  BY Underway DEF Balanced
<1>2. PICK p : p = [mint |-> e.mint, entry |-> open[e.mint].time, exit |-> e.time,
                    in |-> open[e.mint].sol, out |-> Proceeds(e.mint)]
  OBVIOUS
<1>3. positions' = Append(positions, p) /\ e.time \in Nat /\ Proceeds(e.mint) \in Nat
  BY <1>2, Closing, Zenon
<1>4. PICK r \in Range(rows) : e.mint = r.mint /\ OpenFor(e.mint, r)
  BY Closing, Zenon
<1>5. r.mint \in STRING /\ EntryTime(r) \in Nat
  <2>1. IsFrame(rows)
    BY Underway
  <2>2. r \in FrameRow
    BY <2>1, FrameType
  <2> QED
    BY <2>2, ExitType DEF FrameRow
<1>6. open[e.mint].time \in Nat /\ open[e.mint].sol \in Nat \ {0}
  BY <1>4, <1>5 DEF OpenFor
<1>7. p \in Position
  BY <1>2, <1>3, <1>4, <1>5, <1>6 DEF Position
<1>8. PICK n \in Nat : n = Len(positions) /\ DOMAIN positions = 1 .. n
  BY <1>1
<1>9. /\ DOMAIN positions' = 1 .. n + 1 /\ \A i \in 1 .. n : positions'[i] = positions[i]
      /\ positions'[n + 1] = p /\ positions' \in Seq(Position)
  BY <1>1, <1>3, <1>7, <1>8
<1> QED
  BY <1>1, <1>2, <1>7, <1>8, <1>9

LEMMA CloseKeepsSchedule ==
  ASSUME Folding, BacktestInv, Walking, NEW e, Close(e)
  PROVE  Scheduled' /\ Chronological'
<1>1. /\ Scheduled /\ Chronological /\ IsFrame(rows) /\ stop \in BOOLEAN
  BY Underway
<1>2. /\ e \in pending /\ pending' = pending \ {e} /\ e.kind = 0
      /\ rows' = rows /\ stop' = stop
      /\ DOMAIN open' = DOMAIN open \ {e.mint} /\ e.mint \in DOMAIN open
      /\ \A m \in DOMAIN open' : open'[m] = open[m]
      /\ \A f \in pending : e.time <= f.time
  BY Closing, Zenon
<1>3. PICK q \in Range(rows) :
        /\ e = ExitOf(q) /\ e.mint = q.mint /\ e.time = ExitTime(q, stop) /\ OpenFor(e.mint, q)
        /\ Proceeds(e.mint) = ExitFill(open[e.mint].tokens, ExitEvent(q, stop).base,
                                       ExitEvent(q, stop).quote)
  BY Closing, Zenon
<1>4. PICK n \in Nat :
        /\ DOMAIN positions = 1 .. n /\ DOMAIN positions' = 1 .. n + 1
        /\ \A i \in 1 .. n : positions'[i] = positions[i]
        /\ positions'[n + 1] =
             [mint |-> e.mint, entry |-> open[e.mint].time, exit |-> e.time,
              in |-> open[e.mint].sol, out |-> Proceeds(e.mint)]
  BY LongerBook, Zenon
<1>5. \A r : EntryOf(r)' = EntryOf(r) /\ ExitOf(r)' = ExitOf(r)
  BY <1>2, StillTheSame
<1>6. \A r \in Range(rows) : EntryOf(r) # e /\ (r.mint # e.mint => ExitOf(r) # e)
  BY <1>1, <1>2, EventFacts
<1>7. \A m : m # e.mint => (Completed(m)' <=> Completed(m))
  <2> SUFFICES ASSUME NEW m, m # e.mint PROVE Completed(m)' <=> Completed(m)
    OBVIOUS
  <2>1. Completed(m)' <=> \E i \in 1 .. n + 1 : positions'[i].mint = m
    BY <1>4 DEF Completed
  <2>2. Completed(m) <=> \E i \in 1 .. n : positions[i].mint = m
    BY <1>4 DEF Completed
  <2>3. positions'[n + 1].mint # m
    BY <1>4
  <2> QED
    BY <1>4, <2>1, <2>2, <2>3
<1>8. Scheduled'
  <2>1. \A f \in pending' : \E r \in Range(rows) : HasEntryLiquidity(r) /\ f \in {EntryOf(r), ExitOf(r)}
    BY <1>1, <1>2 DEF Scheduled
  <2>2. ASSUME NEW r \in Range(rows), EntryOf(r) \in pending'
        PROVE  ExitOf(r) \in pending' /\ r.mint \notin DOMAIN open' /\ ~Completed(r.mint)'
    <3>1. ExitOf(r) \in pending /\ r.mint \notin DOMAIN open /\ ~Completed(r.mint)
      BY <1>1, <1>2, <2>2 DEF Scheduled
    <3>2. r.mint # e.mint
      BY <1>2, <3>1
    <3> QED
      BY <1>2, <1>6, <1>7, <3>1, <3>2
  <2>3. ASSUME NEW m \in DOMAIN open' PROVE ~Completed(m)' /\ \E r \in Range(rows) : OpenFor(m, r)'
    <3>1. m \in DOMAIN open /\ m # e.mint
      BY <1>2, <2>3
    <3>2. PICK r \in Range(rows) : OpenFor(m, r)
      BY <1>1, <3>1 DEF Scheduled
    <3>3. ExitOf(r)' \in pending'
      BY <1>2, <1>5, <1>6, <3>1, <3>2 DEF OpenFor
    <3>4. OpenFor(m, r)'
      BY <1>2, <2>3, <3>2, <3>3 DEF OpenFor, HasEntryLiquidity, EntryTime
    <3> QED
      BY <1>1, <1>7, <3>1, <3>4 DEF Scheduled
  <2>4. ASSUME NEW i \in DOMAIN positions' PROVE \E r \in Range(rows) : TripOf(positions[i], r)'
    <3>1. CASE i \in 1 .. n
      <4>1. PICK r \in Range(rows) : TripOf(positions[i], r)
        BY <1>1, <1>4, <3>1 DEF Scheduled
      <4>2. ExitOf(r)' \notin pending'
        BY <1>2, <1>5, <4>1 DEF TripOf
      <4>3. ExitTime(r, stop)' = ExitTime(r, stop) /\ ExitEvent(r, stop)' = ExitEvent(r, stop)
        BY <1>2, StillTheSame
      <4>4. positions'[i] = positions[i]
        BY <1>4, <3>1
      <4>5. TripOf(positions[i], r)'
        BY <1>2, <4>1, <4>2, <4>3, <4>4 DEF TripOf, HasEntryLiquidity, EntryTime
      <4> QED
        BY <4>5
    <3>2. CASE i = n + 1
      <4>1. ExitOf(q)' \notin pending'
        BY <1>2, <1>3, <1>5
      <4>2. ExitTime(q, stop)' = ExitTime(q, stop) /\ ExitEvent(q, stop)' = ExitEvent(q, stop)
        BY <1>2, StillTheSame
      <4>3. PICK p : p = positions'[i]
        OBVIOUS
      <4>4. /\ p.mint = e.mint /\ p.entry = open[e.mint].time /\ p.exit = e.time
            /\ p.in = open[e.mint].sol /\ p.out = Proceeds(e.mint)
        BY <1>4, <3>2, <4>3
      <4>5. TripOf(positions[i], q)'
        BY <1>2, <1>3, <4>1, <4>2, <4>3, <4>4 DEF TripOf, OpenFor, HasEntryLiquidity, EntryTime
      <4> QED
        BY <4>5
    <3> QED
      BY <1>4, <2>4, <3>1, <3>2
  <2>5. \A i, j \in DOMAIN positions' : positions'[i].mint = positions'[j].mint => i = j
    <3>1. \A i, j \in 1 .. n : positions[i].mint = positions[j].mint => i = j
      BY <1>1, <1>4 DEF Scheduled
    <3>2. \A i \in 1 .. n : positions'[i].mint # e.mint
      BY <1>1, <1>2, <1>4 DEF Scheduled, Completed
    <3>3. positions'[n + 1].mint = e.mint
      BY <1>4
    <3> QED
      BY <1>4, <3>1, <3>2, <3>3
  <2> QED
    BY <1>1, <1>2, <1>5, <2>1, <2>2, <2>3, <2>4, <2>5 DEF Scheduled, HasEntryLiquidity
<1>9. Chronological'
  <2> SUFFICES ASSUME NEW f \in pending'
               PROVE  /\ \A m \in DOMAIN open' : open'[m].time <= f.time
                      /\ \A i \in DOMAIN positions' : positions'[i].exit <= f.time
    BY DEF Chronological
  <2>1. f \in pending
    BY <1>2
  <2>2. /\ \A m \in DOMAIN open : open[m].time <= f.time
        /\ \A i \in DOMAIN positions : positions[i].exit <= f.time
    BY <1>1, <2>1 DEF Chronological
  <2>3. positions'[n + 1].exit <= f.time
    BY <1>2, <1>4, <2>1
  <2> QED
    BY <1>2, <1>4, <2>2, <2>3
<1> QED
  BY <1>8, <1>9

LEMMA CloseBalances ==
  ASSUME Folding, BacktestInv, Walking, NEW e, Close(e)
  PROVE  Balanced' /\ Drawn'
<1>1. Scheduled /\ Balanced /\ Drawn
  BY Underway
<1>2. /\ bankroll' = bankroll + Proceeds(e.mint) /\ free' = free + 1 /\ Proceeds(e.mint) \in Nat
      /\ curve' = Append(curve, Equity(bankroll, open)')
      /\ DOMAIN open' = DOMAIN open \ {e.mint} /\ e.mint \in DOMAIN open
      /\ \A m \in DOMAIN open' : open'[m] = open[m]
  BY Closing, Zenon
<1>3. /\ IsFiniteSet(DOMAIN open) /\ free + Cardinality(DOMAIN open) = SlotCount
      /\ Equity(bankroll, open) = Bankroll + Gained /\ curve \in Seq(Int)
      /\ free \in Nat /\ bankroll \in Nat /\ SlotCount \in Nat /\ Bankroll \in Nat
  BY <1>1, BacktestAssumption DEF Balanced, Drawn
<1>4. PICK n \in Nat :
        /\ positions \in Seq(Position) /\ DOMAIN positions = 1 .. n /\ DOMAIN positions' = 1 .. n + 1
        /\ \A i \in 1 .. n : positions'[i] = positions[i]
        /\ positions'[n + 1] =
             [mint |-> e.mint, entry |-> open[e.mint].time, exit |-> e.time,
              in |-> open[e.mint].sol, out |-> Proceeds(e.mint)]
        /\ positions' \in Seq(Position)
  BY LongerBook, Zenon
<1>5. PICK D, x, g, h : D = DOMAIN open /\ x = e.mint /\ g = [m \in DOMAIN open |-> open[m].sol]
                          /\ h = [m \in DOMAIN open' |-> open'[m].sol]
  OBVIOUS
<1>6. /\ IsFiniteSet(D) /\ x \in D /\ \A m \in D : g[m] \in Int
      /\ g[x] = open[x].sol /\ g[x] \in Int /\ \A m \in D \ {x} : h[m] = g[m]
  BY <1>1, <1>2, <1>3, <1>5, OpenType
<1>7. SumFunctionOnSet(g, D) = g[x] + SumFunctionOnSet(g, D \ {x})
  BY <1>6, SumWithout
<1>8. IsFiniteSet(D \ {x}) /\ Cardinality(D \ {x}) = Cardinality(D) - 1
  BY <1>6, FS_RemoveElement
<1>9. SumFunctionOnSet(g, D \ {x}) = SumFunctionOnSet(h, D \ {x})
  BY <1>6, <1>8, SumAlike
<1>10. SumFunctionOnSet(g, D \ {x}) \in Int
  BY <1>6, <1>8, SumIsInt
<1>11. SumFunction(g) = SumFunctionOnSet(g, D) /\ SumFunction(h) = SumFunctionOnSet(h, D \ {x})
  BY <1>2, <1>5 DEF SumFunction
<1>12. Equity(bankroll, open) = bankroll + SumFunction(g)
  BY <1>5 DEF Equity
<1>13. Equity(bankroll, open)' = bankroll' + SumFunction(h)
  BY <1>5 DEF Equity
<1>14. PICK u, v : u = [i \in DOMAIN positions |-> positions[i].out - positions[i].in]
                   /\ v = [i \in DOMAIN positions' |-> positions'[i].out - positions'[i].in]
  OBVIOUS
<1>15. \A i \in 1 .. n : u[i] \in Int
  <2> SUFFICES ASSUME NEW i \in 1 .. n PROVE u[i] \in Int
    OBVIOUS
  <2>1. i \in DOMAIN positions
    BY <1>4
  <2>2. positions[i].in \in Int /\ positions[i].out \in Int
    BY <1>1, <2>1, PositionType
  <2>3. u[i] = positions[i].out - positions[i].in
    BY <1>14, <2>1, Zenon
  <2> QED
    BY <2>2, <2>3
<1>16. v[n + 1] = Proceeds(e.mint) - open[e.mint].sol
  BY <1>4, <1>14
<1>17. DOMAIN u = 1 .. n /\ DOMAIN v = 1 .. n + 1 /\ \A i \in 1 .. n : v[i] = u[i]
  BY <1>4, <1>14
<1>18. SumFunction(v) = SumFunction(u) + v[n + 1]
  <2>1. v[n + 1] \in Int
    BY <1>2, <1>5, <1>6, <1>16
  <2>2. \A i \in 1 .. n : u[i] \in Int /\ v[i] = u[i]
    BY <1>15, <1>17
  <2> QED
    BY <1>17, <2>1, <2>2, SumOfLonger
<1>19. Gained = SumFunction(u) /\ Gained' = SumFunction(v)
  BY <1>14 DEF Gained
<1>20. SumFunction(u) \in Int
  <2>1. IsFiniteSet(1 .. n)
    BY FS_Interval
  <2>2. SumFunctionOnSet(u, 1 .. n) \in Int
    BY <1>15, <2>1, SumIsInt
  <2> QED
    BY <1>17, <2>2 DEF SumFunction
<1>21. Equity(bankroll, open)' = Bankroll + Gained' /\ Equity(bankroll, open)' \in Int
  <2>1. PICK p, k, G, H, U, V :
          /\ p = Proceeds(e.mint) /\ k = g[x] /\ G = SumFunction(g) /\ H = SumFunction(h)
          /\ U = SumFunction(u) /\ V = SumFunction(v)
    OBVIOUS
  <2>2. p \in Nat /\ k \in Int /\ H \in Int /\ U \in Int
    BY <1>2, <1>6, <1>9, <1>10, <1>11, <1>20, <2>1
  <2>3. G = k + H
    BY <1>7, <1>9, <1>11, <2>1
  <2>4. V = U + (p - k)
    BY <1>5, <1>6, <1>16, <1>18, <2>1
  <2>5. bankroll + G = Bankroll + U
    BY <1>3, <1>12, <1>19, <2>1
  <2>6. Equity(bankroll, open)' = bankroll + p + H
    BY <1>2, <1>13, <2>1
  <2>7. Gained' = V
    BY <1>19, <2>1
  <2> QED
    BY <1>3, <2>2, <2>3, <2>4, <2>5, <2>6, <2>7
<1>22. curve' \in Seq(Int) /\ curve' # << >> /\ Last(curve)' = Equity(bankroll, open)'
  BY <1>2, <1>3, <1>21 DEF Last
<1>23. Cardinality(D) \in Nat /\ Cardinality(D) # 0
  BY <1>6, FS_CardinalityType, FS_EmptySet
<1>24. IsFiniteSet(DOMAIN open') /\ free' + Cardinality(DOMAIN open') = SlotCount
  BY <1>2, <1>3, <1>5, <1>8, <1>23
<1>25. bankroll' \in Nat /\ free' \in 0 .. SlotCount
  BY <1>2, <1>3, <1>5, <1>23
<1>26. open' = [m \in DOMAIN open' |-> open'[m]]
  BY DEF Close
<1> QED
  BY <1>4, <1>21, <1>22, <1>24, <1>25, <1>26 DEF Balanced, Drawn

(* What was passed over before a sale could not have been bought: the slot  *)
(* and the SOL that come back were taken at that time.                      *)
LEMMA CloseIsForCause ==
  ASSUME Folding, BacktestInv, Walking, arms' = arms, NEW e, Close(e)
  PROVE  SkippedForCause'
<1>1. /\ Scheduled /\ Balanced /\ SkippedForCause /\ IsFrame(rows) /\ stop \in BOOLEAN
  BY Underway
<1>2. /\ e \in pending /\ pending' = pending \ {e} /\ e.kind = 0 /\ e.time \in Nat
      /\ rows' = rows /\ stop' = stop /\ Proceeds(e.mint) \in Nat
      /\ DOMAIN open' = DOMAIN open \ {e.mint} /\ e.mint \in DOMAIN open
      /\ \A m \in DOMAIN open' : open'[m] = open[m]
      /\ \A f \in pending : e.time <= f.time
  BY Closing, Zenon
<1>3. PICK n \in Nat :
        /\ DOMAIN positions = 1 .. n /\ DOMAIN positions' = 1 .. n + 1
        /\ \A i \in 1 .. n : positions'[i] = positions[i]
        /\ positions'[n + 1] =
             [mint |-> e.mint, entry |-> open[e.mint].time, exit |-> e.time,
              in |-> open[e.mint].sol, out |-> Proceeds(e.mint)]
        /\ positions'[n + 1] \in Position
  BY LongerBook, Zenon
<1>4. open[e.mint].time \in Nat /\ open[e.mint].sol \in Nat \ {0}
  BY <1>3 DEF Position
<1>5. ASSUME NEW t \in Nat, t < e.time PROVE HeldAt(t)' = HeldAt(t)
  <2>1. PICK A, B, x : /\ A = {m \in DOMAIN open : open[m].time <= t}
                       /\ B = {i \in DOMAIN positions :
                                 positions[i].entry <= t /\ t < positions[i].exit}
                       /\ x = e.mint
    OBVIOUS
  <2>2. HeldAt(t) = Cardinality(A) + Cardinality(B)
    BY <2>1 DEF HeldAt
  <2>3. IsFiniteSet(A) /\ IsFiniteSet(B)
    <3>0. IsFiniteSet(1 .. n)
      BY FS_Interval
    <3>1. IsFiniteSet(DOMAIN open) /\ IsFiniteSet(DOMAIN positions)
      BY <1>1, <1>3, <3>0 DEF Balanced
    <3>2. A \in SUBSET DOMAIN open /\ B \in SUBSET DOMAIN positions
      BY <2>1
    <3> QED
      BY <3>1, <3>2, FS_Subset
  <2>4. Cardinality(A) \in Nat /\ Cardinality(B) \in Nat
    BY <2>3, FS_CardinalityType
  <2>5. PICK A2, B2 : /\ A2 = {m \in DOMAIN open' : open'[m].time <= t}
                      /\ B2 = {i \in DOMAIN positions' :
                                 positions'[i].entry <= t /\ t < positions'[i].exit}
    OBVIOUS
  <2>6. HeldAt(t)' = Cardinality(A2) + Cardinality(B2)
    BY <2>5 DEF HeldAt
  <2>7. A2 = A \ {x}
    BY <1>2, <2>1, <2>5
  <2>8. x \in A <=> open[x].time <= t
    BY <1>2, <2>1
  <2>9. n + 1 \notin B
    BY <1>3, <2>1
  <2>10. B2 = IF open[x].time <= t THEN B \cup {n + 1} ELSE B
    <3>1. positions'[n + 1].entry = open[x].time /\ positions'[n + 1].exit = e.time
      BY <1>3, <2>1
    <3>2. \A i \in 1 .. n : i \in B2 <=> i \in B
      BY <1>3, <2>1, <2>5
    <3>3. n + 1 \in B2 <=> open[x].time <= t
      BY <1>3, <1>5, <2>5, <3>1
    <3>4. B2 \subseteq 1 .. n + 1 /\ B \subseteq 1 .. n
      BY <1>3, <2>1, <2>5
    <3>5. 1 .. n + 1 = (1 .. n) \cup {n + 1}
      OBVIOUS
    <3> QED
      BY <3>2, <3>3, <3>4, <3>5
  <2>11. Cardinality(A \ {x}) = IF x \in A THEN Cardinality(A) - 1 ELSE Cardinality(A)
    BY <2>3, FS_RemoveElement
  <2>12. Cardinality(B \cup {n + 1}) = Cardinality(B) + 1
    BY <2>3, <2>9, FS_AddElement
  <2> QED
    BY <2>2, <2>4, <2>6, <2>7, <2>8, <2>10, <2>11, <2>12
<1>6. ASSUME NEW t \in Nat, t < e.time PROVE IdleSoFar(t)' = IdleSoFar(t)
  <2>1. PICK D, x, g, h : /\ D = DOMAIN open /\ x = e.mint
                          /\ g = [m \in DOMAIN open |-> IF open[m].time <= t THEN open[m].sol ELSE 0]
                          /\ h = [m \in DOMAIN open' |-> IF open'[m].time <= t THEN open'[m].sol ELSE 0]
    OBVIOUS
  <2>2. PICK u, v : /\ u = [i \in DOMAIN positions |-> Moved(positions[i], t)]
                    /\ v = [i \in DOMAIN positions' |-> Moved(positions'[i], t)]
    OBVIOUS
  <2>3. /\ IsFiniteSet(D) /\ x \in D /\ DOMAIN g = D /\ DOMAIN h = D \ {x}
        /\ \A m \in D : g[m] \in Int
    BY <1>1, <1>2, <2>1, OpenType DEF Balanced
  <2>4. \A m \in D \ {x} : h[m] = g[m]
    BY <1>2, <2>1, <2>3
  <2>5. SumFunctionOnSet(g, D) = g[x] + SumFunctionOnSet(g, D \ {x})
    BY <2>3, SumWithout
  <2>6. IsFiniteSet(D \ {x})
    BY <2>3, FS_RemoveElement
  <2>7. SumFunctionOnSet(g, D \ {x}) = SumFunctionOnSet(h, D \ {x})
    BY <2>4, <2>6, SumAlike
  <2>8. SumFunctionOnSet(g, D \ {x}) \in Int
    BY <2>3, <2>6, SumIsInt
  <2>9. \A i \in 1 .. n : u[i] \in Int /\ v[i] = u[i]
    BY <1>1, <1>3, <2>2, PositionType DEF Moved
  <2>10. v[n + 1] = -g[x] /\ v[n + 1] \in Int
    <3>1. PICK p : p = positions'[n + 1]
      OBVIOUS
    <3>2. p.entry = open[x].time /\ p.exit = e.time /\ p.in = open[x].sol
      BY <1>3, <2>1, <3>1
    <3>3. v[n + 1] = Moved(p, t)
      BY <1>3, <2>2, <3>1
    <3>4. g[x] = IF open[x].time <= t THEN open[x].sol ELSE 0
      BY <1>2, <2>1
    <3> QED
      BY <1>2, <1>4, <1>6, <2>1, <3>2, <3>3, <3>4 DEF Moved
  <2>11. DOMAIN u = 1 .. n /\ DOMAIN v = 1 .. n + 1
    BY <1>3, <2>2
  <2>12. SumFunction(v) = SumFunction(u) + v[n + 1]
    BY <2>9, <2>10, <2>11, SumOfLonger
  <2>13. SumFunction(u) \in Int
    <3>1. IsFiniteSet(1 .. n)
      BY FS_Interval
    <3>2. SumFunctionOnSet(u, 1 .. n) \in Int
      BY <2>9, <3>1, SumIsInt
    <3> QED
      BY <2>11, <3>2 DEF SumFunction
  <2>14. PICK k, G, H, U, V : /\ k = g[x] /\ G = SumFunction(g) /\ H = SumFunction(h)
                              /\ U = SumFunction(u) /\ V = SumFunction(v)
    OBVIOUS
  <2>15. k \in Int /\ H \in Int /\ U \in Int /\ G = k + H /\ V = U + (-k)
    BY <2>3, <2>5, <2>7, <2>8, <2>10, <2>12, <2>13, <2>14 DEF SumFunction
  <2>16. IdleSoFar(t) = (Bankroll + U) - G
    <3>1. IdleAt(t) = Bankroll + SumFunction(u)
      BY <2>2, Zenon DEF IdleAt
    <3>2. IdleSoFar(t) = IdleAt(t) - SumFunction(g)
      BY <2>1, Zenon DEF IdleSoFar
    <3> QED
      BY <2>14, <3>1, <3>2
  <2>17. IdleSoFar(t)' = (Bankroll + V) - H
    <3>1. IdleAt(t)' = Bankroll + SumFunction(v)
      BY <2>2, Zenon DEF IdleAt
    <3>2. IdleSoFar(t)' = IdleAt(t)' - SumFunction(h)
      BY <2>1, Zenon DEF IdleSoFar
    <3> QED
      BY <2>14, <3>1, <3>2
  <2> QED
    BY <2>15, <2>16, <2>17, BacktestAssumption
<1> SUFFICES ASSUME Head(arms) \in {"buy_everything", Candidate}, NEW r \in Range(rows),
                    PassedOver(r)'
             PROVE  NothingWasLeft(EntryTime(r))'
  BY <1>2 DEF SkippedForCause
<1>7. PICK t \in Nat : t = EntryTime(r)
  BY <1>1, EventFacts
<1>8. /\ HasEntryLiquidity(r) /\ EntryOf(r) \notin pending \ {e} /\ r.mint \notin DOMAIN open'
      /\ ~Completed(r.mint)'
  BY <1>2, StillTheSame DEF PassedOver, HasEntryLiquidity
<1>9. r.mint # e.mint
  <2>1. Completed(e.mint)'
    <3>1. n + 1 \in DOMAIN positions' /\ positions'[n + 1].mint = e.mint
      BY <1>3
    <3> QED
      BY <3>1 DEF Completed
  <2>2. \A m : m = e.mint => (Completed(m)' <=> Completed(e.mint)')
    BY DEF Completed
  <2> QED
    BY <1>8, <2>1, <2>2
<1>10. ~Completed(r.mint)
  <2> SUFFICES ASSUME Completed(r.mint) PROVE FALSE
    OBVIOUS
  <2>1. PICK i \in 1 .. n : positions[i].mint = r.mint
    BY <1>3 DEF Completed
  <2>2. i \in DOMAIN positions' /\ positions'[i].mint = r.mint
    BY <1>3, <2>1
  <2> QED
    BY <1>2, <1>8, <2>2 DEF Completed
<1>11. EntryOf(r) # e
  BY <1>1, <1>2, EventFacts
<1>12. PassedOver(r)
  BY <1>2, <1>8, <1>9, <1>10, <1>11 DEF PassedOver
<1>13. NothingWasLeft(t)
  BY <1>1, <1>7, <1>12 DEF SkippedForCause
<1>14. t < e.time
  BY <1>2, <1>13 DEF NothingWasLeft
<1>15. \A f \in pending' : f.time > t
  <2> SUFFICES ASSUME NEW f \in pending' PROVE f.time > t
    OBVIOUS
  <2>1. f \in pending /\ f.time \in Nat
    BY <1>2, EventTimes
  <2> QED
    BY <1>2, <1>14, <2>1
<1>16. NothingWasLeft(t)'
  BY <1>5, <1>6, <1>13, <1>14, <1>15 DEF NothingWasLeft
<1> QED
  BY <1>7, <1>16 DEF EntryTime

LEMMA WalkKeeps == Folding /\ BacktestInv /\ Walk => BacktestInv'
<1> SUFFICES ASSUME Folding, BacktestInv, Walk PROVE BacktestInv'
  OBVIOUS
<1>1. Walking /\ arms' = arms
  BY DEF Walk, Walking
<1>2. PICK e \in pending : Enter(e) \/ Skip(e) \/ Close(e) \/ Miss(e)
  BY DEF Walk
<1>3. Scheduled' /\ Chronological' /\ Balanced' /\ Drawn'
  BY <1>1, <1>2, PassingKeepsSchedule, EnterKeepsSchedule, EnterBalances, CloseKeepsSchedule,
     CloseBalances
<1>4. SkippedForCause'
  BY <1>1, <1>2, SkipIsForCause, MissIsForCause, EnterIsForCause, CloseIsForCause
<1>5. IsFrame(rows)'
  <2>1. rows' = rows
    BY <1>2 DEF Enter, Skip, Close, Miss
  <2> QED
    BY <2>1 DEF BacktestInv, IsFrame
<1> QED
  BY <1>3, <1>4, <1>5 DEF BacktestInv

LEMMA BacktestStays ==
  BacktestInv /\ UNCHANGED backtestVars /\ (Walking' => UNCHANGED <<pc, arms>>) => BacktestInv'
<1> SUFFICES ASSUME BacktestInv, UNCHANGED backtestVars, Walking' => UNCHANGED <<pc, arms>>
             PROVE  BacktestInv'
  OBVIOUS
<1>1. /\ rows' = rows /\ stop' = stop /\ pending' = pending /\ bankroll' = bankroll /\ free' = free
      /\ open' = open /\ positions' = positions /\ curve' = curve
  BY DEF backtestVars
<1>2. IsFrame(rows) /\ Scheduled /\ Chronological /\ Balanced
  BY DEF BacktestInv
<1>3. Scheduled'
  <2>1. \A r : EntryOf(r)' = EntryOf(r) /\ ExitOf(r)' = ExitOf(r)
    BY <1>1, StillTheSame
  <2>2. \A r : ExitTime(r, stop)' = ExitTime(r, stop) /\ ExitEvent(r, stop)' = ExitEvent(r, stop)
    BY <1>1, StillTheSame
  <2>3. \A m, r : OpenFor(m, r)' <=> OpenFor(m, r)
    BY <1>1, <2>1 DEF OpenFor, HasEntryLiquidity, EntryTime
  <2>4. \A p, r : TripOf(p, r)' <=> TripOf(p, r)
    BY <1>1, <2>1, <2>2 DEF TripOf, HasEntryLiquidity, EntryTime
  <2>5. \A m : Completed(m)' <=> Completed(m)
    BY <1>1 DEF Completed
  <2>6. \A i \in DOMAIN positions, r \in Range(rows) :
          TripOf(positions[i], r)' <=> TripOf(positions[i], r)
    BY <1>1, <2>4
  <2> QED
    BY <1>1, <1>2, <2>1, <2>3, <2>5, <2>6 DEF Scheduled, HasEntryLiquidity
<1>4. IsFrame(rows)' /\ Chronological' /\ Balanced'
  BY <1>1, <1>2 DEF IsFrame, Chronological, Balanced, Equity, Gained
<1>5. \A t : NothingWasLeft(t)' <=> NothingWasLeft(t)
  BY <1>1 DEF NothingWasLeft, HeldAt, IdleSoFar, IdleAt, Slice
<1>6. \A r : PassedOver(r)' <=> PassedOver(r)
  BY <1>1 DEF PassedOver, EntryOf, EntryTime, HasEntryLiquidity, Completed
<1>7. \A r : EntryTime(r)' = EntryTime(r)
  BY DEF EntryTime
<1>8. ASSUME Walking' PROVE Drawn' /\ SkippedForCause'
  <2>1. Walking /\ arms' = arms
    BY <1>8 DEF Walking
  <2>2. Drawn /\ SkippedForCause
    BY <2>1 DEF BacktestInv
  <2>3. Drawn'
    BY <1>1, <2>2 DEF Drawn, Equity
  <2> SUFFICES ASSUME Head(arms) \in {"buy_everything", Candidate}, NEW r \in Range(rows),
                      PassedOver(r)'
               PROVE  NothingWasLeft(EntryTime(r))'
    BY <1>1, <2>1, <2>3 DEF SkippedForCause
  <2>4. PICK t : t = EntryTime(r)
    OBVIOUS
  <2>5. NothingWasLeft(t)
    BY <1>6, <2>2, <2>4 DEF SkippedForCause
  <2>6. NothingWasLeft(t)'
    BY <1>5, <2>5
  <2> QED
    BY <2>4, <2>6 DEF EntryTime
<1> QED
  BY <1>3, <1>4, <1>8 DEF BacktestInv

(* The backtest goes on as BacktestInv says, whatever the step.             *)
LEMMA BacktestHolds == Folding /\ BacktestInv /\ [Next]_vars => BacktestInv'
<1> SUFFICES ASSUME Folding, BacktestInv, [Next]_vars PROVE BacktestInv'
  OBVIOUS
<1>1. CASE Load \/ SkipFold \/ Train \/ FinishArm \/ EndFold \/ WriteReport
  <2>1. pc' # "backtest" /\ UNCHANGED backtestVars
    BY <1>1 DEF Load, SkipFold, Train, FinishArm, EndFold, WriteReport
  <2> QED
    BY <2>1, BacktestStays DEF Walking
<1>2. CASE \E b \in SUBSET Mints(frame) : StartArm(b)
  BY <1>2, BacktestBegins
<1>3. CASE Walk
  BY <1>3, WalkKeeps
<1>4. CASE UNCHANGED vars
  BY <1>4, BacktestStays DEF vars
<1> QED
  BY <1>1, <1>2, <1>3, <1>4 DEF Next

(* Both hold throughout: the folds are as Folding says, and each backtest   *)
(* as BacktestInv does.                                                     *)
THEOREM BacktestIsSound == Spec => [](Folding /\ BacktestInv)
<1>1. Init => Folding /\ BacktestInv
  BY FoldingStarts
<1>2. (Folding /\ BacktestInv) /\ [Next]_vars => (Folding /\ BacktestInv)'
  BY FoldingHolds, BacktestHolds
<1> QED
  BY <1>1, <1>2, PTL DEF Spec

-----------------------------------------------------------------------------
(* What follows.                                                            *)

LEMMA TypesHold == Folding /\ BacktestInv => TypeOK
<1> SUFFICES ASSUME Folding, BacktestInv PROVE TypeOK
  OBVIOUS
<1>1. Scheduled /\ Balanced /\ IsFrame(rows) /\ IsFrame(frame)
  BY DEF Folding, BacktestInv
<1>2. \A r \in Range(frame) : r.quote \in Nat \ {0} /\ Len(r.snaps) = Days
  <2> SUFFICES ASSUME NEW r \in Range(frame) PROVE r.quote \in Nat \ {0} /\ Len(r.snaps) = Days
    OBVIOUS
  <2>1. r \in FrameRow
    BY <1>1, FrameType
  <2>2. PICK s : s = r.snaps
    OBVIOUS
  <2>3. s \in [1 .. Days -> Pool] /\ r.quote \in Nat \ {0}
    BY <2>1, <2>2 DEF FrameRow
  <2>4. Days \in Nat
    BY GraduationsAssumption
  <2>5. s \in Seq(Pool) /\ DOMAIN s = 1 .. Days
    BY <2>3, <2>4, SeqDef
  <2>6. Len(s) = Days
    BY <2>4, <2>5
  <2> QED
    BY <2>2, <2>3, <2>6
<1>3. \A m \in DOMAIN open : open[m].sol \in Nat \ {0} /\ open[m].tokens \in Nat
  <2> SUFFICES ASSUME NEW m \in DOMAIN open
               PROVE  open[m].sol \in Nat \ {0} /\ open[m].tokens \in Nat
    OBVIOUS
  <2>1. PICK r \in Range(rows) : OpenFor(m, r)
    BY <1>1 DEF Scheduled
  <2>2. r \in FrameRow
    BY <1>1, FrameType
  <2>3. r.base \in Int /\ r.quote \in Int
    BY <2>2 DEF FrameRow, Number, NaN
  <2>4. open[m].sol \in Nat \ {0} /\ open[m].tokens = Swapped(open[m].sol, r.quote, r.base)
    BY <2>1 DEF OpenFor, EntryFill
  <2>5. Swapped(open[m].sol, r.quote, r.base) \in Nat
    <3>1. PICK x \in Int, y \in Int, z \in Int : x = open[m].sol /\ y = r.quote /\ z = r.base
      BY <2>3, <2>4
    <3>2. Swapped(x, y, z) \in Nat
      BY FillType
    <3> QED
      BY <3>1, <3>2
  <2> QED
    BY <2>4, <2>5
<1>4. \A p \in Range(positions) : p.in \in Nat \ {0} /\ p.out \in Nat
  BY <1>1, PositionType DEF Range
<1>5. \A a \in DOMAIN results : \A r \in Range(results[a]) : r.curve # << >>
  <2> SUFFICES ASSUME NEW a \in DOMAIN results, NEW r \in Range(results[a]) PROVE r.curve # << >>
    OBVIOUS
  <2>1. PICK R, s : R = [month : Nat, curve : Seq(Int) \ {<< >>}] /\ s = results[a]
    OBVIOUS
  <2>2. results \in [Range(Arms) -> Seq(R)]
    BY <2>1 DEF Folding
  <2>3. s \in Seq(R)
    BY <2>1, <2>2
  <2>4. PICK i \in DOMAIN s : r = s[i]
    BY <2>1 DEF Range
  <2>5. r \in R
    BY <2>3, <2>4
  <2> QED
    BY <2>1, <2>5
<1>6. bankroll \in Nat /\ free \in 0 .. SlotCount
  BY <1>1 DEF Balanced
<1>7. pc \in {"load", "folds", "arms", "backtest", "done"} /\ basket \subseteq Mints(frame)
  BY DEF Folding
<1> QED
  BY <1>2, <1>3, <1>4, <1>5, <1>6, <1>7 DEF TypeOK

LEMMA TripsEnd ==
  BacktestInv =>
    /\ \A p \in Range(positions) : p.entry < p.exit
    /\ \A i, j \in DOMAIN positions : positions[i].mint = positions[j].mint => i = j
<1> SUFFICES ASSUME BacktestInv, NEW i \in DOMAIN positions
             PROVE  positions[i].entry < positions[i].exit
  BY DEF BacktestInv, Scheduled, Range
<1>1. Scheduled /\ IsFrame(rows)
  BY DEF BacktestInv
<1>2. PICK r \in Range(rows) : TripOf(positions[i], r)
  BY <1>1 DEF Scheduled
<1>3. EntryTime(r) < ExitTime(r, stop)
  BY <1>1, EventFacts DEF Scheduled
<1> QED
  BY <1>2, <1>3 DEF TripOf

LEMMA NothingOpenAtTheEnd ==
  ASSUME BacktestInv, pending = {}
  PROVE  DOMAIN open = {} /\ open = << >> /\ free = SlotCount
<1>1. Scheduled /\ Balanced
  BY DEF BacktestInv
<1>2. DOMAIN open = {}
  BY <1>1 DEF Scheduled, OpenFor
<1>3. open = << >>
  <2>1. open = [m \in DOMAIN open |-> open[m]]
    BY <1>1 DEF Balanced
  <2> QED
    BY <1>2, <2>1
<1>4. Cardinality(DOMAIN open) = 0
  BY <1>2, FS_EmptySet
<1>5. free \in Nat /\ free + Cardinality(DOMAIN open) = SlotCount
  BY <1>1, BacktestAssumption DEF Balanced
<1> QED
  BY <1>2, <1>3, <1>4, <1>5

(* At the end, what was held is counted by round trips.                     *)
LEMMA HeldAtTheEnd ==
  ASSUME BacktestInv, pending = {}, NEW t \in Nat
  PROVE  HeldAt(t) = Held(t) /\ IdleSoFar(t) = IdleAt(t)
<1>1. Scheduled /\ Balanced /\ DOMAIN open = {}
  BY NothingOpenAtTheEnd DEF BacktestInv
<1>2. PICK n \in Nat : DOMAIN positions = 1 .. n
  BY <1>1 DEF Balanced
<1>3. PICK B, P : /\ B = {i \in DOMAIN positions : positions[i].entry <= t /\ t < positions[i].exit}
                  /\ P = {p \in Range(positions) : p.entry <= t /\ t < p.exit}
  OBVIOUS
<1>4. IsFiniteSet(B)
  <2>1. IsFiniteSet(1 .. n) /\ B \in SUBSET (1 .. n)
    BY <1>2, <1>3, FS_Interval
  <2> QED
    BY <2>1, FS_Subset
<1>5. PICK f : f = [i \in B |-> positions[i]]
  OBVIOUS
<1>6. f \in Surjection(B, P)
  BY <1>3, <1>5 DEF Surjection, Range
<1>7. \A i, j \in DOMAIN positions : positions[i].mint = positions[j].mint => i = j
  BY <1>1 DEF Scheduled
<1>8. f \in Injection(B, P)
  <2>1. \A i \in B : i \in DOMAIN positions /\ f[i] = positions[i]
    BY <1>3, <1>5
  <2>2. \A i, j \in B : f[i] = f[j] => i = j
    BY <1>7, <2>1
  <2>3. f \in [B -> P]
    BY <1>6 DEF Surjection
  <2>4. IsInjective(f)
    BY <2>2, <2>3 DEF IsInjective
  <2> QED
    BY <2>3, <2>4 DEF Injection
<1>9. Cardinality(P) = Cardinality(B) /\ Cardinality(B) \in Nat
  <2>1. Cardinality(P) = Cardinality(B) <=> f \in Injection(B, P)
    BY <1>4, <1>6, FS_Surjection
  <2>2. Cardinality(B) \in Nat
    BY <1>4, FS_CardinalityType
  <2> QED
    BY <1>8, <2>1, <2>2
<1>10. HeldAt(t) = Cardinality({}) + Cardinality(B)
  <2>1. {m \in DOMAIN open : open[m].time <= t} = {}
    BY <1>1
  <2> QED
    BY <1>3, <2>1 DEF HeldAt
<1>11. Cardinality({}) = 0
  BY FS_EmptySet
<1>12. Held(t) = Cardinality(P)
  BY <1>3 DEF Held
<1>13. HeldAt(t) = Held(t)
  BY <1>9, <1>10, <1>11, <1>12
<1>14. SumFunction([m \in DOMAIN open |-> IF open[m].time <= t THEN open[m].sol ELSE 0]) = 0
  BY <1>1, SumOfNothing DEF SumFunction
<1>15. IdleAt(t) \in Int
  <2>1. PICK u : u = [i \in DOMAIN positions |-> Moved(positions[i], t)]
    OBVIOUS
  <2>2. DOMAIN u = 1 .. n /\ \A i \in 1 .. n : u[i] \in Int
    BY <1>1, <1>2, <2>1, PositionType DEF Moved
  <2>3. IsFiniteSet(1 .. n)
    BY FS_Interval
  <2>4. SumFunctionOnSet(u, 1 .. n) \in Int
    BY <2>2, <2>3, SumIsInt
  <2>5. SumFunction(u) \in Int
    BY <2>2, <2>4 DEF SumFunction
  <2> QED
    BY <2>1, <2>5, BacktestAssumption DEF IdleAt
<1>16. IdleSoFar(t) = IdleAt(t)
  BY <1>14, <1>15 DEF IdleSoFar
<1> QED
  BY <1>13, <1>16

LEMMA SlotsAndMoneyFollow == Folding /\ BacktestInv => SlotsAndMoney
<1> SUFFICES ASSUME Folding, BacktestInv PROVE SlotsAndMoney
  OBVIOUS
<1>1. TypeOK
  BY TypesHold
<1>2. NothingIsLost
  BY DEF BacktestInv, NothingIsLost, Balanced, Drawn
<1>3. EveryEntryExits
  BY TripsEnd, NothingOpenAtTheEnd DEF EveryEntryExits
<1>4. NoNeedlessSkip
  <2> SUFFICES ASSUME Walking, pending = {}, Head(arms) \in {"buy_everything", Candidate},
                      NEW r \in Range(rows), HasEntryLiquidity(r),
                      \A p \in Range(positions) : p.mint # r.mint
               PROVE  \/ Held(EntryTime(r)) = SlotCount
                      \/ IdleAt(EntryTime(r)) < SlotCount - Held(EntryTime(r))
    BY DEF NoNeedlessSkip
  <2>1. DOMAIN open = {}
    BY NothingOpenAtTheEnd
  <2>2. PassedOver(r)
    BY <2>1 DEF PassedOver, Completed, Range
  <2>3. NothingWasLeft(EntryTime(r))
    BY <2>2 DEF BacktestInv, SkippedForCause
  <2>4. EntryTime(r) \in Nat
    BY EventFacts DEF BacktestInv, Scheduled
  <2>5. /\ HeldAt(EntryTime(r)) = Held(EntryTime(r)) /\ IdleSoFar(EntryTime(r)) = IdleAt(EntryTime(r))
    BY <2>4, HeldAtTheEnd
  <2> QED
    BY <2>3, <2>5 DEF NothingWasLeft
<1> QED
  BY <1>1, <1>2, <1>3, <1>4 DEF SlotsAndMoney

(* A backtest makes or loses neither SOL nor slots, closes what it opened,  *)
(* and passes over no token for which it had both.                          *)
THEOREM CapitalIsKeptAtWork == Spec => []SlotsAndMoney
BY BacktestIsSound, SlotsAndMoneyFollow, PTL

LEMMA Times == \A a, b \in Nat : a * b \in Nat /\ a * b = b * a
OBVIOUS

LEMMA TimesMonotone ==
  ASSUME NEW a \in Nat, NEW b \in Nat, NEW c \in Nat, a <= b
  PROVE  a * c <= b * c
<1>1. PICK d \in Nat : b = a + d
  <2>1. b - a \in Nat /\ b = a + (b - a)
    OBVIOUS
  <2> QED
    BY <2>1
<1>2. b * c = a * c + d * c
  BY <1>1
<1>3. a * c \in Nat /\ d * c \in Nat
  BY <1>1, Times
<1> QED
  BY <1>2, <1>3

(* A swap fetches no more than the price before it promised.                *)
LEMMA SwapIsNoGift ==
  ASSUME NEW x \in Nat \ {0}, NEW into \in Nat \ {0}, NEW out \in Nat \ {0}
  PROVE  Swapped(x, into, out) * into <= out * x
<1>1. PICK k \in Nat : k = 100 - FeePct /\ k <= 100
  BY FeeAssumption
<1>2. PICK a \in Nat, b \in Nat : a = out * x /\ b = x * k
  BY Times
<1>3. PICK y \in Nat : y = Swapped(x, into, out)
  <2>1. x \in Int /\ into \in Int /\ out \in Int
    OBVIOUS
  <2>2. Swapped(x, into, out) \in Nat
    BY <2>1, FillType
  <2> QED
    BY <2>2
<1>4. y = (a * k) \div (100 * into + b)
  BY <1>1, <1>2, <1>3 DEF Swapped
<1>5. \A n \in Nat, d \in Nat \ {0} : (n \div d) * d <= n
  OBVIOUS
<1>6. a * k \in Nat /\ 100 * into + b \in Nat \ {0}
  BY <1>1, <1>2, Times
<1>7. y * (100 * into + b) <= a * k
  BY <1>4, <1>5, <1>6
<1>8. y * (100 * into + b) = 100 * (y * into) + y * b
  <2>1. \A p, q, r \in Nat : p * (100 * q + r) = 100 * (p * q) + p * r
    OBVIOUS
  <2> QED
    BY <1>2, <1>3, <2>1
<1>9. a * k <= 100 * a
  <2>1. k * a <= 100 * a
    BY <1>1, <1>2, TimesMonotone
  <2> QED
    BY <1>1, <1>2, <2>1, Times
<1>10. y * into \in Nat /\ y * b \in Nat
  BY <1>2, <1>3, Times
<1>11. 100 * (y * into) <= 100 * a
  BY <1>2, <1>6, <1>7, <1>8, <1>9, <1>10
<1>12. y * into <= a
  BY <1>2, <1>10, <1>11
<1> QED
  BY <1>2, <1>3, <1>12

(* In and out again, a gain needs a better price.                           *)
LEMMA GainNeedsPrice ==
  ASSUME NEW i \in Nat \ {0}, NEW b \in Nat \ {0}, NEW q \in Nat \ {0}, NEW B \in Int, NEW Q \in Int,
         ExitFill(EntryFill(i, b, q), B, Q) > i
  PROVE  B > 0 /\ Q * b > q * B
<1>1. PICK t \in Nat, o \in Nat : t = Swapped(i, q, b) /\ o = Swapped(t, B, Q)
  <2>1. PICK t : t = Swapped(i, q, b)
    OBVIOUS
  <2>2. i \in Int /\ q \in Int /\ b \in Int
    OBVIOUS
  <2>3. t \in Nat /\ t \in Int
    BY <2>1, <2>2, FillType
  <2>4. Swapped(t, B, Q) \in Nat
    BY <2>3, FillType
  <2> QED
    BY <2>1, <2>3, <2>4
<1>2. o > i
  BY <1>1 DEF EntryFill, ExitFill
<1>3. t \in Nat \ {0} /\ B \in Nat \ {0} /\ Q \in Nat \ {0}
  BY <1>1, <1>2 DEF Swapped
<1>4. t * q <= b * i
  BY <1>1, SwapIsNoGift
<1>5. o * B <= Q * t
  BY <1>1, <1>3, SwapIsNoGift
<1> SUFFICES ASSUME Q * b <= q * B PROVE FALSE
  <2>1. Q * b \in Int /\ q * B \in Int
    BY <1>3, Times
  <2> QED
    BY <1>3, <2>1
<1>6. PICK n \in Nat : n = B * q
  BY <1>3, Times
<1>7. (o * B) * q <= (Q * t) * q
  <2>1. o * B \in Nat /\ Q * t \in Nat
    BY <1>1, <1>3, Times
  <2> QED
    BY <1>5, <2>1, TimesMonotone
<1>8. (t * q) * Q <= (b * i) * Q
  <2>1. t * q \in Nat /\ b * i \in Nat
    BY <1>1, Times
  <2> QED
    BY <1>3, <1>4, <2>1, TimesMonotone
<1>9. (Q * b) * i <= (q * B) * i
  <2>1. Q * b \in Nat /\ q * B \in Nat
    BY <1>3, Times
  <2> QED
    BY <2>1, TimesMonotone
<1>10. \A x, y, z \in Nat : (x * y) * z = (y * z) * x /\ (x * y) * z = x * (y * z)
  OBVIOUS
<1>11. /\ (o * B) * q = o * n /\ (Q * t) * q = (t * q) * Q /\ (b * i) * Q = (Q * b) * i
       /\ (q * B) * i = i * n
  <2>1. (o * B) * q = o * n
    BY <1>1, <1>3, <1>6, <1>10
  <2>2. (Q * t) * q = (t * q) * Q
    BY <1>1, <1>3, <1>10
  <2>3. (b * i) * Q = (Q * b) * i
    BY <1>3, <1>10
  <2>4. (q * B) * i = i * n
    BY <1>3, <1>6, Times
  <2> QED
    BY <2>1, <2>2, <2>3, <2>4
<1>12. o * n <= i * n
  <2>1. PICK u, v, w, x : u = o * n /\ v = (t * q) * Q /\ w = (Q * b) * i /\ x = i * n
    OBVIOUS
  <2>2. u \in Nat /\ v \in Nat /\ w \in Nat /\ x \in Nat
    BY <1>1, <1>3, <1>6, <2>1, Times
  <2>3. u <= v /\ v <= w /\ w <= x
    BY <1>7, <1>8, <1>9, <1>11, <2>1
  <2> QED
    BY <2>1, <2>2, <2>3
<1>13. n # 0
  <2>1. \A x, y \in Nat \ {0} : x * y # 0
    OBVIOUS
  <2> QED
    BY <1>3, <1>6, <2>1
<1>14. (i + 1) * n <= o * n
  BY <1>1, <1>2, <1>6, TimesMonotone
<1>15. (i + 1) * n = i * n + n /\ i * n \in Nat /\ o * n \in Nat
  BY <1>1, <1>6, Times
<1> QED
  BY <1>6, <1>12, <1>13, <1>14, <1>15

LEMMA ProfitFollows == BacktestInv => ProfitIsLabelled
<1> SUFFICES ASSUME BacktestInv, ~stop, NEW p \in Range(positions), p.out > p.in
             PROVE  Label(Row(rows, p.mint))
  BY DEF ProfitIsLabelled
<1>1. Scheduled /\ IsFrame(rows)
  BY DEF BacktestInv
<1>2. PICK r \in Range(rows) : TripOf(p, r)
  BY <1>1 DEF Scheduled, Range
<1>3. Row(rows, p.mint) = r
  BY <1>1, <1>2, EventFacts DEF Scheduled, TripOf
<1>4. r \in FrameRow
  BY <1>1, FrameType
<1>5. ExitEvent(r, stop).base = r.outcome.base /\ ExitEvent(r, stop).quote = r.outcome.quote
  BY DEF ExitEvent
<1>6. /\ p.out = ExitFill(EntryFill(p.in, r.base, r.quote), r.outcome.base, r.outcome.quote)
      /\ HasEntryLiquidity(r) /\ p.in \in Nat \ {0}
  BY <1>2, <1>5 DEF TripOf
<1>7. r.base \in Nat \ {0} /\ r.quote \in Nat \ {0} /\ r.outcome.base \in Int /\ r.outcome.quote \in Int
  BY <1>4, <1>6 DEF FrameRow, Number, NaN, Pool, HasEntryLiquidity
<1>8. PICK i \in Nat \ {0}, b \in Nat \ {0}, q \in Nat \ {0}, B \in Int, Q \in Int :
        i = p.in /\ b = r.base /\ q = r.quote /\ B = r.outcome.base /\ Q = r.outcome.quote
  BY <1>6, <1>7
<1>9. ExitFill(EntryFill(i, b, q), B, Q) > i
  BY <1>6, <1>8
<1>10. B > 0 /\ Q * b > q * B
  BY <1>9, GainNeedsPrice
<1>11. Label(r)
  BY <1>8, <1>10 DEF Label
<1> QED
  BY <1>3, <1>11

(* Fees, slippage and rounding only ever take away: what earned more than   *)
(* it cost had the label that the model is taught.                          *)
THEOREM ProfitsAreLabelled == Spec => []ProfitIsLabelled
BY BacktestIsSound, ProfitFollows, PTL

LEMMA LaterDays ==
  ASSUME NEW i \in Nat \ {0}, NEW k \in Nat \ {0}, k <= i
  PROVE  k * Day \in Nat /\ i * Day \in Nat /\ k * Day <= i * Day /\ EntryOffset < k * Day
<1>1. Day \in Nat \ {0} /\ EntryOffset \in 0 .. Day - 1
  BY GraduationsAssumption, BacktestAssumption
<1>2. k * Day \in Nat /\ i * Day \in Nat
  BY <1>1, Times
<1>3. k * Day <= i * Day
  BY <1>1, TimesMonotone
<1>4. 1 * Day <= k * Day
  BY <1>1, TimesMonotone
<1>5. EntryOffset < k * Day
  BY <1>1, <1>2, <1>4
<1> QED
  BY <1>2, <1>3, <1>5

LEMMA StopFollows == BacktestInv => StopLimitsHold
<1> SUFFICES ASSUME BacktestInv, stop, NEW p \in Range(positions)
             PROVE  LET r == Row(rows, p.mint)
                        below(i) == r.snaps[i].quote \in Nat /\ r.snaps[i].base \in Nat
                                      /\ 100 * r.snaps[i].quote < StopPct * r.quote
                    IN /\ \A i \in 1 .. Days : below(i) => p.exit <= r.time + i * Day
                       /\ \/ p.exit = r.checked \/ p.exit = p.entry + 1
                          \/ \E i \in 1 .. Days : below(i) /\ p.exit = r.time + i * Day
  BY DEF StopLimitsHold
<1>1. Scheduled /\ IsFrame(rows)
  BY DEF BacktestInv
<1>2. PICK r \in Range(rows) : TripOf(p, r)
  BY <1>1 DEF Scheduled, Range
<1>3. Row(rows, p.mint) = r
  BY <1>1, <1>2, EventFacts DEF Scheduled, TripOf
<1>4. r \in FrameRow
  BY <1>1, FrameType
<1>5. /\ p.entry = EntryTime(r) /\ p.exit = ExitTime(r, stop) /\ EntryTime(r) = r.time + EntryOffset
      /\ r.time \in Nat /\ EntryOffset \in Nat /\ r.snaps \in [1 .. Days -> Pool]
  BY <1>2, <1>4, BacktestAssumption, GraduationsAssumption DEF TripOf, EntryTime, FrameRow
<1> DEFINE below(i) == r.snaps[i].quote \in Nat /\ r.snaps[i].base \in Nat
                         /\ 100 * r.snaps[i].quote < StopPct * r.quote
<1>6. \A i : i \in Stops(r) <=> i \in 1 .. Days /\ below(i)
  <2>1. \A i \in 1 .. Days : r.snaps[i] \in Pool
    BY <1>5
  <2>2. \A i \in 1 .. Days : /\ r.snaps[i].base \in Nat <=> r.snaps[i].base # NaN
                             /\ r.snaps[i].quote \in Nat <=> r.snaps[i].quote # NaN
    BY <2>1 DEF Pool, Number, NaN
  <2> QED
    BY <2>2 DEF Stops
<1> HIDE DEF below
<1>7. CASE Stops(r) = {}
  <2>1. \A i \in 1 .. Days : ~below(i)
    BY <1>6, <1>7
  <2>2. ExitEvent(r, stop).time = r.checked
    BY <1>7 DEF ExitEvent
  <2>3. p.exit = r.checked \/ p.exit = p.entry + 1
    BY <1>5, <2>2 DEF ExitTime
  <2> QED
    BY <1>3, <2>1, <2>3 DEF below
<1>8. CASE Stops(r) # {}
  <2>1. PICK k \in Stops(r) : k = Min(Stops(r)) /\ \A i \in Stops(r) : k <= i
    BY <1>8, FirstStop
  <2>2. k \in 1 .. Days /\ below(k)
    BY <1>6
  <2>3. ExitEvent(r, stop).time = r.time + k * Day
    BY <1>8, <2>1 DEF ExitEvent
  <2>4. k \in Nat \ {0}
    BY <2>2
  <2>5. k * Day \in Nat /\ EntryOffset < k * Day
    BY <2>4, LaterDays
  <2>6. p.exit = r.time + k * Day
    <3>1. PICK d \in Nat : d = k * Day /\ EntryOffset < d
      BY <2>5
    <3>2. PICK t \in Nat : t = r.time
      BY <1>5
    <3>3. ~(t + d <= t + EntryOffset)
      BY <1>5, <3>1
    <3>4. ExitEvent(r, stop).time = t + d /\ EntryTime(r) = t + EntryOffset
      BY <1>5, <2>3, <3>1, <3>2
    <3>5. ExitTime(r, stop) = t + d
      BY <3>3, <3>4 DEF ExitTime
    <3> QED
      BY <1>5, <3>1, <3>2, <3>5
  <2>7. ASSUME NEW i \in 1 .. Days, below(i) PROVE p.exit <= r.time + i * Day
    <3>1. i \in Nat \ {0} /\ k <= i
      BY <1>6, <2>1, <2>7
    <3>2. k * Day \in Nat /\ i * Day \in Nat /\ k * Day <= i * Day
      BY <2>4, <3>1, LaterDays
    <3>3. PICK t \in Nat, d \in Nat, h \in Nat : t = r.time /\ d = k * Day /\ h = i * Day
      BY <1>5, <3>2
    <3> QED
      BY <2>6, <3>2, <3>3
  <2> QED
    BY <1>3, <2>2, <2>6, <2>7 DEF below
<1> QED
  BY <1>7, <1>8

(* The candidate sells when the stop says so, and early only then.          *)
THEOREM StopIsKept == Spec => []StopLimitsHold
BY BacktestIsSound, StopFollows, PTL

-----------------------------------------------------------------------------
(* What a model is trained on.                                              *)

LEMMA LargerOfTwo ==
  ASSUME NEW a \in Int, NEW b \in Int
  PROVE  /\ Max({a, b}) = IF a >= b THEN a ELSE b
         /\ Min({a, b}) = IF a <= b THEN a ELSE b
<1>1. \E x \in {a, b} : \A y \in {a, b} : x >= y
  OBVIOUS
<1>2. \E x \in {a, b} : \A y \in {a, b} : x <= y
  OBVIOUS
<1>3. Max({a, b}) \in {a, b} /\ Max({a, b}) >= a /\ Max({a, b}) >= b
  BY <1>1 DEF Max
<1>4. Min({a, b}) \in {a, b} /\ Min({a, b}) <= a /\ Min({a, b}) <= b
  BY <1>2 DEF Min
<1> QED
  BY <1>3, <1>4

LEMMA RoundedType ==
  ASSUME NEW n \in Nat
  PROVE  Rounded(n, 100) \in Int
<1>1. n \div 100 \in Int
  OBVIOUS
<1>2. PICK q \in Int : q = n \div 100
  BY <1>1
<1>3. Rounded(n, 100) = q + 1 \/ Rounded(n, 100) = q
  BY <1>2 DEF Rounded
<1> QED
  BY <1>3

(* The rows that are split are fitted or calibrated on, the earlier ones    *)
(* fitted on.                                                               *)
LEMMA SplitParts ==
  ASSUME NEW f, IsFrame(f), Len(f) > 0
  PROVE  LET s == Split(f)
         IN /\ s.fit # << >> /\ s.calib # << >>
            /\ Range(s.fit) \subseteq Range(f) /\ Range(s.calib) \subseteq Range(f)
            /\ s.fit = s.calib \/
                 \A r \in Range(s.fit), q \in Range(s.calib) : r.time <= q.time
<1>1. f \in Seq(FrameRow) /\ \A i, j \in DOMAIN f : i <= j => f[i].time <= f[j].time
  BY DEF IsFrame
<1>2. PICK L \in Nat : L = Len(f) /\ DOMAIN f = 1 .. L /\ L > 0
  BY <1>1
<1>3. PICK x \in Int : x = Rounded(Len(f) * CalibrationPct, 100)
  <2>1. CalibrationPct \in Nat
    BY WalkforwardAssumption
  <2>2. Len(f) * CalibrationPct \in Nat
    BY <1>2, <2>1, Times
  <2> QED
    BY <2>2, RoundedType
<1>4. PICK n : n = Max({0, Min({x, L - 1})})
  OBVIOUS
<1>5. n \in 0 .. L - 1
  <2>1. PICK y : y = Min({x, L - 1})
    OBVIOUS
  <2>2. PICK z \in Nat : z = L - 1
    BY <1>2
  <2>3. y = IF x <= z THEN x ELSE z
    <3>1. z \in Int
      OBVIOUS
    <3>2. Min({x, z}) = IF x <= z THEN x ELSE z
      BY <3>1, LargerOfTwo
    <3> QED
      BY <2>1, <2>2, <3>2
  <2>4. y \in Int /\ y <= L - 1
    BY <2>2, <2>3
  <2>5. Max({0, y}) = IF 0 >= y THEN 0 ELSE y
    BY <2>4, LargerOfTwo
  <2> QED
    BY <1>4, <2>1, <2>2, <2>4, <2>5
<1>6. Split(f) = IF n = 0 THEN [fit |-> f, calib |-> f]
                 ELSE [fit |-> SubSeq(f, 1, L - n), calib |-> SubSeq(f, L - n + 1, L)]
  BY <1>2, <1>3, <1>4 DEF Split
<1>7. CASE n = 0
  <2>1. Split(f).fit = f /\ Split(f).calib = f
    BY <1>6, <1>7
  <2>2. f # << >>
    BY <1>2
  <2> QED
    BY <2>1, <2>2
<1>8. CASE n # 0
  <2>1. PICK a, b : a = SubSeq(f, 1, L - n) /\ b = SubSeq(f, L - n + 1, L)
    OBVIOUS
  <2>2. Split(f).fit = a /\ Split(f).calib = b
    <3>1. Split(f) = [fit |-> a, calib |-> b]
      BY <1>6, <1>8, <2>1, Zenon
    <3> QED
      BY <3>1
  <2>3. n \in 1 .. L - 1
    BY <1>5, <1>8
  <2>4. DOMAIN a = 1 .. L - n /\ \A i \in 1 .. L - n : a[i] = f[i]
    BY <1>1, <1>2, <2>1, <2>3
  <2>5. DOMAIN b = 1 .. n /\ \A i \in 1 .. n : b[i] = f[L - n + i]
    BY <1>1, <1>2, <2>1, <2>3
  <2>6. a # << >> /\ b # << >>
    BY <1>2, <2>3, <2>4, <2>5
  <2>7. Range(a) \subseteq Range(f) /\ Range(b) \subseteq Range(f)
    <3>1. \A i \in 1 .. L - n : a[i] = f[i] /\ i \in DOMAIN f
      BY <1>2, <2>3, <2>4
    <3>2. \A i \in 1 .. n : b[i] = f[L - n + i] /\ L - n + i \in DOMAIN f
      BY <1>2, <2>3, <2>5
    <3>3. Range(a) \subseteq Range(f)
      BY <2>4, <3>1 DEF Range
    <3>4. Range(b) \subseteq Range(f)
      BY <2>5, <3>2 DEF Range
    <3> QED
      BY <3>3, <3>4
  <2>8. ASSUME NEW r \in Range(a), NEW q \in Range(b) PROVE r.time <= q.time
    <3>1. PICK i \in 1 .. L - n : r = f[i]
      BY <2>4 DEF Range
    <3>2. PICK j \in 1 .. n : q = f[L - n + j]
      BY <2>5 DEF Range
    <3>3. i \in DOMAIN f /\ L - n + j \in DOMAIN f /\ i <= L - n + j
      BY <1>2, <2>3
    <3> QED
      BY <1>1, <3>1, <3>2, <3>3
  <2> QED
    BY <2>2, <2>6, <2>7, <2>8
<1> QED
  BY <1>7, <1>8

LEMMA TrainingFollows == Folding => TrainedOnThePast
<1> SUFFICES ASSUME Folding, pc \in {"arms", "backtest"} PROVE TrainedOnThePast
  BY DEF TrainedOnThePast
<1>1. IsFrame(frame) /\ months \in Seq(Nat) /\ months # << >> /\ ~TooThin(Head(months))
      /\ model = Split(TrainRows(frame, Head(months)))
      /\ basket \subseteq Mints(TestRows(frame, Head(months)))
  BY DEF Folding
<1>2. PICK m \in Nat : m = Head(months)
  BY <1>1
<1>3. PICK f : f = TrainRows(frame, m)
  OBVIOUS
<1>4. /\ IsFrame(f) /\ Range(f) = {r \in Range(frame) : MonthOf(r.time) < m}
      /\ Range(TestRows(frame, m)) = {r \in Range(frame) : MonthOf(r.time) = m}
  BY <1>1, <1>3, FoldsAreFrames
<1>5. Len(f) > 0
  <2>1. ~(Len(f) < MinTrainRows) /\ MinTrainRows \in Nat \ {0}
    BY <1>1, <1>2, <1>3, WalkforwardAssumption DEF TooThin
  <2>2. Len(f) \in Nat
    BY <1>4, FrameType
  <2> QED
    BY <2>1, <2>2
<1>6. /\ model.fit # << >> /\ model.calib # << >>
      /\ Range(model.fit) \subseteq Range(f) /\ Range(model.calib) \subseteq Range(f)
      /\ model.fit = model.calib \/
           \A r \in Range(model.fit), q \in Range(model.calib) : r.time <= q.time
  BY <1>1, <1>2, <1>3, <1>4, <1>5, SplitParts
<1>7. \A r \in Range(f) : r.time < m * Month
  <2> SUFFICES ASSUME NEW r \in Range(f) PROVE r.time < m * Month
    OBVIOUS
  <2>1. r.time \in Nat
    BY <1>4, FrameType DEF FrameRow
  <2> QED
    BY <1>4, <2>1, MonthIsNumber
<1>8. \A r \in Range(frame) : r.mint \in basket => r.time \in m * Month .. m * Month + Month - 1
  <2> SUFFICES ASSUME NEW r \in Range(frame), r.mint \in basket
               PROVE  r.time \in m * Month .. m * Month + Month - 1
    OBVIOUS
  <2>1. PICK q \in Range(frame) : MonthOf(q.time) = m /\ q.mint = r.mint
    BY <1>1, <1>2, <1>4 DEF Mints
  <2>2. q = r /\ r.time \in Nat
    BY <1>1, <2>1, FrameType DEF FrameRow
  <2> QED
    BY <2>1, <2>2, MonthIsNumber
<1> QED
  BY <1>2, <1>6, <1>7, <1>8 DEF TrainedOnThePast

(* No model sees the month it is tested on, nor is it calibrated on rows    *)
(* that came before those it was fitted on.                                 *)
THEOREM ModelsAreTrainedOnThePast == Spec => []TrainedOnThePast
BY BacktestIsSound, TrainingFollows, PTL

-----------------------------------------------------------------------------
(* The report.                                                              *)
(* A product over a finite set is a recursion on the set, as a sum is.      *)

IsMultiplication(h, g, S) ==
  h = [s \in SUBSET S |-> IF s = {} THEN 1 ELSE g[Chosen(s)] * h[s \ {Chosen(s)}]]

MultiplicationOf(g, S) == CHOOSE h : IsMultiplication(h, g, S)

(* A product is that function at the whole set.                             *)
LEMMA ProductUnfolded ==
  ASSUME NEW g, NEW S
  PROVE  Product(g, S) = MultiplicationOf(g, S)[S]
BY DEF Product, FoldFunctionOnSet, MapThenFoldSet,
       MultiplicationOf, IsMultiplication, Chosen

(* On the subsets of W, the recursion over a larger set and the one over W  *)
(* agree.                                                                   *)
LEMMA MultiplicationUnique ==
  ASSUME NEW g, NEW S, IsFiniteSet(S), NEW h, IsMultiplication(h, g, S),
         NEW W \in SUBSET S, NEW k, IsMultiplication(k, g, W)
  PROVE  \A s \in SUBSET W : h[s] = k[s]
<1> DEFINE B == {s \in SUBSET W : h[s] # k[s]}
<1> SUFFICES ASSUME B # {} PROVE FALSE
  OBVIOUS
<1>1. IsFiniteSet(W)
  BY FS_Subset
<1>2. PICK U \in B : \A V \in B : V \subseteq U => V = U
  <2>1. B \subseteq SUBSET W
    OBVIOUS
  <2> HIDE DEF B
  <2> QED BY <1>1, <2>1, MinimalSubset
<1>3. U \in SUBSET W /\ h[U] # k[U]
  OBVIOUS
<1>4. h[U] = IF U = {} THEN 1 ELSE g[Chosen(U)] * h[U \ {Chosen(U)}]
  BY <1>3 DEF IsMultiplication
<1>5. k[U] = IF U = {} THEN 1 ELSE g[Chosen(U)] * k[U \ {Chosen(U)}]
  BY <1>3 DEF IsMultiplication
<1>6. CASE U # {}
  <2>1. U \ {Chosen(U)} \in SUBSET W /\ U \ {Chosen(U)} \subseteq U /\ U \ {Chosen(U)} # U
    BY <1>3, <1>6, ChosenIn
  <2>2. h[U \ {Chosen(U)}] = k[U \ {Chosen(U)}]
    BY <1>2, <2>1
  <2> QED
    BY <2>2, <1>3, <1>4, <1>5
<1> QED
  BY <1>3, <1>4, <1>5, <1>6

(* The recursive definition of a product over a finite set defines a function.*)
LEMMA MultiplicationExists ==
  ASSUME NEW g, NEW S, IsFiniteSet(S)
  PROVE  IsMultiplication(MultiplicationOf(g, S), g, S)
<1> DEFINE B == {U \in SUBSET S : ~\E h : IsMultiplication(h, g, U)}
<1>1. B = {}
  <2> SUFFICES ASSUME B # {} PROVE FALSE
    OBVIOUS
  <2>1. PICK U \in B : \A V \in B : V \subseteq U => V = U
    <3>1. B \subseteq SUBSET S
      OBVIOUS
    <3> HIDE DEF B
    <3> QED BY <3>1, MinimalSubset
  <2>2. U \in SUBSET S /\ IsFiniteSet(U)
    BY FS_Subset
  <2> DEFINE f == [s \in SUBSET U |->
                    IF s = {} THEN 1
                    ELSE g[Chosen(s)] * MultiplicationOf(g, s \ {Chosen(s)})[s \ {Chosen(s)}]]
  <2>3. ASSUME NEW V \in SUBSET U, V # U
        PROVE  IsMultiplication(MultiplicationOf(g, V), g, V)
    <3>1. V \in SUBSET S /\ V \notin B
      BY <2>1, <2>2, <2>3
    <3>2. \E h : IsMultiplication(h, g, V)
      BY <3>1
    <3> QED
      BY <3>2 DEF MultiplicationOf
  <2>4. ASSUME NEW V \in SUBSET U, V # U
        PROVE  f[V] = MultiplicationOf(g, V)[V]
    <3> DEFINE h == MultiplicationOf(g, V)
               R == V \ {Chosen(V)}
    <3>1. IsMultiplication(h, g, V)
      BY <2>3, <2>4
    <3>2. h[V] = IF V = {} THEN 1 ELSE g[Chosen(V)] * h[R]
      BY <3>1 DEF IsMultiplication
    <3>3. CASE V # {}
      <4>1. R \in SUBSET V /\ R \in SUBSET U /\ R # U
        BY <2>4, <3>3, ChosenIn
      <4>2. IsMultiplication(MultiplicationOf(g, R), g, R)
        BY <4>1, <2>3
      <4>3. IsFiniteSet(V)
        BY <2>2, FS_Subset
      <4>4. h[R] = MultiplicationOf(g, R)[R]
        <5> HIDE DEF h, R
        <5> QED BY <3>1, <4>1, <4>2, <4>3, MultiplicationUnique
      <4> QED
        BY <3>2, <3>3, <4>4
    <3> QED
      BY <3>2, <3>3
  <2>5. IsMultiplication(f, g, U)
    <3>1. ASSUME NEW s \in SUBSET U, s # {}
          PROVE  MultiplicationOf(g, s \ {Chosen(s)})[s \ {Chosen(s)}] = f[s \ {Chosen(s)}]
      <4>1. s \ {Chosen(s)} \in SUBSET U /\ s \ {Chosen(s)} # U
        BY <3>1, ChosenIn
      <4> HIDE DEF f
      <4> QED
        BY <4>1, <2>4
    <3> QED
      BY <3>1 DEF IsMultiplication
  <2> HIDE DEF f
  <2> QED
    BY <2>1, <2>5
<1>2. \E h : IsMultiplication(h, g, S)
  BY <1>1
<1> QED
  BY <1>2 DEF MultiplicationOf

(* The equation a product satisfies.                                        *)
LEMMA ProductByChoice ==
  ASSUME NEW g, NEW S, IsFiniteSet(S)
  PROVE  Product(g, S) =
           IF S = {} THEN 1 ELSE g[Chosen(S)] * Product(g, S \ {Chosen(S)})
<1>1. IsMultiplication(MultiplicationOf(g, S), g, S)
  BY MultiplicationExists
<1>2. MultiplicationOf(g, S)[S] =
        IF S = {} THEN 1 ELSE g[Chosen(S)] * MultiplicationOf(g, S)[S \ {Chosen(S)}]
  BY <1>1 DEF IsMultiplication
<1>3. CASE S = {}
  BY <1>2, <1>3, ProductUnfolded
<1>4. CASE S # {}
  <2> DEFINE R == S \ {Chosen(S)}
  <2>1. IsFiniteSet(R) /\ R \in SUBSET S
    BY FS_Subset
  <2>2. IsMultiplication(MultiplicationOf(g, R), g, R)
    BY <2>1, MultiplicationExists
  <2>3. MultiplicationOf(g, S)[R] = MultiplicationOf(g, R)[R]
    <3> HIDE DEF R
    <3> QED BY <1>1, <2>1, <2>2, MultiplicationUnique
  <2> QED
    BY <1>2, <1>4, <2>3, ProductUnfolded
<1> QED
  BY <1>3, <1>4

(* A product of nothing is one.                                             *)
LEMMA ProductOfNothing == \A g : Product(g, {}) = 1
BY ProductByChoice, FS_EmptySet

(* A product of integers is an integer.                                     *)
LEMMA ProductIsInt ==
  ASSUME NEW S, IsFiniteSet(S), NEW g, \A x \in S : g[x] \in Int
  PROVE  Product(g, S) \in Int
<1> DEFINE B == {U \in SUBSET S : Product(g, U) \notin Int}
<1> SUFFICES ASSUME B # {} PROVE FALSE
  OBVIOUS
<1>1. PICK U \in B : \A V \in B : V \subseteq U => V = U
  <2>1. B \subseteq SUBSET S
    OBVIOUS
  <2> HIDE DEF B
  <2> QED BY <2>1, MinimalSubset
<1>2. U \in SUBSET S /\ Product(g, U) \notin Int /\ IsFiniteSet(U)
  BY FS_Subset
<1>3. U # {}
  BY <1>2, ProductOfNothing
<1> DEFINE R == U \ {Chosen(U)}
<1>4. Chosen(U) \in U
  BY <1>3, ChosenIn
<1>5. Product(g, U) = g[Chosen(U)] * Product(g, R)
  BY <1>2, <1>3, ProductByChoice
<1>6. Product(g, R) \in Int
  BY <1>1, <1>2, <1>4
<1> QED
  BY <1>2, <1>4, <1>5, <1>6

(* Any member may be taken out first.                                      *)
LEMMA ProductWithout ==
  ASSUME NEW S, IsFiniteSet(S), NEW g, \A x \in S : g[x] \in Int, NEW m \in S
  PROVE  Product(g, S) = g[m] * Product(g, S \ {m})
<1> DEFINE B == {U \in SUBSET S :
                   \E x \in U : Product(g, U) # g[x] * Product(g, U \ {x})}
<1> SUFFICES ASSUME B # {} PROVE FALSE
  OBVIOUS
<1>1. PICK U \in B : \A V \in B : V \subseteq U => V = U
  <2>1. B \subseteq SUBSET S
    OBVIOUS
  <2> HIDE DEF B
  <2> QED BY <2>1, MinimalSubset
<1>2. PICK x \in U : Product(g, U) # g[x] * Product(g, U \ {x})
  OBVIOUS
<1>3. U \in SUBSET S /\ IsFiniteSet(U)
  BY FS_Subset
<1> DEFINE p == Chosen(U)
           R == U \ {p}
           T == U \ {x}
           Q == R \ {x}
<1>4. p \in U
  BY <1>2, ChosenIn
<1>5. Product(g, U) = g[p] * Product(g, R)
  BY <1>2, <1>3, ProductByChoice
<1>6. x # p
  BY <1>2, <1>5
<1>7. Product(g, R) = g[x] * Product(g, Q)
  <2>1. R \in SUBSET S /\ R \subseteq U /\ R # U /\ x \in R
    BY <1>2, <1>3, <1>4, <1>6
  <2> QED
    BY <1>1, <2>1
<1>8. Product(g, T) = g[p] * Product(g, Q)
  <2>1. T \in SUBSET S /\ T \subseteq U /\ T # U /\ p \in T /\ T \ {p} = Q
    BY <1>2, <1>3, <1>4, <1>6
  <2> QED
    BY <1>1, <2>1
<1>9. g[x] \in Int /\ g[p] \in Int /\ Product(g, Q) \in Int
  <2>1. IsFiniteSet(Q) /\ Q \subseteq S
    BY <1>3, FS_Subset
  <2>2. Product(g, Q) \in Int
    BY <2>1, ProductIsInt
  <2> QED
    BY <1>2, <1>3, <1>4, <2>2
<1> QED
  BY <1>2, <1>5, <1>7, <1>8, <1>9

(* A product depends on the factors alone.                                  *)
LEMMA ProductAlike ==
  ASSUME NEW S, IsFiniteSet(S), NEW g, NEW h, \A x \in S : g[x] = h[x]
  PROVE  Product(g, S) = Product(h, S)
<1> DEFINE B == {U \in SUBSET S : Product(g, U) # Product(h, U)}
<1> SUFFICES ASSUME B # {} PROVE FALSE
  OBVIOUS
<1>1. PICK U \in B : \A V \in B : V \subseteq U => V = U
  <2>1. B \subseteq SUBSET S
    OBVIOUS
  <2> HIDE DEF B
  <2> QED BY <2>1, MinimalSubset
<1>2. U \in SUBSET S /\ Product(g, U) # Product(h, U) /\ IsFiniteSet(U)
  BY FS_Subset
<1>3. U # {}
  BY <1>2, ProductOfNothing
<1> DEFINE R == U \ {Chosen(U)}
<1>4. Chosen(U) \in U
  BY <1>3, ChosenIn
<1>5. /\ Product(g, U) = g[Chosen(U)] * Product(g, R)
      /\ Product(h, U) = h[Chosen(U)] * Product(h, R)
  BY <1>2, <1>3, ProductByChoice
<1>6. Product(g, R) = Product(h, R)
  BY <1>1, <1>2, <1>4
<1> QED
  BY <1>2, <1>4, <1>5, <1>6

(* A factor added.                                                          *)
LEMMA ProductWith ==
  ASSUME NEW S, IsFiniteSet(S), NEW g, \A x \in S : g[x] \in Int,
         NEW m, m \notin S, g[m] \in Int
  PROVE  Product(g, S \cup {m}) = Product(g, S) * g[m]
<1>1. IsFiniteSet(S \cup {m})
  BY FS_AddElement
<1>2. PICK W : W = S \cup {m} /\ W \ {m} = S
  OBVIOUS
<1>3. Product(g, W) = g[m] * Product(g, W \ {m})
  BY <1>1, <1>2, ProductWithout
<1>4. Product(g, W) = g[m] * Product(g, S)
  BY <1>2, <1>3
<1>5. Product(g, S) \in Int
  BY ProductIsInt
<1>6. Product(g, W) = Product(g, S) * g[m]
  BY <1>4, <1>5
<1> QED
  BY <1>2, <1>6

(* A product over two sets that share nothing.                              *)
LEMMA ProductOfUnion ==
  ASSUME NEW S, IsFiniteSet(S), NEW f, \A x \in S : f[x] \in Int,
         NEW A \in SUBSET S, NEW C \in SUBSET S, A \cap C = {}
  PROVE  Product(f, A \cup C) = Product(f, A) * Product(f, C)
<1> DEFINE B == {U \in SUBSET C : Product(f, A \cup U) # Product(f, A) * Product(f, U)}
<1> SUFFICES ASSUME B # {} PROVE FALSE
  OBVIOUS
<1>0. IsFiniteSet(A) /\ IsFiniteSet(C)
  BY FS_Subset
<1>1. PICK U \in B : \A V \in B : V \subseteq U => V = U
  <2>1. B \subseteq SUBSET C
    OBVIOUS
  <2> HIDE DEF B
  <2> QED BY <1>0, <2>1, MinimalSubset
<1>2. U \in SUBSET C /\ Product(f, A \cup U) # Product(f, A) * Product(f, U)
  OBVIOUS
<1>3. Product(f, A) \in Int
  BY <1>0, ProductIsInt
<1>4. U # {}
  <2> SUFFICES ASSUME U = {} PROVE FALSE
    OBVIOUS
  <2>1. A \cup U = A
    OBVIOUS
  <2>2. Product(f, A \cup U) = Product(f, A)
    BY <2>1
  <2>3. Product(f, U) = 1
    BY ProductOfNothing
  <2>4. Product(f, A) * 1 = Product(f, A)
    BY <1>3
  <2> QED
    BY <1>2, <2>2, <2>3, <2>4
<1>5. PICK m \in U : TRUE
  BY <1>4
<1>6. PICK R, W : R = U \ {m} /\ W = A \cup R
  OBVIOUS
<1>7. /\ R \in SUBSET S /\ W \in SUBSET S /\ m \notin R /\ m \notin W
      /\ R \cup {m} = U /\ W \cup {m} = A \cup U
  BY <1>2, <1>5, <1>6
<1>8. IsFiniteSet(R) /\ IsFiniteSet(W)
  BY <1>7, FS_Subset
<1>9. /\ Product(f, R \cup {m}) = Product(f, R) * f[m]
      /\ Product(f, W \cup {m}) = Product(f, W) * f[m]
  <2>1. f[m] \in Int
    BY <1>2
  <2>2. (\A x \in R : f[x] \in Int) /\ (\A x \in W : f[x] \in Int)
    BY <1>7
  <2> QED
    BY <1>7, <1>8, <2>1, <2>2, ProductWith
<1>10. Product(f, W) = Product(f, A) * Product(f, R)
  <2>1. R \in SUBSET C /\ R \subseteq U /\ R # U
    BY <1>2, <1>5, <1>6
  <2>2. R \notin B
    BY <1>1, <2>1
  <2> QED
    BY <1>6, <2>1, <2>2
<1>11. PICK a \in Int, r \in Int, x \in Int : a = Product(f, A) /\ r = Product(f, R) /\ x = f[m]
  <2>1. Product(f, R) \in Int
    BY <1>7, <1>8, ProductIsInt
  <2>2. f[m] \in Int
    BY <1>2
  <2> QED
    BY <1>3, <2>1, <2>2
<1>12. (a * r) * x = a * (r * x)
  OBVIOUS
<1> QED
  BY <1>2, <1>7, <1>9, <1>10, <1>11, <1>12

(* A product over a set is one of products over its parts.                  *)
LEMMA ProductOfParts ==
  ASSUME NEW S, IsFiniteSet(S), NEW f, \A x \in S : f[x] \in Int, NEW key,
         NEW G, IsFiniteSet(G), \A x \in S : key[x] \in G
  PROVE  Product([g \in G |-> Product(f, {x \in S : key[x] = g})], G) = Product(f, S)
<1>1. PICK F : F = [g \in G |-> Product(f, {x \in S : key[x] = g})]
  OBVIOUS
<1>2. \A g \in G : F[g] \in Int
  <2> SUFFICES ASSUME NEW g \in G PROVE F[g] \in Int
    OBVIOUS
  <2>1. PICK P : P = {x \in S : key[x] = g}
    OBVIOUS
  <2>2. P \in SUBSET S
    BY <2>1
  <2>3. IsFiniteSet(P)
    BY <2>2, FS_Subset
  <2>4. Product(f, P) \in Int
    BY <2>2, <2>3, ProductIsInt
  <2> QED
    BY <1>1, <2>1, <2>4
<1> DEFINE Within(U) == {x \in S : key[x] \in U}
           B == {U \in SUBSET G : Product(F, U) # Product(f, Within(U))}
<1>3. B = {}
  <2> SUFFICES ASSUME B # {} PROVE FALSE
    OBVIOUS
  <2>1. PICK U \in B : \A V \in B : V \subseteq U => V = U
    <3>1. B \subseteq SUBSET G
      OBVIOUS
    <3> HIDE DEF B
    <3> QED BY <3>1, MinimalSubset
  <2>2. U \in SUBSET G /\ Product(F, U) # Product(f, Within(U))
    OBVIOUS
  <2>3. U # {}
    <3>1. Product(F, {}) = 1 /\ Product(f, {}) = 1 /\ Within({}) = {}
      BY ProductOfNothing
    <3> QED
      BY <2>2, <3>1
  <2>4. PICK m \in U : TRUE
    BY <2>3
  <2>5. PICK R, P, Q : R = U \ {m} /\ P = {x \in S : key[x] = m} /\ Q = Within(R)
    OBVIOUS
  <2>6. R \in SUBSET G /\ R \subseteq U /\ R # U /\ m \notin R /\ R \cup {m} = U
    BY <2>2, <2>4, <2>5
  <2>7. P \in SUBSET S /\ Q \in SUBSET S /\ Q \cap P = {} /\ Q \cup P = Within(U)
    BY <2>5, <2>6
  <2>8. Product(F, R) = Product(f, Q)
    <3>1. R \notin B
      BY <2>1, <2>6
    <3> QED
      BY <2>5, <2>6, <3>1
  <2>9. Product(f, Q \cup P) = Product(f, Q) * Product(f, P)
    <3> HIDE DEF Within, B
    <3> QED BY <2>7, ProductOfUnion
  <2>10. IsFiniteSet(R)
    BY <2>6, FS_Subset
  <2>11. Product(F, R \cup {m}) = Product(F, R) * F[m]
    <3>1. (\A g \in R : F[g] \in Int) /\ F[m] \in Int
      BY <1>2, <2>2, <2>6
    <3> QED
      BY <2>6, <2>10, <3>1, ProductWith
  <2>12. F[m] = Product(f, P)
    BY <1>1, <2>2, <2>5
  <2> QED
    BY <2>2, <2>6, <2>7, <2>8, <2>9, <2>11, <2>12
<1>4. Product(F, G) = Product(f, Within(G))
  BY <1>3
<1>5. Within(G) = S
  OBVIOUS
<1> QED
  BY <1>1, <1>4, <1>5

(* A product grows by its last factor.                                      *)
LEMMA ProductUpTo ==
  ASSUME NEW n \in Nat \ {0}, NEW f, \A k \in 1 .. n : f[k] \in Int
  PROVE  /\ Product(f, 1 .. n) = Product(f, 1 .. n - 1) * f[n]
         /\ Product(f, 1 .. n) \in Int /\ Product(f, 1 .. n - 1) \in Int
<1>1. PICK S : S = 1 .. n - 1
  OBVIOUS
<1>2. IsFiniteSet(S) /\ IsFiniteSet(1 .. n)
  BY <1>1, FS_Interval
<1>3. n \notin S /\ S \cup {n} = 1 .. n
  BY <1>1
<1>4. (\A k \in S : f[k] \in Int) /\ f[n] \in Int
  BY <1>1
<1>5. Product(f, S \cup {n}) = Product(f, S) * f[n]
  BY <1>2, <1>3, <1>4, ProductWith
<1>6. Product(f, S) \in Int /\ Product(f, 1 .. n) \in Int
  BY <1>2, <1>4, ProductIsInt
<1> QED
  BY <1>1, <1>3, <1>5, <1>6

(* What the curves are scaled by.                                           *)
LEMMA PowerGrows ==
  /\ Power(0) = 1
  /\ \A n \in Nat : Power(n) \in Int /\ Power(n + 1) = Bankroll * Power(n)
<1>1. Bankroll \in Int
  BY BacktestAssumption
<1>2. Power(0) = 1
  <2>1. 1 .. 0 = {}
    OBVIOUS
  <2> QED
    BY <2>1, ProductOfNothing DEF Power
<1>3. ASSUME NEW n \in Nat PROVE Power(n) \in Int /\ Power(n + 1) = Bankroll * Power(n)
  <2>1. PICK m \in Nat \ {0} : m = n + 1 /\ m - 1 = n
    OBVIOUS
  <2>2. PICK f, g : f = [i \in 1 .. m |-> Bankroll] /\ g = [i \in 1 .. n |-> Bankroll]
    OBVIOUS
  <2>3. \A k \in 1 .. m : f[k] \in Int
    BY <1>1, <2>2
  <2>4. /\ Product(f, 1 .. m) = Product(f, 1 .. m - 1) * f[m]
        /\ Product(f, 1 .. m - 1) \in Int
    BY <2>3, ProductUpTo
  <2>5. Product(f, 1 .. n) = Product(g, 1 .. n)
    <3>1. \A k \in 1 .. n : f[k] = g[k]
      BY <2>1, <2>2
    <3>2. IsFiniteSet(1 .. n)
      BY FS_Interval
    <3> QED
      BY <3>1, <3>2, ProductAlike
  <2>6. f[m] = Bankroll
    BY <2>2
  <2>7. Power(n) = Product(g, 1 .. n) /\ Power(m) = Product(f, 1 .. m)
    BY <2>2 DEF Power
  <2>8. \A a, b \in Int : a * b = b * a
    OBVIOUS
  <2> QED
    BY <1>1, <2>1, <2>4, <2>5, <2>6, <2>7, <2>8
<1> QED
  BY <1>2, <1>3

-----------------------------------------------------------------------------
(* The curves one after the other.                                          *)

IsFlat(h, s, n) == h = [i \in 1 .. n |-> IF i = 1 THEN s[i] ELSE h[i - 1] \o s[i]]
FlatOf(s, n) == CHOOSE h : IsFlat(h, s, n)

LEMMA FlatUnfolded ==
  ASSUME NEW s, NEW n \in Nat \ {0}, Len(s) = n
  PROVE  FlattenSeq(s) = FlatOf(s, n)[n]
<1>1. Len(s) # 0
  OBVIOUS
<1> QED
  BY <1>1 DEF FlattenSeq, FlatOf, IsFlat

LEMMA FlatExists ==
  ASSUME NEW s, NEW n \in Nat
  PROVE  IsFlat(FlatOf(s, n), s, n)
<1>1. PICK T : T = {k \in 0 .. n : ~\E h : IsFlat(h, s, k)}
  OBVIOUS
<1>2. T = {}
  <2> SUFFICES ASSUME T # {} PROVE FALSE
    OBVIOUS
  <2>1. IsFiniteSet(T)
    <3>1. IsFiniteSet(0 .. n) /\ T \in SUBSET (0 .. n)
      BY <1>1, FS_Interval
    <3> QED
      BY <3>1, FS_Subset
  <2>2. \A k \in T : k \in Nat
    BY <1>1
  <2>3. PICK m \in T : \A k \in T : m <= k
    BY <2>1, <2>2, SmallestExists
  <2>4. m \in 0 .. n /\ ~\E h : IsFlat(h, s, m)
    BY <1>1
  <2>5. m # 0
    <3> SUFFICES ASSUME m = 0 PROVE FALSE
      OBVIOUS
    <3>1. 1 .. m = {}
      OBVIOUS
    <3>2. IsFlat([i \in {} |-> 0], s, m)
      BY <3>1 DEF IsFlat
    <3> QED
      BY <2>4, <3>2
  <2>6. m - 1 \in 0 .. n /\ m - 1 < m
    BY <2>4, <2>5
  <2>7. m - 1 \notin T
    BY <2>2, <2>3, <2>6
  <2>8. PICK g : IsFlat(g, s, m - 1)
    BY <1>1, <2>6, <2>7
  <2>9. PICK last : last = IF m = 1 THEN s[m] ELSE g[m - 1] \o s[m]
    OBVIOUS
  <2>10. PICK h : h = [i \in 1 .. m |-> IF i = m THEN last ELSE g[i]]
    OBVIOUS
  <2>11. ASSUME NEW i \in 1 .. m PROVE h[i] = IF i = 1 THEN s[i] ELSE h[i - 1] \o s[i]
    <3>1. CASE i = m /\ m = 1
      BY <2>9, <2>10, <3>1
    <3>2. CASE i = m /\ m # 1
      <4>1. m - 1 \in 1 .. m /\ m - 1 # m
        BY <2>4, <3>2
      <4>2. h[m - 1] = g[m - 1]
        BY <2>10, <4>1
      <4> QED
        BY <2>9, <2>10, <3>2, <4>2
    <3>3. CASE i # m
      <4>1. i \in 1 .. m - 1
        BY <2>4, <3>3
      <4>2. g[i] = IF i = 1 THEN s[i] ELSE g[i - 1] \o s[i]
        BY <2>8, <4>1 DEF IsFlat
      <4>3. h[i] = g[i]
        BY <2>10, <3>3
      <4>4. i # 1 => h[i - 1] = g[i - 1]
        BY <2>4, <2>10, <4>1
      <4> QED
        BY <4>2, <4>3, <4>4
    <3> QED
      BY <3>1, <3>2, <3>3
  <2>12. h = [i \in 1 .. m |-> h[i]]
    BY <2>10
  <2>13. IsFlat(h, s, m)
    BY <2>11, <2>12 DEF IsFlat
  <2> QED
    BY <2>4, <2>13
<1>3. \E h : IsFlat(h, s, n)
  BY <1>1, <1>2
<1> QED
  BY <1>3 DEF FlatOf

Joined(x, s, i) == x \in Seq(Int) /\ x # << >> /\ x[1] = s[1][1] /\ Last(x) = Last(s[i])

(* Lists put together begin as the first begins and end as the last ends.   *)
LEMMA FlatEnds ==
  ASSUME NEW n \in Nat \ {0}, NEW s, s = [i \in 1 .. n |-> s[i]],
         \A i \in 1 .. n : s[i] \in Seq(Int) \ {<< >>}
  PROVE  /\ FlattenSeq(s) \in Seq(Int) \ {<< >>}
         /\ FlattenSeq(s)[1] = s[1][1]
         /\ Last(FlattenSeq(s)) = Last(s[n])
<1>1. Len(s) = n
  <2>1. s \in [1 .. n -> Seq(Int)]
    OBVIOUS
  <2>2. s \in Seq(Seq(Int)) /\ DOMAIN s = 1 .. n
    BY <2>1, SeqDef
  <2> QED
    BY <2>2
<1>2. PICK h : h = FlatOf(s, n)
  OBVIOUS
<1>3. \A i \in 1 .. n : h[i] = IF i = 1 THEN s[i] ELSE h[i - 1] \o s[i]
  <2>1. IsFlat(h, s, n)
    BY <1>2, FlatExists
  <2> QED
    BY <2>1 DEF IsFlat
<1>10. PICK T : T = {i \in 1 .. n : ~Joined(h[i], s, i)}
  OBVIOUS
<1>4. T = {}
  <2> SUFFICES ASSUME T # {} PROVE FALSE
    OBVIOUS
  <2>1. IsFiniteSet(T)
    <3>1. IsFiniteSet(1 .. n)
      BY FS_Interval
    <3>2. T \in SUBSET (1 .. n)
      BY <1>10
    <3> QED
      BY <3>1, <3>2, FS_Subset
  <2>2. \A k \in T : k \in Nat
    BY <1>10
  <2>3. PICK m \in T : \A k \in T : m <= k
    BY <2>1, <2>2, SmallestExists
  <2>4. m \in 1 .. n /\ ~Joined(h[m], s, m)
    BY <1>10
  <2>5. CASE m = 1
    <3>1. h[m] = s[m] /\ s[m] \in Seq(Int) /\ s[m] # << >>
      BY <1>3, <2>4, <2>5
    <3> QED
      BY <2>4, <2>5, <3>1 DEF Joined
  <2>6. CASE m # 1
    <3>1. m - 1 \in 1 .. n /\ m - 1 < m
      BY <2>4, <2>6
    <3>2. m - 1 \notin T
      BY <2>2, <2>3, <3>1
    <3>3. PICK a, b : a = h[m - 1] /\ b = s[m]
      OBVIOUS
    <3>4. a \in Seq(Int) /\ a # << >> /\ a[1] = s[1][1]
      <4>1. Joined(h[m - 1], s, m - 1)
        BY <1>10, <3>1, <3>2
      <4> QED
        BY <3>3, <4>1 DEF Joined
    <3>5. b \in Seq(Int) /\ b # << >>
      BY <2>4, <3>3
    <3>6. h[m] = a \o b
      BY <1>3, <2>4, <2>6, <3>3
    <3>7. PICK c : c = a \o b
      OBVIOUS
    <3>8. c \in Seq(Int) /\ Len(c) = Len(a) + Len(b) /\ Len(a) \in Nat \ {0} /\ Len(b) \in Nat \ {0}
      BY <3>4, <3>5, <3>7
    <3>9. c[1] = a[1] /\ c[Len(c)] = b[Len(b)] /\ c # << >>
      BY <3>4, <3>5, <3>7, <3>8
    <3>10. Joined(c, s, m)
      BY <3>3, <3>4, <3>8, <3>9 DEF Last, Joined
    <3> QED
      BY <2>4, <3>6, <3>7, <3>10
  <2> QED
    BY <2>5, <2>6
<1>5. Joined(h[n], s, n)
  <2>1. n \in 1 .. n
    OBVIOUS
  <2> QED
    BY <1>4, <1>10, <2>1
<1>6. FlattenSeq(s) = h[n]
  BY <1>1, <1>2, FlatUnfolded
<1> QED
  BY <1>5, <1>6 DEF Joined

RunType == [month : Nat, curve : Seq(Int) \ {<< >>}]

LEMMA RunsType ==
  ASSUME Folding, NEW a \in Range(Arms)
  PROVE  results[a] \in Seq(RunType)
BY DEF Folding, RunType

(* The factors an arm's equity is made of.                                  *)
LEMMA FactorsType ==
  ASSUME NEW runs \in Seq(RunType)
  PROVE  \A k \in DOMAIN runs : /\ runs[k].curve \in Seq(Int) /\ runs[k].curve # << >>
                                /\ Last(runs[k].curve) \in Int
<1> SUFFICES ASSUME NEW k \in DOMAIN runs
             PROVE  /\ runs[k].curve \in Seq(Int) /\ runs[k].curve # << >>
                    /\ Last(runs[k].curve) \in Int
  OBVIOUS
<1>1. runs[k] \in RunType
  OBVIOUS
<1>2. PICK c : c = runs[k].curve
  OBVIOUS
<1>3. c \in Seq(Int) /\ c # << >>
  BY <1>1, <1>2 DEF RunType
<1>4. Last(c) \in Int
  BY <1>3 DEF Last
<1> QED
  BY <1>2, <1>3, <1>4

(* One fold of the chained curve.                                           *)
Scaled(runs, k, n) ==
  [i \in DOMAIN runs[k].curve |->
     Compounded(runs, 1 .. k - 1) * runs[k].curve[i] * Power(n - k)]

LEMMA ScaledType ==
  ASSUME NEW runs \in Seq(RunType), NEW n \in Nat, DOMAIN runs = 1 .. n, NEW k \in 1 .. n
  PROVE  /\ Scaled(runs, k, n) \in Seq(Int) \ {<< >>}
         /\ Scaled(runs, k, n)[1] = Compounded(runs, 1 .. k - 1) * runs[k].curve[1] * Power(n - k)
         /\ Last(Scaled(runs, k, n))
              = Compounded(runs, 1 .. k - 1) * Last(runs[k].curve) * Power(n - k)
<1>1. PICK c, m : c = runs[k].curve /\ m = Len(c)
  OBVIOUS
<1>2. c \in Seq(Int) /\ c # << >> /\ m \in Nat \ {0} /\ DOMAIN c = 1 .. m
  <2>1. c \in Seq(Int) /\ c # << >>
    BY <1>1, FactorsType
  <2> QED
    BY <1>1, <2>1
<1>3. PICK u : u = Compounded(runs, 1 .. k - 1)
  OBVIOUS
<1>4. u \in Int
  <2>1. PICK f : f = [j \in DOMAIN runs |-> Last(runs[j].curve)]
    OBVIOUS
  <2>2. IsFiniteSet(1 .. k - 1)
    BY FS_Interval
  <2>3. \A j \in 1 .. k - 1 : f[j] \in Int
    BY <2>1, FactorsType
  <2>4. Product(f, 1 .. k - 1) \in Int
    BY <2>2, <2>3, ProductIsInt
  <2> QED
    BY <1>3, <2>1, <2>4 DEF Compounded
<1>5. PICK v : v = Power(n - k)
  OBVIOUS
<1>6. v \in Int
  <2>1. n - k \in Nat
    OBVIOUS
  <2> QED
    BY <1>5, <2>1, PowerGrows
<1>7. PICK s : s = Scaled(runs, k, n)
  OBVIOUS
<1>8. s = [i \in 1 .. m |-> u * c[i] * v]
  BY <1>1, <1>2, <1>3, <1>5, <1>7 DEF Scaled
<1>9. s \in [1 .. m -> Int]
  <2>1. \A x, y, z \in Int : x * y * z \in Int
    <3> SUFFICES ASSUME NEW x \in Int, NEW y \in Int, NEW z \in Int PROVE x * y * z \in Int
      OBVIOUS
    <3>1. PICK w \in Int : w = x * y
      OBVIOUS
    <3>2. w * z \in Int
      OBVIOUS
    <3> QED
      BY <3>1, <3>2
  <2>2. \A i \in 1 .. m : c[i] \in Int
    BY <1>1, <1>2
  <2>3. \A i \in 1 .. m : u * c[i] * v \in Int
    BY <1>4, <1>6, <2>1, <2>2
  <2> QED
    BY <1>8, <2>3
<1>10. s \in Seq(Int) /\ Len(s) = m /\ s # << >>
  <2>1. s \in Seq(Int) /\ DOMAIN s = 1 .. m
    BY <1>2, <1>9, SeqDef
  <2> QED
    BY <1>2, <2>1
<1>11. s[1] = u * c[1] * v /\ s[m] = u * c[m] * v
  BY <1>2, <1>8
<1>12. Last(s) = s[m] /\ Last(c) = c[m]
  BY <1>1, <1>10 DEF Last
<1> QED
  BY <1>1, <1>3, <1>5, <1>7, <1>10, <1>11, <1>12

(* The chain of an arm begins with the scaled bankroll, and ends at its     *)
(* compounded equity.                                                       *)
LEMMA ChainEnds ==
  ASSUME Folding, Reporting, NEW a \in Range(Arms)
  PROVE  /\ Chain(a) \in Seq(Int) \ {<< >>}
         /\ Chain(a)[1] = Power(Len(results[a]))
         /\ Last(Chain(a)) = Total(a)
<1>1. PICK runs : runs = results[a]
  OBVIOUS
<1>2. runs \in Seq(RunType)
  BY <1>1, RunsType
<1>3. PICK n \in Nat : n = Len(runs) /\ DOMAIN runs = 1 .. n
  BY <1>2
<1>4. PICK f : f = [j \in DOMAIN runs |-> Last(runs[j].curve)]
  OBVIOUS
<1>5. Total(a) = Product(f, 1 .. n) /\ \A K : Compounded(runs, K) = Product(f, K)
  BY <1>1, <1>3, <1>4 DEF Total, Compounded
<1>6. CASE n = 0
  <2>1. runs = << >>
    BY <1>2, <1>3, <1>6
  <2>2. Chain(a) = <<1>>
    BY <1>1, <2>1 DEF Chain
  <2>3. <<1>> \in Seq(Int) /\ <<1>> # << >> /\ <<1>>[1] = 1 /\ Last(<<1>>) = 1
    BY DEF Last
  <2>4. 1 .. n = {}
    BY <1>6
  <2>5. Total(a) = 1
    BY <1>5, <2>4, ProductOfNothing
  <2> QED
    BY <1>1, <1>3, <1>6, <2>2, <2>3, <2>5, PowerGrows
<1>7. CASE n # 0
  <2>1. runs # << >>
    BY <1>3, <1>7
  <2>2. PICK s : s = [k \in 1 .. n |-> Scaled(runs, k, n)]
    OBVIOUS
  <2>3. Chain(a) = FlattenSeq(s)
    BY <1>1, <1>3, <2>1, <2>2 DEF Chain, Scaled
  <2>4. s = [k \in 1 .. n |-> s[k]] /\ \A k \in 1 .. n : s[k] = Scaled(runs, k, n)
    BY <2>2
  <2>5. \A k \in 1 .. n : s[k] \in Seq(Int) \ {<< >>}
    BY <1>2, <1>3, <2>4, ScaledType
  <2>6. /\ FlattenSeq(s) \in Seq(Int) \ {<< >>}
        /\ FlattenSeq(s)[1] = s[1][1]
        /\ Last(FlattenSeq(s)) = Last(s[n])
    BY <1>7, <2>4, <2>5, FlatEnds
  <2>7. s[1][1] = Power(n)
    <3>1. 1 \in 1 .. n /\ 1 .. 1 - 1 = {}
      BY <1>7
    <3>2. s[1][1] = Compounded(runs, 1 .. 1 - 1) * runs[1].curve[1] * Power(n - 1)
      BY <1>2, <1>3, <2>4, <3>1, ScaledType
    <3>3. Compounded(runs, 1 .. 1 - 1) = 1
      BY <1>5, <3>1, ProductOfNothing
    <3>4. runs[1].curve[1] = Bankroll
      BY <1>1, <1>3, <3>1 DEF Reporting
    <3>5. PICK m \in Nat : m = n - 1 /\ n = m + 1
      BY <1>7
    <3>6. Power(m) \in Int /\ Power(n) = Bankroll * Power(m)
      BY <3>5, PowerGrows
    <3>7. Bankroll \in Int
      BY BacktestAssumption
    <3>8. 1 * Bankroll = Bankroll
      BY <3>7
    <3> QED
      BY <3>2, <3>3, <3>4, <3>5, <3>6, <3>8
  <2>8. Last(s[n]) = Product(f, 1 .. n)
    <3>1. n \in 1 .. n /\ n \in Nat \ {0} /\ n - n = 0
      BY <1>7
    <3>2. Last(s[n]) = Compounded(runs, 1 .. n - 1) * Last(runs[n].curve) * Power(n - n)
      BY <1>2, <1>3, <2>4, <3>1, ScaledType
    <3>3. \A k \in 1 .. n : f[k] = Last(runs[k].curve) /\ f[k] \in Int
      BY <1>2, <1>3, <1>4, FactorsType
    <3>4. /\ Product(f, 1 .. n) = Product(f, 1 .. n - 1) * f[n]
          /\ Product(f, 1 .. n) \in Int
      BY <3>1, <3>3, ProductUpTo
    <3>5. Power(n - n) = 1
      BY <3>1, PowerGrows
    <3>6. Compounded(runs, 1 .. n - 1) = Product(f, 1 .. n - 1)
      BY <1>5
    <3>7. Last(s[n]) = Product(f, 1 .. n) * 1
      BY <3>1, <3>2, <3>3, <3>4, <3>5, <3>6
    <3> QED
      BY <3>4, <3>7
  <2> QED
    BY <1>1, <1>3, <1>5, <2>3, <2>6, <2>7, <2>8
<1> QED
  BY <1>6, <1>7

-----------------------------------------------------------------------------
(* The arms stay abreast, and the report is about their results.            *)

LEMMA ReportingStarts == Init => Reporting
<1> SUFFICES ASSUME Init PROVE Reporting
  OBVIOUS
<1>1. arms = << >> /\ pc = "load" /\ results = [a \in Range(Arms) |-> << >>]
  BY DEF Init
<1>2. DOMAIN arms = {} /\ Range(arms) = {}
  BY <1>1 DEF Range
<1>3. \A a \in Range(Arms) : FoldsDue(a) = 0 + 0 /\ results[a] = << >>
  BY <1>1, <1>2 DEF FoldsDue
<1> QED
  BY <1>1, <1>2, <1>3 DEF Reporting, Walking

(* The five arms are five.                                                  *)
LEMMA ArmsDiffer == \A i, j \in DOMAIN Arms : Arms[i] = Arms[j] => i = j
BY DEF Arms, Candidate

LEMMA ComparisonStays == results' = results => Comparison' = Comparison
<1> SUFFICES ASSUME results' = results PROVE Comparison' = Comparison
  OBVIOUS
<1>1. (\A a : Total(a)' = Total(a)) /\ \A a : Chain(a)' = Chain(a)
  BY DEF Total, Chain
<1>2. RegimesRun' = RegimesRun /\ \A g : InRegime(g)' = InRegime(g)
  BY DEF RegimesRun, InRegime
<1>3. Gate' = Gate
  BY <1>1, <1>2 DEF Gate, BeatsAll
<1> QED
  BY <1>1, <1>2, <1>3 DEF Comparison

(* A step that leaves the arms and the results as they are.                 *)
LEMMA ReportingStays ==
  Reporting /\ UNCHANGED <<arms, results>>
    /\ (pc' \notin {"arms", "backtest"} => pc \notin {"arms", "backtest"} \/ arms = << >>)
    /\ (Walking' => curve'[1] = Bankroll)
    /\ (pc' = "done" => report' = Comparison')
  => Reporting'
<1> SUFFICES ASSUME Reporting, UNCHANGED <<arms, results>>,
                    pc' \notin {"arms", "backtest"} => pc \notin {"arms", "backtest"} \/ arms = << >>,
                    Walking' => curve'[1] = Bankroll, pc' = "done" => report' = Comparison'
             PROVE  Reporting'
  OBVIOUS
<1>1. arms' = arms /\ results' = results
  OBVIOUS
<1>2. \A a : FoldsDue(a)' = FoldsDue(a)
  BY <1>1 DEF FoldsDue
<1> QED
  BY <1>1, <1>2 DEF Reporting

LEMMA TrainReports == Reporting /\ Folding /\ Train => Reporting'
<1> SUFFICES ASSUME Reporting, Folding, Train PROVE Reporting'
  OBVIOUS
<1>1. pc = "folds" /\ pc' = "arms" /\ arms' = Arms /\ results' = results
  BY DEF Train
<1>2. arms = << >>
  BY <1>1 DEF Reporting
<1>3. \A a \in Range(Arms) : a \notin Range(arms) /\ a \in Range(arms')
  BY <1>1, <1>2 DEF Range
<1>4. \A a \in Range(Arms) : FoldsDue(a) = Len(results[a]) + 0 /\ FoldsDue(a)' = Len(results[a]) + 1
  BY <1>1, <1>3 DEF FoldsDue
<1>5. \A a \in Range(Arms) : Len(results[a]) \in Nat
  <2> SUFFICES ASSUME NEW a \in Range(Arms) PROVE Len(results[a]) \in Nat
    OBVIOUS
  <2>1. results[a] \in Seq(RunType)
    BY RunsType
  <2> QED
    BY <2>1
<1>6. \A a, b \in Range(Arms) : FoldsDue(a)' = FoldsDue(b)'
  <2> SUFFICES ASSUME NEW a \in Range(Arms), NEW b \in Range(Arms) PROVE FoldsDue(a)' = FoldsDue(b)'
    OBVIOUS
  <2>1. FoldsDue(a) = FoldsDue(b)
    BY DEF Reporting
  <2> QED
    BY <1>4, <1>5, <2>1
<1>7. \A i, j \in DOMAIN arms' : arms'[i] = arms'[j] => i = j
  BY <1>1, ArmsDiffer
<1>8. /\ pc' # "done" /\ ~Walking' /\ pc' \in {"arms", "backtest"}
      /\ \A a \in Range(Arms) : \A i \in DOMAIN results'[a] : results'[a][i].curve[1] = Bankroll
  BY <1>1 DEF Reporting, Walking
<1> QED
  BY <1>6, <1>7, <1>8 DEF Reporting

LEMMA WalkReports == Reporting /\ BacktestInv /\ Walk => Reporting'
<1> SUFFICES ASSUME Reporting, BacktestInv, Walk PROVE Reporting'
  OBVIOUS
<1>1. pc = "backtest" /\ pc' = pc /\ arms' = arms /\ results' = results
  BY DEF Walk
<1>2. curve[1] = Bankroll /\ curve \in Seq(Int) /\ curve # << >>
  BY <1>1 DEF Reporting, Walking, BacktestInv, Drawn
<1>3. curve' = curve \/ \E x : curve' = Append(curve, x)
  BY DEF Walk, Enter, Skip, Close, Miss
<1>4. curve'[1] = Bankroll
  <2>1. ASSUME NEW x PROVE Append(curve, x)[1] = curve[1]
    <3>1. Len(curve) >= 1 /\ Len(curve) \in Nat
      BY <1>2
    <3> QED
      BY <1>2, <3>1
  <2> QED
    BY <1>2, <1>3, <2>1
<1> QED
  BY <1>1, <1>4, ReportingStays

LEMMA FinishArmReports == Reporting /\ Folding /\ BacktestInv /\ FinishArm => Reporting'
<1> SUFFICES ASSUME Reporting, Folding, BacktestInv, FinishArm PROVE Reporting'
  OBVIOUS
<1>1. /\ pc = "backtest" /\ pc' = "arms" /\ arms' = Tail(arms)
      /\ results' = [results EXCEPT ![Head(arms)]
                       = Append(@, [month |-> Head(months), curve |-> curve])]
  BY DEF FinishArm
<1>2. arms \in Seq(Range(Arms)) /\ arms # << >> /\ DOMAIN results = Range(Arms)
  BY <1>1 DEF Folding, Walking
<1>16. PICK h : h = Head(arms)
  OBVIOUS
<1>3. PICK n \in Nat \ {0} : n = Len(arms) /\ DOMAIN arms = 1 .. n /\ h = Head(arms) /\ h = arms[1]
  BY <1>2, <1>16
<1>4. /\ DOMAIN arms' = 1 .. n - 1 /\ \A i \in 1 .. n - 1 : arms'[i] = arms[i + 1]
  <2>1. Len(arms') = n - 1 /\ arms' \in Seq(Range(Arms))
    BY <1>1, <1>2, <1>3
  <2>2. DOMAIN arms' = 1 .. n - 1
    BY <2>1
  <2>3. \A i \in 1 .. n - 1 : arms'[i] = arms[i + 1]
    BY <1>1, <1>2, <1>3
  <2> QED
    BY <2>2, <2>3
<1>5. \A i, j \in 1 .. n : arms[i] = arms[j] => i = j
  BY <1>3 DEF Reporting
<1>6. \A i, j \in DOMAIN arms' : arms'[i] = arms'[j] => i = j
  <2> SUFFICES ASSUME NEW i \in 1 .. n - 1, NEW j \in 1 .. n - 1, arms'[i] = arms'[j] PROVE i = j
    BY <1>4
  <2>1. i + 1 \in 1 .. n /\ j + 1 \in 1 .. n /\ arms[i + 1] = arms[j + 1]
    BY <1>4
  <2>2. i + 1 = j + 1
    BY <1>5, <2>1
  <2> QED
    BY <2>2
<1>7. \A a : a \in Range(arms') <=> a \in Range(arms) /\ a # h
  <2>1. Range(arms) = {arms[i] : i \in 1 .. n} /\ Range(arms)' = {arms'[i] : i \in 1 .. n - 1}
    BY <1>3, <1>4 DEF Range
  <2>2. ASSUME NEW i \in 1 .. n - 1
        PROVE  arms'[i] = arms[i + 1] /\ i + 1 \in 1 .. n /\ arms[i + 1] # h
    <3>1. arms'[i] = arms[i + 1] /\ i + 1 \in 1 .. n /\ 1 \in 1 .. n /\ i + 1 # 1
      BY <1>4
    <3> QED
      BY <1>3, <1>5, <3>1
  <2>3. ASSUME NEW i \in 1 .. n, arms[i] # h
        PROVE  \E k \in 1 .. n - 1 : arms'[k] = arms[i]
    <3>1. i # 1
      BY <1>3, <2>3
    <3>2. i - 1 \in 1 .. n - 1 /\ (i - 1) + 1 = i
      BY <3>1
    <3>3. arms'[i - 1] = arms[(i - 1) + 1]
      BY <1>4, <3>2
    <3> QED
      BY <3>2, <3>3
  <2> QED
    BY <2>1, <2>2, <2>3
<1>8. h \in Range(arms) /\ h \in Range(Arms)
  <2>1. 1 \in DOMAIN arms
    BY <1>3
  <2> QED
    BY <1>2, <1>3, <2>1 DEF Range
<1>9. PICK r : r = [month |-> Head(months), curve |-> curve]
  OBVIOUS
<1>10. \A a \in Range(Arms) : results'[a] = IF a = h THEN Append(results[a], r) ELSE results[a]
  BY <1>1, <1>2, <1>3, <1>9
<1>11. \A a \in Range(Arms) : results[a] \in Seq(RunType) /\ Len(results[a]) \in Nat
  <2> SUFFICES ASSUME NEW a \in Range(Arms)
               PROVE  results[a] \in Seq(RunType) /\ Len(results[a]) \in Nat
    OBVIOUS
  <2>1. results[a] \in Seq(RunType)
    BY RunsType
  <2> QED
    BY <2>1
<1>12. \A a \in Range(Arms) : FoldsDue(a)' = FoldsDue(a)
  <2> SUFFICES ASSUME NEW a \in Range(Arms) PROVE FoldsDue(a)' = FoldsDue(a)
    OBVIOUS
  <2>1. CASE a = h
    <3>1. results'[a] = Append(results[a], r) /\ a \notin Range(arms') /\ a \in Range(arms)
      BY <1>7, <1>8, <1>10, <2>1
    <3>2. Len(Append(results[a], r)) = Len(results[a]) + 1
      BY <1>11
    <3> QED
      BY <1>11, <3>1, <3>2 DEF FoldsDue
  <2>2. CASE a # h
    <3>1. results'[a] = results[a] /\ (a \in Range(arms') <=> a \in Range(arms))
      BY <1>7, <1>10, <2>2
    <3> QED
      BY <3>1 DEF FoldsDue
  <2> QED
    BY <2>1, <2>2
<1>13. \A a, b \in Range(Arms) : FoldsDue(a)' = FoldsDue(b)'
  BY <1>12 DEF Reporting
<1>14. ASSUME NEW a \in Range(Arms), NEW i \in DOMAIN results'[a]
       PROVE  results'[a][i].curve[1] = Bankroll
  <2>1. \A k \in DOMAIN results[a] : results[a][k].curve[1] = Bankroll
    BY DEF Reporting
  <2>2. r.curve[1] = Bankroll
    BY <1>1, <1>9 DEF Reporting, Walking
  <2>3. CASE a = h
    <3>1. PICK s \in Seq(RunType) : s = results[a]
      BY <1>11
    <3>2. results'[a] = Append(s, r)
      BY <1>10, <2>3, <3>1
    <3>3. i \in 1 .. Len(s) + 1 /\ Len(s) \in Nat /\ DOMAIN s = 1 .. Len(s)
      BY <1>14, <3>1, <3>2
    <3>4. CASE i = Len(s) + 1
      <4>1. Append(s, r)[i] = r
        BY <3>1, <3>4
      <4> QED
        BY <2>2, <3>2, <4>1
    <3>5. CASE i # Len(s) + 1
      <4>1. i \in DOMAIN s /\ Append(s, r)[i] = s[i]
        BY <3>1, <3>3, <3>5
      <4> QED
        BY <2>1, <3>1, <3>2, <4>1
    <3> QED
      BY <3>4, <3>5
  <2>4. CASE a # h
    BY <1>10, <1>14, <2>1, <2>4
  <2> QED
    BY <2>3, <2>4
<1>15. pc' # "done" /\ ~Walking' /\ pc' \in {"arms", "backtest"}
  BY <1>1 DEF Walking
<1> QED
  BY <1>6, <1>13, <1>14, <1>15 DEF Reporting

LEMMA ReportingHolds == Reporting /\ Folding /\ BacktestInv /\ [Next]_vars => Reporting'
<1> SUFFICES ASSUME Reporting, Folding, BacktestInv, [Next]_vars PROVE Reporting'
  OBVIOUS
<1>1. CASE Load \/ SkipFold
  <2>1. UNCHANGED <<arms, results>> /\ pc' = "folds" /\ pc \notin {"arms", "backtest"}
    BY <1>1 DEF Load, SkipFold
  <2> QED
    BY <2>1, ReportingStays DEF Walking
<1>2. CASE Train
  BY <1>2, TrainReports
<1>3. CASE \E b \in SUBSET Mints(frame) : StartArm(b)
  <2>1. UNCHANGED <<arms, results>> /\ pc' = "backtest" /\ curve' = <<Bankroll>>
    BY <1>3 DEF StartArm, Begin
  <2>2. curve'[1] = Bankroll
    BY <2>1
  <2> QED
    BY <2>1, <2>2, ReportingStays
<1>4. CASE Walk
  BY <1>4, WalkReports
<1>5. CASE FinishArm
  BY <1>5, FinishArmReports
<1>6. CASE EndFold
  <2>1. UNCHANGED <<arms, results>> /\ pc' = "folds" /\ arms = << >>
    BY <1>6 DEF EndFold
  <2> QED
    BY <2>1, ReportingStays DEF Walking
<1>7. CASE WriteReport
  <2>1. UNCHANGED <<arms, results>> /\ pc' = "done" /\ pc = "folds" /\ report' = Comparison
    BY <1>7 DEF WriteReport
  <2>2. Comparison' = Comparison
    BY <2>1, ComparisonStays
  <2> QED
    BY <2>1, <2>2, ReportingStays DEF Walking
<1>8. CASE UNCHANGED vars
  <2>1. UNCHANGED <<arms, results>> /\ pc' = pc /\ curve' = curve /\ report' = report
    BY <1>8 DEF vars, backtestVars
  <2>2. Comparison' = Comparison
    BY <2>1, ComparisonStays
  <2>3. (Walking' => curve'[1] = Bankroll) /\ (pc' = "done" => report' = Comparison')
    BY <2>1, <2>2 DEF Reporting, Walking
  <2> QED
    BY <2>1, <2>3, ReportingStays
<1> QED
  BY <1>1, <1>2, <1>3, <1>4, <1>5, <1>6, <1>7, <1>8 DEF Next

LEMMA RegimesAreFinite ==
  ASSUME Folding
  PROVE  /\ IsFiniteSet(RegimesRun) /\ Cardinality(RegimesRun) <= Len(results[Candidate])
         /\ Len(results[Candidate]) \in Nat /\ Cardinality(RegimesRun) \in Nat
<1>1. PICK runs : runs = results[Candidate]
  OBVIOUS
<1>2. Candidate \in Range(Arms)
  <2>1. 5 \in DOMAIN Arms /\ Arms[5] = Candidate
    BY DEF Arms
  <2> QED
    BY <2>1 DEF Range
<1>3. runs \in Seq(RunType)
  BY <1>1, <1>2, RunsType
<1>4. PICK n \in Nat : n = Len(runs) /\ DOMAIN runs = 1 .. n
  BY <1>3
<1>5. PICK G : G = RegimesRun
  OBVIOUS
<1>6. G = {Regime(runs[k].month) : k \in 1 .. n}
  BY <1>1, <1>4, <1>5 DEF RegimesRun, Range
<1>7. [k \in 1 .. n |-> Regime(runs[k].month)] \in Surjection(1 .. n, G)
  BY <1>6 DEF Surjection
<1>8. IsFiniteSet(1 .. n) /\ Cardinality(1 .. n) = n
  <2>1. IsFiniteSet(1 .. n) /\ Cardinality(1 .. n) = IF 1 > n THEN 0 ELSE n - 1 + 1
    BY FS_Interval
  <2> QED
    BY <2>1, n = 0 \/ n >= 1
<1>9. IsFiniteSet(G) /\ Cardinality(G) <= Cardinality(1 .. n)
  BY <1>7, <1>8, FS_Surjection
<1>10. Cardinality(G) \in Nat
  BY <1>9, FS_CardinalityType
<1> QED
  BY <1>1, <1>4, <1>5, <1>8, <1>9, <1>10

LEMMA CandidateIsArm ==
  Candidate \in Range(Arms) /\ Baselines \subseteq Range(Arms) /\ "random_basket" \in Range(Arms)
<1>1. /\ 5 \in DOMAIN Arms /\ Arms[5] = Candidate /\ 2 \in DOMAIN Arms /\ Arms[2] = "buy_everything"
      /\ 3 \in DOMAIN Arms /\ Arms[3] = "random_basket"
      /\ 4 \in DOMAIN Arms /\ Arms[4] = "heuristic_basket"
  BY DEF Arms
<1> QED
  BY <1>1 DEF Range, Baselines

LEMMA ReportAddsUpFollows == Folding /\ Reporting => ReportAddsUp
<1> SUFFICES ASSUME Folding, Reporting, pc = "done"
             PROVE  /\ \A a \in Range(Arms) :
                         results[a] # << >> => Last(Chain(a)) = report.totals[a]
                    /\ Product(report.regimes, DOMAIN report.regimes) = report.totals[Candidate]
  BY DEF ReportAddsUp
<1>1. /\ report.totals = [a \in Range(Arms) |-> Total(a)]
      /\ report.regimes = [g \in RegimesRun |-> Compounded(results[Candidate], InRegime(g))]
  BY DEF Reporting, Comparison
<1>2. ASSUME NEW a \in Range(Arms) PROVE Last(Chain(a)) = report.totals[a]
  BY <1>1, ChainEnds
<1>3. PICK runs : runs = results[Candidate]
  OBVIOUS
<1>4. runs \in Seq(RunType)
  BY <1>3, CandidateIsArm, RunsType
<1>5. PICK n \in Nat : n = Len(runs) /\ DOMAIN runs = 1 .. n
  BY <1>4
<1>6. PICK f, key, G, S : /\ f = [k \in DOMAIN runs |-> Last(runs[k].curve)] /\ S = DOMAIN runs
                          /\ key = [k \in DOMAIN runs |-> Regime(runs[k].month)] /\ G = RegimesRun
  OBVIOUS
<1>7. IsFiniteSet(S) /\ IsFiniteSet(G)
  BY <1>5, <1>6, FS_Interval, RegimesAreFinite
<1>8. \A k \in S : f[k] \in Int /\ key[k] \in G
  <2>1. \A k \in S : f[k] \in Int
    BY <1>4, <1>6, FactorsType
  <2>2. \A k \in S : key[k] \in G
    BY <1>3, <1>6 DEF RegimesRun, Range
  <2> QED
    BY <2>1, <2>2
<1>9. Product([g \in G |-> Product(f, {k \in S : key[k] = g})], G) = Product(f, S)
  BY <1>7, <1>8, ProductOfParts
<1>10. ASSUME NEW g PROVE Compounded(results[Candidate], InRegime(g)) = Product(f, {k \in S : key[k] = g})
  <2>1. InRegime(g) = {k \in S : key[k] = g}
    BY <1>3, <1>6 DEF InRegime
  <2> QED
    BY <1>3, <1>6, <2>1 DEF Compounded
<1>11. report.regimes = [g \in G |-> Product(f, {k \in S : key[k] = g})] /\ DOMAIN report.regimes = G
  BY <1>1, <1>6, <1>10
<1>12. Total(Candidate) = Product(f, S)
  BY <1>3, <1>6 DEF Total, Compounded
<1> QED
  BY <1>1, <1>2, <1>9, <1>11, <1>12, CandidateIsArm

LEMMA GateIsEarnedFollows == Folding /\ Reporting => GateIsEarned
<1> SUFFICES ASSUME Folding, Reporting, pc = "done", report.gate
             PROVE  LET n == Len(results[Candidate])
                    IN /\ n >= 2
                       /\ \A x \in Range(Chain(Candidate)) : 100 * x >= (100 - MaxDrawdownPct) * Power(n)
                       /\ \A a \in Baselines : Last(Chain(Candidate)) > Last(Chain(a))
                       /\ (\A r \in Range(results["random_basket"]) : Len(r.curve) = 1)
                            => report.totals[Candidate] > Power(n)
  BY DEF GateIsEarned
<1>1. BeatsAll /\ Cardinality(RegimesRun) >= 2 /\ DrawdownWithin(Chain(Candidate), MaxDrawdownPct)
  <2>1. Gate
    BY DEF Reporting, Comparison
  <2> QED
    BY <2>1 DEF Gate
<1>2. PICK n \in Nat : n = Len(results[Candidate])
  BY RegimesAreFinite
<1>3. n >= 2
  BY <1>1, <1>2, RegimesAreFinite
<1>4. ASSUME NEW x \in Range(Chain(Candidate)) PROVE 100 * x >= (100 - MaxDrawdownPct) * Power(n)
  <2>1. PICK c : c = Chain(Candidate)
    OBVIOUS
  <2>2. c \in Seq(Int) /\ c # << >> /\ c[1] = Power(n)
    BY <1>2, <2>1, CandidateIsArm, ChainEnds
  <2>3. PICK j \in DOMAIN c : x = c[j]
    BY <2>1 DEF Range
  <2>4. 1 \in DOMAIN c /\ 1 <= j
    BY <2>2
  <2> QED
    BY <1>1, <2>1, <2>2, <2>3, <2>4 DEF DrawdownWithin
<1>5. ASSUME NEW a \in Baselines PROVE Last(Chain(Candidate)) > Last(Chain(a))
  <2>1. Last(Chain(Candidate)) = Total(Candidate) /\ Last(Chain(a)) = Total(a)
    BY CandidateIsArm, ChainEnds
  <2> QED
    BY <1>1, <2>1 DEF BeatsAll
<1>6. ASSUME \A r \in Range(results["random_basket"]) : Len(r.curve) = 1
      PROVE  report.totals[Candidate] > Power(n)
  <2>1. PICK runs : runs = results["random_basket"]
    OBVIOUS
  <2>2. runs \in Seq(RunType)
    BY <2>1, CandidateIsArm, RunsType
  <2>3. arms = << >>
    BY DEF Reporting
  <2>4. \A a : FoldsDue(a) = Len(results[a]) + 0
    <3>1. Range(arms) = {}
      BY <2>3 DEF Range
    <3> QED
      BY <3>1 DEF FoldsDue
  <2>5. Len(runs) = n /\ DOMAIN runs = 1 .. n
    <3>1. FoldsDue("random_basket") = FoldsDue(Candidate)
      BY CandidateIsArm DEF Reporting
    <3>2. Len(runs) = n
      BY <1>2, <2>1, <2>2, <2>4, <3>1
    <3> QED
      BY <2>2, <3>2
  <2>6. PICK f, g : f = [k \in DOMAIN runs |-> Last(runs[k].curve)] /\ g = [k \in 1 .. n |-> Bankroll]
    OBVIOUS
  <2>7. ASSUME NEW k \in 1 .. n PROVE f[k] = g[k]
    <3>1. PICK c : c = runs[k].curve
      OBVIOUS
    <3>2. runs[k] \in Range(runs)
      BY <2>5 DEF Range
    <3>3. Len(c) = 1
      BY <1>6, <2>1, <3>1, <3>2
    <3>4. c[1] = Bankroll
      BY <2>1, <2>5, <3>1, CandidateIsArm DEF Reporting
    <3>5. Last(c) = Bankroll
      BY <3>3, <3>4 DEF Last
    <3> QED
      BY <2>5, <2>6, <3>1, <3>5
  <2>8. Product(f, 1 .. n) = Product(g, 1 .. n)
    <3>1. IsFiniteSet(1 .. n)
      BY FS_Interval
    <3> QED
      BY <2>7, <3>1, ProductAlike
  <2>9. Total("random_basket") = Power(n)
    BY <2>1, <2>5, <2>6, <2>8 DEF Total, Compounded, Power
  <2>10. Total(Candidate) > Total("random_basket")
    BY <1>1 DEF BeatsAll, Baselines
  <2>11. report.totals[Candidate] = Total(Candidate)
    BY CandidateIsArm DEF Reporting, Comparison
  <2> QED
    BY <2>9, <2>10, <2>11
<1> QED
  BY <1>2, <1>3, <1>4, <1>5, <1>6

(* The report says what the folds made, and a passed gate means it.          *)
THEOREM ReportsAreEarned == Spec => []ReportIsEarned
<1>1. Init => Reporting
  BY ReportingStarts
<1>2. Reporting /\ (Folding /\ BacktestInv) /\ [Next]_vars => Reporting'
  BY ReportingHolds
<1>3. (Folding /\ BacktestInv) /\ Reporting => ReportIsEarned
  BY ReportAddsUpFollows, GateIsEarnedFollows DEF ReportIsEarned
<1> QED
  BY <1>1, <1>2, <1>3, BacktestIsSound, PTL DEF Spec
=============================================================================
