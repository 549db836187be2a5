----------------------------- MODULE Graduations -----------------------------
(***************************************************************************)
(* The data set of the backtest: what is loaded from historical_graduations*)
(* and intraperiod_snapshots, what the garbage filter keeps, the label, the*)
(* folds, the baskets that need no model and the regime of a month.  A row *)
(* has the columns these read.                                             *)
(***************************************************************************)
EXTENDS Ranks, SequencesExt

CONSTANTS
  Day,            \* time units of a day
  Month,          \* time units of a month
  Days,           \* daily snapshots
  MinLiquidity,   \* min_entry_liq_lamports
  MaxLaunches,    \* max_deployer_prior_launches
  MinCurve,       \* min_curve_sol_lamports
  HeuristicLiquidity, HeuristicLaunches, HeuristicCurve,  \* _HEURISTIC_*
  TrueGraduations \* by month, TRUE_MONTHLY_GRADUATIONS

ASSUME GraduationsAssumption ==
  /\ Day \in Nat \ {0} /\ Month \in Nat \ {0} /\ Days \in Nat
  /\ MinLiquidity \in Nat \ {0}

NaN == -1   \* a NULL of the table; every comparison with it is false
Number == Nat \cup {NaN}

Pool == [base : Number, quote : Number]
Graduation == [mint : STRING, time : Nat, base : Number, quote : Number, launches : Number,
               curve : Number, outcome : Pool, checked : Nat]
Snapshot == [mint : STRING, index : Nat, base : Number, quote : Number]

Unknown == [base |-> NaN, quote |-> NaN]

(* What the pool held at the end of each day, where it is known.            *)
DailySnapshots(mint, snapshots) ==
  [i \in 1 .. Days |->
     IF \E s \in snapshots : s.mint = mint /\ s.index = i
     THEN LET s == CHOOSE x \in snapshots : x.mint = mint /\ x.index = i
          IN [base |-> s.base, quote |-> s.quote]
     ELSE Unknown]

(* Rows by graduation time, those of one time in the order of the table,    *)
(* each with its daily snapshots.                                           *)
LoadDataframe(table, snapshots) ==
  LET order == ByRank(DOMAIN table, [i \in DOMAIN table |-> Len(table) * table[i].time + i])
      loaded(g) == [mint |-> g.mint, time |-> g.time, base |-> g.base, quote |-> g.quote,
                    launches |-> g.launches, curve |-> g.curve, outcome |-> g.outcome,
                    checked |-> g.checked, snaps |-> DailySnapshots(g.mint, snapshots)]
  IN [n \in DOMAIN table |-> loaded(table[order[n]])]

(* Entry liquidity must be known; the curve may be unknown.                 *)
Kept(r) ==
  /\ r.quote # NaN /\ r.quote >= MinLiquidity
  /\ r.launches # NaN /\ r.launches <= MaxLaunches
  /\ r.curve = NaN \/ r.curve >= MinCurve

FilterGarbage(frame) == Subsequence(frame, {i \in DOMAIN frame : Kept(frame[i])})

(* Mutant: the label of the survival model, a pool that still holds SOL.    *)
LabelSurvived(r) == r.outcome.quote >= MinLiquidity

(* A positive return: the price, SOL per token, is higher at the outcome    *)
(* than at entry.  A price that is not defined is not higher.               *)
Label(r) ==
  /\ r.base > 0 /\ r.quote > 0 /\ r.outcome.base > 0
  /\ r.outcome.quote * r.base > r.quote * r.outcome.base

Mints(frame) == {r.mint : r \in Range(frame)}
Row(frame, mint) == CHOOSE r \in Range(frame) : r.mint = mint

MonthOf(time) == time \div Month
Months(frame) == {MonthOf(r.time) : r \in Range(frame)}

(* Months that are tested: those with two months before them.               *)
TestMonths(frame) ==
  LET tested == {m \in Months(frame) : Cardinality({k \in Months(frame) : k < m}) >= 2}
  IN Ascending(tested)

(* Mutant: the window of a fold ends with the month it is tested on.        *)
TrainedOnTest(frame, m) ==
  Subsequence(frame, {i \in DOMAIN frame : MonthOf(frame[i].time) <= m})

TrainRows(frame, m) == Subsequence(frame, {i \in DOMAIN frame : MonthOf(frame[i].time) < m})
TestRows(frame, m) == Subsequence(frame, {i \in DOMAIN frame : MonthOf(frame[i].time) = m})

BuyEverything(frame) == Mints(frame)

RandomBaskets(frame, size) ==
  IF size >= Len(frame) THEN {Mints(frame)}
  ELSE {b \in SUBSET Mints(frame) : Cardinality(b) = size}

HeuristicBasket(frame) ==
  {r.mint : r \in {x \in Range(frame) : /\ x.quote >= HeuristicLiquidity
                                        /\ x.launches \in HeuristicLaunches
                                        /\ x.curve >= HeuristicCurve}}

(* A month with more graduations than the median month is a mania.          *)
TwiceTheMedian ==
  LET months == SetToSortSeq(DOMAIN TrueGraduations,
                  LAMBDA k, m : \/ TrueGraduations[k] < TrueGraduations[m]
                                \/ TrueGraduations[k] = TrueGraduations[m] /\ k < m)
      n == Len(months)
  IN TrueGraduations[months[(n + 1) \div 2]] + TrueGraduations[months[n \div 2 + 1]]

Regime(m) ==
  IF m \notin DOMAIN TrueGraduations THEN "none"
  ELSE IF 2 * TrueGraduations[m] > TwiceTheMedian THEN "mania" ELSE "quiet"
=============================================================================
