------------------------------ MODULE Walkforward ------------------------------
(***************************************************************************)
(* The run of model.run: the data set is loaded and filtered; each month   *)
(* with two months before it is a fold, in which a model is trained on the *)
(* months before, scores the tokens of the month, and its basket and the   *)
(* baskets it is compared with are backtested; the report compares them.   *)
(*                                                                         *)
(* What the booster makes of the features is not modelled: the model gives *)
(* any of its scores to any token.                                         *)
(***************************************************************************)
EXTENDS Backtest

CONSTANTS
  World,           \* by name, the tables there may be
  MinTrainRows,    \* _MIN_TRAIN_ROWS
  MinTestRows,     \* _MIN_TEST_ROWS
  Score,           \* calibrated scores, in percent
  EntryThreshold,  \* entry_threshold, in percent
  CalibrationPct,  \* calibration_fraction, in percent
  MaxDrawdownPct   \* _MAX_DRAWDOWN_GATE, in percent

ASSUME WalkforwardAssumption ==
  /\ MinTrainRows \in Nat \ {0} /\ MinTestRows \in Nat \ {0} /\ CalibrationPct \in 0 .. 99
  /\ \A t \in UNION Range(World) :     \* mint is the primary key of graduations
       /\ t.graduations \in Seq(Graduation) /\ t.snapshots \subseteq Snapshot
       /\ \A i, j \in DOMAIN t.graduations : t.graduations[i].mint = t.graduations[j].mint => i = j

VARIABLES
  tables,   \* historical_graduations and intraperiod_snapshots
  frame,    \* the data set
  months,   \* months still to be tested
  model,    \* the rows the model was fitted and calibrated on
  basket,   \* what the model would buy
  arms,     \* baskets of the fold still to be backtested
  results,  \* by arm, its result in every fold that ran
  report,
  pc

vars == <<tables, frame, months, model, basket, arms, results, report, pc, backtestVars>>

Baselines == {"buy_everything", "random_basket", "heuristic_basket"}
Candidate == "stop_loss_buy_everything"
Arms == <<"model", "buy_everything", "random_basket", "heuristic_basket", Candidate>>

NoModel == [fit |-> << >>, calib |-> << >>]
NoReport == [gate |-> FALSE, totals |-> << >>, regimes |-> << >>]

Init ==
  /\ tables \in UNION Range(World)
  /\ frame = << >> /\ months = << >> /\ model = NoModel /\ basket = {}
  /\ arms = << >> /\ results = [a \in Range(Arms) |-> << >>] /\ report = NoReport
  /\ pc = "load"
  /\ Idle

Load ==
  /\ pc = "load"
  /\ frame' = FilterGarbage(LoadDataframe(tables.graduations, tables.snapshots))
  /\ months' = TestMonths(frame')
  /\ pc' = "folds"
  /\ UNCHANGED <<tables, model, basket, arms, results, report, backtestVars>>

TooThin(m) ==
  Len(TrainRows(frame, m)) < MinTrainRows \/ Len(TestRows(frame, m)) < MinTestRows

SkipFold ==
  /\ pc = "folds" /\ months # << >> /\ TooThin(Head(months))
  /\ months' = Tail(months)
  /\ UNCHANGED <<tables, frame, model, basket, arms, results, report, pc, backtestVars>>

(* Rounding to the nearest, a half to the even.                             *)
Rounded(n, d) ==
  LET q == n \div d
      r == n % d
  IN IF 2 * r > d \/ (2 * r = d /\ q % 2 = 1) THEN q + 1 ELSE q

(* The last rows calibrate; when they would be none, all rows do both.      *)
Split(train) ==
  LET n == Max({0, Min({Rounded(Len(train) * CalibrationPct, 100), Len(train) - 1})})
      at == Len(train) - n
  IN IF n = 0 THEN [fit |-> train, calib |-> train]
     ELSE [fit |-> SubSeq(train, 1, at), calib |-> SubSeq(train, at + 1, Len(train))]

Train ==
  /\ pc = "folds" /\ months # << >> /\ ~TooThin(Head(months))
  /\ model' = Split(TrainRows(frame, Head(months)))
  /\ \E scores \in [Mints(TestRows(frame, Head(months))) -> Score] :
       basket' = {m \in DOMAIN scores : scores[m] >= EntryThreshold}
  /\ arms' = Arms
  /\ pc' = "arms"
  /\ UNCHANGED <<tables, frame, months, results, report, backtestVars>>

(* What an arm may hold, from the tokens of the month.                      *)
Baskets(arm) ==
  LET test == TestRows(frame, Head(months))
  IN CASE arm = "model" -> {basket}
       [] arm = "random_basket" -> RandomBaskets(test, Cardinality(basket))
       [] arm = "heuristic_basket" -> {HeuristicBasket(test)}
       [] OTHER -> {BuyEverything(test)}

StartArm(b) ==
  /\ pc = "arms" /\ arms # << >> /\ b \in Baskets(Head(arms))
  /\ Begin(TestRows(frame, Head(months)), b, Head(arms) = Candidate)
  /\ pc' = "backtest"
  /\ UNCHANGED <<tables, frame, months, model, basket, arms, results, report>>

Walk ==
  /\ pc = "backtest"
  /\ \E e \in pending : Enter(e) \/ Skip(e) \/ Close(e) \/ Miss(e)
  /\ UNCHANGED <<tables, frame, months, model, basket, arms, results, report, pc>>

FinishArm ==
  /\ pc = "backtest" /\ pending = {}
  /\ results' = [results EXCEPT ![Head(arms)] = Append(@, [month |-> Head(months), curve |-> curve])]
  /\ arms' = Tail(arms)
  /\ pc' = "arms"
  /\ UNCHANGED <<tables, frame, months, model, basket, report, backtestVars>>

EndFold ==
  /\ pc = "arms" /\ arms = << >>
  /\ months' = Tail(months) /\ pc' = "folds"
  /\ UNCHANGED <<tables, frame, model, basket, arms, results, report, backtestVars>>

-----------------------------------------------------------------------------
(* The report.  Equity is a product of one factor for each fold: every      *)
(* number below is scaled by Bankroll to the power of the folds that ran.   *)

Product(f, S) == FoldFunctionOnSet( *, 1, f, S)
Power(n) == Product([i \in 1 .. n |-> Bankroll], 1 .. n)

(* Compounded final equity of some of the folds.                            *)
Compounded(runs, K) == Product([k \in DOMAIN runs |-> Last(runs[k].curve)], K)
Total(arm) == Compounded(results[arm], DOMAIN results[arm])

(* The curves one after the other, each beginning where the last one ended. *)
Chain(arm) ==
  LET runs == results[arm]
  IN IF runs = << >> THEN <<1>>
     ELSE FlattenSeq([k \in DOMAIN runs |->
            [i \in DOMAIN runs[k].curve |->
               Compounded(runs, 1 .. k - 1) * runs[k].curve[i] * Power(Len(runs) - k)]])

(* No later point lies further below an earlier one.                        *)
DrawdownWithin(points, pct) ==
  \A i, j \in DOMAIN points : i <= j => 100 * points[j] >= (100 - pct) * points[i]

(* The folds of a regime, and the regimes there were.                       *)
InRegime(regime) ==
  {k \in DOMAIN results[Candidate] : Regime(results[Candidate][k].month) = regime}
RegimesRun == {Regime(r.month) : r \in Range(results[Candidate])}

(* Mutant: the candidate is compared with one baseline that is worse.       *)
BeatsSome == \E a \in Baselines : Total(Candidate) > Total(a)

BeatsAll == \A a \in Baselines : Total(Candidate) > Total(a)

Gate == /\ BeatsAll
        /\ Cardinality(RegimesRun) >= 2
        /\ DrawdownWithin(Chain(Candidate), MaxDrawdownPct)

Comparison ==
  [gate |-> Gate, totals |-> [a \in Range(Arms) |-> Total(a)],
   regimes |-> [g \in RegimesRun |-> Compounded(results[Candidate], InRegime(g))]]

WriteReport ==
  /\ pc = "folds" /\ months = << >>
  /\ report' = Comparison
  /\ pc' = "done"
  /\ UNCHANGED <<tables, frame, months, model, basket, arms, results, backtestVars>>

-----------------------------------------------------------------------------
Next ==
  \/ Load \/ SkipFold \/ Train
  \/ \E b \in SUBSET Mints(frame) : StartArm(b)
  \/ Walk \/ FinishArm \/ EndFold \/ WriteReport

Spec == Init /\ [][Next]_vars
=============================================================================
