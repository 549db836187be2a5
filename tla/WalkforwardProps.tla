--------------------------- MODULE WalkforwardProps ---------------------------
(* What may be relied on in a backtest and in the report about it.           *)
EXTENDS Walkforward

TypeOK ==
  /\ pc \in {"load", "folds", "arms", "backtest", "done"}
  /\ \A r \in Range(frame) : r.quote \in Nat \ {0} /\ Len(r.snaps) = Days
  /\ basket \subseteq Mints(frame)
  /\ bankroll \in Nat /\ free \in 0 .. SlotCount
  /\ \A m \in DOMAIN open : open[m].sol \in Nat \ {0} /\ open[m].tokens \in Nat
  /\ \A p \in Range(positions) : p.in \in Nat \ {0} /\ p.out \in Nat
  /\ \A a \in DOMAIN results : \A r \in Range(results[a]) : r.curve # << >>

Walking == pc = "backtest"

Gained == SumFunction([i \in DOMAIN positions |-> positions[i].out - positions[i].in])

(* No SOL and no slot is made or lost on the way: every slot is free or      *)
(* holds a position, idle SOL and the cost of what is held are what the      *)
(* round trips so far have made of the bankroll, and that is what the equity *)
(* curve says.                                                               *)
NothingIsLost ==
  Walking =>
    /\ free + Cardinality(DOMAIN open) = SlotCount
    /\ Equity(bankroll, open) = Bankroll + Gained
    /\ Last(curve) = Equity(bankroll, open)

(* Every position that was entered is closed, later than it was entered and  *)
(* once, also that of a token whose horizon lies before its entry.           *)
EveryEntryExits ==
  /\ Walking /\ pending = {} => open = << >> /\ free = SlotCount
  /\ \A p \in Range(positions) : p.entry < p.exit
  /\ \A i, j \in DOMAIN positions : positions[i].mint = positions[j].mint => i = j

Held(time) == Cardinality({p \in Range(positions) : p.entry <= time /\ time < p.exit})
Moved(p, time) == IF p.exit <= time THEN p.out - p.in ELSE IF p.entry <= time THEN -p.in ELSE 0
IdleAt(time) == Bankroll + SumFunction([i \in DOMAIN positions |-> Moved(positions[i], time)])

(* A token that is to be bought is left out only when, at its entry, every   *)
(* slot held a position that was sold later, or what was idle would not have *)
(* filled the free slots: a slot freed at an instant serves an entry of the  *)
(* same instant.                                                             *)
NoNeedlessSkip ==
  Walking /\ pending = {} /\ Head(arms) \in {"buy_everything", Candidate} =>
    \A r \in Range(rows) : HasEntryLiquidity(r) /\ (\A p \in Range(positions) : p.mint # r.mint) =>
      \/ Held(EntryTime(r)) = SlotCount
      \/ IdleAt(EntryTime(r)) < SlotCount - Held(EntryTime(r))

(* The backtest neither makes nor strands capital, nor leaves it idle where  *)
(* it could be used, wherever entries and exits fall.                        *)
SlotsAndMoney == TypeOK /\ NothingIsLost /\ EveryEntryExits /\ NoNeedlessSkip

(* What the model is taught is what the backtest pays for: a position held   *)
(* to its outcome earns more than it cost only if its token has the label,   *)
(* so that fees and slippage only ever take away.                            *)
ProfitIsLabelled ==
  ~stop => \A p \in Range(positions) : p.out > p.in => Label(Row(rows, p.mint))

(* The candidate holds no position over the end of a day on which the pool   *)
(* was known to be below the stop, and sells early only then.                *)
StopLimitsHold ==
  stop => \A p \in Range(positions) :
    LET r == Row(rows, p.mint)
        below(i) == r.snaps[i].quote \in Nat /\ r.snaps[i].base \in Nat
                      /\ 100 * r.snaps[i].quote < StopPct * r.quote
    IN /\ \A i \in 1 .. Days : below(i) => p.exit <= r.time + i * Day
       /\ \/ p.exit = r.checked \/ p.exit = p.entry + 1
          \/ \E i \in 1 .. Days : below(i) /\ p.exit = r.time + i * Day

(* A model is fitted on tokens that graduated before those it is calibrated  *)
(* on, both before the month it is tested on, and buys tokens of that month. *)
TrainedOnThePast ==
  pc \in {"arms", "backtest"} =>
    LET times(part) == {r.time : r \in Range(part)}
        start == Head(months) * Month
    IN /\ model.fit # << >> /\ model.calib # << >>
       /\ \A t \in times(model.fit) : \A u \in times(model.calib) :
            model.fit = model.calib \/ t <= u
       /\ \A t \in times(model.fit) \cup times(model.calib) : t < start
       /\ \A r \in Range(frame) : r.mint \in basket => r.time \in start .. start + Month - 1

(* The numbers of the report are computed in three ways that agree: the      *)
(* chained curve of an arm ends at its compounded return, and the            *)
(* candidate's returns by regime multiply up to its return.                  *)
ReportAddsUp ==
  pc = "done" =>
    /\ \A a \in Range(Arms) : results[a] # << >> => Last(Chain(a)) = report.totals[a]
    /\ Product(report.regimes, DOMAIN report.regimes) = report.totals[Candidate]

(* A gate that is passed was earned: whoever followed the candidate through  *)
(* all months never had less than the drawdown allows of what he began with, *)
(* did not end below any baseline, and ended above what he began with        *)
(* whenever the model, and the random basket of its size, bought nothing.    *)
GateIsEarned ==
  pc = "done" /\ report.gate =>
    LET n == Len(results[Candidate])
    IN /\ n >= 2
       /\ \A x \in Range(Chain(Candidate)) : 100 * x >= (100 - MaxDrawdownPct) * Power(n)
       /\ \A a \in Baselines : Last(Chain(Candidate)) > Last(Chain(a))
       /\ (\A r \in Range(results["random_basket"]) : Len(r.curve) = 1)
            => report.totals[Candidate] > Power(n)

(* The report says what the folds made, and a passed gate means it.          *)
ReportIsEarned == ReportAddsUp /\ GateIsEarned

-----------------------------------------------------------------------------
(* The inductive invariant behind these.                                    *)

(* A frame has one row for a token, in the order of time.                   *)
FrameRow == [mint : STRING, time : Nat, base : Number, quote : Nat \ {0}, launches : Number,
             curve : Number, outcome : Pool, checked : Nat, snaps : [1 .. Days -> Pool]]
IsFrame(f) ==
  /\ f \in Seq(FrameRow)
  /\ \A i, j \in DOMAIN f : f[i].mint = f[j].mint => i = j
  /\ \A i, j \in DOMAIN f : i <= j => f[i].time <= f[j].time

(* A run goes on where its tests are, with the models and baskets of them.  *)
Folding ==
  /\ pc \in {"load", "folds", "arms", "backtest", "done"}
  /\ tables \in UNION Range(World)
  /\ IsFrame(frame) /\ (pc = "load" => basket = {})
  /\ months \in Seq(Nat)
  /\ basket \subseteq Mints(frame)
  /\ arms \in Seq(Range(Arms))
  /\ results \in [Range(Arms) -> Seq([month : Nat, curve : Seq(Int) \ {<< >>}])]
  /\ pc \in {"arms", "backtest"} =>
       /\ months # << >> /\ ~TooThin(Head(months))
       /\ model = Split(TrainRows(frame, Head(months)))
       /\ basket \subseteq Mints(TestRows(frame, Head(months)))
  /\ Walking => arms # << >> /\ rows = TestRows(frame, Head(months))

EntryOf(r) == [time |-> EntryTime(r), kind |-> 1, mint |-> r.mint]
ExitOf(r) == [time |-> ExitTime(r, stop), kind |-> 0, mint |-> r.mint]

Completed(m) == \E i \in DOMAIN positions : positions[i].mint = m

(* A position that is open is of a token whose exit is to come.             *)
OpenFor(m, r) ==
  /\ r.mint = m /\ HasEntryLiquidity(r) /\ ExitOf(r) \in pending
  /\ open[m].time = EntryTime(r) /\ open[m].sol \in Nat \ {0}
  /\ open[m].tokens = EntryFill(open[m].sol, r.base, r.quote)

(* A round trip is that of its token.                                       *)
TripOf(p, r) ==
  /\ r.mint = p.mint /\ HasEntryLiquidity(r) /\ ExitOf(r) \notin pending
  /\ p.entry = EntryTime(r) /\ p.exit = ExitTime(r, stop) /\ p.in \in Nat \ {0}
  /\ p.out = ExitFill(EntryFill(p.in, r.base, r.quote), ExitEvent(r, stop).base,
                      ExitEvent(r, stop).quote)

(* Every token enters before it leaves, and both once.                      *)
Scheduled ==
  /\ stop \in BOOLEAN
  /\ \A e \in pending : \E r \in Range(rows) : HasEntryLiquidity(r) /\ e \in {EntryOf(r), ExitOf(r)}
  /\ \A r \in Range(rows) : EntryOf(r) \in pending =>
       ExitOf(r) \in pending /\ r.mint \notin DOMAIN open /\ ~Completed(r.mint)
  /\ \A m \in DOMAIN open : ~Completed(m) /\ \E r \in Range(rows) : OpenFor(m, r)
  /\ \A i \in DOMAIN positions : \E r \in Range(rows) : TripOf(positions[i], r)
  /\ \A i, j \in DOMAIN positions : positions[i].mint = positions[j].mint => i = j

(* What is open was opened, and what is sold was sold, before what comes.   *)
Chronological ==
  \A f \in pending :
    /\ \A m \in DOMAIN open : open[m].time <= f.time
    /\ \A i \in DOMAIN positions : positions[i].exit <= f.time

Position == [mint : STRING, entry : Nat, exit : Nat, in : Nat \ {0}, out : Nat]

(* SOL and slots add up.                                                    *)
Balanced ==
  /\ bankroll \in Nat /\ free \in 0 .. SlotCount
  /\ open = [m \in DOMAIN open |-> open[m]]
  /\ IsFiniteSet(DOMAIN open) /\ free + Cardinality(DOMAIN open) = SlotCount
  /\ positions \in Seq(Position)
  /\ Equity(bankroll, open) = Bankroll + Gained

(* The curve ends at the equity there is.                                   *)
Drawn == curve \in Seq(Int) /\ curve # << >> /\ Last(curve) = Equity(bankroll, open)

(* The slots that were taken and the SOL that was idle at a time, as far as *)
(* the backtest has come.                                                   *)
HeldAt(time) ==
  Cardinality({m \in DOMAIN open : open[m].time <= time})
    + Cardinality({i \in DOMAIN positions : positions[i].entry <= time /\ time < positions[i].exit})
IdleSoFar(time) ==
  IdleAt(time) - SumFunction([m \in DOMAIN open |-> IF open[m].time <= time THEN open[m].sol ELSE 0])

(* A token that was passed over could not have been bought, and whatever of *)
(* its instant is still to come cannot be bought either.                    *)
PassedOver(r) ==
  /\ HasEntryLiquidity(r) /\ EntryOf(r) \notin pending
  /\ r.mint \notin DOMAIN open /\ ~Completed(r.mint)
NothingWasLeft(time) ==
  /\ HeldAt(time) = SlotCount \/ IdleSoFar(time) < SlotCount - HeldAt(time)
  /\ \A f \in pending : f.time > time \/ (f.time = time /\ f.kind = 1 /\ Slice = 0)
SkippedForCause ==
  Head(arms) \in {"buy_everything", Candidate} =>
    \A r \in Range(rows) : PassedOver(r) => NothingWasLeft(EntryTime(r))

BacktestInv ==
  /\ IsFrame(rows) /\ Scheduled /\ Chronological /\ Balanced
  /\ Walking => Drawn /\ SkippedForCause

(* The folds an arm has been through once this one is over.                 *)
FoldsDue(arm) == Len(results[arm]) + (IF arm \in Range(arms) THEN 1 ELSE 0)

(* All arms go through the same folds, each with the bankroll to begin      *)
(* with, and the report is about what they made of it.                      *)
Reporting ==
  /\ \A i, j \in DOMAIN arms : arms[i] = arms[j] => i = j
  /\ pc \notin {"arms", "backtest"} => arms = << >>
  /\ \A a, b \in Range(Arms) : FoldsDue(a) = FoldsDue(b)
  /\ \A a \in Range(Arms) : \A i \in DOMAIN results[a] : results[a][i].curve[1] = Bankroll
  /\ Walking => curve[1] = Bankroll
  /\ pc = "done" => report = Comparison
=============================================================================
