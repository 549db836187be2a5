------------------------------- MODULE Phase6 -------------------------------
(***************************************************************************)
(* What the fund learns after a tick.                                      *)
(*                                                                         *)
(* A close is audited: it is scored in the frontmatter of lessons.md,      *)
(* logged, and the risk parameters are tuned.  Phase 6 then records the    *)
(* universe in the counterfactual ledger (universe_price_history.jsonl),   *)
(* compares earlier decisions with today's prices, and decides whether the *)
(* Reflector is to be asked; its answer is persisted, and the rules that   *)
(* follow are written back to lessons.md, which every agent reads.         *)
(*                                                                         *)
(* These are programs run one after another by the session that runs the   *)
(* tick; each append and each rewrite of a file is a step, and a program   *)
(* may be killed between two.  Returns are compared in whole percents,     *)
(* consensus scores are percents.                                          *)
(***************************************************************************)
EXTENDS Reflections, RiskCalibration, SequencesExt

CONSTANTS
  Symbol,      \* tokens there are
  World,       \* by name, what there is and may happen: universe, quotes, answers, the
               \* ticks a caller may give with one, closes; and how many ticks and runs
               \* are recorded (bounds)
  JumpRatio,   \* _MAX_TICK_PRICE_RATIO
  Lookback,    \* prior rows of a symbol that are compared
  DayTicks,    \* ticks of the "24h" window
  ForceAfter,  \* TRIG_FORCE_AFTER_TICKS
  ContestBar,  \* GOOD_REJECTION_CONTEST_THRESHOLD
  ProbeBar,    \* PROBE_OPTIMIST_BAR
  MaxFaults    \* bound: programs killed


VARIABLES
  world,        \* the world this behaviour is in
  round,        \* ticks of the fund
  quotes,       \* tick_risk_input.json, smaf_risk.json and smaf_pm.json
  holdings,     \* account.json: the symbols held
  ledger,       \* universe_price_history.jsonl
  staged,       \* reflection_inputs.jsonl
  payload,      \* ticks smaf_reflector_input.json was written for, the file being the last
  answer,       \* smaf_reflector.json
  runs,         \* reflector_runs.jsonl
  reflections,  \* lessons_reflections.jsonl
  audits,       \* closed_trades_audit.jsonl
  lessons,      \* lessons.md
  pc,           \* the next step of the program that runs
  tick,         \* its tick
  todo,         \* symbols it has still to record
  rows,         \* reflections it has still to append
  closing,      \* the close it audits
  faults

ledgerVars == <<ledger, staged, payload>>
answerVars == <<answer, runs, reflections>>
marketVars == <<world, round, quotes, holdings>>
vars == <<marketVars, ledgerVars, answerVars, audits, lessons, pc, tick, todo, rows, closing,
          faults>>

(* What is known of a symbol in a tick: what the feed says it costs (0 when *)
(* it does not answer), what it costs, what was decided, and the scores.    *)
Decision == {"reject", "approve", "hold", "buy", "sell", "trim"}
Quote == [feed : Nat, price : Nat \ {0}, decision : Decision,
          consensus : Int, optimism : Int]
Outcome == [stopped : BOOLEAN, pct : Int, spread : 0 .. 100, volatile : BOOLEAN]
Judgement == [kind : {"confirming", "disconfirming"}, support : Nat \cup {NoCount},
              suggestion : Suggestion]
Candidate == [id : OwnName, support : Nat]
Answer == [new : Seq(Candidate), about : Seq(Judgement)]

NoTick == 0

ASSUME Phase6Assumption ==
  /\ JumpRatio \in Nat /\ JumpRatio >= 20   \* the code: 100
  /\ Lookback \in Nat \ {0} /\ ForceAfter \in Nat \ {0}
  /\ MaxFaults \in Nat
  /\ \A w \in DOMAIN World :
       /\ World[w].universe \subseteq Symbol
       /\ World[w].quotes \in Seq(SUBSET [Symbol -> Quote])
       /\ World[w].answers \subseteq Answer /\ World[w].given \subseteq Nat
       /\ World[w].outcomes \subseteq Outcome
       /\ World[w].closes \in Nat /\ World[w].ticks \in Nat /\ World[w].runs \in Nat

NoAnswer == [time |-> 0, tick |-> NoTick, new |-> << >>, about |-> << >>]
NoClose == [pct |-> 0]
Nothing == [candidate |-> {}, validated |-> {}, rejected |-> {}]
NoCounts == [candidate |-> 0, validated |-> 0, rejected |-> 0]

Init ==
  /\ world \in DOMAIN World
  /\ round = 0
  /\ quotes = [s \in Symbol |-> [feed |-> 0, decision |-> "reject"]]
  /\ holdings = {}
  /\ ledger = << >> /\ staged = << >> /\ payload = {}
  /\ answer = NoAnswer /\ runs = << >> /\ reflections = << >>
  /\ audits = << >>
  /\ lessons = [counts |-> NoCounts, body |-> Nothing, audited |-> 0,
                stats |-> [b \in Bucket \cup {Split} |-> [n |-> 0, sum |-> 0]],
                calibration |-> Uncalibrated]
  /\ pc = "idle" /\ tick = 0 /\ todo = {} /\ rows = << >> /\ closing = NoClose
  /\ faults = 0

-----------------------------------------------------------------------------
(* Closes. *)

ScoreClose(o) ==
  /\ pc = "idle" /\ Len(audits) < World[world].closes
  /\ o \in World[world].outcomes
  /\ lessons' = [lessons EXCEPT
       !.audited = @ + 1,
       !.stats[BucketOf(o.spread)] = [n |-> @.n + 1, sum |-> @.sum + o.pct]]
  /\ pc' = "log" /\ closing' = o
  /\ UNCHANGED <<marketVars, ledgerVars, answerVars, audits, tick, todo, rows, faults>>

LogClose ==
  /\ pc = "log"
  /\ audits' = Append(audits, closing)
  /\ pc' = "stop"
  /\ UNCHANGED <<marketVars, ledgerVars, answerVars, lessons, tick, todo, rows, closing, faults>>

CalibrateStop ==
  /\ pc = "stop"
  /\ lessons' = [lessons EXCEPT !.calibration = StopTuned(@, closing)]
  /\ pc' = "penalty"
  /\ UNCHANGED <<marketVars, ledgerVars, answerVars, audits, tick, todo, rows, closing, faults>>

CalibratePenalties ==
  /\ pc = "penalty"
  /\ lessons' = [lessons EXCEPT !.calibration = PenaltiesTuned(@, lessons.stats)]
  /\ pc' = "idle" /\ closing' = NoClose
  /\ UNCHANGED <<marketVars, ledgerVars, answerVars, audits, tick, todo, rows, faults>>

-----------------------------------------------------------------------------
(* The counterfactual ledger. *)

(* Where the rows of a symbol are, and those with a price.                  *)
RowsOf(s) == {i \in DOMAIN ledger : ledger[i].symbol = s}
Priced(s) == {i \in RowsOf(s) : ledger[i].price > 0}

LastPrice(s) == IF Priced(s) = {} THEN 0 ELSE ledger[Max(Priced(s))].price

Jumps(price, prior) == price > JumpRatio * prior \/ JumpRatio * price < prior

(* A price that is missing, or a hundred times what it was, is not believed.*)
GuardPrice(feed, prior) == IF prior > 0 /\ (feed = 0 \/ Jumps(feed, prior)) THEN prior ELSE feed

(* Where the price recorded comes from; only "carried" is in the file.      *)
Origin(q, prior) ==
  IF GuardPrice(q.feed, prior) # q.feed THEN "carried"
  ELSE IF q.feed = q.price THEN "genuine" ELSE IF q.feed = 0 THEN "none" ELSE "wrong"

(* Rows of a symbol with none of it in between.                             *)
Consecutive(s, i, j) == i \in RowsOf(s) /\ j \in RowsOf(s) /\ i < j /\ (i + 1) .. (j - 1) \cap RowsOf(s) = {}

(* What Phase 7 looks for: consecutive prices of a symbol that jump.        *)
PriceHistoryJumps ==
  {s \in Symbol : \E i, j \in Priced(s) :
     Consecutive(s, i, j) /\ Jumps(ledger[j].price, ledger[i].price)}

(* What the Portfolio Manager ordered comes before what the Risk Manager    *)
(* said.                                                                    *)
DecisionTag(s) ==
  CASE quotes[s].decision = "buy" -> "BUY_EXECUTED"
    [] quotes[s].decision \in {"sell", "trim"} -> "SELL_EXECUTED"
    [] quotes[s].decision = "hold" -> "RM_EXISTING_HOLD"
    [] quotes[s].decision = "approve" -> "RM_APPROVED_ENTRY"
    [] quotes[s].decision = "reject" -> "REJECT"

LatestTick == Max({0} \cup {ledger[i].tick : i \in DOMAIN ledger})

(* A tick of the fund: prices move, decisions are taken, and the orders are *)
(* carried out that the account does not refuse.                            *)
Offered == IF round < Len(World[world].quotes) THEN World[world].quotes[round + 1] ELSE {}

Ordered(q, decision) == {s \in Symbol : q[s].decision = decision}

Trade(q) ==
  /\ pc = "idle" /\ q \in Offered
  /\ round' = round + 1
  /\ quotes' = q
  /\ \E bought \in SUBSET Ordered(q, "buy"), sold \in SUBSET Ordered(q, "sell") :
       holdings' = (holdings \cup bought) \ sold
  /\ UNCHANGED <<world, ledgerVars, answerVars, audits, lessons, pc, tick, todo, rows, closing,
                 faults>>

(* The monitor closes a position whenever a level is hit.                   *)
CloseOut(s) ==
  /\ s \in holdings
  /\ holdings' = holdings \ {s}
  /\ UNCHANGED <<world, round, quotes, ledgerVars, answerVars, audits, lessons, pc, tick, todo,
                 rows, closing, faults>>

(* Mutant: the newest tick of the ledger, as `stage_phase6` takes it.       *)
NextTickLatest == IF ledger = << >> THEN 1 ELSE LatestTick

NextTick == LatestTick + 1

(* Phase 6 may be run again for what was recorded: it takes another tick.   *)
(* Only a tick the ledger already ends with is refused.                     *)
StartPhase6 ==
  /\ pc = "idle" /\ round > 0 /\ LatestTick < World[world].ticks
  /\ tick' = NextTick
  /\ todo' = IF ledger # << >> /\ Last(ledger).tick = NextTick THEN {} ELSE World[world].universe
  /\ pc' = "snapshot"
  /\ UNCHANGED <<marketVars, ledgerVars, answerVars, audits, lessons, rows, closing, faults>>

SnapshotRow(s) ==
  /\ pc = "snapshot" /\ s \in todo
  /\ ledger' = Append(ledger,
       [tick |-> tick, symbol |-> s, tag |-> DecisionTag(s),
        price |-> GuardPrice(quotes[s].feed, LastPrice(s)),
        consensus |-> quotes[s].consensus, optimism |-> quotes[s].optimism,
        origin |-> Origin(quotes[s], LastPrice(s))])
  /\ todo' = todo \ {s}
  /\ UNCHANGED <<marketVars, staged, payload, answerVars, audits, lessons, pc, tick, rows,
                 closing, faults>>

-----------------------------------------------------------------------------
(* What if. *)

(* Earlier rows that are looked at, of symbols that cost something now.     *)
Prior(s) ==
  LET earlier == {i \in RowsOf(s) : ledger[i].tick # tick}
  IN {ledger[i] : i \in {j \in earlier : Cardinality({k \in earlier : k >= j}) <= Lookback}}

WhatIfs ==
  UNION {{r \in Prior(s) : r.price > 0} : s \in {t \in Symbol : quotes[t].feed > 0}}

Up(r, pct) == 100 * quotes[r.symbol].feed >= (100 + pct) * r.price
Down(r, pct) == 100 * quotes[r.symbol].feed <= (100 - pct) * r.price

(* Mutant: only a rise is implausible.                                      *)
ImplausibleRise(r) == quotes[r.symbol].feed > 6 * r.price

(* Up 500% or down 95% is a wrong pool.                                     *)
Implausible(r) == quotes[r.symbol].feed > 6 * r.price \/ 20 * quotes[r.symbol].feed < r.price

(* Rows from a decision until now.                                          *)
Window(r) == {ledger[i] : i \in {j \in RowsOf(r.symbol) : ledger[j].tick >= r.tick /\ ledger[j].tick # tick}}
Contested(r) == \E x \in Window(r) : x.consensus >= ContestBar
Enterable(r) == \E x \in Window(r) : x.optimism >= ProbeBar

(* What is held needs no looking back at: it was not missed.                *)
Rejected(r) == r.tag = "REJECT" /\ r.symbol \notin holdings

Rejection(r, pct) ==
  IF Up(r, pct) THEN {IF Enterable(r) THEN "enterable_missed_winner" ELSE "missed_winner"}
  ELSE IF Down(r, pct) THEN {IF Contested(r) THEN "good_rejection" ELSE "uncontested_rejection_down"}
  ELSE {}

Followed(r, up, down) == IF Up(r, 5) THEN {up} ELSE IF Down(r, 5) THEN {down} ELSE {}

KindsOf(r) ==
  LET ago == tick - r.tick
  IN IF Implausible(r) THEN {}
     ELSE CASE Rejected(r) /\ ago = 1 -> Rejection(r, 5)
            [] Rejected(r) /\ ago = DayTicks -> Rejection(r, 10)
            [] r.tag = "SELL_EXECUTED" /\ ago = 1 -> Followed(r, "premature_exit", "good_exit")
            [] r.tag = "BUY_EXECUTED" /\ ago = 1 -> Followed(r, "good_entry", "entry_underwater")
            [] OTHER -> {}

Triggers ==
  UNION {{[kind |-> k, symbol |-> r.symbol, tick |-> r.tick] : k \in KindsOf(r)} : r \in WhatIfs}

LastDispatch ==
  LET asked == {i \in DOMAIN staged : staged[i].dispatched}
  IN IF asked = {} THEN 0 ELSE staged[Max(asked)].tick

(* Mutant: a tick too late.                                                 *)
ForcedLate == IF LastDispatch = 0 THEN TRUE ELSE tick - LastDispatch > ForceAfter

Forced == IF LastDispatch = 0 THEN TRUE ELSE tick - LastDispatch >= ForceAfter

Dispatches == WhatIfs # {} /\ (Triggers # {} \/ Forced)

Stage ==
  /\ pc = "snapshot" /\ todo = {}
  /\ staged' = Append(staged, [tick |-> tick, whatifs |-> WhatIfs # {}, triggers |-> Triggers,
                               dispatched |-> Dispatches, quotes |-> quotes])
  /\ pc' = IF Dispatches THEN "payload" ELSE "counters"
  /\ UNCHANGED <<marketVars, ledger, payload, answerVars, audits, lessons, tick, todo, rows,
                 closing, faults>>

WritePayload ==
  /\ pc = "payload"
  /\ payload' = payload \cup {tick}
  /\ pc' = "counters"
  /\ UNCHANGED <<marketVars, ledger, staged, answerVars, audits, lessons, tick, todo, rows,
                 closing, faults>>

-----------------------------------------------------------------------------
(* The Reflector. *)

(* The Reflector answers what it was asked last, once: it proposes rules,   *)
(* unnamed or under a name of its own, and judges any that it was told of   *)
(* or has just named.  It may leave out the tick.                           *)
Asked == Max({0} \cup payload)

Judgeable(a) == Rules(reflections) \cup {a.new[i].id : i \in DOMAIN a.new} \cup {Unnamed}

Reflect(a) ==
  /\ pc = "idle" /\ Asked > answer.time /\ a \in World[world].answers
  /\ \E named \in {NoTick, Asked}, ids \in [DOMAIN a.about -> Judgeable(a)] :
       answer' = [time |-> Asked, tick |-> named, new |-> a.new,
                  about |-> [i \in DOMAIN a.about |-> [id |-> ids[i], said |-> a.about[i]]]]
  /\ UNCHANGED <<marketVars, ledgerVars, runs, reflections, audits, lessons, pc, tick, todo, rows,
                 closing, faults>>

(* The tick an answer is filed under, and who says so.                      *)
FiledBy(given) ==
  IF given # NoTick THEN "caller" ELSE IF answer.tick # NoTick THEN "answer" ELSE "ledger"
FiledUnder(given) ==
  CASE FiledBy(given) = "caller" -> given
    [] FiledBy(given) = "answer" -> answer.tick
    [] FiledBy(given) = "ledger" -> LatestTick

Persisted(t) == runs # << >> /\ Last(runs).tick = t

RowsFor(a, t) ==
  [i \in DOMAIN a.new |-> [row |-> "new_candidate", id |-> a.new[i].id,
                           support |-> a.new[i].support, tick |-> t, run |-> Len(runs) + 1]] \o
  [i \in DOMAIN a.about |->
     [row |-> "confirmation", id |-> a.about[i].id, kind |-> a.about[i].said.kind,
      support |-> a.about[i].said.support, suggestion |-> a.about[i].said.suggestion,
      tick |-> t, run |-> Len(runs) + 1]]

(* The answer is kept in the run with its `run_time_utc`, its tick and how  *)
(* many rows are to follow.                                                 *)
PersistRun ==
  /\ pc = "idle" /\ answer # NoAnswer /\ Len(runs) < World[world].runs
  /\ \E given \in World[world].given :
       /\ ~Persisted(FiledUnder(given))
       /\ runs' = Append(runs, [tick |-> FiledUnder(given), by |-> FiledBy(given),
                                time |-> answer.time, n |-> Len(answer.new) + Len(answer.about)])
       /\ rows' = RowsFor(answer, FiledUnder(given))
  /\ pc' = "append"
  /\ UNCHANGED <<marketVars, ledgerVars, answer, reflections, audits, lessons, tick, todo,
                 closing, faults>>

(* A rule without a name is given one: its tick and a fresh number.         *)
Named(row) ==
  IF row.row = "new_candidate" /\ row.id = Unnamed
  THEN [row EXCEPT !.id = <<row.tick, Len(reflections) + 1>>] ELSE row

PersistRow ==
  /\ pc = "append" /\ rows # << >>
  /\ reflections' = Append(reflections, Named(Head(rows)))
  /\ rows' = Tail(rows)
  /\ UNCHANGED <<marketVars, ledgerVars, answer, runs, audits, lessons, pc, tick, todo, closing,
                 faults>>

-----------------------------------------------------------------------------
(* lessons.md. *)

Sizes(a) == [candidate |-> Cardinality(a.candidate), validated |-> Cardinality(a.validated),
             rejected |-> Cardinality(a.rejected)]

(* Mutant: the audits are left alone.                                       *)
RefreshedCounts(fm) ==
  [fm EXCEPT !.counts = Sizes(Aggregate(reflections))]

Refreshed(fm) ==
  [fm EXCEPT !.counts = Sizes(Aggregate(reflections)),
             !.audited = IF audits = << >> THEN @ ELSE Len(audits)]

(* An aggregation that raises leaves the file as it is, and nobody is told. *)
RefreshCounters ==
  /\ pc = "counters" \/ (pc = "append" /\ rows = << >>)
  /\ lessons' = IF Aggregable(reflections) THEN Refreshed(lessons) ELSE lessons
  /\ pc' = "body"
  /\ UNCHANGED <<marketVars, ledgerVars, answerVars, audits, tick, todo, rows, closing, faults>>

RefreshBody ==
  /\ pc = "body"
  /\ lessons' = IF Aggregable(reflections) /\ reflections # << >>
                THEN [lessons EXCEPT !.body = Aggregate(reflections)] ELSE lessons
  /\ pc' = "idle"
  /\ UNCHANGED <<marketVars, ledgerVars, answerVars, audits, tick, todo, rows, closing, faults>>

(* The program that runs is killed; files keep what was written.            *)
Crash ==
  /\ pc # "idle" /\ faults < MaxFaults
  /\ pc' = "idle" /\ todo' = {} /\ rows' = << >> /\ closing' = NoClose
  /\ faults' = faults + 1
  /\ UNCHANGED <<marketVars, ledgerVars, answerVars, audits, lessons, tick>>

-----------------------------------------------------------------------------
Next ==
  \/ \E o \in World[world].outcomes : ScoreClose(o)
  \/ LogClose \/ CalibrateStop \/ CalibratePenalties
  \/ \E q \in Offered : Trade(q)
  \/ \E s \in Symbol : CloseOut(s)
  \/ StartPhase6
  \/ \E s \in Symbol : SnapshotRow(s)
  \/ Stage \/ WritePayload
  \/ \E a \in World[world].answers : Reflect(a)
  \/ PersistRun \/ PersistRow
  \/ RefreshCounters \/ RefreshBody
  \/ Crash

Spec == Init /\ [][Next]_vars
=============================================================================
