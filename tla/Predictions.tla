---------------------------- MODULE Predictions -----------------------------
(***************************************************************************)
(* The pump-prediction skill: cron jobs that share files and no lock.      *)
(*                                                                         *)
(* Specialists write a decision file each, and a shadow watch for every    *)
(* pick a validated lesson vetoed.  Picks to be judged are queued in       *)
(* pending.jsonl.  The audit tick judges what is due of both: it reads the *)
(* queue and the frontmatter of lessons.md, writes an outcome file per     *)
(* pick, and rewrites lessons.md and at last the queue from what it read.  *)
(* The fund manager sizes its picks by those statistics, and the paper     *)
(* portfolio adds up the outcome files.                                    *)
(*                                                                         *)
(* Each file operation of a tick is a step.  Prices are ratios of small    *)
(* reserves, returns are whole percents.                                   *)
(***************************************************************************)
EXTENDS FmAllocation

CONSTANTS
  Pick,         \* ids of picks that may be queued
  Watch,        \* ids of shadow watches
  Tick,         \* audit ticks that may run at once
  Owner,        \* the specialist of each id
  Kind,         \* "standard" or "curve_stage" of each pick
  Reading,      \* reserves <<quote, base>> of a pool or a curve
  Output,       \* what a specialist may say of each mint
  V1Audits,     \* outcomes of the first version, counted in lessons.md by hand
  EnqueueBusy,  \* whether a pick may be queued while a tick runs
  Horizon,      \* bound: hours until a pick is due
  MaxTime,      \* bound: hours
  MaxFaults     \* bound: crashes and uncaught exceptions

(* An id names the second, the specialist and the mint, and a specialist    *)
(* either picks a mint or has it vetoed.                                    *)
ASSUME PredictionsAssumption ==
  /\ IsFiniteSet(Pick) /\ Pick \cap Watch = {}
  /\ Owner \in [Pick \cup Watch -> Specialist]
  /\ Kind \in [Pick -> {"standard", "curve_stage"}]
  /\ Reading \subseteq Nat \X Nat
  /\ Output \subseteq [Mint -> Conviction \cup {Absent}]
  /\ EnqueueBusy \in BOOLEAN
  /\ V1Audits \in Nat /\ Horizon \in Nat /\ MaxTime \in Nat /\ MaxFaults \in Nat

VARIABLES
  now,        \* hours
  pending,    \* pending.jsonl: the entries queued, whose order tells nothing
  shadows,    \* shadow_watches/: the entries not yet judged
  outcomes,   \* outcomes/: the file of each id
  lessons,    \* frontmatter of lessons.md
  decisions,  \* what the newest decision file of each specialist says
  pc,         \* the next step of each tick
  at,         \* when it began
  due,        \* entries the tick has still to judge
  kept,       \* entries it will leave in the queue
  fm,         \* its copy of the frontmatter
  judged,     \* the shadow watch whose outcome it has written last
  processed,  \* whether it has judged anything
  torn,       \* history: ticks killed between their two rewrites
  faults

fileVars == <<pending, shadows, outcomes, lessons, decisions>>
tickVars == <<pc, at, due, kept, fm, judged, processed>>
vars == <<now, fileVars, tickVars, torn, faults>>

Id == Pick \cup Watch
NoOutcome == [kind |-> "none"]
NoWatch == "none"

Stats == [picks : Nat, hits : Nat, cold : BOOLEAN, rate30 : Nat]
Lessons == [total : Nat, stats : [Specialist -> Stats],
            counted : [Pick -> Nat]]   \* history: how often each pick was counted
Entry == [id : Id, entry : Reading, due : Nat]
Outcome == [kind : {"standard", "curve_stage", "shadow_watch"}, won : BOOLEAN]

TypeOK ==
  /\ now \in 0 .. MaxTime
  /\ pending \subseteq Entry
  /\ shadows \subseteq Entry
  /\ outcomes \in [Id -> Outcome \cup {NoOutcome}]
  /\ lessons \in Lessons
  /\ decisions \in [Specialist -> [Mint -> Conviction \cup {Absent}]]
  /\ pc \in [Tick -> {"idle", "stats", "picks", "watches", "unlink",
                      "lessons", "queue"}]
  /\ at \in [Tick -> 0 .. MaxTime]
  /\ due \in [Tick -> SUBSET Entry]
  /\ kept \in [Tick -> SUBSET Entry]
  /\ fm \in [Tick -> Lessons]
  /\ judged \in [Tick -> Watch \cup {NoWatch}]
  /\ processed \in [Tick -> BOOLEAN]
  /\ torn \in Nat
  /\ faults \in 0 .. MaxFaults

NoStats == [picks |-> 0, hits |-> 0, cold |-> TRUE, rate30 |-> 0]
Unwritten == [total |-> V1Audits, stats |-> [s \in Specialist |-> NoStats],
              counted |-> [p \in Pick |-> 0]]

Init ==
  /\ now = 0
  /\ pending = {}
  /\ shadows = {}
  /\ outcomes = [i \in Id |-> NoOutcome]
  /\ lessons = Unwritten
  /\ decisions = [s \in Specialist |-> [m \in Mint |-> Absent]]
  /\ pc = [t \in Tick |-> "idle"]
  /\ at = [t \in Tick |-> 0]
  /\ due = [t \in Tick |-> {}]
  /\ kept = [t \in Tick |-> {}]
  /\ fm = [t \in Tick |-> Unwritten]
  /\ judged = [t \in Tick |-> NoWatch]
  /\ processed = [t \in Tick |-> FALSE]
  /\ torn = 0
  /\ faults = 0

-----------------------------------------------------------------------------
(* Realised returns. *)

Closed == <<"closed">>
Failed == <<"failed">>
Graduated == <<"graduated">>

(* What the helpers report: a vault that is empty, closed or could not be   *)
(* read makes the pool closed; a curve may be complete, or not readable.    *)
PoolReports == {Closed} \cup {r \in Reading : r[1] > 0 /\ r[2] > 0}
CurveReports == {Failed, Graduated} \cup Reading

(* compute_realized_return, in percent: without reserves to divide, zero.   *)
Return(entry, current) ==
  IF entry[1] = 0 \/ entry[2] = 0 \/ current[2] = 0 THEN 0
  ELSE (100 * current[1] * entry[2]) \div (current[2] * entry[1]) - 100

PoolReturns(entry) == {IF r = Closed THEN -100 ELSE Return(entry, r) : r \in PoolReports}

(* A token that graduated is priced in its pool, or neutral while Dune does *)
(* not know the pool.                                                       *)
GraduatedReturns(entry) == {0} \cup PoolReturns(entry)

CurveReturns(entry) ==
  UNION {CASE r = Failed -> {-100}
           [] r = Graduated -> GraduatedReturns(entry)
           [] OTHER -> {Return(entry, r)} : r \in CurveReports}

Returns(e) ==
  IF e.id \in Pick /\ Kind[e.id] = "curve_stage" THEN CurveReturns(e.entry)
  ELSE PoolReturns(e.entry)

Won(ret) == ret >= 50

-----------------------------------------------------------------------------
(* Statistics. *)

Recounted(f, e, won) ==
  LET s == f.stats[Owner[e.id]]
      picks == s.picks + 1
  IN [f EXCEPT !.total = @ + 1,
               !.stats[Owner[e.id]] = [s EXCEPT !.picks = picks,
                                                !.hits = IF won THEN @ + 1 ELSE @,
                                                !.cold = picks < ColdPicks],
               !.counted[e.id] = @ + 1]

-----------------------------------------------------------------------------
(* Cron jobs other than the audit tick. *)

Queued == {e.id : e \in pending}

Fresh(i) ==
  /\ now + Horizon <= MaxTime
  /\ i \notin Queued /\ outcomes[i] = NoOutcome
  /\ \A e \in shadows : e.id # i
  /\ \A t \in Tick : pc[t] = "idle" \/ EnqueueBusy

(* What queues a pick is not part of this repository.                       *)
Enqueue(p, r) ==
  /\ Fresh(p)
  /\ pending' = pending \cup {[id |-> p, entry |-> r, due |-> now + Horizon]}
  /\ UNCHANGED <<now, torn, shadows, outcomes, lessons, decisions, tickVars, faults>>

Watched(ids, r) == shadows \cup {[id |-> w, entry |-> r, due |-> now + Horizon] : w \in ids}

(* Of the decision files of a specialist only the newest is ever read.      *)
Newest(s, o) == [decisions EXCEPT ![s] = o]

(* A specialist's run: the shadow watches of its vetoed picks, and then its *)
(* decision file, unless it is killed in between.                           *)
RunSpecialist(s) ==
  \E vetoed \in SUBSET {w \in Watch : Owner[w] = s /\ Fresh(w)}, r \in Reading :
    /\ shadows' = Watched(vetoed, r)
    /\ \/ /\ \E o \in Output : decisions' = Newest(s, o)
          /\ UNCHANGED faults
       \/ /\ faults < MaxFaults
          /\ faults' = faults + 1
          /\ UNCHANGED decisions
    /\ UNCHANGED <<now, torn, pending, outcomes, lessons, tickVars>>

-----------------------------------------------------------------------------
(* The audit tick. *)

Goto(t, step) == pc' = [pc EXCEPT ![t] = step]

(* Mutant: entries that are due stay queued.                                *)
PartitionLeavingAll(t) ==
  /\ due' = [due EXCEPT ![t] = {e \in pending : e.due <= now}]
  /\ kept' = [kept EXCEPT ![t] = pending]

(* Mutant: an entry is not due at its hour.                                 *)
PartitionLate(t) ==
  /\ due' = [due EXCEPT ![t] = {e \in pending : e.due < now}]
  /\ kept' = [kept EXCEPT ![t] = {e \in pending : e.due >= now}]

(* partition_due *)
Partition(t) ==
  /\ due' = [due EXCEPT ![t] = {e \in pending : e.due <= now}]
  /\ kept' = [kept EXCEPT ![t] = {e \in pending : e.due > now}]

StartTick(t) ==
  /\ pc[t] = "idle"
  /\ Goto(t, "stats")
  /\ at' = [at EXCEPT ![t] = now]
  /\ Partition(t)
  /\ processed' = [processed EXCEPT ![t] = FALSE]
  /\ UNCHANGED <<now, torn, fileVars, fm, judged, faults>>

ReadStats(t) ==
  /\ pc[t] = "stats"
  /\ Goto(t, "picks")
  /\ fm' = [fm EXCEPT ![t] = lessons]
  /\ UNCHANGED <<now, torn, fileVars, at, due, kept, judged, processed, faults>>

JudgePick(t) ==
  /\ pc[t] = "picks"
  /\ \E e \in due[t] : \E ret \in Returns(e) :
       /\ due' = [due EXCEPT ![t] = @ \ {e}]
       /\ outcomes' = [outcomes EXCEPT ![e.id] =
                         [kind |-> Kind[e.id], won |-> Won(ret)]]
       /\ fm' = [fm EXCEPT ![t] = Recounted(@, e, Won(ret))]
  /\ processed' = [processed EXCEPT ![t] = TRUE]
  /\ UNCHANGED <<now, torn, pending, shadows, lessons, decisions, pc, at, kept, judged, faults>>

ListWatches(t) ==
  /\ pc[t] = "picks"
  /\ due[t] = {}
  /\ Goto(t, "watches")
  /\ due' = [due EXCEPT ![t] = {e \in shadows : e.due <= at[t]}]
  /\ UNCHANGED <<now, torn, fileVars, at, kept, fm, judged, processed, faults>>

WatchOutcome(e, ret) ==
  outcomes' = [outcomes EXCEPT ![e.id] = [kind |-> "shadow_watch", won |-> Won(ret)]]

(* Mutant: the shadow watch is gone before its outcome is written.          *)
JudgeWatchUnlinking(t) ==
  /\ pc[t] = "watches"
  /\ \E e \in due[t] :
       /\ due' = [due EXCEPT ![t] = @ \ {e}]
       /\ shadows' = shadows \ {e}
       /\ \/ \E ret \in PoolReturns(e.entry) : WatchOutcome(e, ret)
          \/ UNCHANGED outcomes
  /\ UNCHANGED <<now, torn, pending, lessons, decisions, pc, at, kept, fm, judged, processed, faults>>

(* An exception keeps the shadow watch for the next tick.                   *)
JudgeWatch(t) ==
  /\ pc[t] = "watches"
  /\ \E e \in due[t] :
       /\ due' = [due EXCEPT ![t] = @ \ {e}]
       /\ \/ /\ \E ret \in PoolReturns(e.entry) : WatchOutcome(e, ret)
             /\ judged' = [judged EXCEPT ![t] = e.id]
             /\ processed' = [processed EXCEPT ![t] = TRUE]
             /\ Goto(t, "unlink")
             /\ UNCHANGED faults
          \/ /\ faults < MaxFaults
             /\ faults' = faults + 1
             /\ UNCHANGED <<outcomes, pc, judged, processed>>
  /\ UNCHANGED <<now, torn, pending, shadows, lessons, decisions, at, kept, fm>>

Unlink(t) ==
  /\ pc[t] = "unlink"
  /\ Goto(t, "watches")
  /\ shadows' = {e \in shadows : e.id # judged[t]}
  /\ judged' = [judged EXCEPT ![t] = NoWatch]
  /\ UNCHANGED <<now, torn, pending, outcomes, lessons, decisions, at, due, kept, fm,
                 processed, faults>>

(* Mutant: the statistics are not written.                                  *)
WatchesDoneSkipping(t) ==
  /\ pc[t] = "watches"
  /\ due[t] = {}
  /\ Goto(t, "queue")
  /\ UNCHANGED <<now, torn, fileVars, at, due, kept, fm, judged, processed, faults>>

WatchesDone(t) ==
  /\ pc[t] = "watches"
  /\ due[t] = {}
  /\ Goto(t, IF processed[t] THEN "lessons" ELSE "queue")
  /\ UNCHANGED <<now, torn, fileVars, at, due, kept, fm, judged, processed, faults>>

WriteLessons(t) ==
  /\ pc[t] = "lessons"
  /\ Goto(t, "queue")
  /\ lessons' = fm[t]
  /\ UNCHANGED <<now, torn, pending, shadows, outcomes, decisions, at, due, kept, fm, judged,
                 processed, faults>>

EndTick(t) ==
  /\ pc' = [pc EXCEPT ![t] = "idle"]
  /\ at' = [at EXCEPT ![t] = 0]
  /\ due' = [due EXCEPT ![t] = {}]
  /\ kept' = [kept EXCEPT ![t] = {}]
  /\ fm' = [fm EXCEPT ![t] = Unwritten]
  /\ judged' = [judged EXCEPT ![t] = NoWatch]
  /\ processed' = [processed EXCEPT ![t] = FALSE]

Rewrite(t) ==
  /\ pc[t] = "queue"
  /\ pending' = kept[t]
  /\ EndTick(t)
  /\ UNCHANGED <<now, torn, shadows, outcomes, lessons, decisions, faults>>

(* A crash, or an exception the tick does not catch: a helper that times    *)
(* out, an entry without an id.                                             *)
Abort(t) ==
  /\ pc[t] # "idle"
  /\ faults < MaxFaults
  /\ faults' = faults + 1
  /\ torn' = IF pc[t] = "queue" /\ processed[t] THEN torn + 1 ELSE torn
  /\ EndTick(t)
  /\ UNCHANGED <<now, fileVars>>

-----------------------------------------------------------------------------
(* The paper portfolio: one row per outcome of version 1 and of version 2.  *)

OutcomeRows == {i \in Id : outcomes[i] # NoOutcome}

(* The picks of the second version that the portfolio finds: it asks for a  *)
(* kind that the audit tick never writes.                                   *)
PortfolioAudits == V1Audits + Cardinality({i \in OutcomeRows : outcomes[i].kind = "pick"})

-----------------------------------------------------------------------------
TimePasses ==
  /\ now < MaxTime
  /\ now' = now + 1
  /\ UNCHANGED <<torn, fileVars, tickVars, faults>>

Audit(t) ==
  \/ ReadStats(t) \/ JudgePick(t) \/ ListWatches(t) \/ JudgeWatch(t)
  \/ Unlink(t) \/ WatchesDone(t) \/ WriteLessons(t) \/ Rewrite(t)

Next ==
  \/ TimePasses
  \/ \E p \in Pick, r \in Reading : Enqueue(p, r)
  \/ \E s \in Specialist : RunSpecialist(s)
  \/ \E t \in Tick : StartTick(t) \/ Audit(t) \/ Abort(t)

Spec == Init /\ [][Next]_vars

(* Cron goes on starting ticks, and a tick that runs goes on.               *)
FairSpec ==
  /\ Spec
  /\ WF_now(TimePasses)
  /\ \A t \in Tick : WF_vars(StartTick(t)) /\ WF_vars(Audit(t))
=============================================================================
