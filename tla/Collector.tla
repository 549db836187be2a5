----------------------------- MODULE Collector -----------------------------
(***************************************************************************)
(* storm-collector: the pump.fun survival-data collector.                  *)
(*                                                                         *)
(* Any number of collector processes (the daemon, and `--once` runs        *)
(* started by cron or by hand) work on one SQLite store.  A process runs   *)
(* collection cycles; a cycle discovers graduated pools, snapshots the     *)
(* pending graduations whose observation window elapsed, and records the   *)
(* outcome of the snapshotted ones whose outcome window matured.           *)
(*                                                                         *)
(* Every SQL statement is a transaction of its own (the code never opens   *)
(* one) and every RPC call is an await, so each is one step here and the   *)
(* processes interleave between them.  A process between two cycles is     *)
(* "idle": asleep, not started, exited or crashed are the same to the      *)
(* store, since a cycle keeps nothing in memory for the next one.          *)
(*                                                                         *)
(* The chain is external: pools graduate and trade whenever they like, and *)
(* one counter, time, stands for its slot number and for Unix time.        *)
(***************************************************************************)
EXTENDS Integers

CONSTANTS
  Mint,            \* pump.fun tokens; each has one canonical PumpSwap pool
  NoMint,          \* no token
  Proc,            \* the collector processes that share the store
  SnapshotWindow,  \* CollectorConfig.snapshot_window
  OutcomeWindow,   \* CollectorConfig.outcome_window
  ScanLag,         \* slots by which the state a scan reads may be out of date
  MaxTime,         \* bound: the last tick of time
  MaxFaults        \* bound: aborted cycles and failed items

ASSUME CollectorAssumption ==
  /\ NoMint \notin Mint
  /\ SnapshotWindow \in Nat
  /\ OutcomeWindow \in Nat
  /\ ScanLag \in Nat
  /\ MaxTime \in Nat \ {0}
  /\ MaxFaults \in Nat

None == -1
Tick == Nat \cup {None}

VARIABLES
  (* the chain *)
  time,        \* current slot and Unix time
  changes,     \* the slots a mint's pool was created and changed in
  quote,       \* the pool's quote reserve against the survival threshold
  (* the store *)
  cursor,      \* collector_state.last_discovery_slot
  heartbeat,   \* collector_state.last_cycle_at
  status,      \* graduations.status, "untracked" without a row
  detectedAt,  \* graduations.detected_at
  snapshotAt,  \* feature_snapshots.snapshot_at, None without a row
  outcomeAt,   \* outcomes.outcome_at, None without a row
  verdict,     \* outcomes.survived
  (* the processes *)
  pc,          \* the statement a process executes next
  cycle,       \* the locals of its current cycle
  (* history and bounds *)
  coldStart,   \* the latest slot a cold start seeded the cursor with
  reached,     \* the slots a scan moved the cursor to
  faults       \* faults so far

chainVars == <<time, changes, quote>>
tableVars == <<status, detectedAt, snapshotAt, outcomeAt, verdict>>
stateVars == <<cursor, heartbeat, coldStart, reached>>
storeVars == <<tableVars, stateVars>>
procVars  == <<pc, cycle>>
vars == <<chainVars, storeVars, procVars, faults>>

Status  == {"untracked", "pending_snapshot", "snapshot_done", "outcome_done"}
Depth   == {"deep", "thin"}
Verdict == {"survived", "rugged"}

DiscoverPc == {"get_slot", "read_cursor", "seed", "scan", "insert"}
SnapshotPc == {"list_pending", "snapshot", "insert_snapshot", "mark_snapshot"}
OutcomePc  == {"outcome", "extract", "insert_outcome", "mark_outcome"}
ItemPc == {"insert_snapshot", "mark_snapshot", "extract", "insert_outcome",
           "mark_outcome"}
Pc == {"idle"} \cup DiscoverPc \cup SnapshotPc \cup OutcomePc

(* The locals of run_cycle and of the phase it is in. *)
Cycle == [now    : Nat,              \* now_unix() when the cycle began
          head   : Tick,             \* current_slot
          since  : Tick,             \* changed_since_slot
          unseen : SUBSET Mint,      \* pools on the pages still to fetch
          work   : SUBSET Mint,      \* found, pending or due, still to handle
          item   : Mint \cup {NoMint},
          seen   : Depth]            \* the quote reserve read for an outcome

NoCycle == [now |-> 0, head |-> None, since |-> None, unseen |-> {},
            work |-> {}, item |-> NoMint, seen |-> "deep"]

TypeOK ==
  /\ time \in Nat
  /\ changes \in [Mint -> SUBSET Nat]
  /\ quote \in [Mint -> Depth]
  /\ cursor \in Tick
  /\ heartbeat \in Tick
  /\ coldStart \in Tick
  /\ reached \in SUBSET Tick
  /\ status \in [Mint -> Status]
  /\ detectedAt \in [Mint -> Tick]
  /\ snapshotAt \in [Mint -> Tick]
  /\ outcomeAt \in [Mint -> Tick]
  /\ verdict \in [Mint -> Verdict]
  /\ pc \in [Proc -> Pc]
  /\ cycle \in [Proc -> Cycle]
  /\ \A p \in Proc : pc[p] \in ItemPc => cycle[p].item \in Mint
  /\ faults \in Nat

(* The collector may be deployed when some pools have long existed. *)
Init ==
  /\ time = 1
  /\ changes \in [Mint -> {{}, {0}}]
  /\ quote = [m \in Mint |-> "deep"]
  /\ cursor = None
  /\ heartbeat = None
  /\ coldStart = None
  /\ reached = {}
  /\ status = [m \in Mint |-> "untracked"]
  /\ detectedAt = [m \in Mint |-> None]
  /\ snapshotAt = [m \in Mint |-> None]
  /\ outcomeAt = [m \in Mint |-> None]
  /\ verdict = [m \in Mint |-> "rugged"]
  /\ pc = [p \in Proc |-> "idle"]
  /\ cycle = [p \in Proc |-> NoCycle]
  /\ faults = 0

-----------------------------------------------------------------------------
(* The chain. *)

TimePasses ==
  /\ time < MaxTime
  /\ time' = time + 1
  /\ UNCHANGED <<changes, quote, storeVars, procVars, faults>>

Graduate(m) ==
  /\ changes[m] = {}
  /\ changes' = [changes EXCEPT ![m] = {time}]
  /\ UNCHANGED <<time, quote, storeVars, procVars, faults>>

(* A swap, a deposit or a withdrawal changes the pool account and may drain *)
(* or refill its reserve.                                                   *)
Trade(m) ==
  /\ changes[m] # {}
  /\ changes' = [changes EXCEPT ![m] = @ \cup {time}]
  /\ \E d \in Depth : quote' = [quote EXCEPT ![m] = d]
  /\ UNCHANGED <<time, storeVars, procVars, faults>>

-----------------------------------------------------------------------------
(* Control of a cycle. *)

Local(p) == cycle[p]
At(p, l) == pc[p] = l
Goto(p, l) == pc' = [pc EXCEPT ![p] = l]
Assign(p, locals) == cycle' = [cycle EXCEPT ![p] = locals]

EndCycle(p) == Goto(p, "idle") /\ Assign(p, NoCycle)

(* A phase returns and its locals go out of scope. *)
NextPhase(p, l) ==
  /\ Goto(p, l)
  /\ Assign(p, [NoCycle EXCEPT !.now = Local(p).now])

(* A cycle begins: the daemon wakes or is restarted, or --once is launched. *)
BeginCycle(p) ==
  /\ At(p, "idle")
  /\ Goto(p, "get_slot")
  /\ Assign(p, [NoCycle EXCEPT !.now = time])
  /\ UNCHANGED <<chainVars, storeVars, faults>>

(* The process is killed, or a statement outside the two item loops returns *)
(* an error that `?` carries out of run_cycle: the cycle is abandoned where *)
(* it stands and what it wrote stays.                                       *)
Abort(p) ==
  /\ pc[p] # "idle"
  /\ faults < MaxFaults
  /\ faults' = faults + 1
  /\ EndCycle(p)
  /\ UNCHANGED <<chainVars, storeVars>>

-----------------------------------------------------------------------------
(* discover_phase *)

GetSlot(p) ==
  /\ At(p, "get_slot")
  /\ Goto(p, "read_cursor")
  /\ Assign(p, [Local(p) EXCEPT !.head = time])
  /\ UNCHANGED <<chainVars, storeVars, faults>>

ReadCursor(p) ==
  /\ At(p, "read_cursor")
  /\ \/ /\ cursor = None
        /\ Goto(p, "seed")
        /\ UNCHANGED cycle
     \/ /\ cursor # None
        /\ Goto(p, "scan")
        /\ Assign(p, [Local(p) EXCEPT !.since = cursor, !.unseen = Mint])
  /\ UNCHANGED <<chainVars, storeVars, faults>>

(* Cold start: seed the cursor, discover nothing.  Two processes may both   *)
(* find no cursor; each then writes its own slot.                           *)
Seed(p) ==
  /\ At(p, "seed")
  /\ NextPhase(p, "list_pending")
  /\ cursor' = Local(p).head
  /\ coldStart' = IF coldStart < Local(p).head THEN Local(p).head ELSE coldStart
  /\ UNCHANGED <<chainVars, tableVars, heartbeat, reached, faults>>

(* Mutant: the server's filter taken as strictly after the slot.           *)
MatchingAfter(page, since, view) ==
  {m \in page : \E x \in changes[m] : since < x /\ x <= view}

(* The pools of page that getProgramAccountsV2 returns: those that, in the  *)
(* state it reads, of slot view, last changed at or after since.            *)
Matching(page, since, view) ==
  {m \in page : \E x \in changes[m] : since <= x /\ x <= view}

(* One page of the scan, read at the moment it is fetched.  get_slot asks   *)
(* for `confirmed` and the scan names no commitment, so its node answers at *)
(* its default, from a state up to ScanLag slots older.                     *)
ScanPage(p) ==
  /\ At(p, "scan")
  /\ \E page \in SUBSET Local(p).unseen, lag \in 0 .. ScanLag :
       /\ Local(p).unseen # {} => page # {}
       /\ Assign(p, [Local(p) EXCEPT
                       !.unseen = @ \ page,
                       !.work = @ \cup Matching(page, Local(p).since, time - lag)])
       /\ Goto(p, IF page = Local(p).unseen THEN "insert" ELSE "scan")
  /\ UNCHANGED <<chainVars, storeVars, faults>>

(* INSERT ... ON CONFLICT(mint) DO NOTHING *)
InsertGraduation(p) ==
  /\ At(p, "insert")
  /\ \E m \in Local(p).work :
       /\ Assign(p, [Local(p) EXCEPT !.work = @ \ {m}])
       /\ IF status[m] = "untracked"
          THEN /\ status' = [status EXCEPT ![m] = "pending_snapshot"]
               /\ detectedAt' = [detectedAt EXCEPT ![m] = Local(p).now]
          ELSE UNCHANGED <<status, detectedAt>>
  /\ UNCHANGED <<chainVars, stateVars, snapshotAt, outcomeAt, verdict, pc, faults>>

AdvanceCursor(p) ==
  /\ At(p, "insert")
  /\ Local(p).work = {}
  /\ cursor' = Local(p).head
  /\ reached' = reached \cup {Local(p).head}
  /\ NextPhase(p, "list_pending")
  /\ UNCHANGED <<chainVars, tableVars, heartbeat, coldStart, faults>>

-----------------------------------------------------------------------------
(* The work queues of the two item loops. *)

(* Mutant: the window's boundary taken one tick early.                      *)
DueEarly(m, window, now) == now + 1 >= detectedAt[m] + window

Due(m, window, now) == now >= detectedAt[m] + window

(* Mutant: every unfinished graduation is queued for both phases.           *)
QueueUnfinished(st, window, now) ==
  {m \in Mint : status[m] \in {"pending_snapshot", "snapshot_done"} /\ Due(m, window, now)}

Queue(st, window, now) == {m \in Mint : status[m] = st /\ Due(m, window, now)}

(* graduations_with_status returns the oldest detected first. *)
Oldest(m, queue) == \A n \in queue : detectedAt[m] <= detectedAt[n]

SetStatus(m, st) == status' = [status EXCEPT ![m] = st]

(* Mutant: a failed extraction is logged and the status advanced anyway.    *)
ItemFailsButAdvances(p) ==
  /\ faults < MaxFaults
  /\ faults' = faults + 1
  /\ pc[p] = "insert_snapshot" /\ Goto(p, "mark_snapshot")
  /\ UNCHANGED <<chainVars, storeVars, cycle>>

(* A statement of snapshot_one or outcome_one fails: the item is skipped,   *)
(* and the next cycle finds it again.                                       *)
ItemFails(p) ==
  /\ faults < MaxFaults
  /\ faults' = faults + 1
  /\ \/ pc[p] \in {"insert_snapshot", "mark_snapshot"} /\ Goto(p, "snapshot")
     \/ pc[p] \in {"extract", "insert_outcome", "mark_outcome"} /\ Goto(p, "outcome")
  /\ UNCHANGED <<chainVars, storeVars, cycle>>

-----------------------------------------------------------------------------
(* snapshot_phase and snapshot_one *)

ListPending(p) ==
  /\ At(p, "list_pending")
  /\ Goto(p, "snapshot")
  /\ Assign(p, [Local(p) EXCEPT
                  !.work = Queue("pending_snapshot", SnapshotWindow, Local(p).now)])
  /\ UNCHANGED <<chainVars, storeVars, faults>>

(* The idempotency guard: has_feature_snapshot. *)
NextSnapshot(p) ==
  /\ At(p, "snapshot")
  /\ \E m \in Local(p).work :
       /\ Oldest(m, Local(p).work)
       /\ Assign(p, [Local(p) EXCEPT !.work = @ \ {m}, !.item = m])
       /\ Goto(p, IF snapshotAt[m] # None THEN "mark_snapshot" ELSE "insert_snapshot")
  /\ UNCHANGED <<chainVars, storeVars, faults>>

(* Mutant: INSERT OR REPLACE.                                               *)
ReplaceSnapshot(p) ==
  /\ At(p, "insert_snapshot")
  /\ snapshotAt' = [snapshotAt EXCEPT ![Local(p).item] = Local(p).now]
  /\ Goto(p, "mark_snapshot")
  /\ UNCHANGED <<chainVars, stateVars, status, detectedAt, outcomeAt, verdict,
                 cycle, faults>>

(* extract_features and the insert; graduation_id is UNIQUE, so the insert  *)
(* of a second row is an error and the item is skipped.                     *)
InsertSnapshot(p) ==
  LET m == Local(p).item IN
  /\ At(p, "insert_snapshot")
  /\ \/ /\ snapshotAt[m] = None
        /\ snapshotAt' = [snapshotAt EXCEPT ![m] = Local(p).now]
        /\ Goto(p, "mark_snapshot")
     \/ /\ snapshotAt[m] # None
        /\ Goto(p, "snapshot")
        /\ UNCHANGED snapshotAt
  /\ UNCHANGED <<chainVars, stateVars, status, detectedAt, outcomeAt, verdict,
                 cycle, faults>>

MarkSnapshot(p) ==
  /\ At(p, "mark_snapshot")
  /\ SetStatus(Local(p).item, "snapshot_done")
  /\ Goto(p, "snapshot")
  /\ UNCHANGED <<chainVars, stateVars, detectedAt, snapshotAt, outcomeAt, verdict,
                 cycle, faults>>

-----------------------------------------------------------------------------
(* outcome_phase and outcome_one *)

(* snapshot_phase is through its queue; outcome_phase reads its own. *)
ListDone(p) ==
  /\ At(p, "snapshot")
  /\ Local(p).work = {}
  /\ Goto(p, "outcome")
  /\ Assign(p, [Local(p) EXCEPT
                  !.item = NoMint,
                  !.work = Queue("snapshot_done", OutcomeWindow, Local(p).now)])
  /\ UNCHANGED <<chainVars, storeVars, faults>>

(* Mutant: the guard skips a recorded outcome without advancing its status. *)
NextOutcomeSkips(p) ==
  /\ At(p, "outcome")
  /\ \E m \in Local(p).work :
       /\ Oldest(m, Local(p).work)
       /\ Assign(p, [Local(p) EXCEPT !.work = @ \ {m}, !.item = m])
       /\ Goto(p, IF outcomeAt[m] # None THEN "outcome" ELSE "extract")
  /\ UNCHANGED <<chainVars, storeVars, faults>>

(* The idempotency guard: has_outcome. *)
NextOutcome(p) ==
  /\ At(p, "outcome")
  /\ \E m \in Local(p).work :
       /\ Oldest(m, Local(p).work)
       /\ Assign(p, [Local(p) EXCEPT !.work = @ \ {m}, !.item = m])
       /\ Goto(p, IF outcomeAt[m] # None THEN "mark_outcome" ELSE "extract")
  /\ UNCHANGED <<chainVars, storeVars, faults>>

ExtractOutcome(p) ==
  /\ At(p, "extract")
  /\ Assign(p, [Local(p) EXCEPT !.seen = quote[Local(p).item]])
  /\ Goto(p, "insert_outcome")
  /\ UNCHANGED <<chainVars, storeVars, faults>>

ClassifyOutcome(depth) == IF depth = "deep" THEN "survived" ELSE "rugged"

InsertOutcome(p) ==
  LET m == Local(p).item IN
  /\ At(p, "insert_outcome")
  /\ \/ /\ outcomeAt[m] = None
        /\ outcomeAt' = [outcomeAt EXCEPT ![m] = Local(p).now]
        /\ verdict' = [verdict EXCEPT ![m] = ClassifyOutcome(Local(p).seen)]
        /\ Goto(p, "mark_outcome")
     \/ /\ outcomeAt[m] # None
        /\ Goto(p, "outcome")
        /\ UNCHANGED <<outcomeAt, verdict>>
  /\ UNCHANGED <<chainVars, stateVars, status, detectedAt, snapshotAt, cycle, faults>>

MarkOutcome(p) ==
  /\ At(p, "mark_outcome")
  /\ SetStatus(Local(p).item, "outcome_done")
  /\ Goto(p, "outcome")
  /\ UNCHANGED <<chainVars, stateVars, detectedAt, snapshotAt, outcomeAt, verdict,
                 cycle, faults>>

(* The outcome loop is done: run_cycle writes last_cycle_at and returns. *)
Finish(p) ==
  /\ At(p, "outcome")
  /\ Local(p).work = {}
  /\ heartbeat' = Local(p).now
  /\ EndCycle(p)
  /\ UNCHANGED <<chainVars, tableVars, cursor, coldStart, reached, faults>>

-----------------------------------------------------------------------------
Chain == TimePasses \/ \E m \in Mint : Graduate(m) \/ Trade(m)

Discover(p) == GetSlot(p) \/ ReadCursor(p) \/ Seed(p) \/ ScanPage(p)
                 \/ InsertGraduation(p) \/ AdvanceCursor(p)

Snapshot(p) == ListPending(p) \/ NextSnapshot(p) \/ InsertSnapshot(p)
                 \/ MarkSnapshot(p)

Outcome(p) == ListDone(p) \/ NextOutcome(p) \/ ExtractOutcome(p)
                \/ InsertOutcome(p) \/ MarkOutcome(p) \/ Finish(p)

Step(p) == BeginCycle(p) \/ Discover(p) \/ Snapshot(p) \/ Outcome(p)

Next == Chain \/ \E p \in Proc : Step(p) \/ Abort(p) \/ ItemFails(p)

Spec == Init /\ [][Next]_vars

(* The daemon's loop starts a cycle after every sleep, and a cycle awaits   *)
(* only calls that return; faults are finitely many (MaxFaults).  Time goes *)
(* on.                                                                      *)
FairSpec == Spec /\ WF_vars(TimePasses) /\ \A p \in Proc : WF_vars(Step(p))
=============================================================================
