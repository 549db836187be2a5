--------------------------- MODULE CollectorProps ---------------------------
(***************************************************************************)
(* What makes the collector correct, and what its documentation says of it.*)
(***************************************************************************)
EXTENDS Collector

Tracked(m) == status[m] # "untracked"
HasSnapshot(m) == snapshotAt[m] # None
HasOutcome(m) == outcomeAt[m] # None

(* The slots a scan could not be sure to see: the last ones before a slot   *)
(* the cursor was moved to, the state the scan read being ScanLag behind.   *)
Missable(x) == \E h \in reached : h - ScanLag < x /\ x < h

(* The changes of m discovery is answerable for once it has scanned up to   *)
(* slot.                                                                    *)
Owed(m, slot) == {x \in changes[m] : coldStart <= x /\ x < slot /\ ~Missable(x)}

(* The status column never runs ahead of the rows it announces, although a  *)
(* row and its status are written by separate statements between which a    *)
(* process may die or another may run: a graduation marked snapshot_done    *)
(* has its features, one marked outcome_done has its outcome, and an        *)
(* outcome is only ever recorded for a graduation with features.            *)
StatusBacked ==
  \A m \in Mint :
    /\ status[m] \in {"snapshot_done", "outcome_done"} => HasSnapshot(m)
    /\ status[m] = "outcome_done" => HasOutcome(m)
    /\ HasOutcome(m) => HasSnapshot(m)

(* What discovery may lose, and no more: a pool created or traded between   *)
(* the cold start and the cursor is tracked, whatever was abandoned half    *)
(* way, whatever happened while the pages were fetched, and however the     *)
(* cycles of the processes overlap, unless all it did fell within the last  *)
(* ScanLag slots before a slot the cursor was moved to.  The state a scan   *)
(* reads is that much older than the slot the cursor then takes, and no     *)
(* later scan asks for those slots; a later trade of the pool is found.     *)
NoGraduationLost == \A m \in Mint : Owed(m, cursor) # {} => Tracked(m)

(* Features and outcomes are facts about one instant: once written, neither *)
(* a crash, a retry nor a second process that passed the same idempotency   *)
(* guard ever rewrites them, and a graduation is never untracked, re-dated  *)
(* or sent back to wait for a snapshot it has.                              *)
Final ==
  \A m \in Mint :
    /\ HasSnapshot(m) => snapshotAt'[m] = snapshotAt[m]
    /\ HasOutcome(m) => outcomeAt'[m] = outcomeAt[m] /\ verdict'[m] = verdict[m]
    /\ Tracked(m) => detectedAt'[m] = detectedAt[m] /\ status'[m] # "untracked"
    /\ status'[m] = "pending_snapshot" => \/ ~HasSnapshot(m)
                                          \/ status[m] = "pending_snapshot"

RowsAreFinal == [][Final]_vars

(* Neither row is early: features are taken a whole observation window      *)
(* after detection, outcomes a whole outcome window after it.               *)
WindowsRespected ==
  \A m \in Mint :
    /\ HasSnapshot(m) => snapshotAt[m] >= detectedAt[m] + SnapshotWindow
    /\ HasOutcome(m) => outcomeAt[m] >= detectedAt[m] + OutcomeWindow

(* The store is a labelled dataset: rows appear in the order track, observe,*)
(* judge, each once.                                                        *)
Dataset == INSTANCE LabelledDataset WITH
  Token    <- Mint,
  Instant  <- 0 .. MaxTime,
  Label    <- Verdict,
  tracked  <- {m \in Mint : Tracked(m)},
  features <- [m \in Mint |-> IF HasSnapshot(m) THEN {snapshotAt[m]} ELSE {}],
  labels   <- [m \in Mint |-> IF HasOutcome(m) THEN {<<outcomeAt[m], verdict[m]>>} ELSE {}]

IsLabelledDataset == Dataset!Spec

(* Every graduation whose outcome window has matured ends up labelled, and  *)
(* the status column settles on outcome_done: the status a slow process     *)
(* wrote over another's is repaired by a later cycle.                       *)
MaturedIsSettled ==
  \A m \in Mint :
    (Tracked(m) /\ time >= detectedAt[m] + OutcomeWindow
                /\ time >= detectedAt[m] + SnapshotWindow)
      ~> [](status[m] = "outcome_done")

-----------------------------------------------------------------------------
(* The inductive invariant behind StatusBacked, WindowsRespected and        *)
(* RowsAreFinal: a process acts on a stale queue and a stale guard, so what *)
(* it may still rely on at each statement must be something no other        *)
(* process ever takes back.                                                 *)

Observable(m, now) == Tracked(m) /\ Due(m, SnapshotWindow, now)
Judgeable(m, now) == HasSnapshot(m) /\ Due(m, OutcomeWindow, now)

Justified(p) ==
  LET c == cycle[p] IN
  /\ pc[p] \in {"snapshot", "insert_snapshot", "mark_snapshot"} =>
       \A m \in c.work : Observable(m, c.now)
  /\ pc[p] \in {"insert_snapshot", "mark_snapshot"} => Observable(c.item, c.now)
  /\ pc[p] = "mark_snapshot" => HasSnapshot(c.item)
  /\ pc[p] \in OutcomePc => \A m \in c.work : Judgeable(m, c.now)
  /\ pc[p] \in {"extract", "insert_outcome", "mark_outcome"} => Judgeable(c.item, c.now)
  /\ pc[p] = "mark_outcome" => HasOutcome(c.item)

RowsBacked == StatusBacked /\ WindowsRespected /\ \A m \in Mint : HasSnapshot(m) => Tracked(m)

Backed == RowsBacked /\ \A p \in Proc : Justified(p)

(* The inductive invariant behind NoGraduationLost: slots never run ahead   *)
(* of the chain, and while a scan runs every pool changed before the slot   *)
(* it will move the cursor to is tracked, found, still to be looked at, or  *)
(* changed too late for this scan to be sure of.                            *)

ClockAhead ==
  /\ cursor <= time
  /\ \A m \in Mint : \A x \in changes[m] : x <= time
  /\ \A p \in Proc : cycle[p].head <= time /\ cycle[p].since <= time

Scanned(p) ==
  LET c == cycle[p] IN
  /\ pc[p] \in {"scan", "insert"} => \A m \in Mint :
       /\ Owed(m, c.since) # {} => Tracked(m)
       /\ \A x \in Owed(m, c.head) : \/ Tracked(m) \/ m \in c.work
                                      \/ m \in c.unseen \/ c.head - ScanLag < x
  /\ pc[p] = "insert" => c.unseen = {}

Covered == ClockAhead /\ NoGraduationLost /\ \A p \in Proc : Scanned(p)

-----------------------------------------------------------------------------
(* Statements of the documentation that the code does not keep: section 6 *)
(* of the README says how to see it.                                       *)

(* storm-store/src/lib.rs:63 calls OutcomeDone a terminal state.            *)
OutcomeDoneIsTerminal ==
  [][\A m \in Mint : status[m] = "outcome_done" => status'[m] = "outcome_done"]_vars

(* The discovery design says only genuinely new graduations are inserted,   *)
(* the collector starting fresh from its cold start.                        *)
OnlyNewGraduations ==
  \A m \in Mint : Tracked(m) => \A x \in changes[m] : coldStart <= x

=============================================================================
