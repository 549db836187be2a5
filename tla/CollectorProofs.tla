-------------------------- MODULE CollectorProofs --------------------------
(***************************************************************************)
(* Proofs about the collector, for any number of processes and tokens, any *)
(* windows and any bounds.                                                 *)
(***************************************************************************)
EXTENDS CollectorProps, TLAPS

-----------------------------------------------------------------------------
(* Type correctness. *)

LEMMA ChainType == ASSUME TypeOK, Chain PROVE TypeOK'
<1> USE DEF storeVars, tableVars, stateVars, procVars
<1>1. CASE TimePasses
  BY <1>1 DEF TypeOK, TimePasses
<1>2. ASSUME NEW m \in Mint, Graduate(m) PROVE TypeOK'
  BY <1>2 DEF TypeOK, Graduate, Tick
<1>3. ASSUME NEW m \in Mint, Trade(m) PROVE TypeOK'
  BY <1>3 DEF TypeOK, Trade, Tick
<1>4. QED
  BY <1>1, <1>2, <1>3 DEF Chain

LEMMA LocalType ==
  ASSUME TypeOK, NEW p \in Proc
  PROVE  /\ Local(p) \in Cycle
         /\ NoCycle \in Cycle
         /\ [NoCycle EXCEPT !.now = Local(p).now] \in Cycle
         /\ [NoCycle EXCEPT !.now = time] \in Cycle
BY DEF TypeOK, Local, Cycle, NoCycle, Tick, None, Depth

(* A step that moves a process on and replaces its locals leaves both well  *)
(* typed when the new locals name an item wherever the new statement uses   *)
(* one.                                                                     *)
LEMMA MoveType ==
  ASSUME TypeOK, NEW p \in Proc, NEW l \in Pc, NEW c \in Cycle,
         l \in ItemPc => c.item \in Mint,
         pc' = [pc EXCEPT ![p] = l],
         cycle' = [cycle EXCEPT ![p] = c]
  PROVE  /\ pc' \in [Proc -> Pc]
         /\ cycle' \in [Proc -> Cycle]
         /\ \A q \in Proc : pc'[q] \in ItemPc => cycle'[q].item \in Mint
BY DEF TypeOK

LEMMA StayType ==
  ASSUME TypeOK, NEW p \in Proc, NEW l \in Pc,
         l \in ItemPc => Local(p).item \in Mint,
         pc' = [pc EXCEPT ![p] = l],
         UNCHANGED cycle
  PROVE  /\ pc' \in [Proc -> Pc]
         /\ cycle' \in [Proc -> Cycle]
         /\ \A q \in Proc : pc'[q] \in ItemPc => cycle'[q].item \in Mint
BY DEF TypeOK, Local

LEMMA ControlType ==
  ASSUME TypeOK, NEW p \in Proc, BeginCycle(p) \/ Abort(p) \/ ItemFails(p)
  PROVE  TypeOK'
<1> USE DEF chainVars, storeVars, tableVars, stateVars
<1> USE DEF Pc, DiscoverPc, SnapshotPc, OutcomePc, ItemPc
<1>1. CASE BeginCycle(p)
  BY <1>1, LocalType, MoveType DEF BeginCycle, Goto, Assign, TypeOK
<1>2. CASE Abort(p)
  <2>1. pc' = [pc EXCEPT ![p] = "idle"] /\ cycle' = [cycle EXCEPT ![p] = NoCycle]
    BY <1>2 DEF Abort, EndCycle, Goto, Assign
  <2>2. faults' \in Nat /\ UNCHANGED <<chainVars, storeVars>>
    BY <1>2 DEF Abort, TypeOK
  <2>3. "idle" \in Pc \ ItemPc /\ NoCycle \in Cycle
    BY LocalType
  <2>4. /\ pc' \in [Proc -> Pc] /\ cycle' \in [Proc -> Cycle]
        /\ \A q \in Proc : pc'[q] \in ItemPc => cycle'[q].item \in Mint
    BY <2>1, <2>3, MoveType
  <2>5. QED
    BY <2>2, <2>4 DEF TypeOK
<1>3. CASE ItemFails(p)
  <2>1. PICK l \in {"snapshot", "outcome"} : Goto(p, l)
    BY <1>3 DEF ItemFails
  <2>2. faults' \in Nat /\ UNCHANGED <<chainVars, storeVars, cycle>>
    BY <1>3 DEF ItemFails, TypeOK
  <2>3. l \in Pc \ ItemPc
    OBVIOUS
  <2>4. QED
    BY <2>1, <2>2, <2>3, StayType DEF Goto, TypeOK
<1>4. QED
  BY <1>1, <1>2, <1>3

LEMMA DiscoverType == ASSUME TypeOK, NEW p \in Proc, Discover(p) PROVE TypeOK'
<1> USE DEF chainVars, storeVars, tableVars, stateVars
<1> USE DEF Pc, DiscoverPc, SnapshotPc, OutcomePc, ItemPc
<1> DEFINE c == Local(p)
<1>0. /\ c \in Cycle
      /\ c.now \in Nat /\ c.head \in Tick
      /\ c.unseen \in SUBSET Mint /\ c.work \in SUBSET Mint
  BY LocalType DEF Cycle
<1>1. CASE GetSlot(p)
  <2>1. [c EXCEPT !.head = time] \in Cycle
    BY <1>0 DEF Cycle, TypeOK, Tick
  <2>2. QED
    BY <1>1, <2>1, MoveType DEF GetSlot, Goto, Assign, TypeOK
<1>2. CASE ReadCursor(p)
  <2>1. [c EXCEPT !.since = cursor, !.unseen = Mint] \in Cycle
    BY <1>0 DEF Cycle, TypeOK
  <2>2. CASE cursor = None
    BY <1>2, <2>2, StayType DEF ReadCursor, Goto, TypeOK
  <2>3. CASE cursor # None
    BY <1>2, <2>1, <2>3, MoveType DEF ReadCursor, Goto, Assign, TypeOK
  <2>4. QED
    BY <2>2, <2>3
<1>3. CASE Seed(p)
  BY <1>0, <1>3, LocalType, MoveType DEF Seed, NextPhase, Goto, Assign, TypeOK
<1>4. CASE ScanPage(p)
  <2>1. PICK page \in SUBSET c.unseen, lag \in 0 .. ScanLag :
          /\ Assign(p, [c EXCEPT !.unseen = @ \ page,
                                 !.work = @ \cup Matching(page, c.since, time - lag)])
          /\ Goto(p, IF page = c.unseen THEN "insert" ELSE "scan")
    BY <1>4 DEF ScanPage
  <2>2. c.work \cup Matching(page, c.since, time - lag) \in SUBSET Mint
    BY <1>0 DEF Matching
  <2>3. [c EXCEPT !.unseen = @ \ page,
                  !.work = @ \cup Matching(page, c.since, time - lag)] \in Cycle
    BY <1>0, <2>2 DEF Cycle
  <2>4. (IF page = c.unseen THEN "insert" ELSE "scan") \in Pc \ ItemPc
    OBVIOUS
  <2>5. QED
    BY <1>4, <2>1, <2>3, <2>4, MoveType DEF ScanPage, Goto, Assign, TypeOK
<1>5. CASE InsertGraduation(p)
  <2>1. PICK m \in c.work :
          /\ Assign(p, [c EXCEPT !.work = @ \ {m}])
          /\ \/ /\ status' = [status EXCEPT ![m] = "pending_snapshot"]
                /\ detectedAt' = [detectedAt EXCEPT ![m] = c.now]
             \/ UNCHANGED <<status, detectedAt>>
    BY <1>5 DEF InsertGraduation
  <2>2. [c EXCEPT !.work = @ \ {m}] \in Cycle
    BY <1>0 DEF Cycle
  <2>3. pc' = [pc EXCEPT ![p] = "insert"]
    BY <1>5 DEF InsertGraduation, At, TypeOK
  <2>4. status' \in [Mint -> Status] /\ detectedAt' \in [Mint -> Tick]
    BY <1>0, <2>1 DEF Status, Tick, TypeOK
  <2>5. QED
    BY <1>5, <2>1, <2>2, <2>3, <2>4, MoveType DEF InsertGraduation, Assign, TypeOK
<1>6. CASE AdvanceCursor(p)
  BY <1>0, <1>6, LocalType, MoveType DEF AdvanceCursor, NextPhase, Goto, Assign, TypeOK
<1>7. QED
  BY <1>1, <1>2, <1>3, <1>4, <1>5, <1>6 DEF Discover

LEMMA SnapshotType == ASSUME TypeOK, NEW p \in Proc, Snapshot(p) PROVE TypeOK'
<1> USE DEF chainVars, storeVars, tableVars, stateVars
<1> USE DEF Pc, DiscoverPc, SnapshotPc, OutcomePc, ItemPc
<1> DEFINE c == Local(p)
<1>0. c \in Cycle /\ c.now \in Nat /\ c.work \in SUBSET Mint
  BY LocalType DEF Cycle
<1>1. CASE ListPending(p)
  <2>1. [c EXCEPT !.work = Queue("pending_snapshot", SnapshotWindow, c.now)] \in Cycle
    BY <1>0 DEF Cycle, Queue
  <2>2. QED
    BY <1>1, <2>1, MoveType DEF ListPending, Goto, Assign, TypeOK
<1>2. CASE NextSnapshot(p)
  <2>1. PICK m \in c.work :
          /\ Assign(p, [c EXCEPT !.work = @ \ {m}, !.item = m])
          /\ Goto(p, IF snapshotAt[m] # None THEN "mark_snapshot" ELSE "insert_snapshot")
    BY <1>2 DEF NextSnapshot
  <2>2. /\ [c EXCEPT !.work = @ \ {m}, !.item = m] \in Cycle
        /\ [c EXCEPT !.work = @ \ {m}, !.item = m].item \in Mint
    BY <1>0 DEF Cycle
  <2>3. (IF snapshotAt[m] # None THEN "mark_snapshot" ELSE "insert_snapshot") \in Pc
    OBVIOUS
  <2>4. QED
    BY <1>2, <2>1, <2>2, <2>3, MoveType DEF NextSnapshot, Goto, Assign, TypeOK
<1>3. CASE InsertSnapshot(p)
  <2>1. c.item \in Mint
    BY <1>3 DEF InsertSnapshot, At, Local, TypeOK
  <2>2. snapshotAt' \in [Mint -> Tick]
    BY <1>0, <1>3 DEF InsertSnapshot, Tick, TypeOK
  <2>3. QED
    BY <1>3, <2>1, <2>2, StayType DEF InsertSnapshot, Goto, TypeOK
<1>4. CASE MarkSnapshot(p)
  BY <1>4, StayType DEF MarkSnapshot, SetStatus, Goto, Status, TypeOK
<1>5. QED
  BY <1>1, <1>2, <1>3, <1>4 DEF Snapshot

LEMMA OutcomeType == ASSUME TypeOK, NEW p \in Proc, Outcome(p) PROVE TypeOK'
<1> USE DEF chainVars, storeVars, tableVars, stateVars
<1> USE DEF Pc, DiscoverPc, SnapshotPc, OutcomePc, ItemPc
<1> DEFINE c == Local(p)
<1>0. c \in Cycle /\ c.now \in Nat /\ c.work \in SUBSET Mint
  BY LocalType DEF Cycle
<1>1. CASE ListDone(p)
  <2>1. [c EXCEPT !.item = NoMint,
                  !.work = Queue("snapshot_done", OutcomeWindow, c.now)] \in Cycle
    BY <1>0 DEF Cycle, Queue
  <2>2. QED
    BY <1>1, <2>1, MoveType DEF ListDone, Goto, Assign, TypeOK
<1>2. CASE NextOutcome(p)
  <2>1. PICK m \in c.work :
          /\ Assign(p, [c EXCEPT !.work = @ \ {m}, !.item = m])
          /\ Goto(p, IF outcomeAt[m] # None THEN "mark_outcome" ELSE "extract")
    BY <1>2 DEF NextOutcome
  <2>2. /\ [c EXCEPT !.work = @ \ {m}, !.item = m] \in Cycle
        /\ [c EXCEPT !.work = @ \ {m}, !.item = m].item \in Mint
    BY <1>0 DEF Cycle
  <2>3. (IF outcomeAt[m] # None THEN "mark_outcome" ELSE "extract") \in Pc
    OBVIOUS
  <2>4. QED
    BY <1>2, <2>1, <2>2, <2>3, MoveType DEF NextOutcome, Goto, Assign, TypeOK
<1>3. CASE ExtractOutcome(p)
  <2>1. c.item \in Mint
    BY <1>3 DEF ExtractOutcome, At, Local, TypeOK
  <2>2. /\ [c EXCEPT !.seen = quote[c.item]] \in Cycle
        /\ [c EXCEPT !.seen = quote[c.item]].item \in Mint
    BY <1>0, <2>1 DEF Cycle, TypeOK
  <2>3. QED
    BY <1>3, <2>2, MoveType DEF ExtractOutcome, Goto, Assign, TypeOK
<1>4. CASE InsertOutcome(p)
  <2>1. c.item \in Mint
    BY <1>4 DEF InsertOutcome, At, Local, TypeOK
  <2>2. outcomeAt' \in [Mint -> Tick] /\ verdict' \in [Mint -> Verdict]
    BY <1>0, <1>4 DEF InsertOutcome, ClassifyOutcome, Verdict, Tick, TypeOK
  <2>3. QED
    BY <1>4, <2>1, <2>2, StayType DEF InsertOutcome, Goto, TypeOK
<1>5. CASE MarkOutcome(p)
  BY <1>5, StayType DEF MarkOutcome, SetStatus, Goto, Status, TypeOK
<1>6. CASE Finish(p)
  BY <1>0, <1>6, LocalType, MoveType DEF Finish, EndCycle, Goto, Assign, Tick, TypeOK
<1>7. QED
  BY <1>1, <1>2, <1>3, <1>4, <1>5, <1>6 DEF Outcome

(* The state of the chain, the store and every process keeps its type.      *)
THEOREM TypeCorrect == Spec => []TypeOK
<1>1. Init => TypeOK
  BY DEF Init, TypeOK, Tick, None, Status, Depth, Verdict, Pc, ItemPc, Cycle, NoCycle
<1>2. TypeOK /\ [Next]_vars => TypeOK'
  <2>1. ASSUME TypeOK, Next PROVE TypeOK'
    BY <2>1, ChainType, ControlType, DiscoverType, SnapshotType, OutcomeType
       DEF Next, Step
  <2>2. ASSUME TypeOK, UNCHANGED vars PROVE TypeOK'
    BY <2>2 DEF vars, chainVars, storeVars, tableVars, stateVars, procVars, TypeOK
  <2>3. QED
    BY <2>1, <2>2
<1>3. QED
  BY <1>1, <1>2, PTL DEF Spec

-----------------------------------------------------------------------------
(* The rows of the store.  Justified(p) speaks of facts about the store     *)
(* that Final makes permanent, so a step of one process carries over what   *)
(* every other process relies on.                                           *)

LEMMA Carry ==
  ASSUME TypeOK, RowsBacked, Final, NEW q \in Proc, Justified(q),
         pc'[q] = pc[q], cycle'[q] = cycle[q]
  PROVE  Justified(q)'
<1>1. /\ cycle[q].work \in SUBSET Mint
      /\ pc[q] \in ItemPc => cycle[q].item \in Mint
  BY DEF TypeOK, Cycle
<1>2. ASSUME NEW m \in Mint PROVE
        /\ HasSnapshot(m) => HasSnapshot(m)'
        /\ HasOutcome(m) => HasOutcome(m)'
        /\ Observable(m, cycle[q].now) => Observable(m, cycle[q].now)'
        /\ Judgeable(m, cycle[q].now) => Judgeable(m, cycle[q].now)'
  BY DEF Final, RowsBacked, Observable, Judgeable, Due, Tracked, HasSnapshot, HasOutcome
<1>3. /\ \A m \in Mint : HasSnapshot(m) => HasSnapshot(m)'
      /\ \A m \in Mint : HasOutcome(m) => HasOutcome(m)'
      /\ \A m \in Mint : Observable(m, cycle[q].now) => Observable(m, cycle[q].now)'
      /\ \A m \in Mint : Judgeable(m, cycle[q].now) => Judgeable(m, cycle[q].now)'
  BY <1>2
<1>4. CASE pc[q] \in {"snapshot", "insert_snapshot", "mark_snapshot"}
  BY <1>1, <1>3, <1>4 DEF Justified, ItemPc, OutcomePc
<1>5. CASE pc[q] \in OutcomePc
  BY <1>1, <1>3, <1>5 DEF Justified, ItemPc, OutcomePc
<1>6. CASE pc[q] \notin {"snapshot", "insert_snapshot", "mark_snapshot"} \cup OutcomePc
  BY <1>6 DEF Justified, OutcomePc
<1>7. QED
  BY <1>4, <1>5, <1>6

LEMMA Quiet ==
  ASSUME RowsBacked, UNCHANGED tableVars
  PROVE  Final /\ RowsBacked'
BY DEF tableVars, RowsBacked, StatusBacked, WindowsRespected, Final, Tracked,
       HasSnapshot, HasOutcome

(* Away from the item loops a process relies on nothing.                    *)
LEMMA Uninvolved ==
  ASSUME TypeOK, NEW p \in Proc, NEW l \in {"idle", "list_pending"} \cup DiscoverPc,
         pc' = [pc EXCEPT ![p] = l]
  PROVE  Justified(p)'
BY DEF TypeOK, Justified, OutcomePc, DiscoverPc

LEMMA ControlBacked ==
  ASSUME TypeOK, RowsBacked, NEW p \in Proc, Justified(p),
         BeginCycle(p) \/ Abort(p) \/ ItemFails(p)
  PROVE  Final /\ RowsBacked' /\ Justified(p)'
<1>1. UNCHANGED tableVars
  BY DEF BeginCycle, Abort, ItemFails, storeVars
<1>2. CASE BeginCycle(p)
  BY <1>1, <1>2, Quiet, Uninvolved DEF BeginCycle, Goto, DiscoverPc
<1>3. CASE Abort(p)
  BY <1>1, <1>3, Quiet, Uninvolved DEF Abort, EndCycle, Goto
<1>4. CASE ItemFails(p)
  <2>1. CASE pc[p] \in {"insert_snapshot", "mark_snapshot"}
    <3>1. pc' = [pc EXCEPT ![p] = "snapshot"] /\ UNCHANGED cycle
      BY <1>4, <2>1 DEF ItemFails, Goto
    <3>2. \A m \in cycle[p].work : Observable(m, cycle[p].now)
      BY <2>1 DEF Justified
    <3>3. \A m \in cycle[p].work : Observable(m, cycle[p].now)'
      BY <1>1, <3>1, <3>2 DEF Observable, Tracked, Due, tableVars
    <3>4. Justified(p)'
      BY <3>1, <3>3 DEF TypeOK, Justified, OutcomePc
    <3>5. QED
      BY <1>1, <3>4, Quiet
  <2>2. CASE pc[p] \in {"extract", "insert_outcome", "mark_outcome"}
    <3>1. pc' = [pc EXCEPT ![p] = "outcome"] /\ UNCHANGED cycle
      BY <1>4, <2>2 DEF ItemFails, Goto
    <3>2. \A m \in cycle[p].work : Judgeable(m, cycle[p].now)
      BY <2>2 DEF Justified, OutcomePc
    <3>3. \A m \in cycle[p].work : Judgeable(m, cycle[p].now)'
      BY <1>1, <3>1, <3>2 DEF Judgeable, HasSnapshot, Due, tableVars
    <3>4. Justified(p)'
      BY <3>1, <3>3 DEF TypeOK, Justified, OutcomePc
    <3>5. QED
      BY <1>1, <3>4, Quiet
  <2>3. QED
    BY <1>4, <2>1, <2>2 DEF ItemFails
<1>5. QED
  BY <1>2, <1>3, <1>4

LEMMA DiscoverBacked ==
  ASSUME TypeOK, RowsBacked, NEW p \in Proc, Discover(p)
  PROVE  Final /\ RowsBacked' /\ Justified(p)'
<1> USE DEF Goto, NextPhase, DiscoverPc
<1>1. ASSUME ~InsertGraduation(p) PROVE UNCHANGED tableVars
  BY <1>1 DEF Discover, GetSlot, ReadCursor, Seed, ScanPage, AdvanceCursor, storeVars
<1>2. \E l \in {"list_pending"} \cup DiscoverPc : pc' = [pc EXCEPT ![p] = l]
  <2>1. CASE InsertGraduation(p)
    BY <2>1 DEF InsertGraduation, At, TypeOK
  <2>2. CASE ScanPage(p)
    BY <2>2 DEF ScanPage
  <2>3. CASE ~InsertGraduation(p) /\ ~ScanPage(p)
    BY <2>3 DEF Discover, GetSlot, ReadCursor, Seed, AdvanceCursor
  <2>4. QED
    BY <2>1, <2>2, <2>3
<1>3. Justified(p)'
  BY <1>2, Uninvolved
<1>4. CASE InsertGraduation(p)
  <2>1. PICK m \in Local(p).work :
          \/ /\ status[m] = "untracked"
             /\ status' = [status EXCEPT ![m] = "pending_snapshot"]
             /\ detectedAt' = [detectedAt EXCEPT ![m] = Local(p).now]
          \/ UNCHANGED <<status, detectedAt>>
    BY <1>4 DEF InsertGraduation
  <2>2. UNCHANGED <<snapshotAt, outcomeAt, verdict>>
    BY <1>4 DEF InsertGraduation
  <2>3. CASE UNCHANGED <<status, detectedAt>>
    BY <1>3, <2>2, <2>3, Quiet DEF tableVars
  <2>4. CASE /\ status[m] = "untracked"
             /\ status' = [status EXCEPT ![m] = "pending_snapshot"]
             /\ detectedAt' = [detectedAt EXCEPT ![m] = Local(p).now]
    <3> USE DEF Tracked, HasSnapshot, HasOutcome
    <3>1. m \in Mint
      BY LocalType DEF Cycle
    <3>2. ~HasSnapshot(m) /\ ~HasOutcome(m)
      BY <2>4, <3>1 DEF RowsBacked, StatusBacked
    <3>3. Final
      BY <2>2, <2>4, <3>1, <3>2 DEF Final, TypeOK
    <3>4. RowsBacked'
      BY <2>2, <2>4, <3>1, <3>2 DEF RowsBacked, StatusBacked, WindowsRespected, TypeOK
    <3>5. QED
      BY <1>3, <3>3, <3>4
  <2>5. QED
    BY <2>1, <2>3, <2>4
<1>5. QED
  BY <1>1, <1>3, <1>4, Quiet

LEMMA SnapshotBacked ==
  ASSUME TypeOK, RowsBacked, NEW p \in Proc, Justified(p), Snapshot(p)
  PROVE  Final /\ RowsBacked' /\ Justified(p)'
<1> USE DEF Goto, Assign, At, Local
<1>0. /\ cycle[p].work \in SUBSET Mint
      /\ pc[p] \in ItemPc => cycle[p].item \in Mint
  BY DEF TypeOK, Cycle
<1>1. CASE ListPending(p)
  <2>1. UNCHANGED tableVars
    BY <1>1 DEF ListPending, storeVars
  <2>2. /\ pc'[p] = "snapshot"
        /\ cycle'[p].now = cycle[p].now
        /\ cycle'[p].work = Queue("pending_snapshot", SnapshotWindow, cycle[p].now)
    BY <1>1 DEF ListPending, TypeOK, Cycle
  <2>3. \A m \in cycle'[p].work : Tracked(m) /\ Due(m, SnapshotWindow, cycle[p].now)
    BY <2>2 DEF Queue, Tracked
  <2>4. Justified(p)'
    BY <2>1, <2>2, <2>3 DEF Justified, Observable, Tracked, Due, OutcomePc, tableVars
  <2>5. QED
    BY <2>1, <2>4, Quiet
<1>2. CASE NextSnapshot(p)
  <2>1. PICK m \in cycle[p].work :
          /\ cycle' = [cycle EXCEPT ![p] = [cycle[p] EXCEPT !.work = @ \ {m}, !.item = m]]
          /\ pc' = [pc EXCEPT ![p] = IF snapshotAt[m] # None THEN "mark_snapshot"
                                                             ELSE "insert_snapshot"]
    BY <1>2 DEF NextSnapshot
  <2>2. UNCHANGED tableVars
    BY <1>2 DEF NextSnapshot, storeVars
  <2>3. /\ cycle'[p].now = cycle[p].now
        /\ cycle'[p].item = m
        /\ cycle'[p].work = cycle[p].work \ {m}
        /\ pc'[p] \in {"insert_snapshot", "mark_snapshot"}
        /\ pc'[p] = "mark_snapshot" => HasSnapshot(m)
    BY <2>1 DEF TypeOK, Cycle, HasSnapshot
  <2>4. \A n \in cycle[p].work : Observable(n, cycle[p].now)
    BY <1>2 DEF NextSnapshot, Justified
  <2>5. Justified(p)'
    BY <2>2, <2>3, <2>4
       DEF Justified, Observable, HasSnapshot, Tracked, Due, OutcomePc, tableVars
  <2>6. QED
    BY <2>2, <2>5, Quiet
<1>3. CASE InsertSnapshot(p)
  <2> DEFINE m == cycle[p].item
             now == cycle[p].now
  <2>0. m \in Mint /\ now \in Nat
    BY <1>0, <1>3 DEF InsertSnapshot, ItemPc, TypeOK, Cycle
  <2>1. /\ Observable(m, now)
        /\ \A n \in cycle[p].work : Observable(n, now)
    BY <1>3 DEF InsertSnapshot, Justified
  <2>2. /\ UNCHANGED <<status, detectedAt, outcomeAt, verdict, cycle>>
        /\ pc'[p] \in {"snapshot", "mark_snapshot"}
    BY <1>3 DEF InsertSnapshot, TypeOK
  <2>3. CASE snapshotAt[m] = None
    <3> USE DEF Tracked, HasSnapshot, HasOutcome
    <3>1. snapshotAt' = [snapshotAt EXCEPT ![m] = now]
      BY <1>3, <2>3 DEF InsertSnapshot
    <3>2. Final
      BY <2>0, <2>2, <2>3, <3>1 DEF Final, TypeOK
    <3>3. StatusBacked'
      BY <2>0, <2>2, <3>1 DEF RowsBacked, StatusBacked, TypeOK, None
    <3>4. WindowsRespected' /\ \A n \in Mint : HasSnapshot(n)' => Tracked(n)'
      BY <2>0, <2>1, <2>2, <3>1
         DEF RowsBacked, WindowsRespected, Observable, Due, TypeOK, None
    <3>5. Justified(p)'
      BY <2>0, <2>1, <2>2, <3>1
         DEF Justified, Observable, Due, OutcomePc, TypeOK, None
    <3>6. QED
      BY <3>2, <3>3, <3>4, <3>5 DEF RowsBacked
  <2>4. CASE snapshotAt[m] # None
    <3>1. pc'[p] = "snapshot" /\ UNCHANGED tableVars
      BY <1>3, <2>4 DEF InsertSnapshot, TypeOK, tableVars
    <3>2. Justified(p)'
      BY <2>1, <2>2, <3>1 DEF Justified, Observable, Tracked, Due, OutcomePc, tableVars
    <3>3. QED
      BY <3>1, <3>2, Quiet
  <2>5. QED
    BY <2>3, <2>4
<1>4. CASE MarkSnapshot(p)
  <2> DEFINE m == cycle[p].item
  <2>0. m \in Mint
    BY <1>0, <1>4 DEF MarkSnapshot, ItemPc
  <2>1. /\ HasSnapshot(m) /\ Tracked(m)
        /\ \A n \in cycle[p].work : Observable(n, cycle[p].now)
    BY <1>4 DEF MarkSnapshot, Justified, Observable
  <2>2. /\ status' = [status EXCEPT ![m] = "snapshot_done"]
        /\ UNCHANGED <<detectedAt, snapshotAt, outcomeAt, verdict, cycle>>
        /\ pc'[p] = "snapshot"
    BY <1>4 DEF MarkSnapshot, SetStatus, TypeOK
  <2>3. Final
    BY <2>0, <2>1, <2>2 DEF Final, Tracked, HasSnapshot, HasOutcome, TypeOK
  <2>4. RowsBacked'
    BY <2>0, <2>1, <2>2
       DEF RowsBacked, StatusBacked, WindowsRespected, Tracked, HasSnapshot, HasOutcome, TypeOK
  <2>5. Justified(p)'
    BY <1>0, <2>0, <2>1, <2>2 DEF Justified, Observable, Tracked, Due, OutcomePc, TypeOK
  <2>6. QED
    BY <2>3, <2>4, <2>5
<1>5. QED
  BY <1>1, <1>2, <1>3, <1>4 DEF Snapshot

LEMMA OutcomeBacked ==
  ASSUME TypeOK, RowsBacked, NEW p \in Proc, Justified(p), Outcome(p)
  PROVE  Final /\ RowsBacked' /\ Justified(p)'
<1> USE DEF Goto, Assign, At, Local
<1>0. /\ cycle[p].work \in SUBSET Mint
      /\ pc[p] \in ItemPc => cycle[p].item \in Mint
  BY DEF TypeOK, Cycle
<1>1. CASE ListDone(p)
  <2>1. UNCHANGED tableVars
    BY <1>1 DEF ListDone, storeVars
  <2>2. /\ pc'[p] = "outcome"
        /\ cycle'[p].now = cycle[p].now
        /\ cycle'[p].work = Queue("snapshot_done", OutcomeWindow, cycle[p].now)
    BY <1>1 DEF ListDone, TypeOK, Cycle
  <2>3. \A m \in cycle'[p].work : HasSnapshot(m) /\ Due(m, OutcomeWindow, cycle[p].now)
    BY <2>2 DEF Queue, RowsBacked, StatusBacked
  <2>4. Justified(p)'
    BY <2>1, <2>2, <2>3 DEF Justified, Judgeable, HasSnapshot, Due, OutcomePc, tableVars
  <2>5. QED
    BY <2>1, <2>4, Quiet
<1>2. CASE NextOutcome(p)
  <2>1. PICK m \in cycle[p].work :
          /\ cycle' = [cycle EXCEPT ![p] = [cycle[p] EXCEPT !.work = @ \ {m}, !.item = m]]
          /\ pc' = [pc EXCEPT ![p] = IF outcomeAt[m] # None THEN "mark_outcome"
                                                            ELSE "extract"]
    BY <1>2 DEF NextOutcome
  <2>2. UNCHANGED tableVars
    BY <1>2 DEF NextOutcome, storeVars
  <2>3. /\ cycle'[p].now = cycle[p].now
        /\ cycle'[p].item = m
        /\ cycle'[p].work = cycle[p].work \ {m}
        /\ pc'[p] \in {"extract", "mark_outcome"}
        /\ pc'[p] = "mark_outcome" => HasOutcome(m)
    BY <2>1 DEF TypeOK, Cycle, HasOutcome
  <2>4. \A n \in cycle[p].work : Judgeable(n, cycle[p].now)
    BY <1>2 DEF NextOutcome, Justified, OutcomePc
  <2>5. Justified(p)'
    BY <2>2, <2>3, <2>4
       DEF Justified, Judgeable, HasSnapshot, HasOutcome, Due, OutcomePc, tableVars
  <2>6. QED
    BY <2>2, <2>5, Quiet
<1>3. CASE ExtractOutcome(p)
  <2>1. UNCHANGED tableVars
    BY <1>3 DEF ExtractOutcome, storeVars
  <2>2. /\ cycle'[p].now = cycle[p].now
        /\ cycle'[p].item = cycle[p].item
        /\ cycle'[p].work = cycle[p].work
        /\ pc'[p] = "insert_outcome"
    BY <1>3 DEF ExtractOutcome, TypeOK, Cycle
  <2>3. /\ Judgeable(cycle[p].item, cycle[p].now)
        /\ \A n \in cycle[p].work : Judgeable(n, cycle[p].now)
    BY <1>3 DEF ExtractOutcome, Justified, OutcomePc
  <2>4. Justified(p)'
    BY <2>1, <2>2, <2>3 DEF Justified, Judgeable, HasSnapshot, Due, OutcomePc, tableVars
  <2>5. QED
    BY <2>1, <2>4, Quiet
<1>4. CASE InsertOutcome(p)
  <2> DEFINE m == cycle[p].item
             now == cycle[p].now
  <2>0. m \in Mint /\ now \in Nat
    BY <1>0, <1>4 DEF InsertOutcome, ItemPc, TypeOK, Cycle
  <2>1. /\ Judgeable(m, now)
        /\ \A n \in cycle[p].work : Judgeable(n, now)
    BY <1>4 DEF InsertOutcome, Justified, OutcomePc
  <2>2. /\ UNCHANGED <<status, detectedAt, snapshotAt, cycle>>
        /\ pc'[p] \in {"outcome", "mark_outcome"}
    BY <1>4 DEF InsertOutcome, TypeOK
  <2>3. CASE outcomeAt[m] = None
    <3> USE DEF Tracked, HasSnapshot, HasOutcome
    <3>1. /\ outcomeAt' = [outcomeAt EXCEPT ![m] = now]
          /\ \E v : verdict' = [verdict EXCEPT ![m] = v]
      BY <1>4, <2>3 DEF InsertOutcome
    <3>2. Final
      BY <2>0, <2>2, <2>3, <3>1 DEF Final, TypeOK
    <3>3. StatusBacked'
      BY <2>0, <2>1, <2>2, <3>1 DEF RowsBacked, StatusBacked, Judgeable, TypeOK, None
    <3>4. WindowsRespected' /\ \A n \in Mint : HasSnapshot(n)' => Tracked(n)'
      BY <2>0, <2>1, <2>2, <3>1
         DEF RowsBacked, WindowsRespected, Judgeable, Due, TypeOK, None
    <3>5. Justified(p)'
      BY <2>0, <2>1, <2>2, <3>1
         DEF Justified, Judgeable, Due, OutcomePc, TypeOK, None
    <3>6. QED
      BY <3>2, <3>3, <3>4, <3>5 DEF RowsBacked
  <2>4. CASE outcomeAt[m] # None
    <3>1. pc'[p] = "outcome" /\ UNCHANGED tableVars
      BY <1>4, <2>4 DEF InsertOutcome, TypeOK, tableVars
    <3>2. Justified(p)'
      BY <2>1, <2>2, <3>1 DEF Justified, Judgeable, HasSnapshot, Due, OutcomePc, tableVars
    <3>3. QED
      BY <3>1, <3>2, Quiet
  <2>5. QED
    BY <2>3, <2>4
<1>5. CASE MarkOutcome(p)
  <2> DEFINE m == cycle[p].item
  <2>0. m \in Mint
    BY <1>0, <1>5 DEF MarkOutcome, ItemPc
  <2>1. /\ HasOutcome(m) /\ HasSnapshot(m) /\ Tracked(m)
        /\ \A n \in cycle[p].work : Judgeable(n, cycle[p].now)
    BY <1>5, <2>0 DEF MarkOutcome, Justified, Judgeable, OutcomePc, RowsBacked
  <2>2. /\ status' = [status EXCEPT ![m] = "outcome_done"]
        /\ UNCHANGED <<detectedAt, snapshotAt, outcomeAt, verdict, cycle>>
        /\ pc'[p] = "outcome"
    BY <1>5 DEF MarkOutcome, SetStatus, TypeOK
  <2>3. Final
    BY <2>0, <2>1, <2>2 DEF Final, Tracked, HasSnapshot, HasOutcome, TypeOK
  <2>4. RowsBacked'
    BY <2>0, <2>1, <2>2
       DEF RowsBacked, StatusBacked, WindowsRespected, Tracked, HasSnapshot, HasOutcome, TypeOK
  <2>5. Justified(p)'
    BY <2>1, <2>2 DEF Justified, Judgeable, HasSnapshot, Due, OutcomePc
  <2>6. QED
    BY <2>3, <2>4, <2>5
<1>6. CASE Finish(p)
  BY <1>6, Quiet, Uninvolved DEF Finish, EndCycle
<1>7. QED
  BY <1>1, <1>2, <1>3, <1>4, <1>5, <1>6 DEF Outcome

LEMMA NextBacked ==
  ASSUME TypeOK, Backed, [Next]_vars
  PROVE  Final /\ Backed'
<1>1. ASSUME NEW p \in Proc, Step(p) \/ Abort(p) \/ ItemFails(p)
      PROVE  Final /\ Backed'
  <2>1. RowsBacked /\ Justified(p)
    BY DEF Backed
  <2>2. Final /\ RowsBacked' /\ Justified(p)'
    BY <1>1, <2>1, ControlBacked, DiscoverBacked, SnapshotBacked, OutcomeBacked DEF Step
  <2>3. ASSUME NEW q \in Proc, q # p PROVE pc'[q] = pc[q] /\ cycle'[q] = cycle[q]
    <3> USE DEF Goto, Assign, NextPhase, EndCycle
    <3>1. CASE BeginCycle(p) \/ Abort(p) \/ ItemFails(p)
      BY <2>3, <3>1 DEF BeginCycle, Abort, ItemFails, TypeOK
    <3>2. CASE Discover(p)
      BY <2>3, <3>2 DEF Discover, GetSlot, ReadCursor, Seed, ScanPage, InsertGraduation,
                        AdvanceCursor, TypeOK
    <3>3. CASE Snapshot(p)
      BY <2>3, <3>3 DEF Snapshot, ListPending, NextSnapshot, InsertSnapshot, MarkSnapshot,
                        TypeOK
    <3>4. CASE Outcome(p)
      BY <2>3, <3>4 DEF Outcome, ListDone, NextOutcome, ExtractOutcome, InsertOutcome,
                        MarkOutcome, Finish, TypeOK
    <3>5. QED
      BY <1>1, <3>1, <3>2, <3>3, <3>4 DEF Step
  <2>4. \A q \in Proc : Justified(q)'
    BY <2>1, <2>2, <2>3, Carry DEF Backed
  <2>5. QED
    BY <2>2, <2>4 DEF Backed
<1>2. CASE Chain \/ UNCHANGED vars
  <2>1. UNCHANGED tableVars /\ UNCHANGED <<pc, cycle>>
    BY <1>2 DEF Chain, TimePasses, Graduate, Trade, vars, storeVars, procVars, tableVars
  <2>2. Final /\ RowsBacked'
    BY <2>1, Quiet DEF Backed
  <2>3. \A q \in Proc : Justified(q)'
    BY <2>1, <2>2, Carry DEF Backed
  <2>4. QED
    BY <2>2, <2>3 DEF Backed
<1>3. QED
  BY <1>1, <1>2 DEF Next

LEMMA BackedInvariant == Spec => []Backed
<1>1. Init => Backed
  BY DEF Init, Backed, RowsBacked, StatusBacked, WindowsRespected, Justified, OutcomePc,
         HasSnapshot, HasOutcome
<1>2. TypeOK /\ Backed /\ [Next]_vars => Backed'
  BY NextBacked
<1>3. QED
  BY <1>1, <1>2, TypeCorrect, PTL DEF Spec

(* The status column never runs ahead of the rows it announces.             *)
THEOREM StatusIsBacked == Spec => []StatusBacked
<1>1. Backed => StatusBacked
  BY DEF Backed, RowsBacked
<1>2. QED
  BY <1>1, BackedInvariant, PTL

(* No row is written before its window has elapsed.                         *)
THEOREM WindowsAreRespected == Spec => []WindowsRespected
<1>1. Backed => WindowsRespected
  BY DEF Backed, RowsBacked
<1>2. QED
  BY <1>1, BackedInvariant, PTL

(* No step of any process rewrites a row or unlearns a graduation.          *)
THEOREM RowsAreNeverRewritten == Spec => RowsAreFinal
<1>1. TypeOK /\ Backed /\ [Next]_vars => [Final]_vars
  BY NextBacked
<1>2. QED
  BY <1>1, TypeCorrect, BackedInvariant, PTL DEF Spec, RowsAreFinal

-----------------------------------------------------------------------------
(* What discovery may lose: nothing but what fell within the slots by which *)
(* the state a scan reads is behind the slot the cursor then takes.         *)

(* What every step does to the facts a running scan relies on. *)
Onward ==
  /\ coldStart' >= coldStart
  /\ reached \subseteq reached'
  /\ \A m \in Mint : changes'[m] \subseteq changes[m] \cup {time}

(* Discovery never becomes answerable for a change it was not: new ones are *)
(* at the present slot, and those it cannot be sure to see only grow.       *)
LEMMA OwedShrinks ==
  ASSUME TypeOK, TypeOK', Onward, NEW m \in Mint, NEW s \in Int, s <= time
  PROVE  Owed(m, s)' \subseteq Owed(m, s)
<1>1. SUFFICES ASSUME NEW x \in Owed(m, s)' PROVE x \in Owed(m, s)
  OBVIOUS
<1>2. x \in changes'[m] /\ coldStart' <= x /\ x < s /\ ~Missable(x)'
  BY DEF Owed
<1>3. changes'[m] \subseteq Nat /\ time \in Int /\ coldStart \in Int /\ coldStart' \in Int
  BY DEF TypeOK, Tick, None
<1>4. x \in changes[m] /\ coldStart <= x
  BY <1>2, <1>3 DEF Onward
<1>5. ~Missable(x)
  BY <1>2 DEF Missable, Onward
<1>6. QED
  BY <1>2, <1>4, <1>5 DEF Owed

LEMMA CarryScan ==
  ASSUME TypeOK, TypeOK', ClockAhead, Final, Onward, NEW q \in Proc, Scanned(q),
         pc'[q] = pc[q], cycle'[q] = cycle[q]
  PROVE  Scanned(q)'
<1>0. cycle[q] \in Cycle /\ cycle[q].head \in Int /\ cycle[q].since \in Int
  BY DEF TypeOK, Cycle, Tick, None
<1>1. PICK h \in Int, s \in Int : h = cycle[q].head /\ s = cycle[q].since
  BY <1>0
<1>2. h <= time /\ s <= time
  BY <1>1 DEF ClockAhead
<1>3. \A m \in Mint : Owed(m, h)' \subseteq Owed(m, h) /\ Owed(m, s)' \subseteq Owed(m, s)
  BY <1>2, OwedShrinks
<1>4. \A m \in Mint : Tracked(m) => Tracked(m)'
  BY DEF Final, Tracked
<1>5. cycle'[q].head = h /\ cycle'[q].since = s
  BY <1>1
<1>6. pc'[q] \in {"scan", "insert"} => \A m \in Mint :
        /\ Owed(m, s)' # {} => Tracked(m)'
        /\ \A x \in Owed(m, h)' : \/ Tracked(m)' \/ m \in cycle'[q].work
                                  \/ m \in cycle'[q].unseen \/ h - ScanLag < x
  BY <1>1, <1>3, <1>4 DEF Scanned
<1>7. QED
  BY <1>5, <1>6 DEF Scanned

LEMMA OthersStay ==
  ASSUME TypeOK, NEW p \in Proc, Step(p) \/ Abort(p) \/ ItemFails(p)
  PROVE  \A q \in Proc \ {p} : pc'[q] = pc[q] /\ cycle'[q] = cycle[q]
<1> USE DEF Goto, Assign, NextPhase, EndCycle
<1>1. CASE BeginCycle(p) \/ Abort(p) \/ ItemFails(p)
  BY <1>1 DEF BeginCycle, Abort, ItemFails, TypeOK
<1>2. CASE Discover(p)
  BY <1>2 DEF Discover, GetSlot, ReadCursor, Seed, ScanPage, InsertGraduation,
              AdvanceCursor, TypeOK
<1>3. CASE Snapshot(p)
  BY <1>3 DEF Snapshot, ListPending, NextSnapshot, InsertSnapshot, MarkSnapshot, TypeOK
<1>4. CASE Outcome(p)
  BY <1>4 DEF Outcome, ListDone, NextOutcome, ExtractOutcome, InsertOutcome, MarkOutcome,
              Finish, TypeOK
<1>5. QED
  BY <1>1, <1>2, <1>3, <1>4 DEF Step

(* A step that leaves the chain, the cursor and the cold start alone keeps  *)
(* the cover when it does so for the process that takes it.                 *)
LEMMA CursorStays ==
  ASSUME TypeOK, TypeOK', Covered, Final, NEW p \in Proc,
         \A q \in Proc \ {p} : pc'[q] = pc[q] /\ cycle'[q] = cycle[q],
         UNCHANGED <<chainVars, cursor, coldStart, reached>>,
         cycle'[p].head <= time, cycle'[p].since <= time,
         Scanned(p)'
  PROVE  Covered'
<1>1. UNCHANGED <<time, changes>>
  BY DEF chainVars
<1>2. Onward
  BY <1>1 DEF Onward, TypeOK, Tick, None
<1>3. ClockAhead'
  BY <1>1 DEF Covered, ClockAhead
<1>4. NoGraduationLost'
  BY <1>1 DEF Covered, NoGraduationLost, Owed, Missable, Final, Tracked
<1>5. \A q \in Proc : Scanned(q)'
  BY <1>2, CarryScan DEF Covered
<1>6. QED
  BY <1>3, <1>4, <1>5 DEF Covered

LEMMA ElsewhereCovered ==
  ASSUME TypeOK, TypeOK', Covered, Final, NEW p \in Proc,
         BeginCycle(p) \/ Abort(p) \/ ItemFails(p) \/ Snapshot(p) \/ Outcome(p)
  PROVE  Covered'
<1> USE DEF Goto, Assign, Local, EndCycle, NoCycle
<1>1. UNCHANGED <<chainVars, cursor, coldStart, reached>>
  BY DEF BeginCycle, Abort, ItemFails, Snapshot, ListPending, NextSnapshot, InsertSnapshot,
         MarkSnapshot, Outcome, ListDone, NextOutcome, ExtractOutcome, InsertOutcome,
         MarkOutcome, Finish, storeVars, stateVars
<1>2. /\ pc'[p] \notin {"scan", "insert"}
      /\ cycle'[p].head \in {cycle[p].head, None}
      /\ cycle'[p].since \in {cycle[p].since, None}
  <2>0. pc \in [Proc -> Pc] /\ cycle \in [Proc -> Cycle] /\ cycle[p] \in Cycle
    BY DEF TypeOK
  <2>1. CASE BeginCycle(p)
    BY <2>0, <2>1 DEF BeginCycle
  <2>2. CASE Abort(p)
    BY <2>0, <2>2 DEF Abort
  <2>3. CASE ItemFails(p)
    BY <2>0, <2>3 DEF ItemFails
  <2>4. CASE Snapshot(p)
    <3>1. CASE ListPending(p)
      BY <2>0, <3>1 DEF ListPending, Cycle
    <3>2. CASE NextSnapshot(p)
      <4>1. PICK m : /\ cycle' = [cycle EXCEPT ![p] = [cycle[p] EXCEPT !.work = @ \ {m}, !.item = m]]
                     /\ pc' = [pc EXCEPT ![p] = IF snapshotAt[m] # None
                                               THEN "mark_snapshot" ELSE "insert_snapshot"]
        BY <3>2 DEF NextSnapshot
      <4>2. pc'[p] \in {"mark_snapshot", "insert_snapshot"}
        BY <2>0, <4>1
      <4>3. cycle'[p].head = cycle[p].head /\ cycle'[p].since = cycle[p].since
        BY <2>0, <4>1 DEF Cycle
      <4>4. QED
        BY <4>2, <4>3
    <3>3. CASE InsertSnapshot(p)
      BY <2>0, <3>3 DEF InsertSnapshot
    <3>4. CASE MarkSnapshot(p)
      BY <2>0, <3>4 DEF MarkSnapshot
    <3>5. QED
      BY <2>4, <3>1, <3>2, <3>3, <3>4 DEF Snapshot
  <2>5. CASE Outcome(p)
    <3>1. CASE ListDone(p)
      BY <2>0, <3>1 DEF ListDone, Cycle
    <3>2. CASE NextOutcome(p)
      <4>1. PICK m : /\ cycle' = [cycle EXCEPT ![p] = [cycle[p] EXCEPT !.work = @ \ {m}, !.item = m]]
                     /\ pc' = [pc EXCEPT ![p] = IF outcomeAt[m] # None
                                               THEN "mark_outcome" ELSE "extract"]
        BY <3>2 DEF NextOutcome
      <4>2. pc'[p] \in {"mark_outcome", "extract"}
        BY <2>0, <4>1
      <4>3. cycle'[p].head = cycle[p].head /\ cycle'[p].since = cycle[p].since
        BY <2>0, <4>1 DEF Cycle
      <4>4. QED
        BY <4>2, <4>3
    <3>3. CASE ExtractOutcome(p)
      BY <2>0, <3>3 DEF ExtractOutcome, Cycle
    <3>4. CASE InsertOutcome(p)
      BY <2>0, <3>4 DEF InsertOutcome
    <3>5. CASE MarkOutcome(p)
      BY <2>0, <3>5 DEF MarkOutcome
    <3>6. CASE Finish(p)
      BY <2>0, <3>6 DEF Finish
    <3>7. QED
      BY <2>5, <3>1, <3>2, <3>3, <3>4, <3>5, <3>6 DEF Outcome
  <2>6. QED
    BY <2>1, <2>2, <2>3, <2>4, <2>5
<1>3. cycle'[p].head <= time /\ cycle'[p].since <= time
  BY <1>2 DEF Covered, ClockAhead, TypeOK, None
<1>4. Scanned(p)'
  BY <1>2 DEF Scanned
<1>5. Step(p) \/ Abort(p) \/ ItemFails(p)
  BY DEF Step
<1>6. QED
  BY <1>1, <1>3, <1>4, <1>5, OthersStay, CursorStays

LEMMA ScanCovered ==
  ASSUME TypeOK, TypeOK', Covered, Final, NEW p \in Proc, ScanPage(p)
  PROVE  Covered'
<1> DEFINE c == cycle[p]
<1> USE DEF At, Local, Goto, Assign
<1>1. PICK page \in SUBSET c.unseen, lag \in 0 .. ScanLag :
        /\ cycle' = [cycle EXCEPT ![p] =
                       [c EXCEPT !.unseen = @ \ page,
                                 !.work = @ \cup Matching(page, c.since, time - lag)]]
        /\ pc' = [pc EXCEPT ![p] = IF page = c.unseen THEN "insert" ELSE "scan"]
  BY DEF ScanPage
<1>2. UNCHANGED <<chainVars, cursor, coldStart, reached>>
  BY DEF ScanPage, storeVars, stateVars
<1>3. /\ cycle'[p].head = c.head
      /\ cycle'[p].since = c.since
      /\ cycle'[p].unseen = c.unseen \ page
      /\ cycle'[p].work = c.work \cup Matching(page, c.since, time - lag)
      /\ pc'[p] = IF page = c.unseen THEN "insert" ELSE "scan"
  BY <1>1 DEF TypeOK, Cycle
<1>4. /\ c.head <= time /\ c.since <= time
      /\ lag \in Int /\ ScanLag \in Int /\ lag <= ScanLag
  BY <1>1, CollectorAssumption DEF Covered, ClockAhead, CollectorAssumption
<1>5. \A m \in Mint :
        /\ Owed(m, c.since) # {} => Tracked(m)
        /\ \A x \in Owed(m, c.head) : \/ Tracked(m) \/ m \in c.work
                                       \/ m \in c.unseen \/ c.head - ScanLag < x
  BY DEF Covered, Scanned, ScanPage
<1>6. ASSUME NEW m \in Mint PROVE
        /\ Owed(m, cycle[p].since)' = Owed(m, c.since)
        /\ Owed(m, cycle[p].head)' = Owed(m, c.head)
        /\ Tracked(m)' <=> Tracked(m)
  <2>1. status' = status /\ cycle'[p].since = c.since /\ cycle'[p].head = c.head
    BY <1>3 DEF ScanPage, storeVars, tableVars
  <2>2. QED
    BY <1>2, <2>1 DEF Owed, Missable, Tracked, chainVars
<1>7. ASSUME NEW m \in page, NEW x \in Owed(m, c.head), ~Tracked(m), ~(c.head - ScanLag < x)
      PROVE  m \in Matching(page, c.since, time - lag)
  <2>1. m \in Mint
    BY <1>1 DEF TypeOK, Cycle
  <2>2. x \in Int /\ c.head \in Int /\ c.since \in Int /\ time \in Int
    BY <2>1 DEF TypeOK, Cycle, Tick, None, Owed
  <2>3. x \in changes[m] /\ coldStart <= x /\ ~Missable(x)
    BY DEF Owed
  <2>4. x <= time - lag
    BY <1>4, <1>7, <2>2
  <2>5. c.since <= x
    <3>1. CASE x < c.since
      BY <1>5, <1>7, <2>1, <2>3, <3>1 DEF Owed
    <3>2. QED
      BY <2>2, <3>1
  <2>6. QED
    BY <2>3, <2>4, <2>5 DEF Matching
<1>8. Scanned(p)'
  <2>1. ASSUME NEW m \in Mint PROVE
          /\ Owed(m, cycle[p].since)' # {} => Tracked(m)'
          /\ \A x \in Owed(m, cycle[p].head)' :
               \/ Tracked(m)' \/ m \in cycle'[p].work
               \/ m \in cycle'[p].unseen \/ cycle'[p].head - ScanLag < x
    <3>1. Owed(m, cycle[p].since)' # {} => Tracked(m)'
      BY <1>5, <1>6
    <3>2. ASSUME NEW x \in Owed(m, c.head)
          PROVE  \/ Tracked(m) \/ m \in cycle'[p].work
                 \/ m \in cycle'[p].unseen \/ c.head - ScanLag < x
      BY <1>3, <1>5, <1>7
    <3>3. QED
      BY <1>3, <1>6, <3>1, <3>2
  <2>2. pc'[p] = "insert" => cycle'[p].unseen = {}
    BY <1>3
  <2>3. QED
    BY <2>1, <2>2 DEF Scanned
<1>9. \A q \in Proc \ {p} : pc'[q] = pc[q] /\ cycle'[q] = cycle[q]
  BY OthersStay DEF Step, Discover
<1>10. QED
  BY <1>2, <1>3, <1>4, <1>8, <1>9, CursorStays

LEMMA InsertCovered ==
  ASSUME TypeOK, TypeOK', Covered, Final, NEW p \in Proc, InsertGraduation(p)
  PROVE  Covered'
<1> DEFINE c == cycle[p]
<1>1. PICK m \in c.work :
        /\ cycle' = [cycle EXCEPT ![p] = [c EXCEPT !.work = @ \ {m}]]
        /\ status' = [status EXCEPT ![m] = "pending_snapshot"] \/ status[m] # "untracked"
  BY DEF InsertGraduation, Local, Assign
<1>2. /\ UNCHANGED <<chainVars, cursor, coldStart, reached, pc>>
      /\ pc[p] = "insert"
  BY DEF InsertGraduation, stateVars, At
<1>3. /\ cycle'[p].head = c.head
      /\ cycle'[p].since = c.since
      /\ cycle'[p].unseen = c.unseen
      /\ cycle'[p].work = c.work \ {m}
  BY <1>1 DEF TypeOK, Cycle
<1>4. Tracked(m)' /\ \A n \in Mint : Tracked(n) => Tracked(n)'
  <2>1. m \in Mint
    BY <1>1 DEF TypeOK, Cycle
  <2>2. QED
    BY <1>1, <2>1 DEF Final, Tracked, TypeOK
<1>5. \A n \in Mint : /\ Owed(n, cycle[p].since)' = Owed(n, c.since)
                      /\ Owed(n, cycle[p].head)' = Owed(n, c.head)
  BY <1>2, <1>3 DEF Owed, Missable, chainVars
<1>6. Scanned(p)'
  BY <1>2, <1>3, <1>4, <1>5 DEF Covered, Scanned
<1>7. c.head <= time /\ c.since <= time
  BY DEF Covered, ClockAhead
<1>8. \A q \in Proc \ {p} : pc'[q] = pc[q] /\ cycle'[q] = cycle[q]
  BY OthersStay DEF Step, Discover
<1>9. QED
  BY <1>2, <1>3, <1>6, <1>7, <1>8, CursorStays

(* A step that moves the cursor owes no more pools than are tracked.        *)
LEMMA CursorMoves ==
  ASSUME TypeOK, TypeOK', Covered, Final, NEW p \in Proc, Seed(p) \/ AdvanceCursor(p)
  PROVE  Covered'
<1> USE DEF Goto, Assign, Local, NextPhase, NoCycle, At
<1>1. /\ UNCHANGED <<chainVars, tableVars>>
      /\ UNCHANGED <<time, changes>>
      /\ reached \subseteq reached'
  BY DEF Seed, AdvanceCursor, chainVars
<1>2. /\ cursor' = cycle[p].head
      /\ cycle'[p].head = None /\ cycle'[p].since = None
      /\ pc'[p] = "list_pending"
  BY DEF Seed, AdvanceCursor, TypeOK
<1>3. Onward
  BY <1>1 DEF Seed, AdvanceCursor, Onward, TypeOK, Cycle, Tick, None
<1>4. \A q \in Proc \ {p} : pc'[q] = pc[q] /\ cycle'[q] = cycle[q]
  BY OthersStay DEF Step, Discover
<1>5. ClockAhead'
  BY <1>1, <1>2, <1>4 DEF Covered, ClockAhead, TypeOK, None
<1>6. NoGraduationLost'
  <2>1. CASE Seed(p)
    <3>1. coldStart' >= cursor'
      BY <1>2, <2>1 DEF Seed, TypeOK, Cycle, Tick, None
    <3>2. \A m \in Mint : changes'[m] \subseteq Int
      BY DEF TypeOK
    <3>3. coldStart' \in Int /\ cursor' \in Int
      BY DEF TypeOK, Tick, None
    <3>4. \A m \in Mint : Owed(m, cursor)' = {}
      BY <3>1, <3>2, <3>3 DEF Owed
    <3>5. QED
      BY <3>4 DEF NoGraduationLost
  <2>2. CASE AdvanceCursor(p)
    <3>1. cycle[p].work = {} /\ cycle[p].unseen = {}
      BY <2>2 DEF AdvanceCursor, Covered, Scanned
    <3>2. PICK h \in Int : h = cycle[p].head
      BY DEF TypeOK, Cycle, Tick, None
    <3>3. \A m \in Mint : \A x \in Owed(m, h) : Tracked(m) \/ h - ScanLag < x
      BY <2>2, <3>1, <3>2 DEF AdvanceCursor, Covered, Scanned
    <3>4. UNCHANGED coldStart /\ reached' = reached \cup {h} /\ cursor' = h
      BY <1>2, <2>2, <3>2 DEF AdvanceCursor
    <3>5. ASSUME NEW m \in Mint, NEW x \in Owed(m, cursor)' PROVE Tracked(m)
      <4>1. x \in changes[m] /\ coldStart <= x /\ x < h /\ ~Missable(x)'
        BY <1>1, <3>4 DEF Owed
      <4>2. ~Missable(x) /\ ~(h - ScanLag < x)
        BY <3>4, <4>1 DEF Missable
      <4>3. x \in Owed(m, h)
        BY <4>1, <4>2 DEF Owed
      <4>4. QED
        BY <3>3, <4>2, <4>3
    <3>6. QED
      BY <1>1, <3>5 DEF NoGraduationLost, Tracked, tableVars
  <2>3. QED
    BY <2>1, <2>2
<1>7. \A q \in Proc : Scanned(q)'
  <2>1. Scanned(p)'
    BY <1>2 DEF Scanned
  <2>2. QED
    BY <1>3, <1>4, <2>1, CarryScan DEF Covered
<1>8. QED
  BY <1>5, <1>6, <1>7 DEF Covered

LEMMA DiscoverCovered ==
  ASSUME TypeOK, TypeOK', Covered, Final, NEW p \in Proc, Discover(p)
  PROVE  Covered'
<1> USE DEF Goto, Assign, Local
<1>0. \A q \in Proc \ {p} : pc'[q] = pc[q] /\ cycle'[q] = cycle[q]
  BY OthersStay DEF Step
<1>1. CASE GetSlot(p)
  <2>1. /\ UNCHANGED <<chainVars, cursor, coldStart, reached>>
        /\ pc'[p] \notin {"scan", "insert"}
        /\ cycle'[p].head = time /\ cycle'[p].since = cycle[p].since
    BY <1>1 DEF GetSlot, storeVars, stateVars, TypeOK, Cycle
  <2>2. cycle'[p].head <= time /\ cycle'[p].since <= time
    BY <2>1 DEF Covered, ClockAhead, TypeOK
  <2>3. Scanned(p)'
    BY <2>1 DEF Scanned
  <2>4. QED
    BY <1>0, <2>1, <2>2, <2>3, CursorStays
<1>2. CASE ReadCursor(p)
  <2>1. UNCHANGED <<chainVars, tableVars, cursor, coldStart, reached>>
    BY <1>2 DEF ReadCursor, storeVars, stateVars
  <2>2. CASE cursor = None
    <3>1. pc'[p] = "seed" /\ UNCHANGED cycle
      BY <1>2, <2>2 DEF ReadCursor, TypeOK
    <3>2. cycle'[p].head <= time /\ cycle'[p].since <= time
      BY <3>1 DEF Covered, ClockAhead
    <3>3. QED
      BY <1>0, <2>1, <3>1, <3>2, CursorStays DEF Scanned
  <2>3. CASE cursor # None
    <3>1. /\ pc'[p] = "scan"
          /\ cycle'[p].head = cycle[p].head
          /\ cycle'[p].since = cursor
          /\ cycle'[p].unseen = Mint
      <4>1. /\ pc' = [pc EXCEPT ![p] = "scan"]
            /\ cycle' = [cycle EXCEPT ![p] =
                           [cycle[p] EXCEPT !.since = cursor, !.unseen = Mint]]
        BY <1>2, <2>3 DEF ReadCursor
      <4>2. pc \in [Proc -> Pc] /\ cycle \in [Proc -> Cycle] /\ cycle[p] \in Cycle
        BY DEF TypeOK
      <4>3. QED
        BY <4>1, <4>2 DEF Cycle
    <3>2. cycle'[p].head <= time /\ cycle'[p].since <= time
      BY <3>1 DEF Covered, ClockAhead
    <3>3. \A m \in Mint : Owed(m, cycle[p].since)' # {} => Tracked(m)'
      BY <2>1, <3>1 DEF Covered, NoGraduationLost, Owed, Missable, Tracked, chainVars,
                        tableVars
    <3>4. Scanned(p)'
      BY <3>1, <3>3 DEF Scanned
    <3>5. QED
      BY <1>0, <2>1, <3>2, <3>4, CursorStays
  <2>4. QED
    BY <2>2, <2>3
<1>3. QED
  BY <1>1, <1>2, CursorMoves, ScanCovered, InsertCovered DEF Discover

LEMMA ChainCovered ==
  ASSUME TypeOK, TypeOK', Covered, Final, Chain \/ UNCHANGED vars
  PROVE  Covered'
<1>1. UNCHANGED <<status, cursor, coldStart, reached, pc, cycle>>
  BY DEF Chain, TimePasses, Graduate, Trade, vars, storeVars, procVars, tableVars, stateVars
<1>2. time' >= time /\ \A m \in Mint : changes'[m] \subseteq changes[m] \cup {time}
  <2>1. CASE TimePasses
    BY <2>1 DEF TimePasses, TypeOK
  <2>2. CASE UNCHANGED vars
    BY <2>2 DEF vars, chainVars, TypeOK
  <2>3. CASE \E m \in Mint : Graduate(m) \/ Trade(m)
    BY <2>3 DEF Graduate, Trade, TypeOK
  <2>4. QED
    BY <2>1, <2>2, <2>3 DEF Chain
<1>3. Onward
  BY <1>1, <1>2 DEF Onward, TypeOK, Tick, None
<1>4. ClockAhead'
  <2>1. time \in Int /\ time' \in Int /\ cursor \in Int /\ ClockAhead
    BY DEF TypeOK, Tick, None, Covered
  <2>2. \A m \in Mint : \A x \in changes'[m] : x \in Int /\ x <= time
    BY <1>2, <2>1 DEF TypeOK, ClockAhead
  <2>3. \A p \in Proc : /\ cycle[p].head \in Int /\ cycle[p].since \in Int
                        /\ cycle[p].head <= time /\ cycle[p].since <= time
    BY <2>1 DEF TypeOK, Cycle, Tick, None, ClockAhead
  <2>4. cursor' <= time'
    BY <1>1, <1>2, <2>1 DEF ClockAhead
  <2>5. \A m \in Mint : \A x \in changes'[m] : x <= time'
    BY <1>2, <2>1, <2>2
  <2>6. \A p \in Proc : cycle'[p].head <= time' /\ cycle'[p].since <= time'
    BY <1>1, <1>2, <2>1, <2>3
  <2>7. QED
    BY <2>4, <2>5, <2>6 DEF ClockAhead
<1>5. NoGraduationLost'
  <2>1. PICK k \in Int : k = cursor
    BY DEF TypeOK, Tick, None
  <2>2. k <= time /\ cursor' = k
    BY <1>1, <2>1 DEF Covered, ClockAhead
  <2>3. \A m \in Mint : Owed(m, cursor)' \subseteq Owed(m, cursor)
    BY <1>3, <2>1, <2>2, OwedShrinks
  <2>4. QED
    BY <1>1, <2>3 DEF Covered, NoGraduationLost, Tracked
<1>6. \A q \in Proc : Scanned(q)'
  BY <1>1, <1>3, CarryScan DEF Covered
<1>7. QED
  BY <1>4, <1>5, <1>6 DEF Covered

LEMMA NextCovered ==
  ASSUME TypeOK, TypeOK', Backed, Covered, [Next]_vars
  PROVE  Covered'
<1>1. Final
  BY NextBacked
<1>2. CASE Chain \/ UNCHANGED vars
  BY <1>1, <1>2, ChainCovered
<1>3. ASSUME NEW p \in Proc, Step(p) \/ Abort(p) \/ ItemFails(p) PROVE Covered'
  BY <1>1, <1>3, ElsewhereCovered, DiscoverCovered DEF Step
<1>4. QED
  BY <1>2, <1>3 DEF Next

(* Whatever was abandoned half way and however the cycles overlap, a pool   *)
(* is lost only if all it did since the cold start fell within the slots a  *)
(* scan could not be sure to see, for a node any number of slots behind.    *)
THEOREM DiscoveryLeavesNoGap == Spec => []NoGraduationLost
<1>1. Init => Covered
  BY DEF Init, Covered, ClockAhead, NoGraduationLost, Owed, Scanned, NoCycle, None
<1>2. TypeOK /\ TypeOK' /\ Backed /\ Covered /\ [Next]_vars => Covered'
  BY NextCovered
<1>3. Covered => NoGraduationLost
  BY DEF Covered
<1>4. QED
  BY <1>1, <1>2, <1>3, TypeCorrect, BackedInvariant, PTL DEF Spec

-----------------------------------------------------------------------------
(* The collector's store implements the labelled dataset.                  *)

(* The instants a cycle can stamp a row with.                               *)
Clock == time <= MaxTime /\ \A p \in Proc : cycle[p].now <= time

LEMMA NowStays ==
  ASSUME TypeOK, NEW p \in Proc,
         Abort(p) \/ ItemFails(p) \/ Discover(p) \/ Snapshot(p) \/ Outcome(p)
  PROVE  \A q \in Proc : cycle'[q].now \in {cycle[q].now, 0}
<1> USE DEF Assign, Local, NextPhase, EndCycle, NoCycle
<1>0. cycle \in [Proc -> Cycle] /\ cycle[p] \in Cycle
  BY DEF TypeOK
<1>1. CASE Abort(p) \/ ItemFails(p)
  BY <1>0, <1>1 DEF Abort, ItemFails
<1>2. CASE Discover(p)
  <2>1. CASE GetSlot(p)
    BY <1>0, <2>1 DEF GetSlot, Cycle
  <2>2. CASE ReadCursor(p)
    <3>1. \/ UNCHANGED cycle
          \/ \E s, u : cycle' = [cycle EXCEPT ![p] =
                                   [cycle[p] EXCEPT !.since = s, !.unseen = u]]
      BY <2>2 DEF ReadCursor
    <3>2. CASE UNCHANGED cycle
      BY <3>2
    <3>3. ASSUME NEW s, NEW u,
                 cycle' = [cycle EXCEPT ![p] = [cycle[p] EXCEPT !.since = s, !.unseen = u]]
          PROVE  \A q \in Proc : cycle'[q].now = cycle[q].now
      BY <1>0, <3>3 DEF Cycle
    <3>4. QED
      BY <3>1, <3>2, <3>3
  <2>3. CASE Seed(p) \/ AdvanceCursor(p)
    <3>1. cycle' = [cycle EXCEPT ![p] = [NoCycle EXCEPT !.now = cycle[p].now]]
      BY <2>3 DEF Seed, AdvanceCursor
    <3>2. [NoCycle EXCEPT !.now = cycle[p].now].now = cycle[p].now
      OBVIOUS
    <3>3. QED
      BY <1>0, <3>1, <3>2
  <2>4. CASE ScanPage(p)
    <3>1. PICK u, w : cycle' = [cycle EXCEPT ![p] = [cycle[p] EXCEPT !.unseen = u, !.work = w]]
      BY <2>4 DEF ScanPage
    <3>2. QED
      BY <1>0, <3>1 DEF Cycle
  <2>5. CASE InsertGraduation(p)
    BY <1>0, <2>5 DEF InsertGraduation, Cycle
  <2>6. QED
    BY <1>2, <2>1, <2>2, <2>3, <2>4, <2>5 DEF Discover
<1>3. CASE Snapshot(p)
  <2>1. CASE ListPending(p)
    BY <1>0, <2>1 DEF ListPending, Cycle
  <2>2. CASE NextSnapshot(p)
    BY <1>0, <2>2 DEF NextSnapshot, Cycle
  <2>3. CASE InsertSnapshot(p) \/ MarkSnapshot(p)
    BY <2>3 DEF InsertSnapshot, MarkSnapshot
  <2>4. QED
    BY <1>3, <2>1, <2>2, <2>3 DEF Snapshot
<1>4. CASE Outcome(p)
  <2>1. CASE ListDone(p)
    BY <1>0, <2>1 DEF ListDone, Cycle
  <2>2. CASE NextOutcome(p)
    BY <1>0, <2>2 DEF NextOutcome, Cycle
  <2>3. CASE ExtractOutcome(p)
    BY <1>0, <2>3 DEF ExtractOutcome, Cycle
  <2>4. CASE InsertOutcome(p) \/ MarkOutcome(p) \/ Finish(p)
    BY <1>0, <2>4 DEF InsertOutcome, MarkOutcome, Finish
  <2>5. QED
    BY <1>4, <2>1, <2>2, <2>3, <2>4 DEF Outcome
<1>5. QED
  BY <1>1, <1>2, <1>3, <1>4

LEMMA NextClock == ASSUME TypeOK, Clock, [Next]_vars PROVE Clock'
<1>1. ASSUME NEW p \in Proc, BeginCycle(p) PROVE Clock'
  BY <1>1 DEF BeginCycle, Assign, NoCycle, chainVars, Clock, TypeOK
<1>2. ASSUME NEW p \in Proc,
             Abort(p) \/ ItemFails(p) \/ Discover(p) \/ Snapshot(p) \/ Outcome(p)
      PROVE  Clock'
  <2>1. UNCHANGED time
    BY <1>2 DEF Abort, ItemFails, Discover, GetSlot, ReadCursor, Seed, ScanPage,
                InsertGraduation, AdvanceCursor, Snapshot, ListPending, NextSnapshot,
                InsertSnapshot, MarkSnapshot, Outcome, ListDone, NextOutcome,
                ExtractOutcome, InsertOutcome, MarkOutcome, Finish, chainVars
  <2>2. QED
    BY <1>2, <2>1, NowStays DEF Clock, TypeOK
<1>3. CASE Chain
  <2>1. UNCHANGED cycle /\ time <= time' /\ time' <= MaxTime
    BY <1>3, CollectorAssumption
       DEF Chain, TimePasses, Graduate, Trade, procVars, Clock, TypeOK, CollectorAssumption
  <2>2. \A p \in Proc : cycle[p].now \in Nat
    BY DEF TypeOK, Cycle
  <2>3. time \in Nat /\ time' \in Nat
    BY <1>3, ChainType DEF TypeOK
  <2>4. QED
    BY <2>1, <2>2, <2>3 DEF Clock
<1>4. CASE UNCHANGED vars
  BY <1>4 DEF vars, chainVars, procVars, Clock
<1>5. QED
  BY <1>1, <1>2, <1>3, <1>4 DEF Next, Step

-----------------------------------------------------------------------------
(* A step of the collector is a step of the dataset or leaves it alone.     *)

LEMMA TablesStay == ASSUME UNCHANGED tableVars PROVE UNCHANGED Dataset!dataVars
BY DEF tableVars, Dataset!dataVars, Tracked, HasSnapshot, HasOutcome

LEMMA InsertGraduationTracks ==
  ASSUME TypeOK, NEW p \in Proc, InsertGraduation(p)
  PROVE  [Dataset!Next]_(Dataset!dataVars)
<1>1. PICK m \in Local(p).work :
        \/ status[m] = "untracked" /\ status' = [status EXCEPT ![m] = "pending_snapshot"]
        \/ UNCHANGED <<status, detectedAt>>
  BY DEF InsertGraduation
<1>2. m \in Mint
  BY LocalType DEF Cycle
<1>3. UNCHANGED <<snapshotAt, outcomeAt, verdict>>
  BY DEF InsertGraduation
<1>4. CASE UNCHANGED <<status, detectedAt>>
  BY <1>3, <1>4, TablesStay DEF tableVars
<1>5. CASE status[m] = "untracked" /\ status' = [status EXCEPT ![m] = "pending_snapshot"]
  <2>1. {n \in Mint : Tracked(n)}' = {n \in Mint : Tracked(n)} \cup {m}
    BY <1>2, <1>5 DEF Tracked, TypeOK
  <2>2. Dataset!Track(m)
    BY <1>2, <1>3, <1>5, <2>1 DEF Dataset!Track, Tracked, HasSnapshot, HasOutcome
  <2>3. QED
    BY <1>2, <2>2 DEF Dataset!Next
<1>6. QED
  BY <1>1, <1>4, <1>5

LEMMA InsertSnapshotObserves ==
  ASSUME TypeOK, Backed, Clock, NEW p \in Proc, InsertSnapshot(p)
  PROVE  [Dataset!Next]_(Dataset!dataVars)
<1>1. PICK m \in Mint, now \in Nat :
        m = cycle[p].item /\ now = cycle[p].now /\ now \in 0 .. MaxTime
  BY CollectorAssumption DEF InsertSnapshot, At, ItemPc, TypeOK, Cycle, Clock, CollectorAssumption
<1>2. UNCHANGED <<status, detectedAt, outcomeAt, verdict>>
  BY DEF InsertSnapshot
<1>3. Tracked(m)
  BY <1>1 DEF Backed, Justified, Observable, InsertSnapshot, At
<1>4. CASE snapshotAt[m] = None
  <2>1. snapshotAt' = [snapshotAt EXCEPT ![m] = now]
    BY <1>1, <1>4 DEF InsertSnapshot, Local
  <2>2. Dataset!Observe(m)
    <3>1. m \in {n \in Mint : Tracked(n)}
      BY <1>1, <1>3
    <3>2. [n \in Mint |-> IF HasSnapshot(n) THEN {snapshotAt[n]} ELSE {}][m] = {}
      BY <1>1, <1>4 DEF HasSnapshot
    <3>3. [n \in Mint |-> IF HasSnapshot(n) THEN {snapshotAt[n]} ELSE {}]' =
            [[n \in Mint |-> IF HasSnapshot(n) THEN {snapshotAt[n]} ELSE {}]
               EXCEPT ![m] = {now}]
      <4>1. \A n \in Mint : snapshotAt'[n] = IF n = m THEN now ELSE snapshotAt[n]
        BY <1>1, <2>1 DEF TypeOK
      <4>2. now # None
        BY <1>1 DEF None
      <4>3. QED
        BY <4>1, <4>2 DEF HasSnapshot
    <3>4. QED
      BY <1>1, <1>2, <3>1, <3>2, <3>3 DEF Dataset!Observe, Tracked, HasOutcome
  <2>3. QED
    BY <1>1, <2>2 DEF Dataset!Next
<1>5. CASE snapshotAt[m] # None
  BY <1>1, <1>2, <1>5, TablesStay DEF InsertSnapshot, Local, tableVars
<1>6. QED
  BY <1>4, <1>5

LEMMA InsertOutcomeJudges ==
  ASSUME TypeOK, Backed, Clock, NEW p \in Proc, InsertOutcome(p)
  PROVE  [Dataset!Next]_(Dataset!dataVars)
<1> DEFINE Labels == [n \in Mint |-> IF HasOutcome(n) THEN {<<outcomeAt[n], verdict[n]>>}
                                                      ELSE {}]
<1>1. PICK m \in Mint, now \in Nat, v \in Verdict :
        /\ m = cycle[p].item /\ now = cycle[p].now /\ now \in 0 .. MaxTime
        /\ v = ClassifyOutcome(cycle[p].seen)
  BY CollectorAssumption
     DEF InsertOutcome, At, ItemPc, TypeOK, Cycle, Clock, ClassifyOutcome, Verdict,
         CollectorAssumption
<1>2. UNCHANGED <<status, detectedAt, snapshotAt>>
  BY DEF InsertOutcome
<1>3. HasSnapshot(m)
  BY <1>1 DEF Backed, Justified, Judgeable, InsertOutcome, At
<1>4. CASE outcomeAt[m] = None
  <2>1. /\ outcomeAt' = [outcomeAt EXCEPT ![m] = now]
        /\ verdict' = [verdict EXCEPT ![m] = v]
    BY <1>1, <1>4 DEF InsertOutcome, Local
  <2>2. Dataset!Judge(m)
    <3>1. [n \in Mint |-> IF HasSnapshot(n) THEN {snapshotAt[n]} ELSE {}][m] # {}
      BY <1>1, <1>3
    <3>2. Labels[m] = {}
      BY <1>1, <1>4 DEF HasOutcome
    <3>3. Labels' = [Labels EXCEPT ![m] = {<<now, v>>}]
      <4>0. outcomeAt \in [Mint -> Tick] /\ verdict \in [Mint -> Verdict]
        BY DEF TypeOK
      <4>1. \A n \in Mint : outcomeAt'[n] = IF n = m THEN now ELSE outcomeAt[n]
        BY <4>0, <2>1
      <4>2. \A n \in Mint : verdict'[n] = IF n = m THEN v ELSE verdict[n]
        BY <4>0, <2>1
      <4>3. now # None
        BY <1>1 DEF None
      <4>4. \A n \in Mint : Labels'[n] = IF n = m THEN {<<now, v>>} ELSE Labels[n]
        BY <4>1, <4>2, <4>3 DEF HasOutcome
      <4>5. QED
        BY <4>4
    <3>4. QED
      BY <1>1, <1>2, <3>1, <3>2, <3>3 DEF Dataset!Judge, Tracked, HasSnapshot
  <2>3. QED
    BY <1>1, <2>2 DEF Dataset!Next
<1>5. CASE outcomeAt[m] # None
  BY <1>1, <1>2, <1>5, TablesStay DEF InsertOutcome, Local, tableVars
<1>6. QED
  BY <1>4, <1>5

(* A status only moves between those of tracked graduations.                *)
LEMMA MarksStay ==
  ASSUME TypeOK, Backed, NEW p \in Proc, MarkSnapshot(p) \/ MarkOutcome(p)
  PROVE  UNCHANGED Dataset!dataVars
<1> DEFINE m == cycle[p].item
<1>1. m \in Mint /\ HasSnapshot(m)
  BY DEF MarkSnapshot, MarkOutcome, At, ItemPc, TypeOK, Cycle, Backed, Justified, Judgeable
<1>2. Tracked(m)
  BY <1>1 DEF Backed, RowsBacked
<1>3. /\ \E s \in {"snapshot_done", "outcome_done"} : status' = [status EXCEPT ![m] = s]
      /\ UNCHANGED <<snapshotAt, outcomeAt, verdict>>
  BY DEF MarkSnapshot, MarkOutcome, SetStatus, Local
<1>4. \A n \in Mint : Tracked(n)' <=> Tracked(n)
  BY <1>1, <1>2, <1>3 DEF Tracked, TypeOK
<1>5. QED
  BY <1>3, <1>4 DEF Dataset!dataVars, HasSnapshot, HasOutcome

LEMMA NextImplements ==
  ASSUME TypeOK, Backed, Clock, [Next]_vars
  PROVE  [Dataset!Next]_(Dataset!dataVars)
<1>1. CASE Chain \/ UNCHANGED vars
  BY <1>1, TablesStay DEF Chain, TimePasses, Graduate, Trade, vars, storeVars
<1>2. ASSUME NEW p \in Proc, Step(p) \/ Abort(p) \/ ItemFails(p)
      PROVE  [Dataset!Next]_(Dataset!dataVars)
  <2>1. CASE BeginCycle(p) \/ Abort(p) \/ ItemFails(p)
    BY <2>1, TablesStay DEF BeginCycle, Abort, ItemFails, storeVars
  <2>2. CASE Discover(p) /\ ~InsertGraduation(p)
    BY <2>2, TablesStay DEF Discover, GetSlot, ReadCursor, Seed, ScanPage, AdvanceCursor,
                            storeVars
  <2>3. CASE Snapshot(p) /\ ~InsertSnapshot(p) /\ ~MarkSnapshot(p)
    BY <2>3, TablesStay DEF Snapshot, ListPending, NextSnapshot, storeVars
  <2>4. CASE Outcome(p) /\ ~InsertOutcome(p) /\ ~MarkOutcome(p)
    BY <2>4, TablesStay DEF Outcome, ListDone, NextOutcome, ExtractOutcome, Finish, storeVars
  <2>5. QED
    BY <1>2, <2>1, <2>2, <2>3, <2>4, InsertGraduationTracks, InsertSnapshotObserves,
       InsertOutcomeJudges, MarksStay DEF Step
<1>3. QED
  BY <1>1, <1>2 DEF Next

(* The store is a labelled dataset, for any number of tokens and processes: *)
(* a token is tracked once, gets one feature row, and then one label.       *)
THEOREM StoreIsLabelledDataset == Spec => IsLabelledDataset
<1>1. Init => Dataset!Init /\ Clock
  BY CollectorAssumption
     DEF Init, Dataset!Init, Tracked, HasSnapshot, HasOutcome, Clock, NoCycle,
         CollectorAssumption
<1>2. TypeOK /\ Clock /\ [Next]_vars => Clock'
  BY NextClock
<1>3. TypeOK /\ Backed /\ Clock /\ [Next]_vars => [Dataset!Next]_(Dataset!dataVars)
  BY NextImplements
<1>4. QED
  BY <1>1, <1>2, <1>3, TypeCorrect, BackedInvariant, PTL
     DEF Spec, IsLabelledDataset, Dataset!Spec
=============================================================================
