-------------------------- MODULE PredictionProofs --------------------------
(***************************************************************************)
(* Proofs about the audit tick: what its files hold, that no shadow watch  *)
(* is lost, and that the queue implements AuditQueue when one tick runs at *)
(* a time.                                                                 *)
(***************************************************************************)
EXTENDS PredictionProps, SetLemmas, TLAPS

LEMMA StatsStay ==
  ASSUME NEW s \in Stats, NEW p \in Nat, NEW h \in Nat, NEW b \in BOOLEAN
  PROVE  [s EXCEPT !.picks = p, !.hits = h, !.cold = b] \in Stats
BY DEF Stats

(* g is f with the pick of e counted once more.                             *)
CountedOnce(f, g, e, won) ==
  /\ g.total = f.total + 1
  /\ g.counted = [f.counted EXCEPT ![e.id] = @ + 1]
  /\ g.stats[Owner[e.id]].picks = f.stats[Owner[e.id]].picks + 1
  /\ g.stats[Owner[e.id]].hits = f.stats[Owner[e.id]].hits + (IF won THEN 1 ELSE 0)
  /\ \A s \in Specialist \ {Owner[e.id]} : g.stats[s] = f.stats[s]

(* A pick is counted once more, and the frontmatter stays one.              *)
LEMMA RecountedType ==
  ASSUME NEW f \in Lessons, NEW e, e.id \in Pick, NEW won \in BOOLEAN
  PROVE  /\ Recounted(f, e, won) \in Lessons
         /\ Recounted(f, e, won).counted = [f.counted EXCEPT ![e.id] = @ + 1]
         /\ CountedOnce(f, Recounted(f, e, won), e, won)
<1> DEFINE s == f.stats[Owner[e.id]]
           t == [s EXCEPT !.picks = s.picks + 1,
                          !.hits = IF won THEN s.hits + 1 ELSE s.hits,
                          !.cold = s.picks + 1 < ColdPicks]
           all == [f.stats EXCEPT ![Owner[e.id]] = t]
           c == [f.counted EXCEPT ![e.id] = @ + 1]
<1>1. Owner[e.id] \in Specialist
  BY PredictionsAssumption
<1>2. s \in Stats /\ f.total \in Nat /\ f.stats \in [Specialist -> Stats]
      /\ f.counted \in [Pick -> Nat]
  BY <1>1 DEF Lessons
<1>3. t \in Stats
  <2>1. s.picks + 1 \in Nat /\ (IF won THEN s.hits + 1 ELSE s.hits) \in Nat
    BY <1>2 DEF Stats
  <2>2. (s.picks + 1 < ColdPicks) \in BOOLEAN
    OBVIOUS
  <2> HIDE DEF s
  <2>3. QED
    BY <1>2, <2>1, <2>2, StatsStay
<1>4. c \in [Pick -> Nat] /\ f.total + 1 \in Nat
  BY <1>2
<1>5. all \in [Specialist -> Stats]
  <2> HIDE DEF s, t
  <2>1. QED
    BY <1>2, <1>3
<1>6. Recounted(f, e, won) = [total |-> f.total + 1, stats |-> all, counted |-> c]
  <2>1. f = [total |-> f.total, stats |-> f.stats, counted |-> f.counted]
    BY DEF Lessons
  <2>2. Recounted(f, e, won) = [f EXCEPT !.total = f.total + 1, !.stats = all, !.counted = c]
    BY <2>1 DEF Recounted
  <2> HIDE DEF s, t, all, c
  <2>3. QED
    BY <2>1, <2>2
<1>7. t.picks = s.picks + 1 /\ t.hits = s.hits + (IF won THEN 1 ELSE 0)
  <2> HIDE DEF s
  <2> QED BY <1>2 DEF Stats
<1>8. CountedOnce(f, Recounted(f, e, won), e, won)
  <2> DEFINE o == Owner[e.id]
  <2> HIDE DEF s, t, c
  <2>1. all[o] = t /\ \A x \in Specialist \ {o} : all[x] = f.stats[x]
    BY <1>1, <1>2
  <2>2. s = f.stats[o]
    BY DEF s
  <2>3. c = [f.counted EXCEPT ![e.id] = @ + 1]
    BY DEF c
  <2> HIDE DEF all
  <2> QED BY <1>6, <1>7, <2>1, <2>2, <2>3 DEF CountedOnce
<1>9. QED
  <2> HIDE DEF s, t, all
  <2>1. Recounted(f, e, won) \in Lessons
    BY <1>4, <1>5, <1>6 DEF Lessons
  <2>2. QED
    BY <2>1, <1>6, <1>8

LEMMA ReadingTypes ==
  /\ Unwritten \in Lessons
  /\ NoOutcome \notin Outcome
<1>1. NoStats \in Stats
  BY DEF NoStats, Stats
<1>2. Unwritten \in Lessons
  BY <1>1, PredictionsAssumption DEF Unwritten, Lessons
<1>3. NoOutcome \notin Outcome
  BY DEF NoOutcome, Outcome
<1>4. QED
  BY <1>2, <1>3

-----------------------------------------------------------------------------
(* What is queued and what is kept of it are picks, what is watched is a    *)
(* watch, and a tick is through with the picks before it takes the watches. *)

Listed(t) == IF pc[t] \in {"stats", "picks"} THEN Pick ELSE Watch

IdsApart ==
  /\ \A e \in pending : e.id \in Pick
  /\ \A e \in shadows : e.id \in Watch
  /\ \A t \in Tick : \A e \in kept[t] : e.id \in Pick
  /\ \A t \in Tick : \A e \in due[t] : e.id \in Listed(t)

FilesTyped == TypeOK /\ IdsApart

LEMMA FilesInit == Init => FilesTyped
  BY ReadingTypes, PredictionsAssumption DEF Init, FilesTyped, TypeOK, IdsApart, Id

LEMMA EnqueueTyped ==
  ASSUME FilesTyped, NEW p \in Pick, NEW r \in Reading, Enqueue(p, r)
  PROVE  FilesTyped'
<1>1. [id |-> p, entry |-> r, due |-> now + Horizon] \in Entry
  BY PredictionsAssumption DEF Entry, Id, FilesTyped, TypeOK
<1>2. TypeOK'
  BY <1>1 DEF FilesTyped, TypeOK, Enqueue, tickVars
<1>3. IdsApart'
  BY DEF FilesTyped, IdsApart, Enqueue, tickVars, Listed
<1>4. QED
  BY <1>2, <1>3 DEF FilesTyped

LEMMA SpecialistTyped ==
  ASSUME FilesTyped, NEW s \in Specialist, RunSpecialist(s)
  PROVE  FilesTyped'
<1>1. PICK vetoed \in SUBSET {w \in Watch : Owner[w] = s /\ Fresh(w)}, r \in Reading :
        /\ shadows' = Watched(vetoed, r)
        /\ \/ (\E o \in Output : decisions' = Newest(s, o)) /\ UNCHANGED faults
           \/ faults < MaxFaults /\ faults' = faults + 1 /\ UNCHANGED decisions
        /\ UNCHANGED <<now, torn, pending, outcomes, lessons, tickVars>>
  BY DEF RunSpecialist
<1>2. \A w \in vetoed : [id |-> w, entry |-> r, due |-> now + Horizon] \in Entry
  BY PredictionsAssumption DEF Entry, Id, FilesTyped, TypeOK
<1>3. shadows' \subseteq Entry /\ \A e \in shadows' : e.id \in Watch
  BY <1>1, <1>2 DEF Watched, FilesTyped, TypeOK, IdsApart
<1>4. decisions' \in [Specialist -> [Mint -> Conviction \cup {Absent}]]
  BY <1>1, PredictionsAssumption DEF Newest, FilesTyped, TypeOK
<1>5. faults' \in 0 .. MaxFaults
  BY <1>1, PredictionsAssumption DEF FilesTyped, TypeOK
<1>6. TypeOK'
  BY <1>1, <1>3, <1>4, <1>5 DEF FilesTyped, TypeOK, tickVars
<1>7. IdsApart'
  BY <1>1, <1>3 DEF FilesTyped, IdsApart, tickVars, Listed
<1>8. QED
  BY <1>6, <1>7 DEF FilesTyped

LEMMA StartTyped ==
  ASSUME FilesTyped, NEW t \in Tick, StartTick(t) \/ ReadStats(t) \/ ListWatches(t)
  PROVE  FilesTyped'
<1> USE DEF Goto
<1>1. CASE StartTick(t)
  <2>1. TypeOK'
    BY <1>1 DEF StartTick, Partition, FilesTyped, TypeOK, fileVars
  <2>2. IdsApart'
    BY <1>1 DEF StartTick, Partition, FilesTyped, TypeOK, IdsApart, Listed, fileVars
  <2>3. QED
    BY <2>1, <2>2 DEF FilesTyped
<1>2. CASE ReadStats(t)
  <2>1. TypeOK'
    BY <1>2 DEF ReadStats, FilesTyped, TypeOK, fileVars
  <2>2. IdsApart'
    BY <1>2 DEF ReadStats, FilesTyped, TypeOK, IdsApart, Listed, fileVars
  <2>3. QED
    BY <2>1, <2>2 DEF FilesTyped
<1>3. CASE ListWatches(t)
  <2>1. TypeOK'
    BY <1>3 DEF ListWatches, FilesTyped, TypeOK, fileVars
  <2>2. IdsApart'
    BY <1>3 DEF ListWatches, FilesTyped, TypeOK, IdsApart, Listed, fileVars
  <2>3. QED
    BY <2>1, <2>2 DEF FilesTyped
<1>4. QED
  BY <1>1, <1>2, <1>3

LEMMA JudgePickTyped ==
  ASSUME FilesTyped, NEW t \in Tick, JudgePick(t)
  PROVE  FilesTyped'
<1>1. PICK e \in due[t] : \E ret \in Returns(e) :
        /\ due' = [due EXCEPT ![t] = @ \ {e}]
        /\ outcomes' = [outcomes EXCEPT ![e.id] = [kind |-> Kind[e.id], won |-> Won(ret)]]
        /\ fm' = [fm EXCEPT ![t] = Recounted(@, e, Won(ret))]
  BY DEF JudgePick
<1>2. PICK ret \in Returns(e) :
        /\ due' = [due EXCEPT ![t] = @ \ {e}]
        /\ outcomes' = [outcomes EXCEPT ![e.id] = [kind |-> Kind[e.id], won |-> Won(ret)]]
        /\ fm' = [fm EXCEPT ![t] = Recounted(@, e, Won(ret))]
  BY <1>1
<1>3. e.id \in Pick
  BY DEF JudgePick, FilesTyped, IdsApart, Listed
<1>4. Won(ret) \in BOOLEAN
  BY DEF Won
<1>5. [kind |-> Kind[e.id], won |-> Won(ret)] \in Outcome
  <2>1. Kind[e.id] \in {"standard", "curve_stage"}
    BY <1>3, PredictionsAssumption
  <2>2. QED
    BY <1>4, <2>1, Zenon DEF Outcome
<1>6. Recounted(fm[t], e, Won(ret)) \in Lessons
  BY <1>3, <1>4, RecountedType DEF FilesTyped, TypeOK
<1>7. outcomes' \in [Id -> Outcome \cup {NoOutcome}] /\ fm' \in [Tick -> Lessons]
  BY <1>2, <1>5, <1>6 DEF FilesTyped, TypeOK
<1>8. TypeOK'
  BY <1>2, <1>7 DEF JudgePick, FilesTyped, TypeOK
<1>9. IdsApart'
  BY <1>2 DEF JudgePick, FilesTyped, TypeOK, IdsApart, Listed
<1>10. QED
  BY <1>8, <1>9 DEF FilesTyped

LEMMA JudgeWatchTyped ==
  ASSUME FilesTyped, NEW t \in Tick, JudgeWatch(t)
  PROVE  FilesTyped'
<1>1. PICK e \in due[t] :
        /\ due' = [due EXCEPT ![t] = @ \ {e}]
        /\ \/ /\ \E ret \in PoolReturns(e.entry) : WatchOutcome(e, ret)
              /\ judged' = [judged EXCEPT ![t] = e.id]
              /\ processed' = [processed EXCEPT ![t] = TRUE]
              /\ Goto(t, "unlink")
              /\ UNCHANGED faults
           \/ /\ faults < MaxFaults
              /\ faults' = faults + 1
              /\ UNCHANGED <<outcomes, pc, judged, processed>>
  BY DEF JudgeWatch
<1>2. e.id \in Watch
  BY DEF JudgeWatch, FilesTyped, IdsApart, Listed
<1>3. ASSUME NEW ret PROVE [kind |-> "shadow_watch", won |-> Won(ret)] \in Outcome
  <2>1. Won(ret) \in BOOLEAN
    BY DEF Won
  <2>2. QED
    BY <2>1, Zenon DEF Outcome
<1>4. outcomes' \in [Id -> Outcome \cup {NoOutcome}]
  <2>1. CASE UNCHANGED outcomes
    BY <2>1 DEF FilesTyped, TypeOK
  <2>2. ASSUME NEW ret, WatchOutcome(e, ret)
        PROVE  outcomes' \in [Id -> Outcome \cup {NoOutcome}]
    <3>1. outcomes' = [outcomes EXCEPT ![e.id] = [kind |-> "shadow_watch", won |-> Won(ret)]]
      BY <2>2 DEF WatchOutcome
    <3> DEFINE o == [kind |-> "shadow_watch", won |-> Won(ret)]
    <3>2. o \in Outcome
      BY <1>3
    <3> HIDE DEF o
    <3>3. QED
      BY <3>1, <3>2 DEF FilesTyped, TypeOK, o
  <2>3. QED
    BY <1>1, <2>1, <2>2
<1>5. faults' \in 0 .. MaxFaults
  BY <1>1, PredictionsAssumption DEF FilesTyped, TypeOK
<1>6. TypeOK'
  BY <1>1, <1>2, <1>4, <1>5 DEF JudgeWatch, Goto, FilesTyped, TypeOK
<1>7. IdsApart'
  BY <1>1 DEF JudgeWatch, Goto, FilesTyped, TypeOK, IdsApart, Listed
<1>8. QED
  BY <1>6, <1>7 DEF FilesTyped

LEMMA StepTyped ==
  ASSUME FilesTyped, NEW t \in Tick,
         Unlink(t) \/ WatchesDone(t) \/ WriteLessons(t) \/ Rewrite(t) \/ Abort(t)
  PROVE  FilesTyped'
<1> USE DEF Goto, EndTick, fileVars
<1>1. CASE Unlink(t)
  <2>1. TypeOK'
    BY <1>1 DEF Unlink, FilesTyped, TypeOK
  <2>2. IdsApart'
    BY <1>1 DEF Unlink, FilesTyped, TypeOK, IdsApart, Listed
  <2>3. QED
    BY <2>1, <2>2 DEF FilesTyped
<1>2. CASE WatchesDone(t)
  <2>1. TypeOK'
    BY <1>2 DEF WatchesDone, FilesTyped, TypeOK
  <2>2. IdsApart'
    BY <1>2 DEF WatchesDone, FilesTyped, TypeOK, IdsApart, Listed
  <2>3. QED
    BY <2>1, <2>2 DEF FilesTyped
<1>3. CASE WriteLessons(t)
  <2>1. TypeOK'
    BY <1>3 DEF WriteLessons, FilesTyped, TypeOK
  <2>2. IdsApart'
    BY <1>3 DEF WriteLessons, FilesTyped, TypeOK, IdsApart, Listed
  <2>3. QED
    BY <2>1, <2>2 DEF FilesTyped
<1>4. CASE Rewrite(t)
  <2>1. TypeOK'
    BY <1>4, ReadingTypes, PredictionsAssumption DEF Rewrite, FilesTyped, TypeOK
  <2>2. IdsApart'
    BY <1>4 DEF Rewrite, FilesTyped, TypeOK, IdsApart, Listed
  <2>3. QED
    BY <2>1, <2>2 DEF FilesTyped
<1>5. CASE Abort(t)
  <2>1. TypeOK'
    BY <1>5, ReadingTypes, PredictionsAssumption DEF Abort, FilesTyped, TypeOK
  <2>2. IdsApart'
    BY <1>5 DEF Abort, FilesTyped, TypeOK, IdsApart, Listed
  <2>3. QED
    BY <2>1, <2>2 DEF FilesTyped
<1>6. QED
  BY <1>1, <1>2, <1>3, <1>4, <1>5

LEMMA FilesNext == FilesTyped /\ [Next]_vars => FilesTyped'
<1> SUFFICES ASSUME FilesTyped, [Next]_vars PROVE FilesTyped'
  OBVIOUS
<1>1. CASE TimePasses
  BY <1>1, PredictionsAssumption
  DEF TimePasses, FilesTyped, TypeOK, IdsApart, Listed, fileVars, tickVars
<1>2. CASE \E p \in Pick, r \in Reading : Enqueue(p, r)
  BY <1>2, EnqueueTyped
<1>3. CASE \E s \in Specialist : RunSpecialist(s)
  BY <1>3, SpecialistTyped
<1>4. CASE \E t \in Tick : StartTick(t) \/ Audit(t) \/ Abort(t)
  BY <1>4, StartTyped, JudgePickTyped, JudgeWatchTyped, StepTyped DEF Audit
<1>5. CASE UNCHANGED vars
  BY <1>5 DEF vars, FilesTyped, TypeOK, IdsApart, Listed, fileVars, tickVars
<1>6. QED
  BY <1>1, <1>2, <1>3, <1>4, <1>5 DEF Next

(* Whatever the picks, watches and ticks, and however many ticks run at     *)
(* once: every file and every copy of one keeps its type, only picks are    *)
(* queued, and only watches are watched.                                    *)
THEOREM PredictionTypes == Spec => []FilesTyped
<1>1. QED
  BY FilesInit, FilesNext, PTL DEF Spec

-----------------------------------------------------------------------------
(* The outcome of a watch is on disk before its file is unlinked.           *)

Written == \A t \in Tick : pc[t] = "unlink" => judged[t] \in Watch /\ outcomes[judged[t]] # NoOutcome

(* An outcome file is rewritten, never removed.                             *)
OutcomesStay == \A i \in Id : outcomes[i] # NoOutcome => outcomes'[i] # NoOutcome

LEMMA OutcomesNext ==
  ASSUME FilesTyped, [Next]_vars
  PROVE  OutcomesStay
<1> USE DEF OutcomesStay
<1>1. \A k, w : [kind |-> k, won |-> w] # NoOutcome
  BY DEF NoOutcome
<1>2. ASSUME NEW t \in Tick, JudgePick(t) PROVE OutcomesStay
  <2>1. PICK e \in due[t] : \E o : outcomes' = [outcomes EXCEPT ![e.id] = o] /\ o # NoOutcome
    BY <1>1, <1>2 DEF JudgePick
  <2>2. PICK o : outcomes' = [outcomes EXCEPT ![e.id] = o] /\ o # NoOutcome
    BY <2>1
  <2>3. QED
    BY <2>2 DEF FilesTyped, TypeOK
<1>3. ASSUME NEW t \in Tick, JudgeWatch(t) PROVE OutcomesStay
  <2>1. CASE UNCHANGED outcomes
    BY <2>1
  <2>2. CASE \E e \in due[t] : \E ret \in PoolReturns(e.entry) : WatchOutcome(e, ret)
    <3>1. PICK e \in due[t] : \E ret \in PoolReturns(e.entry) : WatchOutcome(e, ret)
      BY <2>2
    <3>2. PICK ret \in PoolReturns(e.entry) : WatchOutcome(e, ret)
      BY <3>1
    <3>3. QED
      BY <1>1, <3>2 DEF WatchOutcome, FilesTyped, TypeOK
  <2>3. QED
    BY <1>3, <2>1, <2>2 DEF JudgeWatch
<1>4. CASE UNCHANGED outcomes
  BY <1>4
<1>5. QED
  BY <1>2, <1>3, <1>4
  DEF Next, vars, fileVars, TimePasses, Enqueue, RunSpecialist, StartTick, Audit, Abort, ReadStats,
      ListWatches, Unlink, WatchesDone, WriteLessons, Rewrite

LEMMA WrittenNext ==
  ASSUME FilesTyped, Written, [Next]_vars
  PROVE  Written'
<1> USE DEF Written
<1>1. OutcomesStay
  BY OutcomesNext
<1>2. Watch \subseteq Id
  BY DEF Id
<1>3. CASE UNCHANGED <<pc, judged>>
  BY <1>1, <1>2, <1>3 DEF OutcomesStay
<1>4. ASSUME NEW t \in Tick, pc' = [pc EXCEPT ![t] = pc'[t]], pc'[t] # "unlink",
             judged' = [judged EXCEPT ![t] = judged'[t]]
      PROVE  Written'
  BY <1>1, <1>2, <1>4 DEF OutcomesStay, FilesTyped, TypeOK
<1>5. ASSUME NEW t \in Tick, JudgeWatch(t), ~UNCHANGED pc
      PROVE  Written'
  <2>0. PICK e \in due[t] : \E ret \in PoolReturns(e.entry) :
          /\ WatchOutcome(e, ret)
          /\ judged' = [judged EXCEPT ![t] = e.id]
          /\ Goto(t, "unlink")
    BY <1>5 DEF JudgeWatch
  <2>1. PICK ret \in PoolReturns(e.entry) :
          /\ WatchOutcome(e, ret)
          /\ judged' = [judged EXCEPT ![t] = e.id]
          /\ Goto(t, "unlink")
    BY <2>0
  <2>2. e.id \in Watch
    BY <1>5 DEF JudgeWatch, FilesTyped, IdsApart, Listed
  <2>3. [kind |-> "shadow_watch", won |-> Won(ret)] # NoOutcome
    BY DEF NoOutcome
  <2>4. outcomes'[e.id] # NoOutcome
    BY <1>2, <2>1, <2>2, <2>3 DEF WatchOutcome, FilesTyped, TypeOK
  <2>5. QED
    BY <1>1, <1>2, <2>1, <2>2, <2>4 DEF Goto, OutcomesStay, FilesTyped, TypeOK
<1>6. ASSUME NEW t \in Tick, StartTick(t) \/ Audit(t) \/ Abort(t)
      PROVE  Written'
  <2>1. CASE JudgeWatch(t)
    <3>1. CASE UNCHANGED pc
      BY <1>3, <2>1, <3>1 DEF JudgeWatch, Goto, FilesTyped, TypeOK
    <3>2. QED
      BY <1>5, <2>1, <3>1
  <2>2. CASE JudgePick(t)
    BY <1>3, <2>2 DEF JudgePick
  <2>3. CASE Unlink(t)
    BY <1>4, <2>3 DEF Unlink, Goto, FilesTyped, TypeOK
  <2>4. CASE StartTick(t) \/ ReadStats(t) \/ ListWatches(t) \/ WatchesDone(t) \/ WriteLessons(t)
    BY <1>4, <2>4
    DEF StartTick, ReadStats, ListWatches, WatchesDone, WriteLessons, Goto, FilesTyped, TypeOK
  <2>5. CASE Rewrite(t) \/ Abort(t)
    BY <1>4, <2>5 DEF Rewrite, Abort, EndTick, FilesTyped, TypeOK
  <2>6. QED
    BY <1>6, <2>1, <2>2, <2>3, <2>4, <2>5 DEF Audit
<1>7. QED
  BY <1>3, <1>6 DEF Next, vars, tickVars, TimePasses, Enqueue, RunSpecialist

(* Whatever runs at once and whatever is killed: a shadow watch leaves its  *)
(* directory only when its outcome is on disk.                              *)
THEOREM WatchesAreKept == Spec => WatchesKept
<1>1. Init => Written
  BY DEF Init, Written
<1>2. ASSUME FilesTyped, Written, [Next]_vars
      PROVE  [\A e \in shadows : e \in shadows' \/ outcomes[e.id] # NoOutcome]_vars
  <2>1. CASE \E t \in Tick : Unlink(t)
    BY <1>2, <2>1 DEF Unlink, Written
  <2>2. CASE \E s \in Specialist : RunSpecialist(s)
    BY <2>2 DEF RunSpecialist, Watched
  <2>3. CASE UNCHANGED shadows
    BY <2>3
  <2>4. QED
    BY <1>2, <2>1, <2>2, <2>3
    DEF Next, vars, fileVars, TimePasses, Enqueue, StartTick, Audit, Abort, ReadStats, JudgePick,
        ListWatches, JudgeWatch, WatchesDone, WriteLessons, Rewrite
<1>3. QED
  BY <1>1, <1>2, WrittenNext, FilesNext, FilesInit, PTL DEF Spec, WatchesKept

-----------------------------------------------------------------------------
(* The queue.  A tick works on a copy of the statistics that is ahead of    *)
(* lessons.md by exactly the picks it has judged, and on a queue that goes  *)
(* on being the one it has read.                                            *)

AloneAndUndisturbed == (\A t, u \in Tick : t = u) /\ ~EnqueueBusy

Ahead(t) ==
  /\ \A e \in pending :
       fm[t].counted[e.id] = lessons.counted[e.id] + (IF e \in Left(t) THEN 0 ELSE 1)
  /\ \A p \in Pick \ Queued : fm[t].counted[p] = lessons.counted[p]

Working(t) ==
  /\ pc[t] # "idle" => Left(t) \subseteq pending
  /\ pc[t] \in {"stats", "picks"} => due[t] \cap kept[t] = {}
  /\ pc[t] \in {"stats", "picks", "watches"} /\ ~processed[t] => Left(t) = pending
  /\ pc[t] = "stats" => ~processed[t]
  /\ pc[t] = "unlink" => processed[t]
  /\ pc[t] \in {"picks", "watches", "unlink", "lessons"} => Ahead(t)
  /\ pc[t] = "queue" => \A e \in pending \ kept[t] : lessons.counted[e.id] > 0

QueuedOnce == \A e, f \in pending : e.id = f.id => e = f

QueueInv == QueuedOnce /\ \A t \in Tick : Working(t)

LEMMA EnqueueWorks ==
  ASSUME AloneAndUndisturbed, FilesTyped, QueueInv,
         NEW p \in Pick, NEW r \in Reading, Enqueue(p, r)
  PROVE  QueueInv'
<1>1. \A t \in Tick : pc[t] = "idle" /\ pc'[t] = "idle"
  BY DEF Enqueue, Fresh, AloneAndUndisturbed, tickVars
<1>2. \A t \in Tick : Working(t)'
  BY <1>1 DEF Working
<1>3. QueuedOnce'
  BY DEF Enqueue, Fresh, Queued, QueueInv, QueuedOnce
<1>4. QED
  BY <1>2, <1>3 DEF QueueInv

LEMMA JudgePickWorks ==
  ASSUME FilesTyped, NEW t \in Tick, Working(t), QueuedOnce, JudgePick(t)
  PROVE  Working(t)'
<1>0. PICK e \in due[t] : \E ret \in Returns(e) :
        /\ due' = [due EXCEPT ![t] = @ \ {e}]
        /\ fm' = [fm EXCEPT ![t] = Recounted(@, e, Won(ret))]
  BY DEF JudgePick
<1>1. PICK ret \in Returns(e) :
        /\ due' = [due EXCEPT ![t] = @ \ {e}]
        /\ fm' = [fm EXCEPT ![t] = Recounted(@, e, Won(ret))]
  BY <1>0
<1>2. e.id \in Pick /\ fm[t] \in Lessons /\ lessons \in Lessons
  BY DEF JudgePick, FilesTyped, IdsApart, Listed, TypeOK
<1>3. Won(ret) \in BOOLEAN
  BY DEF Won
<1>4. fm'[t].counted = [fm[t].counted EXCEPT ![e.id] = @ + 1]
  BY <1>1, <1>2, <1>3, RecountedType DEF FilesTyped, TypeOK
<1>5. e \in pending /\ e \notin kept[t]
  BY DEF JudgePick, Working, Left
<1>6. Left(t)' = Left(t) \ {e}
  BY <1>1, <1>5 DEF JudgePick, Left, FilesTyped, TypeOK
<1>7. UNCHANGED <<pending, lessons, kept, pc>> /\ pc[t] = "picks" /\ processed'[t]
  BY DEF JudgePick, FilesTyped, TypeOK
<1>8. e \in Left(t)
  BY <1>7 DEF Left
<1>9. fm[t].counted \in [Pick -> Nat] /\ lessons.counted \in [Pick -> Nat]
  BY <1>2 DEF Lessons
<1>10. Ahead(t)'
  <2>1. Ahead(t)
    BY <1>7 DEF Working
  <2>2. ASSUME NEW f \in pending
        PROVE  fm'[t].counted[f.id] = lessons.counted[f.id] + (IF f \in Left(t) \ {e} THEN 0 ELSE 1)
    <3>1. f.id \in Pick
      BY DEF FilesTyped, IdsApart
    <3>2. CASE f = e
      BY <1>4, <1>8, <1>9, <2>1, <3>1, <3>2 DEF Ahead
    <3>3. CASE f # e
      <4>1. f.id # e.id
        BY <1>5, <3>3 DEF QueuedOnce
      <4>2. QED
        BY <1>4, <1>9, <2>1, <3>1, <3>3, <4>1 DEF Ahead
    <3>4. QED
      BY <3>2, <3>3
  <2>3. ASSUME NEW p \in Pick \ Queued
        PROVE  fm'[t].counted[p] = lessons.counted[p]
    <3>1. p # e.id
      BY <1>5 DEF Queued
    <3>2. QED
      BY <1>4, <1>9, <2>1, <3>1 DEF Ahead
  <2>4. QED
    BY <1>6, <1>7, <2>2, <2>3 DEF Ahead, Queued
<1>11. QED
  BY <1>1, <1>6, <1>7, <1>10 DEF Working, FilesTyped, TypeOK

LEMMA TickWorks ==
  ASSUME FilesTyped, NEW t \in Tick, Working(t), QueuedOnce, StartTick(t) \/ Audit(t) \/ Abort(t)
  PROVE  Working(t)' /\ QueuedOnce'
<1> USE DEF Goto
<1>1. CASE StartTick(t)
  <2>1. /\ pc'[t] = "stats" /\ ~processed'[t] /\ UNCHANGED pending
        /\ due'[t] = {e \in pending : e.due <= now} /\ kept'[t] = {e \in pending : e.due > now}
    BY <1>1 DEF StartTick, Partition, FilesTyped, TypeOK, fileVars
  <2>2. \A e \in pending : e.due \in Nat /\ now \in Nat
    BY PredictionsAssumption DEF FilesTyped, TypeOK, Entry
  <2>3. due'[t] \cap kept'[t] = {} /\ due'[t] \cup kept'[t] = pending
    BY <2>1, <2>2
  <2>4. Left(t)' = pending
    BY <2>1, <2>3 DEF Left
  <2>5. QED
    BY <2>1, <2>3, <2>4 DEF Working, QueuedOnce
<1>2. CASE ReadStats(t)
  <2>1. Left(t)' = pending /\ Left(t) = pending
    BY <1>2 DEF ReadStats, Working, Left, FilesTyped, TypeOK, fileVars
  <2>2. fm'[t] = lessons /\ UNCHANGED <<pending, lessons>>
    BY <1>2 DEF ReadStats, FilesTyped, TypeOK, fileVars
  <2>3. \A p \in Pick : lessons.counted[p] \in Nat
    BY DEF FilesTyped, TypeOK, Lessons
  <2>4. Ahead(t)'
    BY <2>1, <2>2, <2>3 DEF Ahead, FilesTyped, IdsApart, Queued
  <2>5. QED
    BY <1>2, <2>1, <2>4 DEF ReadStats, Working, Left, QueuedOnce, FilesTyped, TypeOK, fileVars
<1>3. CASE JudgePick(t)
  BY <1>3, JudgePickWorks DEF JudgePick, QueuedOnce
<1>4. CASE ListWatches(t) \/ JudgeWatch(t) \/ Unlink(t) \/ WatchesDone(t)
  <2>1. UNCHANGED <<pending, lessons, kept, fm>>
    BY <1>4 DEF ListWatches, JudgeWatch, Unlink, WatchesDone, fileVars
  <2>2. Left(t)' = kept[t] /\ Left(t) = kept[t]
    BY <1>4, <2>1 DEF ListWatches, JudgeWatch, Unlink, WatchesDone, Left, FilesTyped, TypeOK
  <2>3. Ahead(t) => Ahead(t)'
    BY <2>1, <2>2 DEF Ahead, Queued
  <2>4. CASE ListWatches(t)
    BY <2>1, <2>2, <2>3, <2>4 DEF ListWatches, Working, QueuedOnce, FilesTyped, TypeOK
  <2>5. CASE JudgeWatch(t)
    <3>1. \/ pc'[t] = "watches" /\ UNCHANGED processed
          \/ pc'[t] = "unlink" /\ processed'[t]
      BY <2>5 DEF JudgeWatch, FilesTyped, TypeOK
    <3>2. pc[t] = "watches"
      BY <2>5 DEF JudgeWatch
    <3>3. QED
      BY <2>1, <2>2, <2>3, <3>1, <3>2 DEF Working, QueuedOnce
  <2>6. CASE Unlink(t)
    BY <2>1, <2>2, <2>3, <2>6 DEF Unlink, Working, QueuedOnce, FilesTyped, TypeOK
  <2>7. CASE WatchesDone(t)
    <3>1. IF processed[t] THEN pc'[t] = "lessons" ELSE pc'[t] = "queue"
      BY <2>7 DEF WatchesDone, FilesTyped, TypeOK
    <3>2. pc[t] = "watches"
      BY <2>7 DEF WatchesDone
    <3>3. QED
      BY <2>1, <2>2, <2>3, <3>1, <3>2 DEF Working, QueuedOnce
  <2>8. QED
    BY <1>4, <2>4, <2>5, <2>6, <2>7
<1>5. CASE WriteLessons(t)
  <2>1. Ahead(t) /\ Left(t) = kept[t]
    BY <1>5 DEF WriteLessons, Working, Left
  <2>2. UNCHANGED <<pending, kept>> /\ lessons' = fm[t] /\ pc'[t] = "queue"
    BY <1>5 DEF WriteLessons, FilesTyped, TypeOK
  <2>3. ASSUME NEW e \in pending \ kept[t] PROVE fm[t].counted[e.id] > 0
    <3>1. e.id \in Pick /\ lessons \in Lessons
      BY DEF FilesTyped, IdsApart, TypeOK
    <3>2. lessons.counted[e.id] \in Nat
      BY <3>1 DEF Lessons
    <3>3. QED
      BY <2>1, <3>2 DEF Ahead
  <2>4. Left(t)' \subseteq pending'
    BY <2>1, <2>2, <1>5 DEF WriteLessons, Working, Left
  <2>5. QED
    BY <2>2, <2>3, <2>4 DEF Working, QueuedOnce
<1>6. CASE Rewrite(t) \/ Abort(t)
  <2>1. pc'[t] = "idle"
    BY <1>6 DEF Rewrite, Abort, EndTick, FilesTyped, TypeOK
  <2>2. QueuedOnce'
    BY <1>6 DEF Rewrite, Abort, fileVars, Working, Left, QueuedOnce
  <2>3. QED
    BY <2>1, <2>2 DEF Working
<1>7. QED
  BY <1>1, <1>2, <1>3, <1>4, <1>5, <1>6 DEF Audit

LEMMA QueueNext ==
  ASSUME AloneAndUndisturbed, FilesTyped, QueueInv, [Next]_vars
  PROVE  QueueInv'
<1>1. CASE \E p \in Pick, r \in Reading : Enqueue(p, r)
  BY <1>1, EnqueueWorks
<1>2. CASE \E t \in Tick : StartTick(t) \/ Audit(t) \/ Abort(t)
  BY <1>2, TickWorks DEF AloneAndUndisturbed, QueueInv
<1>3. CASE UNCHANGED <<pending, lessons, pc, due, kept, fm, processed>>
  BY <1>3 DEF QueueInv, QueuedOnce, Working, Left, Ahead, Queued
<1>4. QED
  BY <1>1, <1>2, <1>3
  DEF Next, vars, fileVars, tickVars, TimePasses, RunSpecialist

LEMMA WriteLessonsCounts ==
  ASSUME FilesTyped, NEW t \in Tick, Working(t), WriteLessons(t)
  PROVE  AQ!Next
<1> DEFINE S == {e.id : e \in pending \ kept[t]}
<1>1. Ahead(t) /\ Left(t) = kept[t]
  BY DEF WriteLessons, Working, Left
<1>2. lessons' = fm[t] /\ UNCHANGED pending
  BY DEF WriteLessons
<1>3. lessons.counted \in [Pick -> Nat] /\ fm[t].counted \in [Pick -> Nat]
  BY DEF FilesTyped, TypeOK, Lessons
<1>4. S \subseteq Queued /\ S \subseteq Pick
  BY DEF Queued, FilesTyped, IdsApart
<1>5. ASSUME NEW p \in Pick
      PROVE  fm[t].counted[p] = IF p \in S THEN lessons.counted[p] + 1 ELSE lessons.counted[p]
  <2>1. CASE p \in S
    BY <1>1, <2>1 DEF Ahead
  <2>2. CASE p \notin S /\ p \in Queued
    BY <1>1, <1>3, <2>2 DEF Ahead, Queued
  <2>3. CASE p \notin Queued
    BY <1>1, <1>4, <2>3 DEF Ahead
  <2>4. QED
    BY <2>1, <2>2, <2>3
<1>6. fm[t].counted = [p \in Pick |-> IF p \in S THEN lessons.counted[p] + 1
                                      ELSE lessons.counted[p]]
  BY <1>3, <1>5
<1>7. AQ!Count(S)
  BY <1>2, <1>4, <1>6 DEF AQ!Count, Queued
<1>8. QED
  BY <1>4, <1>7 DEF AQ!Next

LEMMA RewriteDrops ==
  ASSUME FilesTyped, NEW t \in Tick, Working(t), Rewrite(t)
  PROVE  AQ!Next
<1> DEFINE S == Queued \ {e.id : e \in kept[t]}
<1>1. kept[t] \subseteq pending
  BY DEF Rewrite, Working, Left
<1>2. Queued' = Queued \ S
  BY <1>1 DEF Rewrite, Queued
<1>3. \A p \in S : lessons.counted[p] > 0
  BY DEF Rewrite, Working, Queued
<1>4. AQ!Drop(S)
  BY <1>2, <1>3 DEF Rewrite, AQ!Drop
<1>5. S \in SUBSET Pick
  BY DEF FilesTyped, IdsApart, Queued
<1>6. QED
  BY <1>4, <1>5 DEF AQ!Next

LEMMA QueueStep ==
  ASSUME FilesTyped, QueueInv, [Next]_vars
  PROVE  [AQ!Next]_<<Queued, lessons.counted>>
<1>1. CASE \E p \in Pick, r \in Reading : Enqueue(p, r)
  <2>1. PICK p \in Pick, r \in Reading : Enqueue(p, r)
    BY <1>1
  <2>2. p \notin Queued /\ UNCHANGED lessons
    BY <2>1 DEF Enqueue, Fresh
  <2>3. Queued' = Queued \cup {p}
    <3>1. \E e : e.id = p /\ pending' = pending \cup {e}
      BY <2>1 DEF Enqueue
    <3>2. QED
      BY <3>1 DEF Queued
  <2>4. AQ!Put(p)
    BY <2>2, <2>3 DEF AQ!Put
  <2>5. QED
    BY <2>4 DEF AQ!Next
<1>2. CASE \E t \in Tick : WriteLessons(t) \/ Rewrite(t)
  BY <1>2, WriteLessonsCounts, RewriteDrops DEF QueueInv
<1>3. CASE UNCHANGED <<pending, lessons>>
  BY <1>3 DEF Queued
<1>4. QED
  BY <1>1, <1>2, <1>3
  DEF Next, vars, fileVars, TimePasses, RunSpecialist, StartTick, Audit, Abort, ReadStats,
      JudgePick, ListWatches, JudgeWatch, Unlink, WatchesDone

(* With one tick at a time and nothing queued meanwhile, the audit of       *)
(* predictions implements AuditQueue whatever is killed: a pick leaves the  *)
(* queue only when it has been counted.                                     *)
THEOREM QueueLosesNothing ==
  ASSUME AloneAndUndisturbed
  PROVE  Spec => IsAuditQueue
<1>1. Init => QueueInv
  BY DEF Init, QueueInv, QueuedOnce, Working, Left
<1>2. Init => AQ!Init
  BY DEF Init, AQ!Init, Queued, Unwritten
<1>3. FilesTyped /\ QueueInv /\ [Next]_vars => QueueInv'
  BY QueueNext
<1>4. FilesTyped /\ QueueInv /\ [Next]_vars => [AQ!Next]_<<Queued, lessons.counted>>
  BY QueueStep
<1>5. QED
  BY <1>1, <1>2, <1>3, <1>4, FilesInit, FilesNext, PTL DEF Spec, IsAuditQueue, AQ!Spec
-----------------------------------------------------------------------------
(* The statistics.                                                          *)

LEMMA OwnersFinite == \A s \in Specialist : IsFiniteSet(OwnPicks(s))
BY PredictionsAssumption, FS_Subset DEF OwnPicks

(* Nothing counted agrees with itself.                                      *)
LEMMA UnwrittenAgrees == Agree(Unwritten)
<1> DEFINE h == [s \in Specialist |-> Unwritten.stats[s].picks]
           z == [p \in Pick |-> 0]
<1>1. DOMAIN h = Specialist /\ \A s \in Specialist : h[s] = 0
  BY DEF Unwritten, NoStats
<1>2. SumFunction(h) = 0
  <2> HIDE DEF h
  <2> QED BY <1>1, AllocationAssumption, SumOfZeros DEF SumFunction
<1>3. ASSUME NEW s \in Specialist PROVE SumFunctionOnSet(z, OwnPicks(s)) = 0
  <2>1. \A p \in OwnPicks(s) : z[p] = 0
    BY DEF OwnPicks
  <2> HIDE DEF z
  <2> QED BY <2>1, OwnersFinite, SumOfZeros
<1>4. Unwritten.counted = z /\ Unwritten.total = V1Audits /\ V1Audits \in Nat
  BY PredictionsAssumption DEF Unwritten
<1>5. \A s \in Specialist : Unwritten.stats[s].hits = 0 /\ Unwritten.stats[s].picks = 0
  BY DEF Unwritten, NoStats
<1> HIDE DEF z
<1> QED
  BY <1>2, <1>3, <1>4, <1>5 DEF Agree

(* A pick counted once more leaves an agreement.                            *)
LEMMA RecountedAgrees ==
  ASSUME NEW f \in Lessons, NEW g \in Lessons, NEW e, e.id \in Pick, NEW won \in BOOLEAN,
         CountedOnce(f, g, e, won), Agree(f)
  PROVE  Agree(g)
<1> DEFINE o == Owner[e.id]
           before == [s \in Specialist |-> f.stats[s].picks]
           after == [s \in Specialist |-> g.stats[s].picks]
<1>1. o \in Specialist
  BY PredictionsAssumption
<1>2. \A s \in Specialist : /\ f.stats[s].picks \in Nat /\ f.stats[s].hits \in Nat
                            /\ g.stats[s].picks \in Nat /\ g.stats[s].hits \in Nat
  BY DEF Lessons, Stats
<1>3. f.total \in Nat /\ f.counted \in [Pick -> Nat] /\ V1Audits \in Nat
  BY PredictionsAssumption DEF Lessons
<1>4. SumFunction(after) = SumFunction(before) + 1
  <2>1. DOMAIN before = Specialist /\ DOMAIN after = Specialist
    OBVIOUS
  <2>2. \A s \in Specialist : before[s] \in Int
    BY <1>2
  <2>3. after[o] = before[o] + 1 /\ after[o] \in Int
    BY <1>1, <1>2 DEF CountedOnce
  <2>4. \A s \in Specialist \ {o} : after[s] = before[s]
    BY DEF CountedOnce
  <2> HIDE DEF before, after, o
  <2>5. SumFunctionOnSet(after, Specialist)
          = SumFunctionOnSet(before, Specialist) - before[o] + after[o]
    BY <1>1, <2>2, <2>3, <2>4, AllocationAssumption, SumChanged
  <2>6. SumFunctionOnSet(before, Specialist) \in Int
    BY <2>2, AllocationAssumption, SumIsInt
  <2>7. before[o] \in Int
    BY <1>1, <2>2
  <2>8. SumFunctionOnSet(after, Specialist) = SumFunctionOnSet(before, Specialist) + 1
    BY <2>3, <2>5, <2>6, <2>7
  <2> QED
    BY <2>1, <2>8 DEF SumFunction
<1>5. SumFunction(before) \in Int
  <2>1. DOMAIN before = Specialist /\ \A s \in Specialist : before[s] \in Int
    BY <1>2
  <2> HIDE DEF before
  <2> QED BY <2>1, AllocationAssumption, SumIsInt DEF SumFunction
<1>6. g.total = V1Audits + SumFunction(after)
  <2>1. f.total = V1Audits + SumFunction(before)
    BY DEF Agree
  <2>2. g.total = f.total + 1
    BY DEF CountedOnce
  <2> HIDE DEF before, after
  <2> QED BY <1>3, <1>4, <1>5, <2>1, <2>2
<1>7. ASSUME NEW s \in Specialist
      PROVE  /\ g.stats[s].hits <= g.stats[s].picks
             /\ g.stats[s].picks = SumFunctionOnSet(g.counted, OwnPicks(s))
  <2>1. /\ f.stats[s].hits <= f.stats[s].picks
        /\ f.stats[s].picks = SumFunctionOnSet(f.counted, OwnPicks(s))
    BY DEF Agree
  <2>2. OwnPicks(s) \subseteq Pick /\ IsFiniteSet(OwnPicks(s))
    BY OwnersFinite DEF OwnPicks
  <2>3. \A p \in OwnPicks(s) : f.counted[p] \in Int
    BY <1>3, <2>2
  <2>4. /\ \A p \in Pick \ {e.id} : g.counted[p] = f.counted[p]
        /\ g.counted[e.id] = f.counted[e.id] + 1
        /\ f.counted[e.id] \in Int /\ g.counted[e.id] \in Int
    BY <1>3 DEF CountedOnce
  <2>5. CASE s = o
    <3>1. e.id \in OwnPicks(s)
      BY <2>5 DEF OwnPicks
    <3>2. SumFunctionOnSet(g.counted, OwnPicks(s))
            = SumFunctionOnSet(f.counted, OwnPicks(s)) - f.counted[e.id] + g.counted[e.id]
      <4>1. \A q \in OwnPicks(s) \ {e.id} : g.counted[q] = f.counted[q]
        BY <2>2, <2>4
      <4>2. PICK own, was, is, p : own = OwnPicks(s) /\ was = f.counted /\ is = g.counted /\ p = e.id
        OBVIOUS
      <4>3. IsFiniteSet(own) /\ p \in own /\ is[p] \in Int /\ \A q \in own : was[q] \in Int
        BY <2>2, <2>3, <2>4, <3>1, <4>2
      <4>4. \A q \in own \ {p} : is[q] = was[q]
        BY <4>1, <4>2
      <4>5. SumFunctionOnSet(is, own) = SumFunctionOnSet(was, own) - was[p] + is[p]
        BY <4>3, <4>4, SumChanged
      <4> QED BY <4>2, <4>5
    <3>3. SumFunctionOnSet(f.counted, OwnPicks(s)) \in Int
      BY <2>2, <2>3, SumIsInt
    <3>4. SumFunctionOnSet(g.counted, OwnPicks(s)) = SumFunctionOnSet(f.counted, OwnPicks(s)) + 1
      BY <2>4, <3>2, <3>3
    <3>5. /\ g.stats[s].picks = f.stats[s].picks + 1
          /\ g.stats[s].hits <= f.stats[s].hits + 1
      BY <1>2, <2>5 DEF CountedOnce
    <3> QED
      BY <1>2, <2>1, <3>4, <3>5
  <2>6. CASE s # o
    <3>1. \A p \in OwnPicks(s) : g.counted[p] = f.counted[p]
      BY <2>4, <2>6 DEF OwnPicks
    <3>2. SumFunctionOnSet(g.counted, OwnPicks(s)) = SumFunctionOnSet(f.counted, OwnPicks(s))
      BY <2>2, <3>1, SumAlike
    <3>3. g.stats[s] = f.stats[s]
      BY <2>6 DEF CountedOnce
    <3> QED
      BY <2>1, <3>2, <3>3
  <2> QED
    BY <2>5, <2>6
<1> QED
  BY <1>6, <1>7 DEF Agree

LEMMA StatsNext ==
  ASSUME FilesTyped, StatsAgree, [Next]_vars
  PROVE  StatsAgree'
<1> USE DEF StatsAgree
<1>1. CASE UNCHANGED <<lessons, fm>>
  BY <1>1 DEF Agree
<1>2. ASSUME NEW t \in Tick, NEW f, Agree(f), fm' = [fm EXCEPT ![t] = f], UNCHANGED lessons
      PROVE  StatsAgree'
  <2>1. \A u \in Tick : fm'[u] = IF u = t THEN f ELSE fm[u]
    BY <1>2 DEF FilesTyped, TypeOK
  <2> QED
    BY <1>2, <2>1 DEF Agree
<1>3. ASSUME NEW t \in Tick, JudgePick(t)
      PROVE  StatsAgree'
  <2>1. PICK e \in due[t] : \E ret \in Returns(e) : fm' = [fm EXCEPT ![t] = Recounted(@, e, Won(ret))]
    BY <1>3 DEF JudgePick
  <2>2. PICK ret \in Returns(e) : fm' = [fm EXCEPT ![t] = Recounted(@, e, Won(ret))]
    BY <2>1
  <2>3. e.id \in Pick /\ fm[t] \in Lessons /\ Won(ret) \in BOOLEAN /\ Agree(fm[t])
    BY <1>3 DEF JudgePick, FilesTyped, IdsApart, Listed, TypeOK, Won
  <2>4. Agree(Recounted(fm[t], e, Won(ret)))
    BY <2>3, RecountedType, RecountedAgrees
  <2>5. fm' = [fm EXCEPT ![t] = Recounted(fm[t], e, Won(ret))] /\ UNCHANGED lessons
    BY <1>3, <2>2 DEF JudgePick
  <2> QED
    BY <1>2, <2>4, <2>5
<1>4. ASSUME NEW t \in Tick, StartTick(t) \/ Audit(t) \/ Abort(t)
      PROVE  StatsAgree'
  <2>1. CASE ReadStats(t)
    BY <1>2, <2>1 DEF ReadStats, fileVars
  <2>2. CASE WriteLessons(t)
    BY <2>2 DEF WriteLessons, Agree
  <2>3. CASE Rewrite(t) \/ Abort(t)
    BY <1>2, <2>3, UnwrittenAgrees DEF Rewrite, Abort, EndTick, fileVars
  <2> QED
    BY <1>1, <1>3, <1>4, <2>1, <2>2, <2>3
    DEF Audit, StartTick, ListWatches, JudgeWatch, Unlink, WatchesDone, fileVars
<1> QED
  BY <1>1, <1>4 DEF Next, vars, fileVars, tickVars, TimePasses, Enqueue, RunSpecialist

(* Whatever is killed, and however many ticks run at once: lessons.md and   *)
(* every copy of it are the statistics of some audits, each in all of the   *)
(* numbers it belongs in.                                                   *)
THEOREM StatisticsAgree == Spec => []StatsAgree
<1>1. Init => StatsAgree
  BY UnwrittenAgrees DEF Init, StatsAgree
<1> QED
  BY <1>1, StatsNext, FilesInit, FilesNext, PTL DEF Spec

-----------------------------------------------------------------------------
(* The statistics tell what the outcome files do.                           *)

(* Outcomes of picks that are queued may change: they are not settled.      *)
LEMMA TellsStay ==
  ASSUME NEW f, NEW left, Tells(f, left), torn' = torn,
         \A p \in Pick : (\A e \in left : e.id # p) => outcomes'[p] = outcomes[p]
  PROVE  Tells(f, left)'
<1>1. Settled(left)' = Settled(left)
  BY DEF Settled
<1>2. ASSUME NEW s \in Specialist PROVE WonPicks(s, left)' = WonPicks(s, left)
  BY <1>1 DEF WonPicks, OwnPicks, Settled
<1> QED
  BY <1>1, <1>2 DEF Tells

(* A pick that has no outcome is not settled, queued or not.                *)
LEMMA TellsQueued ==
  ASSUME NEW f, NEW left, NEW e, Tells(f, left), outcomes[e.id] = NoOutcome
  PROVE  Tells(f, left \cup {e})
<1>1. Settled(left \cup {e}) = Settled(left)
  BY DEF Settled
<1>2. ASSUME NEW s \in Specialist PROVE WonPicks(s, left \cup {e}) = WonPicks(s, left)
  BY <1>1 DEF WonPicks
<1> QED
  BY <1>1, <1>2 DEF Tells

(* A kill between the two rewrites: more is left in the queue than counted. *)
LEMMA TellsTorn ==
  ASSUME NEW f \in Lessons, NEW left, NEW more, left \subseteq more, Tells(f, left),
         torn \in Nat, torn' = torn + 1, UNCHANGED outcomes
  PROVE  Tells(f, more)'
<1>1. Settled(more)' \subseteq Settled(left)
  BY DEF Settled
<1>2. \A p \in Pick : f.counted[p] \in Nat
  BY DEF Lessons
<1>3. ASSUME NEW p \in Pick
      PROVE  /\ p \in Settled(more)' => f.counted[p] >= 1
             /\ f.counted[p] <= torn' + (IF p \in Settled(more)' THEN 1 ELSE 0)
  <2>1. f.counted[p] <= torn + (IF p \in Settled(left) THEN 1 ELSE 0)
    BY DEF Tells
  <2>2. p \in Settled(left) => f.counted[p] >= 1
    BY DEF Tells
  <2> QED
    BY <1>1, <1>2, <2>1, <2>2
<1> QED
  BY <1>3 DEF Tells

(* An entry judged is settled, and counted once more.                       *)
LEMMA JudgedTells ==
  ASSUME FilesTyped, NEW f \in Lessons, NEW g \in Lessons, NEW left, NEW e \in left,
         e.id \in Pick, \A d \in left : d.id = e.id => d = e,
         NEW won \in BOOLEAN, NEW k, Tells(f, left), torn' = torn,
         outcomes' = [outcomes EXCEPT ![e.id] = [kind |-> k, won |-> won]],
         CountedOnce(f, g, e, won)
  PROVE  Tells(g, left \ {e})'
<1> DEFINE o == [kind |-> k, won |-> won]
           rest == left \ {e}
<1>1. o # NoOutcome /\ o.won = won
  BY DEF NoOutcome
<1>2. outcomes'[e.id] = o /\ \A p \in Pick \ {e.id} : outcomes'[p] = outcomes[p]
  BY DEF FilesTyped, TypeOK, Id
<1> HIDE DEF o
<1>3. f.counted \in [Pick -> Nat] /\ torn \in Nat
  BY DEF Lessons, FilesTyped, TypeOK
<1>4. e.id \notin Settled(left) /\ Settled(rest)' = Settled(left) \cup {e.id}
  BY <1>1, <1>2 DEF Settled
<1>5. ASSUME NEW p \in Pick
      PROVE  /\ p \in Settled(rest)' => g.counted[p] >= 1
             /\ g.counted[p] <= torn' + (IF p \in Settled(rest)' THEN 1 ELSE 0)
  <2>1. /\ p \in Settled(left) => f.counted[p] >= 1
        /\ f.counted[p] <= torn + (IF p \in Settled(left) THEN 1 ELSE 0)
    BY DEF Tells
  <2>2. g.counted[p] = IF p = e.id THEN f.counted[p] + 1 ELSE f.counted[p]
    BY <1>3 DEF CountedOnce
  <2>3. CASE p = e.id
    BY <1>3, <1>4, <2>1, <2>2, <2>3
  <2>4. CASE p # e.id
    BY <1>3, <1>4, <2>1, <2>2, <2>4
  <2> QED
    BY <2>3, <2>4
<1>6. ASSUME NEW s \in Specialist, torn = 0
      PROVE  g.stats[s].hits = Cardinality(WonPicks(s, rest)')
  <2>1. f.stats[s].hits = Cardinality(WonPicks(s, left)) /\ f.stats[s].hits \in Nat
    BY <1>6 DEF Tells, Lessons, Stats
  <2>2. IsFiniteSet(WonPicks(s, left)) /\ e.id \notin WonPicks(s, left)
    BY <1>4, OwnersFinite, FS_Subset DEF WonPicks
  <2>3. CASE s = Owner[e.id] /\ won
    <3>1. WonPicks(s, rest)' = WonPicks(s, left) \cup {e.id}
      BY <1>1, <1>2, <1>4, <2>3 DEF WonPicks, OwnPicks
    <3>2. Cardinality(WonPicks(s, left) \cup {e.id}) = Cardinality(WonPicks(s, left)) + 1
      BY <2>2, FS_AddElement
    <3> QED
      BY <2>1, <2>3, <3>1, <3>2 DEF CountedOnce
  <2>4. CASE ~(s = Owner[e.id] /\ won)
    <3>1. WonPicks(s, rest)' = WonPicks(s, left)
      BY <1>1, <1>2, <1>4, <2>2, <2>4 DEF WonPicks, OwnPicks
    <3>2. g.stats[s].hits = f.stats[s].hits
      BY <2>1, <2>4 DEF CountedOnce
    <3> QED
      BY <2>1, <3>1, <3>2
  <2> QED
    BY <2>3, <2>4
<1>7. torn' = 0 => \A s \in Specialist : g.stats[s].hits = Cardinality(WonPicks(s, rest)')
  BY <1>6
<1> HIDE DEF rest
<1>8. Tells(g, rest)'
  BY <1>5, <1>7 DEF Tells
<1> QED
  BY <1>8 DEF rest

LEMMA JudgePickTallies ==
  ASSUME FilesTyped, QueueInv, NEW t \in Tick, Tallied(t), JudgePick(t)
  PROVE  Tallied(t)'
<1>1. PICK e \in due[t] : \E ret \in Returns(e) :
        /\ due' = [due EXCEPT ![t] = @ \ {e}]
        /\ outcomes' = [outcomes EXCEPT ![e.id] = [kind |-> Kind[e.id], won |-> Won(ret)]]
        /\ fm' = [fm EXCEPT ![t] = Recounted(@, e, Won(ret))]
  BY DEF JudgePick
<1>2. PICK ret \in Returns(e) :
        /\ due' = [due EXCEPT ![t] = @ \ {e}]
        /\ outcomes' = [outcomes EXCEPT ![e.id] = [kind |-> Kind[e.id], won |-> Won(ret)]]
        /\ fm' = [fm EXCEPT ![t] = Recounted(@, e, Won(ret))]
  BY <1>1
<1>3. /\ pc[t] = "picks" /\ pc'[t] = "picks" /\ processed'[t]
      /\ UNCHANGED <<pending, lessons, kept, torn>>
  BY DEF JudgePick, FilesTyped, TypeOK
<1>4. e.id \in Pick /\ fm[t] \in Lessons /\ Won(ret) \in BOOLEAN /\ Pick \subseteq Id
  BY <1>3 DEF FilesTyped, IdsApart, Listed, TypeOK, Won, Id
<1>5. Tells(fm[t], Left(t)) /\ Tells(lessons, pending)
  BY <1>3 DEF Tallied
<1>6. e \in Left(t) /\ e \notin kept[t] /\ Left(t) \subseteq pending
  BY <1>3 DEF QueueInv, Working, Left
<1>7. fm'[t] = Recounted(fm[t], e, Won(ret))
  BY <1>2 DEF FilesTyped, TypeOK
<1>8. fm'[t] \in Lessons /\ CountedOnce(fm[t], fm'[t], e, Won(ret))
  <2>1. /\ Recounted(fm[t], e, Won(ret)) \in Lessons
        /\ CountedOnce(fm[t], Recounted(fm[t], e, Won(ret)), e, Won(ret))
    BY <1>4, RecountedType
  <2> QED
    BY <1>7, <2>1, Zenon
<1>9. Left(t)' = Left(t) \ {e}
  BY <1>2, <1>3, <1>6 DEF Left, FilesTyped, TypeOK
<1>10. Tells(fm[t], Left(t))'
  <2>1. PICK f, g, won, k, left : /\ f = fm[t] /\ g = fm'[t] /\ won = Won(ret) /\ k = Kind[e.id]
                                  /\ left = Left(t)
    OBVIOUS
  <2>2. /\ f \in Lessons /\ g \in Lessons /\ won \in BOOLEAN /\ CountedOnce(f, g, e, won)
        /\ outcomes' = [outcomes EXCEPT ![e.id] = [kind |-> k, won |-> won]]
    BY <1>2, <1>4, <1>8, <2>1
  <2>3. e \in left /\ \A d \in left : d.id = e.id => d = e
    BY <1>6, <2>1 DEF QueueInv, QueuedOnce
  <2>4. Tells(f, left)
    BY <1>5, <2>1
  <2>5. Tells(g, left \ {e})'
    BY <1>3, <1>4, <2>2, <2>3, <2>4, JudgedTells
  <2>6. fm'[t] = g /\ Left(t)' = left \ {e}
    BY <1>9, <2>1
  <2> QED
    BY <2>5, <2>6
<1>11. Tells(lessons, pending)'
  <2>1. PICK f, left : f = lessons /\ left = pending
    OBVIOUS
  <2>2. \A p \in Pick : (\A d \in left : d.id # p) => outcomes'[p] = outcomes[p]
    BY <1>2, <1>4, <1>6, <2>1 DEF FilesTyped, TypeOK
  <2>3. Tells(f, left)'
    BY <1>3, <1>5, <2>1, <2>2, TellsStay
  <2>4. lessons' = f /\ pending' = left
    BY <1>3, <2>1
  <2> QED
    BY <2>3, <2>4
<1> QED
  BY <1>3, <1>10, <1>11 DEF Tallied

(* Whatever leaves alone the queue, lessons.md and the outcomes of picks    *)
(* leaves what lessons.md tells, and so for a tick's copy.                  *)
LEMMA FileTells ==
  ASSUME Tells(lessons, pending), UNCHANGED <<lessons, pending, torn>>,
         \A p \in Pick : outcomes'[p] = outcomes[p]
  PROVE  Tells(lessons, pending)'
<1>1. PICK f, left : f = lessons /\ left = pending
  OBVIOUS
<1>2. Tells(f, left)'
  BY <1>1, TellsStay
<1>3. lessons' = f /\ pending' = left
  BY <1>1
<1> QED
  BY <1>2, <1>3

LEMMA CopyTells ==
  ASSUME NEW t \in Tick, Tells(fm[t], Left(t)), fm'[t] = fm[t], Left(t)' = Left(t),
         torn' = torn, \A p \in Pick : outcomes'[p] = outcomes[p]
  PROVE  Tells(fm[t], Left(t))'
<1>1. PICK f, left : f = fm[t] /\ left = Left(t)
  OBVIOUS
<1>2. Tells(f, left)'
  BY <1>1, TellsStay
<1>3. fm'[t] = f /\ Left(t)' = left
  BY <1>1
<1> QED
  BY <1>2, <1>3

LEMMA TickTallies ==
  ASSUME FilesTyped, QueueInv, NEW t \in Tick, Tallied(t), StartTick(t) \/ Audit(t) \/ Abort(t)
  PROVE  Tallied(t)'
<1> USE DEF Goto
<1>0. pc \in [Tick -> {"idle", "stats", "picks", "watches", "unlink", "lessons", "queue"}]
  BY DEF FilesTyped, TypeOK
<1>1. CASE StartTick(t)
  <2>1. /\ pc[t] = "idle" /\ pc'[t] = "stats"
        /\ UNCHANGED <<lessons, outcomes, pending, torn>>
    BY <1>0, <1>1 DEF StartTick, fileVars
  <2> QED
    BY <2>1, FileTells DEF Tallied
<1>2. CASE ReadStats(t)
  <2>1. /\ pc[t] = "stats" /\ pc'[t] = "picks" /\ fm'[t] = lessons
        /\ UNCHANGED <<lessons, outcomes, pending, torn, due, kept>>
    BY <1>2 DEF ReadStats, FilesTyped, TypeOK, fileVars
  <2>2. Left(t) = pending /\ Left(t)' = Left(t)
    BY <2>1 DEF Left, QueueInv, Working
  <2>3. Tells(lessons, pending)'
    BY <2>1, FileTells DEF Tallied
  <2>4. Tells(fm[t], Left(t))'
    <3>1. fm'[t] = lessons' /\ Left(t)' = pending'
      BY <2>1, <2>2
    <3> QED
      BY <2>3, <3>1
  <2> QED
    BY <2>1, <2>3, <2>4 DEF Tallied
<1>3. CASE JudgePick(t)
  BY <1>3, JudgePickTallies
<1>4. CASE ListWatches(t)
  <2>1. /\ pc[t] = "picks" /\ pc'[t] = "watches" /\ due[t] = {}
        /\ UNCHANGED <<lessons, outcomes, pending, torn, fm, kept, processed>>
    BY <1>0, <1>4 DEF ListWatches, fileVars
  <2>2. Left(t)' = Left(t)
    BY <2>1 DEF Left
  <2>3. Tells(lessons, pending)' /\ Tells(fm[t], Left(t))'
    BY <2>1, <2>2, FileTells, CopyTells DEF Tallied
  <2> QED
    BY <2>1, <2>3 DEF Tallied
<1>5. CASE JudgeWatch(t)
  <2>1. /\ pc[t] = "watches" /\ UNCHANGED <<lessons, fm, kept, pending, torn>>
        /\ \/ pc'[t] = "unlink"
           \/ pc'[t] = "watches" /\ processed'[t] = processed[t]
    BY <1>0, <1>5 DEF JudgeWatch
  <2>2. \A p \in Pick : outcomes'[p] = outcomes[p]
    <3>1. CASE UNCHANGED outcomes
      BY <3>1
    <3>2. CASE \E e \in due[t] : \E ret \in PoolReturns(e.entry) : WatchOutcome(e, ret)
      <4>1. PICK e \in due[t] : \E ret \in PoolReturns(e.entry) : WatchOutcome(e, ret)
        BY <3>2
      <4>2. e.id \in Watch
        BY <2>1 DEF FilesTyped, IdsApart, Listed
      <4> QED
        BY <4>1, <4>2, PredictionsAssumption DEF WatchOutcome, FilesTyped, TypeOK, Id
    <3> QED
      BY <1>5, <3>1, <3>2 DEF JudgeWatch
  <2>3. Left(t)' = Left(t)
    BY <2>1 DEF Left
  <2>4. Tells(lessons, pending)' /\ Tells(fm[t], Left(t))'
    BY <2>1, <2>2, <2>3, FileTells, CopyTells DEF Tallied
  <2> QED
    BY <2>1, <2>4 DEF Tallied
<1>6. CASE Unlink(t)
  <2>1. /\ pc[t] = "unlink" /\ pc'[t] = "watches" /\ processed[t]
        /\ UNCHANGED <<lessons, outcomes, pending, torn, fm, kept, processed>>
    BY <1>0, <1>6 DEF Unlink, QueueInv, Working
  <2>2. Left(t)' = Left(t)
    BY <2>1 DEF Left
  <2>3. Tells(lessons, pending)' /\ Tells(fm[t], Left(t))'
    BY <2>1, <2>2, FileTells, CopyTells DEF Tallied
  <2> QED
    BY <2>1, <2>3 DEF Tallied
<1>7. CASE WatchesDone(t)
  <2>1. /\ pc[t] = "watches" /\ pc'[t] = IF processed[t] THEN "lessons" ELSE "queue"
        /\ UNCHANGED <<lessons, outcomes, pending, torn, fm, kept, processed>>
    BY <1>0, <1>7 DEF WatchesDone, fileVars
  <2>2. Left(t)' = Left(t) /\ Left(t) = kept[t]
    BY <2>1 DEF Left
  <2>3. Tells(lessons, pending)' /\ Tells(fm[t], Left(t))'
    BY <2>1, <2>2, FileTells, CopyTells DEF Tallied
  <2>4. CASE processed[t]
    BY <2>1, <2>3, <2>4 DEF Tallied
  <2>5. CASE ~processed[t]
    <3>1. kept[t] = pending /\ pc'[t] = "queue" /\ kept'[t] = pending'
      BY <2>1, <2>2, <2>5 DEF QueueInv, Working
    <3>2. Tells(lessons, kept[t])'
      BY <2>3, <3>1
    <3> QED
      BY <3>1, <3>2 DEF Tallied
  <2> QED
    BY <2>4, <2>5
<1>8. CASE WriteLessons(t)
  <2>1. /\ pc[t] = "lessons" /\ pc'[t] = "queue" /\ lessons' = fm[t]
        /\ UNCHANGED <<outcomes, pending, torn, fm, kept, processed>>
    BY <1>0, <1>8 DEF WriteLessons
  <2>2. processed[t]
    BY <2>1 DEF Tallied
  <2>3. Left(t)' = Left(t) /\ Left(t)' = kept'[t]
    BY <2>1 DEF Left
  <2>4. Tells(fm[t], Left(t))'
    BY <2>1, <2>3, CopyTells DEF Tallied
  <2>5. Tells(lessons, kept[t])'
    <3>1. lessons' = fm'[t]
      BY <2>1
    <3> QED
      BY <2>3, <2>4, <3>1
  <2> QED
    BY <2>1, <2>2, <2>5 DEF Tallied
<1>9. CASE Rewrite(t)
  <2>1. /\ pc[t] = "queue" /\ pc'[t] = "idle" /\ pending' = kept[t]
        /\ UNCHANGED <<lessons, outcomes, torn>>
    BY <1>0, <1>9 DEF Rewrite, EndTick
  <2>2. PICK f, left : f = lessons /\ left = kept[t]
    OBVIOUS
  <2>3. Tells(f, left)'
    BY <2>1, <2>2, TellsStay DEF Tallied
  <2>4. lessons' = f /\ pending' = left
    BY <2>1, <2>2
  <2>5. Tells(lessons, pending)'
    BY <2>3, <2>4
  <2> QED
    BY <2>1, <2>5 DEF Tallied
<1>10. CASE Abort(t)
  <2>1. /\ pc'[t] = "idle" /\ UNCHANGED <<pending, lessons, outcomes>>
        /\ torn' = IF pc[t] = "queue" /\ processed[t] THEN torn + 1 ELSE torn
    BY <1>0, <1>10 DEF Abort, EndTick, fileVars
  <2>2. CASE pc[t] # "queue"
    BY <2>1, <2>2, FileTells DEF Tallied
  <2>3. CASE pc[t] = "queue" /\ ~processed[t]
    <3>1. Tells(lessons, pending)
      BY <2>3 DEF Tallied
    <3> QED
      BY <2>1, <2>3, <3>1, FileTells DEF Tallied
  <2>4. CASE pc[t] = "queue" /\ processed[t]
    <3>1. PICK f, left, more : f = lessons /\ left = kept[t] /\ more = pending
      OBVIOUS
    <3>2. f \in Lessons /\ torn \in Nat /\ left \subseteq more /\ Tells(f, left)
      BY <2>4, <3>1 DEF Tallied, FilesTyped, TypeOK, QueueInv, Working, Left
    <3>3. Tells(f, more)'
      BY <2>1, <2>4, <3>2, TellsTorn
    <3>4. lessons' = f /\ pending' = more
      BY <2>1, <3>1
    <3>5. Tells(lessons, pending)'
      BY <3>3, <3>4
    <3> QED
      BY <2>1, <3>5 DEF Tallied
  <2> QED
    BY <2>2, <2>3, <2>4
<1> QED
  BY <1>1, <1>2, <1>3, <1>4, <1>5, <1>6, <1>7, <1>8, <1>9, <1>10 DEF Audit

LEMMA TalliesNext ==
  ASSUME AloneAndUndisturbed, FilesTyped, QueueInv, AllTallied, [Next]_vars
  PROVE  AllTallied'
<1> SUFFICES ASSUME NEW t \in Tick PROVE Tallied(t)'
  BY DEF AllTallied
<1>1. Tallied(t)
  BY DEF AllTallied
<1>2. CASE \E u \in Tick : StartTick(u) \/ Audit(u) \/ Abort(u)
  <2>1. StartTick(t) \/ Audit(t) \/ Abort(t)
    BY <1>2 DEF AloneAndUndisturbed
  <2> QED
    BY <1>1, <2>1, TickTallies
<1>3. CASE \E p \in Pick, r \in Reading : Enqueue(p, r)
  <2>1. PICK p \in Pick, r \in Reading : Enqueue(p, r)
    BY <1>3
  <2>2. /\ pc[t] = "idle" /\ pc'[t] = "idle"
        /\ UNCHANGED <<lessons, outcomes, torn>>
    BY <2>1 DEF Enqueue, Fresh, AloneAndUndisturbed, tickVars
  <2>3. PICK e, f, left : /\ e.id = p /\ pending' = pending \cup {e}
                          /\ f = lessons /\ left = pending
    BY <2>1 DEF Enqueue
  <2>4. outcomes[e.id] = NoOutcome
    BY <2>1, <2>3 DEF Enqueue, Fresh
  <2>5. Tells(f, left)
    BY <1>1, <2>2, <2>3 DEF Tallied
  <2>6. Tells(f, left \cup {e})
    BY <2>4, <2>5, TellsQueued
  <2>7. Tells(f, left \cup {e})'
    BY <2>2, <2>6, TellsStay
  <2>8. lessons' = f /\ pending' = left \cup {e}
    BY <2>2, <2>3
  <2>9. Tells(lessons, pending)'
    BY <2>7, <2>8
  <2> QED
    BY <2>2, <2>9 DEF Tallied
<1>4. CASE UNCHANGED <<pending, outcomes, lessons, torn, tickVars>>
  <2>1. Left(t)' = Left(t)
    BY <1>4 DEF Left, tickVars
  <2>2. UNCHANGED <<pc, fm, kept, processed, pending, outcomes, lessons, torn>>
    BY <1>4 DEF tickVars
  <2>3. Tells(lessons, pending) => Tells(lessons, pending)'
    BY <2>2, FileTells
  <2>4. Tells(fm[t], Left(t)) => Tells(fm[t], Left(t))'
    BY <2>1, <2>2, CopyTells
  <2>5. Tells(lessons, kept[t]) => Tells(lessons, kept[t])'
    <3> SUFFICES ASSUME Tells(lessons, kept[t]) PROVE Tells(lessons, kept[t])'
      OBVIOUS
    <3>1. PICK f, left : f = lessons /\ left = kept[t]
      OBVIOUS
    <3>2. Tells(f, left)'
      BY <2>2, <3>1, TellsStay
    <3>3. lessons' = f /\ kept'[t] = left
      BY <2>2, <3>1
    <3> QED
      BY <3>2, <3>3
  <2> QED
    BY <1>1, <2>2, <2>3, <2>4, <2>5 DEF Tallied
<1> QED
  BY <1>2, <1>3, <1>4 DEF Next, vars, fileVars, TimePasses, RunSpecialist

LEMMA TalliesInit == Init => AllTallied
<1> SUFFICES ASSUME Init, NEW t \in Tick PROVE Tallied(t)
  BY DEF AllTallied
<1>1. \A p \in Pick : outcomes[p] = NoOutcome
  BY DEF Init, Id
<1>2. Settled(pending) = {} /\ torn = 0 /\ lessons = Unwritten
  BY <1>1 DEF Init, Settled
<1>3. \A s \in Specialist : WonPicks(s, pending) = {}
  BY <1>2 DEF WonPicks
<1>4. Cardinality({}) = 0
  BY FS_EmptySet
<1>5. Tells(lessons, pending)
  BY <1>2, <1>3, <1>4 DEF Tells, Unwritten, NoStats
<1> QED
  BY <1>5 DEF Init, Tallied

(* With one tick at a time and nothing queued meanwhile, whatever is killed *)
(* and whichever lookup ends a tick: the statistics agree with each other,  *)
(* with the outcome files and with what is queued no more, up to one count  *)
(* for each tick killed between its two rewrites.                           *)
THEOREM CountsHold ==
  ASSUME AloneAndUndisturbed, Tick # {}
  PROVE  Spec => []CountsAreExact
<1>1. Init => QueueInv /\ StatsAgree
  BY UnwrittenAgrees DEF Init, QueueInv, QueuedOnce, Working, Left, StatsAgree
<1>2. AllTallied => JudgedIsCounted
  BY DEF AllTallied, Tallied, JudgedIsCounted
<1>3. FilesTyped /\ StatsAgree /\ AllTallied => CountsAreExact
  BY <1>2 DEF FilesTyped, CountsAreExact
<1> QED
  BY <1>1, <1>3, TalliesInit, TalliesNext, QueueNext, StatsNext, FilesInit, FilesNext, PTL
  DEF Spec
-----------------------------------------------------------------------------
(* The sizes. *)

(* Division as the sizes use it.                                            *)
LEMMA Dividing ==
  /\ \A a, b \in Nat : a * b \in Nat
  /\ \A a, t \in Nat : t > 0 => a \div t \in Nat
  /\ \A a, b, t \in Nat : t > 0 => t * ((a * b) \div t) <= b * a
  /\ \A a, b, t \in Nat : t > 0 /\ b <= t => (b * a) \div t <= a /\ (a * b) \div t <= a
  /\ \A a, b, c, t \in Nat : t > 0 /\ a >= b => (a * c) \div t >= (b * c) \div t
  /\ \A a, b, t \in Nat : t > 0 /\ t * a <= b * t => a <= b
<1>1. \A a, b \in Nat : a * b \in Nat
  OBVIOUS
<1>2. \A a, t \in Nat : t > 0 => a \div t \in Nat
  OBVIOUS
<1>3. \A a, b, t \in Nat : t > 0 => t * ((a * b) \div t) <= b * a
  OBVIOUS
<1>4. \A a, b, t \in Nat : t > 0 /\ b <= t => (b * a) \div t <= a /\ (a * b) \div t <= a
  OBVIOUS
<1>5. \A a, b, c \in Nat : a >= b => a * c >= b * c
  OBVIOUS
<1>6. \A a, b, t \in Nat : t > 0 /\ a >= b => a \div t >= b \div t
  OBVIOUS
<1>7. \A a, b, t \in Nat : t > 0 /\ t * a <= b * t => a <= b
  OBVIOUS
<1>8. \A a, b, c, t \in Nat : t > 0 /\ a >= b => (a * c) \div t >= (b * c) \div t
  BY <1>1, <1>5, <1>6
<1> QED
  BY <1>1, <1>2, <1>3, <1>4, <1>7, <1>8

(* The sizes for some scores, and for everything scored the size it gets.   *)
FairBook(sizes, score, S, cold) ==
  /\ SumFunction(sizes) <= MaxBook(cold)
  /\ DOMAIN sizes \subseteq S
  /\ \A x \in DOMAIN sizes : sizes[x] \in Nat /\ sizes[x] <= MaxPosition(cold)
  /\ \A x \in S, y \in DOMAIN sizes :
       score[x] >= score[y] => x \in DOMAIN sizes /\ sizes[x] >= sizes[y]

LEMMA SizesAreFair ==
  ASSUME NEW S, IsFiniteSet(S), NEW score \in [S -> Nat \ {0}], NEW cold \in BOOLEAN
  PROVE  FairBook(Sizes(score, cold), score, S, cold)
<1> DEFINE scores == {score[x] : x \in DOMAIN score}
<1>1. PICK best : best = Max({score[x] : x \in DOMAIN score})
  OBVIOUS
<1>2. PICK raw : raw = [x \in S |-> (score[x] * MaxPosition(cold)) \div best]
  OBVIOUS
<1>3. PICK large : large = [x \in {y \in S : raw[y] >= MinPosition} |-> raw[x]]
  OBVIOUS
<1>4. PICK P, B : P = MaxPosition(cold) /\ B = MaxBook(cold)
  OBVIOUS
<1>5. P \in Nat /\ B \in Nat
  BY <1>4 DEF MaxPosition, MaxBook
<1>6. Sizes(score, cold) = IF SumFunction(large) <= B THEN large
                           ELSE [x \in DOMAIN large |-> (large[x] * B) \div SumFunction(large)]
  <2>1. DOMAIN score = S /\ DOMAIN raw = S
    BY <1>2
  <2> QED
    BY <1>1, <1>2, <1>3, <1>4, <2>1, Zenon DEF Sizes
<1>7. \A x \in S : best \in Nat /\ best > 0 /\ score[x] \in Nat /\ score[x] <= best
  <2>1. SUFFICES ASSUME S # {}
                 PROVE  best \in Nat /\ best > 0 /\ \A x \in S : score[x] <= best
    OBVIOUS
  <2>2. scores = {score[x] : x \in S} /\ scores \subseteq Nat \ {0} /\ scores # {}
    BY <2>1
  <2>3. IsFiniteSet({score[x] : x \in S})
    <3> DEFINE image == {score[x] : x \in S}
    <3>1. score \in Surjection(S, image)
      BY DEF Surjection
    <3> HIDE DEF image
    <3> QED BY <3>1, FS_Surjection DEF image
  <2>4. best \in scores /\ \A v \in scores : best >= v
    <3> HIDE DEF scores
    <3>1. scores \subseteq Nat /\ IsFiniteSet(scores)
      BY <2>2, <2>3
    <3>2. best = Max(scores)
      BY <1>1 DEF scores
    <3> QED
      BY <2>2, <3>1, <3>2, LargestExists DEF Max
  <2> QED
    BY <2>2, <2>4
<1>8. \A x \in S : raw[x] \in Nat /\ raw[x] <= P
  BY <1>2, <1>4, <1>5, <1>7, Dividing
<1>9. \A x, y \in S : score[x] >= score[y] => raw[x] >= raw[y]
  BY <1>2, <1>4, <1>5, <1>7, Dividing
<1>10. /\ DOMAIN large \subseteq S
       /\ \A x \in DOMAIN large : large[x] = raw[x] /\ raw[x] >= MinPosition
       /\ \A x \in S : raw[x] >= MinPosition => x \in DOMAIN large
  BY <1>3
<1>11. \A x \in DOMAIN large : large[x] \in Nat /\ large[x] <= P
  BY <1>8, <1>10
<1>12. ASSUME NEW x \in S, NEW y \in DOMAIN large, score[x] >= score[y]
       PROVE  x \in DOMAIN large /\ large[x] >= large[y]
  <2>1. raw[x] >= raw[y] /\ raw[x] \in Nat /\ raw[y] \in Nat
    BY <1>8, <1>9, <1>10, <1>12
  <2>2. raw[x] >= MinPosition
    BY <1>10, <2>1 DEF MinPosition
  <2> QED
    BY <1>10, <2>1, <2>2
<1>13. IsFiniteSet(DOMAIN large)
  BY <1>10, FS_Subset
<1>14. CASE SumFunction(large) <= B
  <2>1. Sizes(score, cold) = large
    BY <1>6, <1>14
  <2> QED
    BY <1>4, <1>10, <1>11, <1>12, <1>14, <2>1 DEF FairBook
<1>15. CASE ~(SumFunction(large) <= B)
  <2>1. PICK T : T = SumFunction(large)
    OBVIOUS
  <2>2. PICK sizes : sizes = [x \in DOMAIN large |-> (large[x] * B) \div T]
    OBVIOUS
  <2>3. Sizes(score, cold) = sizes
    BY <1>6, <1>15, <2>1, <2>2
  <2>4. T \in Int /\ T = SumFunctionOnSet(large, DOMAIN large)
    BY <1>11, <1>13, <2>1, SumIsInt DEF SumFunction
  <2>5. T \in Nat /\ T > 0 /\ B <= T
    BY <1>5, <1>15, <2>1, <2>4
  <2>6. \A x \in DOMAIN large : /\ sizes[x] \in Nat /\ sizes[x] <= large[x]
                               /\ T * sizes[x] <= B * large[x]
    BY <1>5, <1>11, <2>2, <2>5, Dividing
  <2>7. SumFunction(sizes) <= B
    <3> DEFINE D == DOMAIN large
    <3>1. DOMAIN sizes = D
      BY <2>2
    <3>2. \A x \in D : sizes[x] \in Int /\ large[x] \in Int /\ T * sizes[x] <= B * large[x]
      BY <1>11, <2>6
    <3>3. IsFiniteSet(D) /\ T \in Int /\ B \in Int
      BY <1>5, <1>13, <2>4
    <3> HIDE DEF D
    <3>4. T * SumFunctionOnSet(sizes, D) <= B * SumFunctionOnSet(large, D)
      BY <3>2, <3>3, SumsInProportion
    <3>5. SumFunctionOnSet(sizes, D) \in Int
      BY <3>2, <3>3, SumIsInt
    <3>6. SumFunctionOnSet(large, D) = T
      BY <2>4 DEF D
    <3>7. \A a \in Int : T * a <= B * T => a <= B
      BY <1>5, <2>5
    <3> QED
      BY <3>1, <3>4, <3>5, <3>6, <3>7 DEF SumFunction
  <2>8. ASSUME NEW x \in S, NEW y \in DOMAIN sizes, score[x] >= score[y]
        PROVE  x \in DOMAIN sizes /\ sizes[x] >= sizes[y]
    <3>1. x \in DOMAIN large /\ y \in DOMAIN large /\ large[x] >= large[y]
      BY <1>12, <2>2, <2>8
    <3> QED
      BY <1>5, <1>11, <2>2, <2>5, <3>1, Dividing
  <2>9. DOMAIN sizes \subseteq S /\ \A x \in DOMAIN sizes : sizes[x] \in Nat /\ sizes[x] <= P
    <3>1. DOMAIN sizes = DOMAIN large
      BY <2>2
    <3>2. \A a, b, c \in Nat : a <= b /\ b <= c => a <= c
      OBVIOUS
    <3> QED
      BY <1>5, <1>10, <1>11, <2>6, <3>1, <3>2
  <2> QED
    BY <1>4, <2>3, <2>7, <2>8, <2>9 DEF FairBook
<1> QED
  BY <1>14, <1>15

(* What the specialists say is scored in natural numbers.                   *)
LEMMA ScoresTyped ==
  ASSUME FilesTyped
  PROVE  /\ IsFiniteSet(Scored(decisions, lessons.stats))
         /\ \A x \in Scored(decisions, lessons.stats) :
              Score(decisions, lessons.stats, x[1], x[2]) \in Nat \ {0}
<1>1. IsFiniteSet(Specialist \X Mint)
  BY AllocationAssumption, FS_Product
<1>2. IsFiniteSet(Scored(decisions, lessons.stats))
  BY <1>1, FS_Subset DEF Scored
<1>3. ASSUME NEW x \in Scored(decisions, lessons.stats)
      PROVE  Score(decisions, lessons.stats, x[1], x[2]) \in Nat \ {0}
  <2>1. x[1] \in Specialist /\ x[2] \in Mint /\ decisions[x[1]][x[2]] # Absent
        /\ Score(decisions, lessons.stats, x[1], x[2]) > 0
    BY DEF Scored
  <2>2. decisions[x[1]][x[2]] \in Conviction
    BY <2>1 DEF FilesTyped, TypeOK
  <2>3. ConvictionPct[decisions[x[1]][x[2]]] \in Nat
    BY <2>2 DEF Conviction, ConvictionPct
  <2>4. lessons.stats[x[1]] \in Stats
    BY <2>1 DEF FilesTyped, TypeOK, Lessons
  <2>5. Weight(lessons.stats[x[1]]) \in Nat
    BY <2>4 DEF Weight, Larger, Stats
  <2>6. PICK w \in Nat, c \in Nat : w = Weight(lessons.stats[x[1]])
                                    /\ c = ConvictionPct[decisions[x[1]][x[2]]]
    BY <2>3, <2>5
  <2>7. PICK bonus \in Nat : bonus = IF Converging(decisions, x[2]) >= 2 THEN 10 ELSE 0
    OBVIOUS
  <2>8. Score(decisions, lessons.stats, x[1], x[2]) = (w * c) \div 100 + bonus
    BY <2>6, <2>7 DEF Score
  <2>9. (w * c) \div 100 \in Nat
    BY Dividing
  <2> QED
    BY <2>1, <2>8, <2>9
<1> QED
  BY <1>2, <1>3

(* Whatever the statistics and whatever the specialists say: what the fund  *)
(* manager is told to buy fits the book and every position its limit, and   *)
(* the better score never gets less.                                        *)
THEOREM BookFits == Spec => []BookIsFair
<1>1. ASSUME FilesTyped PROVE BookIsFair
  <2>1. PICK S : S = Scored(decisions, lessons.stats)
    OBVIOUS
  <2>2. PICK score : score = [x \in S |-> Score(decisions, lessons.stats, x[1], x[2])]
    OBVIOUS
  <2>3. PICK cold \in BOOLEAN : cold = IsColdTotal(lessons.total)
    <3>1. IsColdTotal(lessons.total) \in BOOLEAN
      BY DEF IsColdTotal
    <3> QED
      BY <3>1, Zenon
  <2>4. PICK sizes : sizes = Allocation(decisions, lessons.stats, lessons.total)
    OBVIOUS
  <2>5. sizes = Sizes(score, cold)
    BY <2>1, <2>2, <2>3, <2>4 DEF Allocation
  <2>6. IsFiniteSet(S) /\ score \in [S -> Nat \ {0}]
    BY <1>1, <2>1, <2>2, ScoresTyped
  <2>7. FairBook(sizes, score, S, cold)
    BY <2>5, <2>6, SizesAreFair
  <2>8. PICK size : size = [x \in S |-> IF x \in DOMAIN sizes THEN sizes[x] ELSE 0]
    OBVIOUS
  <2>9. ASSUME NEW x \in S, NEW y \in S, score[x] >= score[y]
        PROVE  size[x] >= size[y]
    <3>1. CASE y \in DOMAIN sizes
      BY <2>7, <2>8, <2>9, <3>1 DEF FairBook
    <3>2. CASE y \notin DOMAIN sizes
      <4>1. size[y] = 0 /\ size[x] \in Nat
        BY <2>7, <2>8, <3>2 DEF FairBook
      <4> QED
        BY <4>1
    <3> QED
      BY <3>1, <3>2
  <2> QED
    BY <2>1, <2>2, <2>3, <2>4, <2>7, <2>8, <2>9, Zenon DEF BookIsFair, FairBook
<1> QED
  BY <1>1, FilesInit, FilesNext, PTL DEF Spec
=============================================================================
