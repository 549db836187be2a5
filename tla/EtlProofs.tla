------------------------------ MODULE EtlProofs ------------------------------
(***************************************************************************)
(* Proofs about the bootstrap, whatever the tokens, the batches and the    *)
(* crashes.                                                                *)
(*                                                                         *)
(* First, that it pays for no execution twice.  What makes the bound       *)
(* inductive is that a program only writes a file that is not there: it    *)
(* looked for the file before it queried, and the other program's files    *)
(* have other names.                                                       *)
(*                                                                         *)
(* Then, that the data is what it should be, where every run has the same  *)
(* sample size.  The inductive invariant says what is in the files and     *)
(* what a program has of them: the list, once it is on file, fixes the     *)
(* sample, the sample the batches, and a batch what Dune says of it.       *)
(***************************************************************************)
EXTENDS EtlProps, SetLemmas, TLAPS

(* The parts of a program's state that say which file it is at.             *)
IsState(r) ==
  /\ {"pc", "stage", "batch", "answer"} \subseteq DOMAIN r
  /\ r.pc \in {"idle", "query", "write"} /\ r.stage \in Nat \ {0}

Programs ==
  /\ proc = [p \in Program |-> proc[p]]
  /\ \A p \in Program : IsState(proc[p])

Answered == {c \in DOMAIN cache : cache[c].kind = "rows"}
Writing == {p \in Program : proc[p].pc = "write" /\ proc[p].answer.kind = "rows"}

(* Nobody writes a file that is there.                                      *)
WritesAreFresh == \A p \in Program : proc[p].pc = "write" => CellOf(p) \notin DOMAIN cache

IInv ==
  /\ Programs
  /\ IsFiniteSet(DOMAIN cache)
  /\ WritesAreFresh
  /\ spent \in Nat /\ faults \in Nat
  /\ CreditsBounded

-----------------------------------------------------------------------------
(* What the steps make of a program's state. *)

LEMMA StoppedIsState == IsState(Stopped) /\ Stopped.pc = "idle"
  BY DEF IsState, Stopped

LEMMA NextBatchIsState ==
  ASSUME NEW r, IsState(r), NEW stage, NEW rows
  PROVE  IsState(NextBatch(r, stage, rows)) /\ NextBatch(r, stage, rows).pc = "query"
  BY DEF IsState, NextBatch

LEMMA NextStageIsState ==
  ASSUME NEW r, IsState(r)
  PROVE  IsState(NextStage(r)) /\ NextStage(r).pc = r.pc
  BY DEF IsState, NextStage

-----------------------------------------------------------------------------
(* Files. *)

(* The programs' files are of different days: the first one's, of none.     *)
LEMMA OwnFiles ==
  ASSUME Programs, NEW p \in Program, NEW q \in Program, p # q
  PROVE  CellOf(p) # CellOf(q)
<1>1. CellOf("etl")[1][2] = 0
  BY DEF CellOf, StageOf, Stage
<1>2. CellOf("snapshots")[1][2] # 0
  BY DEF CellOf, StageOf, Stage, Programs, IsState, Program
<1>3. QED
  BY <1>1, <1>2 DEF Program

LEMMA AddedFile ==
  ASSUME NEW cell, NEW file, IsFiniteSet(DOMAIN cache), cell \notin DOMAIN cache,
         cache' = With(cell, file)
  PROVE  /\ DOMAIN cache' = DOMAIN cache \cup {cell}
         /\ IsFiniteSet(DOMAIN cache')
         /\ file.kind = "rows" => Answered' = Answered \cup {cell}
         /\ file.kind # "rows" => Answered' = Answered
<1>1. DOMAIN cache' = DOMAIN cache \cup {cell}
  BY DEF With
<1>2. cache'[cell] = file /\ \A c \in DOMAIN cache : cache'[c] = cache[c]
  BY DEF With
<1>3. IsFiniteSet(DOMAIN cache')
  BY <1>1, FS_AddElement
<1>4. QED
  BY <1>1, <1>2, <1>3 DEF Answered

LEMMA Counts ==
  ASSUME IsFiniteSet(DOMAIN cache)
  PROVE  /\ IsFiniteSet(Answered) /\ Cardinality(Answered) \in Nat
         /\ IsFiniteSet(Writing) /\ Cardinality(Writing) \in Nat
<1>1. IsFiniteSet(Answered)
  BY FS_Subset DEF Answered
<1>2. IsFiniteSet({"etl"}) /\ {"etl"} \cup {"snapshots"} = Program
  BY FS_Singleton DEF Program
<1>3. IsFiniteSet(Program)
  BY <1>2, FS_AddElement
<1>4. IsFiniteSet(Writing)
  BY <1>3, FS_Subset DEF Writing
<1>5. QED
  BY <1>1, <1>4, FS_CardinalityType

LEMMA CreditsCounted ==
  CreditsBounded <=> spent <= Cardinality(Answered) + faults + Cardinality(Writing)
  BY DEF CreditsBounded, Answered, Writing

-----------------------------------------------------------------------------
(* A step of one program. *)

LEMMA OneProgram ==
  ASSUME Programs, NEW p \in Program, NEW r, IsState(r), Goes(p, r)
  PROVE  /\ Programs'
         /\ proc'[p] = r
         /\ \A q \in Program : q # p => proc'[q] = proc[q] /\ CellOf(q)' = CellOf(q)
         /\ r.pc # "write" \/ r.answer.kind # "rows" => Writing' = Writing \ {p}
         /\ r.pc = "write" /\ r.answer.kind = "rows" => Writing' = Writing \cup {p}
<1>1. proc'[p] = r /\ \A q \in Program : q # p => proc'[q] = proc[q]
  BY DEF Programs, Goes
<1>2. Programs'
  BY <1>1 DEF Programs, Goes
<1>3. \A q \in Program : q # p => CellOf(q)' = CellOf(q)
  BY <1>1 DEF CellOf, StageOf
<1>4. QED
  BY <1>1, <1>2, <1>3 DEF Writing

(* A step that pays for nothing, writes nothing and was not about to.       *)
LEMMA QuietStep ==
  ASSUME IInv, NEW p \in Program, NEW r, IsState(r), r.pc # "write", proc[p].pc # "write",
         Goes(p, r), UNCHANGED <<cache, spent, faults>>
  PROVE  IInv'
<1>1. Programs' /\ Writing' = Writing \ {p}
      /\ proc'[p] = r
      /\ \A q \in Program : q # p => proc'[q] = proc[q] /\ CellOf(q)' = CellOf(q)
  BY OneProgram DEF IInv
<1>2. Writing' = Writing
  BY <1>1 DEF Writing
<1>3. WritesAreFresh'
  BY <1>1 DEF IInv, WritesAreFresh
<1>4. Answered' = Answered
  BY DEF Answered
<1>5. CreditsBounded'
  <2>0. CreditsBounded' <=> spent' <= Cardinality(Answered') + faults' + Cardinality(Writing')
    BY DEF CreditsBounded, Answered, Writing
  <2>1. QED
    BY <1>2, <1>4, CreditsCounted, <2>0 DEF IInv
<1>6. QED
  BY <1>1, <1>3, <1>5 DEF IInv

(* A fault, which may leave a file that is no answer, and may waste what    *)
(* was just paid for.                                                       *)
LEMMA FaultyStep ==
  ASSUME IInv, NEW p \in Program, NEW r, IsState(r), r.pc # "write",
         Goes(p, r), faults' = faults + 1,
         spent' = spent \/ (spent' = spent + 1 /\ proc[p].pc # "write"),
         \/ UNCHANGED cache
         \/ /\ CellOf(p) \notin DOMAIN cache
            /\ \E file : cache' = With(CellOf(p), file) /\ file.kind # "rows"
  PROVE  IInv'
<1>1. Programs' /\ Writing' = Writing \ {p}
      /\ proc'[p] = r
      /\ \A q \in Program : q # p => proc'[q] = proc[q] /\ CellOf(q)' = CellOf(q)
  BY OneProgram DEF IInv
<1>2. /\ IsFiniteSet(DOMAIN cache') /\ Answered' = Answered
      /\ DOMAIN cache' \subseteq DOMAIN cache \cup {CellOf(p)}
  <2>1. CASE UNCHANGED cache
    BY <2>1 DEF IInv, Answered
  <2>2. CASE ~UNCHANGED cache
    <3>1. PICK file : cache' = With(CellOf(p), file) /\ file.kind # "rows"
      BY <2>2
    <3>2. CellOf(p) \notin DOMAIN cache /\ IsFiniteSet(DOMAIN cache)
      BY <2>2 DEF IInv
    <3>3. QED
      BY <3>1, <3>2, AddedFile
  <2>3. QED
    BY <2>1, <2>2
<1>3. WritesAreFresh'
  <2>1. ASSUME NEW q \in Program, proc'[q].pc = "write"
        PROVE  CellOf(q)' \notin DOMAIN cache'
    <3>1. q # p /\ CellOf(q)' = CellOf(q) /\ CellOf(q) \notin DOMAIN cache
      BY <1>1, <2>1 DEF IInv, WritesAreFresh
    <3>2. CellOf(q) # CellOf(p)
      BY <3>1, OwnFiles DEF IInv
    <3>3. QED
      BY <1>2, <3>1, <3>2
  <2>2. QED
    BY <2>1 DEF WritesAreFresh
<1>4. CreditsBounded'
  <2>0. CreditsBounded' <=> spent' <= Cardinality(Answered') + faults' + Cardinality(Writing')
    BY DEF CreditsBounded, Answered, Writing
  <2>1. Cardinality(Writing) <= Cardinality(Writing') + 1
        /\ Cardinality(Writing) \in Nat /\ Cardinality(Writing') \in Int
        /\ Cardinality(Answered) \in Nat
    <3>1. IsFiniteSet(Writing) /\ Cardinality(Writing) \in Nat /\ Cardinality(Answered) \in Nat
      BY Counts DEF IInv
    <3>2. Cardinality(Writing \ {p}) =
            IF p \in Writing THEN Cardinality(Writing) - 1 ELSE Cardinality(Writing)
      BY <3>1, FS_RemoveElement
    <3>3. Writing' = Writing \ {p}
      BY <1>1
    <3>4. QED
      BY <3>1, <3>2, <3>3
  <2>2. CASE spent' = spent
    BY <1>2, <2>1, <2>2, CreditsCounted, <2>0 DEF IInv
  <2>3. CASE spent' = spent + 1 /\ proc[p].pc # "write"
    <3>1. Writing' = Writing
      BY <1>1, <2>3 DEF Writing
    <3>2. QED
      BY <1>2, <2>1, <2>3, <3>1, CreditsCounted, <2>0 DEF IInv
  <2>4. QED
    BY <2>2, <2>3
<1>5. faults' \in Nat /\ spent' \in Nat
  BY DEF IInv
<1>6. QED
  BY <1>1, <1>2, <1>3, <1>4, <1>5 DEF IInv

-----------------------------------------------------------------------------
(* The steps. *)

LEMMA QueryStep ==
  ASSUME IInv, NEW p \in Program, Query(p)
  PROVE  IInv'
<1>1. CellOf(p) \notin DOMAIN cache /\ proc[p].pc = "query" /\ IsState(proc[p])
  BY DEF Query, Cached, IInv, Programs
<1>2. ASSUME NEW r, r.pc = "write", r.stage = proc[p].stage, r.batch = proc[p].batch,
             IsState(r), Goes(p, r), UNCHANGED cache
      PROVE  /\ Programs' /\ proc'[p] = r /\ WritesAreFresh' /\ Answered' = Answered
             /\ r.answer.kind = "rows" => Writing' = Writing \cup {p}
             /\ r.answer.kind # "rows" => Writing' = Writing
  <2>1. /\ Programs' /\ proc'[p] = r
        /\ \A q \in Program : q # p => proc'[q] = proc[q] /\ CellOf(q)' = CellOf(q)
        /\ r.answer.kind = "rows" => Writing' = Writing \cup {p}
        /\ r.answer.kind # "rows" => Writing' = Writing \ {p}
    BY <1>2, OneProgram DEF IInv
  <2>2. CellOf(p)' = CellOf(p)
    BY <1>2, <2>1 DEF CellOf, StageOf
  <2>3. WritesAreFresh'
    BY <1>1, <1>2, <2>1, <2>2 DEF IInv, WritesAreFresh
  <2>4. p \notin Writing
    BY <1>1 DEF Writing
  <2>5. Answered' = Answered
    BY <1>2 DEF Answered
  <2> QED
    BY <2>1, <2>3, <2>4, <2>5
<1>0. CreditsBounded' <=> spent' <= Cardinality(Answered') + faults' + Cardinality(Writing')
  BY DEF CreditsBounded, Answered, Writing
<1>3. CASE \E r : /\ IsState(r) /\ r.pc = "write" /\ r.answer.kind = "rows"
                  /\ r.stage = proc[p].stage /\ r.batch = proc[p].batch
                  /\ Goes(p, r) /\ spent' = spent + 1 /\ UNCHANGED <<cache, faults>>
  <2>1. /\ Programs' /\ WritesAreFresh' /\ Answered' = Answered /\ Writing' = Writing \cup {p}
        /\ spent' = spent + 1 /\ UNCHANGED <<cache, faults>>
    BY <1>2, <1>3
  <2>2. Cardinality(Writing') = Cardinality(Writing) + 1
    <3>1. p \notin Writing /\ IsFiniteSet(Writing)
      BY <1>1, Counts DEF Writing, IInv
    <3>2. QED
      BY <2>1, <3>1, FS_AddElement
  <2>3. CreditsBounded' /\ spent' \in Nat /\ faults' \in Nat
    BY <1>0, <2>1, <2>2, Counts, CreditsCounted DEF IInv
  <2>4. QED
    BY <2>1, <2>3 DEF IInv
<1>4. CASE \E r : /\ IsState(r) /\ r.pc = "write" /\ r.answer.kind # "rows"
                  /\ r.stage = proc[p].stage /\ r.batch = proc[p].batch
                  /\ Goes(p, r) /\ faults' = faults + 1 /\ UNCHANGED <<cache, spent>>
  <2>1. /\ Programs' /\ WritesAreFresh' /\ Answered' = Answered /\ Writing' = Writing
        /\ faults' = faults + 1 /\ UNCHANGED <<cache, spent>>
    BY <1>2, <1>4
  <2>2. CreditsBounded' /\ spent' \in Nat /\ faults' \in Nat
    BY <1>0, <2>1, Counts, CreditsCounted DEF IInv
  <2>3. QED
    BY <2>1, <2>2 DEF IInv
<1>5. CASE faults' = faults + 1 /\ Stops(p) /\ spent' \in {spent, spent + 1} /\ UNCHANGED cache
  BY <1>1, <1>5, StoppedIsState, FaultyStep DEF Stops
<1>6. CASE /\ Goes(p, [proc[p] EXCEPT
                     !.pc = "write",
                     !.answer = [kind |-> "rows", rows |-> Answer(StageOf(p), BatchOf(p), now)]])
           /\ spent' = spent + 1 /\ UNCHANGED <<cache, faults>>
  <2>1. PICK file : file = [kind |-> "rows", rows |-> Answer(StageOf(p), BatchOf(p), now)]
    OBVIOUS
  <2>2. PICK r : r = [proc[p] EXCEPT !.pc = "write", !.answer = file]
    OBVIOUS
  <2>3. /\ IsState(r) /\ r.pc = "write" /\ r.answer = file /\ file.kind = "rows"
        /\ r.stage = proc[p].stage /\ r.batch = proc[p].batch
    BY <1>1, <2>1, <2>2 DEF IsState
  <2>4. QED
    BY <1>3, <1>6, <2>1, <2>2, <2>3
<1>7. CASE /\ Goes(p, [proc[p] EXCEPT !.pc = "write",
                                      !.answer = [kind |-> "timed_out", rows |-> {}]])
           /\ faults' = faults + 1 /\ UNCHANGED <<cache, spent>>
  <2>1. PICK file : file = [kind |-> "timed_out", rows |-> {}]
    OBVIOUS
  <2>2. PICK r : r = [proc[p] EXCEPT !.pc = "write", !.answer = file]
    OBVIOUS
  <2>3. /\ IsState(r) /\ r.pc = "write" /\ r.answer = file /\ file.kind # "rows"
        /\ r.stage = proc[p].stage /\ r.batch = proc[p].batch
    BY <1>1, <2>1, <2>2 DEF IsState
  <2>4. QED
    BY <1>4, <1>7, <2>1, <2>2, <2>3
<1>8. QED
  BY <1>5, <1>6, <1>7 DEF Query

LEMMA WriteCacheStep ==
  ASSUME IInv, NEW p \in Program, WriteCache(p)
  PROVE  IInv'
<1> DEFINE file == proc[p].answer
           r == NextBatch(proc[p], StageOf(p), proc[p].answer.rows)
<1>1. /\ proc[p].pc = "write" /\ cache' = With(CellOf(p), file)
      /\ file.kind = "rows" <=> p \in Writing
      /\ Goes(p, r) /\ UNCHANGED <<spent, faults>>
  BY DEF WriteCache, Writing
<1>2. IsState(r) /\ r.pc # "write"
  BY NextBatchIsState DEF IInv, Programs
<1> HIDE DEF file, r
<1>3. CellOf(p) \notin DOMAIN cache /\ IsFiniteSet(DOMAIN cache)
  BY <1>1 DEF IInv, WritesAreFresh
<1>4. /\ Programs' /\ Writing' = Writing \ {p}
      /\ proc'[p] = r
      /\ \A q \in Program : q # p => proc'[q] = proc[q] /\ CellOf(q)' = CellOf(q)
  BY <1>1, <1>2, OneProgram DEF IInv
<1>5. /\ DOMAIN cache' = DOMAIN cache \cup {CellOf(p)} /\ IsFiniteSet(DOMAIN cache')
      /\ p \in Writing => Answered' = Answered \cup {CellOf(p)}
      /\ p \notin Writing => Answered' = Answered
  BY <1>1, <1>3, AddedFile
<1>6. WritesAreFresh'
  <2>1. ASSUME NEW q \in Program, proc'[q].pc = "write"
        PROVE  CellOf(q)' \notin DOMAIN cache'
    <3>1. q # p /\ CellOf(q)' = CellOf(q) /\ CellOf(q) \notin DOMAIN cache
      BY <1>2, <1>4, <2>1 DEF IInv, WritesAreFresh
    <3>2. CellOf(q) # CellOf(p)
      BY <3>1, OwnFiles DEF IInv
    <3>3. QED
      BY <1>5, <3>1, <3>2
  <2>2. QED
    BY <2>1 DEF WritesAreFresh
<1>7. CreditsBounded'
  <2>0. CreditsBounded' <=> spent' <= Cardinality(Answered') + faults' + Cardinality(Writing')
    BY DEF CreditsBounded, Answered, Writing
  <2>1. CASE p \in Writing
    <3>1. CellOf(p) \notin Answered
      BY <1>3 DEF Answered
    <3>2. Cardinality(Answered') = Cardinality(Answered) + 1
      BY <1>3, <1>5, <2>1, <3>1, Counts, FS_AddElement
    <3>3. Cardinality(Writing') = Cardinality(Writing) - 1
      BY <1>3, <1>4, <2>1, Counts, FS_RemoveElement
    <3>4. QED
      BY <1>1, <1>3, <3>2, <3>3, Counts, CreditsCounted, <2>0 DEF IInv
  <2>2. CASE p \notin Writing
    <3>1. Writing' = Writing /\ Answered' = Answered
      BY <1>4, <1>5, <2>2
    <3>2. QED
      BY <1>1, <3>1, CreditsCounted, <2>0 DEF IInv
  <2>3. QED
    BY <2>1, <2>2
<1>8. QED
  BY <1>1, <1>4, <1>5, <1>6, <1>7 DEF IInv

LEMMA CrashStep ==
  ASSUME IInv, NEW p \in Program, Crash(p)
  PROVE  IInv'
<1>1. \/ UNCHANGED cache
      \/ /\ CellOf(p) \notin DOMAIN cache
         /\ \E file : cache' = With(CellOf(p), file) /\ file.kind # "rows"
  <2>1. CASE UNCHANGED cache
    BY <2>1
  <2>2. CASE /\ proc[p].pc = "write"
             /\ cache' = With(CellOf(p), Torn)
    <3>1. \E file : cache' = With(CellOf(p), file) /\ file.kind # "rows"
      BY <2>2 DEF Torn
    <3>2. CellOf(p) \notin DOMAIN cache
      BY <2>2 DEF IInv, WritesAreFresh
    <3>3. QED
      BY <3>1, <3>2
  <2>3. QED
    BY <2>1, <2>2 DEF Crash
<1>2. QED
  BY <1>1, StoppedIsState, FaultyStep DEF Crash, Stops

LEMMA ReadCacheStep ==
  ASSUME IInv, NEW p \in Program, ReadCache(p)
  PROVE  IInv'
<1>1. proc[p].pc = "query" /\ UNCHANGED <<cache, spent, faults>>
  BY DEF ReadCache
<1>2. CASE Stops(p)
  BY <1>1, <1>2, StoppedIsState, QuietStep DEF Stops
<1>3. CASE Goes(p, NextBatch(proc[p], StageOf(p), cache[CellOf(p)].rows))
  <2>1. IsState(NextBatch(proc[p], StageOf(p), cache[CellOf(p)].rows))
        /\ NextBatch(proc[p], StageOf(p), cache[CellOf(p)].rows).pc # "write"
    BY NextBatchIsState DEF IInv, Programs
  <2>2. QED
    BY <1>1, <1>3, <2>1, QuietStep
<1>4. QED
  BY <1>2, <1>3 DEF ReadCache

(* Starting, and going on from one stage to the next.                       *)
LEMMA StageStep ==
  ASSUME IInv,
         \/ \E size \in SampleSizes, skip \in Skips : StartEtl(size, skip)
         \/ StartSnapshots \/ InsertSnapshots \/ RunEtl
  PROVE  IInv'
<1>1. "etl" \in Program /\ "snapshots" \in Program /\ IsState(proc["etl"]) /\ IsState(proc["snapshots"])
  BY DEF Program, IInv, Programs
<1>2. ASSUME NEW size, NEW skip, StartEtl(size, skip) PROVE IInv'
  <2> DEFINE r == [Stopped EXCEPT !.pc = "query", !.size = size, !.skip = skip]
  <2>1. IsState(r) /\ r.pc = "query"
    BY DEF IsState, Stopped
  <2>2. Goes("etl", r) /\ proc["etl"].pc = "idle" /\ UNCHANGED <<cache, spent, faults>>
    BY <1>2 DEF StartEtl
  <2> HIDE DEF r
  <2>3. QED
    BY <1>1, <2>1, <2>2, QuietStep
<1>3. CASE StartSnapshots
  <2> DEFINE r == [Stopped EXCEPT !.pc = "query", !.todo = DOMAIN table]
  <2>1. IsState(r) /\ r.pc = "query"
    BY DEF IsState, Stopped
  <2>2. Goes("snapshots", r) /\ proc["snapshots"].pc = "idle" /\ UNCHANGED <<cache, spent, faults>>
    BY <1>3 DEF StartSnapshots
  <2> HIDE DEF r
  <2>3. QED
    BY <1>1, <2>1, <2>2, QuietStep
<1>4. CASE InsertSnapshots
  <2> DEFINE r == [proc["snapshots"] EXCEPT !.got = NoRows]
  <2>1. /\ proc["snapshots"].pc = "query" /\ UNCHANGED <<cache, spent, faults>>
        /\ Goes("snapshots", NextStage(r)) \/ Stops("snapshots")
    BY <1>4 DEF InsertSnapshots
  <2>2. IsState(r) /\ r.pc = proc["snapshots"].pc
    BY <1>1 DEF IsState
  <2> HIDE DEF r
  <2>3. IsState(NextStage(r)) /\ NextStage(r).pc = "query"
    BY <2>1, <2>2, NextStageIsState
  <2>4. QED
    BY <1>1, <2>1, <2>3, StoppedIsState, QuietStep DEF Stops
<1>5. CASE RunEtl
  <2> DEFINE r(todo) == [proc["etl"] EXCEPT !.todo = todo]
  <2>1. /\ proc["etl"].pc = "query" /\ UNCHANGED <<cache, spent, faults>>
        /\ \/ Stops("etl") \/ Goes("etl", NextStage(proc["etl"]))
           \/ \E todo : Goes("etl", NextStage(r(todo)))
    <3>1. CASE TakeSample
      BY <3>1 DEF TakeSample
    <3>2. CASE EndStage
      BY <3>2 DEF EndStage
    <3>3. CASE LoadRecords
      BY <3>3 DEF LoadRecords
    <3>4. QED
      BY <1>5, <3>1, <3>2, <3>3 DEF RunEtl
  <2>2. ASSUME NEW todo PROVE IsState(r(todo)) /\ r(todo).pc = proc["etl"].pc
    BY <1>1 DEF IsState
  <2> HIDE DEF r
  <2>3. CASE Stops("etl")
    BY <1>1, <2>1, <2>3, StoppedIsState, QuietStep DEF Stops
  <2>4. CASE Goes("etl", NextStage(proc["etl"]))
    BY <1>1, <2>1, <2>4, NextStageIsState, QuietStep
  <2>5. ASSUME NEW todo, Goes("etl", NextStage(r(todo))) PROVE IInv'
    BY <1>1, <2>1, <2>2, <2>5, NextStageIsState, QuietStep
  <2>6. QED
    BY <2>1, <2>3, <2>4, <2>5
<1>6. QED
  BY <1>2, <1>3, <1>4, <1>5

LEMMA Stutters ==
  ASSUME IInv, UNCHANGED <<cache, proc, spent, faults>>
  PROVE  IInv'
<1>1. CreditsBounded' /\ WritesAreFresh' /\ Programs'
  BY DEF IInv, CreditsBounded, WritesAreFresh, CellOf, StageOf, Programs
<1>2. QED
  BY <1>1 DEF IInv

-----------------------------------------------------------------------------
(* The bound on the credits. *)

LEMMA IInvInit == Init => IInv
<1> SUFFICES ASSUME Init PROVE IInv
  OBVIOUS
<1>1. proc = [p \in Program |-> Stopped] /\ spent = 0 /\ faults = 0 /\ DOMAIN cache = {}
  BY DEF Init
<1>2. Programs /\ \A p \in Program : proc[p].pc = "idle"
  BY <1>1, StoppedIsState DEF Programs
<1>3. IsFiniteSet(DOMAIN cache) /\ WritesAreFresh
  BY <1>1, <1>2, FS_EmptySet DEF WritesAreFresh
<1>4. CreditsBounded
  BY <1>1, <1>3, Counts, CreditsCounted
<1>5. QED
  BY <1>1, <1>2, <1>3, <1>4 DEF IInv

LEMMA IInvNext == IInv /\ [Next]_vars => IInv'
<1> SUFFICES ASSUME IInv, [Next]_vars PROVE IInv'
  OBVIOUS
<1>1. CASE \/ \E size \in SampleSizes, skip \in Skips : StartEtl(size, skip)
           \/ StartSnapshots \/ InsertSnapshots \/ RunEtl
  BY <1>1, StageStep
<1>2. ASSUME NEW p \in Program, Batch(p) \/ Crash(p) PROVE IInv'
  BY <1>2, ReadCacheStep, QueryStep, WriteCacheStep, CrashStep DEF Batch
<1>3. CASE TimePasses \/ UNCHANGED vars
  BY <1>3, Stutters DEF TimePasses, vars
<1>4. QED
  BY <1>1, <1>2, <1>3 DEF Next

(* For any tokens, batches and crashes: an execution that Dune completed is *)
(* in the cache, or a fault stands for it, or its program is about to write *)
(* it.                                                                      *)
THEOREM NothingIsPaidTwice == Spec => []CreditsBounded
<1>1. IInv => CreditsBounded
  BY DEF IInv
<1>2. QED
  BY <1>1, IInvInit, IInvNext, PTL DEF Spec
-----------------------------------------------------------------------------
(* Shares, batches and the sample. *)

LEMMA Division ==
  ASSUME NEW n \in Nat, NEW k \in Nat \ {0}
  PROVE  /\ n \div k \in Nat /\ k * (n \div k) \in Nat /\ n % k \in 0 .. k - 1
         /\ k * (n \div k) <= n /\ n < k * (n \div k) + k
         /\ n % k = n - k * (n \div k)
OBVIOUS

LEMMA Product ==
  \A a, b, k \in Nat : /\ a * k \in Nat /\ k * a = a * k
                       /\ (a < b => a * k + k <= b * k) /\ (k * a < k * b => a < b)
<1> SUFFICES ASSUME NEW a \in Nat, NEW b \in Nat, NEW k \in Nat
             PROVE  /\ a * k \in Nat /\ k * a = a * k
                    /\ (a < b => a * k + k <= b * k) /\ (k * a < k * b => a < b)
  OBVIOUS
<1>1. a * k \in Nat /\ k * a = a * k
  OBVIOUS
<1>2. a < b => a * k + k <= b * k
  <2> SUFFICES ASSUME a < b PROVE a * k + k <= b * k
    OBVIOUS
  <2>1. (b - a) - 1 \in Nat
    OBVIOUS
  <2>2. ((b - a) - 1) * k \in Nat
    BY <2>1
  <2>3. b * k = (a * k + k) + ((b - a) - 1) * k
    OBVIOUS
  <2> QED
    BY <2>2, <2>3
<1>3. k * a < k * b => a < b
  <2> SUFFICES ASSUME k * a < k * b, b <= a PROVE FALSE
    OBVIOUS
  <2>1. (a - b) * k \in Nat
    OBVIOUS
  <2>2. k * a = k * b + (a - b) * k
    OBVIOUS
  <2> QED
    BY <2>1, <2>2
<1> QED
  BY <1>1, <1>2, <1>3

(* Every member of a set is in one batch of it.                             *)
LEMMA BatchesCover ==
  ASSUME NEW S, IsFiniteSet(S), NEW rank, \A x \in S : rank[x] \in Int,
         NEW size \in Nat \ {0}, NEW B, B = Batched(S, rank, size)
  PROVE  /\ Len(B) \in Nat /\ DOMAIN B = 1 .. Len(B)
         /\ \A b \in DOMAIN B : B[b] \subseteq S
         /\ \A t \in S : \E b \in DOMAIN B : t \in B[b]
         /\ \A b, c \in DOMAIN B : \A t : t \in B[b] /\ t \in B[c] => b = c
<1>1. PICK N : N = Cardinality(S)
  OBVIOUS
<1>2. N \in Nat
  BY <1>1, FS_CardinalityType
<1>3. PICK n : n = (N + size - 1) \div size
  OBVIOUS
<1>4. n \in Nat /\ N + size - 1 < size * n + size /\ size * n \in Nat
  <2>1. PICK m \in Nat : m = N + size - 1
    BY <1>2
  <2>2. n = m \div size
    BY <1>3, <2>1
  <2>3. m \div size \in Nat /\ m < size * (m \div size) + size /\ size * (m \div size) \in Nat
    BY Division
  <2> QED
    BY <2>1, <2>2, <2>3
<1>5. B = [b \in 1 .. n |-> {t \in S : Place(S, rank, t) \div size = b - 1}]
  BY <1>1, <1>3 DEF Batched
<1>6. Len(B) = n /\ DOMAIN B = 1 .. n
  BY <1>4, <1>5
<1>7. ASSUME NEW t \in S
      PROVE  \E b \in 1 .. n : Place(S, rank, t) \div size = b - 1
  <2>1. PICK p : p = Place(S, rank, t)
    OBVIOUS
  <2>2. p \in 0 .. N - 1
    BY <1>1, <2>1, Places DEF Place
  <2>3. p \in Nat
    BY <1>2, <2>2
  <2>4. PICK q \in Nat : q = p \div size /\ size * q <= p /\ size * q \in Nat
    BY <2>3, Division
  <2>5. size * q < size * n
    BY <1>2, <1>4, <2>2, <2>4
  <2>6. q < n
    BY <1>4, <2>5, Product
  <2>7. q + 1 \in 1 .. n /\ q = (q + 1) - 1
    BY <1>4, <2>6
  <2> QED
    BY <2>1, <2>4, <2>7
<1>8. \A t \in S : \E b \in DOMAIN B : t \in B[b]
  BY <1>5, <1>6, <1>7
<1>9. ASSUME NEW b \in 1 .. n, NEW c \in 1 .. n, NEW t, t \in B[b], t \in B[c] PROVE b = c
  <2>1. Place(S, rank, t) \div size = b - 1 /\ Place(S, rank, t) \div size = c - 1
    BY <1>5, <1>9
  <2> QED
    BY <2>1
<1>10. \A b \in 1 .. n : B[b] \subseteq S
  BY <1>5
<1> QED
  BY <1>4, <1>6, <1>8, <1>9, <1>10

MonthsOf(S) == {Month[t] : t \in S}

LEMMA SomeTokens ==
  ASSUME NEW S, S \subseteq Token
  PROVE  /\ IsFiniteSet(S) /\ Cardinality(S) \in Nat
         /\ IsFiniteSet(MonthsOf(S)) /\ \A m \in MonthsOf(S) : m \in Nat
         /\ Cardinality(MonthsOf(S)) \in Nat /\ (S # {} => Cardinality(MonthsOf(S)) # 0)
<1>1. IsFiniteSet(Token) /\ S \in SUBSET Token
  BY DuneAssumption
<1>2. IsFiniteSet(S)
  BY <1>1, FS_Subset
<1>3. \A m \in MonthsOf(S) : m \in Nat
  BY EtlAssumption DEF MonthsOf
<1>4. IsFiniteSet(MonthsOf(S))
  <2>1. PICK f : f = [t \in S |-> Month[t]]
    OBVIOUS
  <2>2. f \in Surjection(S, MonthsOf(S))
    BY <2>1 DEF Surjection, MonthsOf
  <2> QED
    BY <1>2, <2>2, FS_Surjection
<1>5. S # {} => MonthsOf(S) # {}
  BY DEF MonthsOf
<1> QED
  BY <1>2, <1>3, <1>4, <1>5, FS_CardinalityType, FS_EmptySet

(* The share of a month: that of every month, and one more for the first.   *)
Shared(M, size, k, a, r) ==
  /\ k = Cardinality(M) /\ k \in Nat \ {0} /\ a \in Nat /\ r \in Nat
  /\ k * a \in Nat /\ k * a + r = size
  /\ \A m \in M : /\ Cardinality({n \in M : n < m}) \in 0 .. k - 1
                  /\ Quota(M, m, size) =
                       a + (IF Cardinality({n \in M : n < m}) < r THEN 1 ELSE 0)

LEMMA Shares ==
  ASSUME NEW S, S \subseteq Token, S # {}, NEW size \in Nat
  PROVE  \E k, a, r : Shared(MonthsOf(S), size, k, a, r)
<1>0. PICK M, k, a, r : M = MonthsOf(S) /\ k = Cardinality(M) /\ a = size \div k /\ r = size % k
  OBVIOUS
<1>1. k \in Nat \ {0}
  BY <1>0, SomeTokens
<1>2. a \in Nat /\ k * a \in Nat /\ r \in 0 .. k - 1 /\ r = size - k * a
  BY <1>0, <1>1, Division
<1>3. r \in Nat /\ k * a + r = size
  <2>1. PICK b \in Nat : b = k * a
    BY <1>2
  <2>2. r = size - b
    BY <1>2, <2>1
  <2> QED
    BY <1>1, <1>2, <2>1, <2>2
<1>4. ASSUME NEW m \in M
      PROVE  Cardinality({n \in M : n < m}) \in 0 .. k - 1
  <2>2. PICK rank : rank = [n \in M |-> n]
    OBVIOUS
  <2>3. IsFiniteSet(M) /\ \A n \in M : rank[n] = n /\ rank[n] \in Int
    BY <1>0, <2>2, SomeTokens
  <2>4. {n \in M : n < m} = {n \in M : rank[n] < rank[m]}
    BY <2>3
  <2>5. Cardinality({n \in M : rank[n] < rank[m]}) \in 0 .. Cardinality(M) - 1
    BY <2>3, Places
  <2> QED
    BY <1>0, <2>4, <2>5
<1>5. \A m \in M :
        Quota(M, m, size) = a + (IF Cardinality({n \in M : n < m}) < r THEN 1 ELSE 0)
  BY <1>0 DEF Quota
<1>6. Shared(M, size, k, a, r)
  BY <1>0, <1>1, <1>2, <1>3, <1>4, <1>5 DEF Shared
<1> QED
  BY <1>0, <1>6

(* Of each month, the sample has its share, or all there are.               *)
LEMMA SampleOfMonth ==
  ASSUME NEW S, S \subseteq Token, NEW size \in Nat, NEW m \in MonthsOf(S),
         NEW P, P = OfMonth(Sample(S, size), m), NEW q, q = Quota(MonthsOf(S), m, size)
  PROVE  /\ q \in Nat /\ IsFiniteSet(P) /\ Cardinality(P) \in Nat /\ Cardinality(P) <= q
         /\ Cardinality(P) < q => P = OfMonth(S, m)
<1>1. q \in Nat
  <2>1. S # {}
    BY DEF MonthsOf
  <2>2. PICK k, a, r : Shared(MonthsOf(S), size, k, a, r)
    BY <2>1, Shares
  <2>3. PICK e : q = a + (IF e < r THEN 1 ELSE 0) /\ a \in Nat
    BY <2>2, Zenon DEF Shared
  <2> QED
    BY <2>3
<1>2. PICK of, rank : of = OfMonth(S, m) /\ rank = HashRank
  OBVIOUS
<1>3. /\ IsFiniteSet(of) /\ \A t \in of : rank[t] \in Int
      /\ \A t, u \in of : rank[t] = rank[u] => t = u
  <2>1. of \subseteq Token
    BY <1>2 DEF OfMonth
  <2>2. /\ \A t \in Token : rank[t] \in Int
        /\ \A t, u \in Token : rank[t] = rank[u] => t = u
    BY <1>2, EtlAssumption
  <2>3. IsFiniteSet(of)
    BY <2>1, SomeTokens
  <2> QED
    BY <2>1, <2>2, <2>3
<1>4. P = Lowest(of, rank, q)
  BY <1>2 DEF Sample, OfMonth, MonthsOf, Lowest
<1>5. IsUpTo(P, of, q)
  BY <1>1, <1>3, <1>4, LowestRanks, Zenon
<1> QED
  BY <1>1, <1>2, <1>5 DEF IsUpTo

(* The sample is no larger than its size: going round the months, every     *)
(* token of it has a number of its own.                                     *)
LEMMA SampleFits ==
  ASSUME NEW S, S \subseteq Token, NEW size \in Nat
  PROVE  /\ Sample(S, size) \subseteq S
         /\ IsFiniteSet(Sample(S, size)) /\ Cardinality(Sample(S, size)) <= size
<1>1. PICK A : A = Sample(S, size)
  OBVIOUS
<1>2. A \subseteq S /\ IsFiniteSet(A)
  <2>1. A \subseteq S
    BY <1>1 DEF Sample
  <2> QED
    BY <2>1, SomeTokens
<1>3. CASE S = {}
  BY <1>1, <1>2, <1>3, FS_EmptySet
<1>4. CASE S # {}
  <2>1. PICK M, k, a, r : M = MonthsOf(S) /\ Shared(M, size, k, a, r)
    BY <1>4, Shares
  <2>2. /\ k \in Nat \ {0} /\ a \in Nat /\ r \in Nat /\ k * a \in Nat /\ k * a + r = size
        /\ \A m \in M : /\ Cardinality({n \in M : n < m}) \in 0 .. k - 1
                        /\ Quota(M, m, size) =
                             a + (IF Cardinality({n \in M : n < m}) < r THEN 1 ELSE 0)
    BY <2>1 DEF Shared
  <2> DEFINE of(m) == {t \in S : Month[t] = m}
             pos(t) == Cardinality({u \in of(Month[t]) : HashRank[u] < HashRank[t]})
             early(m) == Cardinality({n \in M : n < m})
  <2>3. \A t \in A : t \in S /\ Month[t] \in M /\ pos(t) < Quota(M, Month[t], size)
    BY <1>1, <1>2, <2>1 DEF Sample, MonthsOf
  <2>4. ASSUME NEW t \in A
        PROVE  /\ pos(t) \in Nat /\ early(Month[t]) \in 0 .. k - 1
               /\ pos(t) < a \/ (pos(t) = a /\ early(Month[t]) < r)
    <3>1. PICK T : T = of(Month[t])
      OBVIOUS
    <3>2. /\ IsFiniteSet(T) /\ t \in T /\ \A u \in T : HashRank[u] \in Int
      <4>1. T \subseteq S /\ t \in T
        BY <2>3, <3>1
      <4> QED
        BY <4>1, SomeTokens, EtlAssumption
    <3>3. PICK x : x = Cardinality({u \in T : HashRank[u] < HashRank[t]})
      OBVIOUS
    <3>4. x \in Nat /\ pos(t) = x
      <4>1. x \in 0 .. Cardinality(T) - 1 /\ Cardinality(T) \in Nat
        BY <3>2, <3>3, Places
      <4> QED
        BY <3>1, <3>3, <4>1
    <3>5. early(Month[t]) \in 0 .. k - 1
          /\ Quota(M, Month[t], size) = a + (IF early(Month[t]) < r THEN 1 ELSE 0)
      BY <2>2, <2>3
    <3>6. x < Quota(M, Month[t], size)
      BY <2>3, <3>4
    <3> HIDE DEF pos, early
    <3> QED
      BY <2>2, <3>4, <3>5, <3>6
  <2>5. ASSUME NEW t \in A, NEW u \in A, pos(t) = pos(u), early(Month[t]) = early(Month[u])
        PROVE  t = u
    <3>1. Month[t] = Month[u]
      <4>1. PICK rank : rank = [n \in M |-> n]
        OBVIOUS
      <4>2. IsFiniteSet(M) /\ \A n \in M : rank[n] = n /\ rank[n] \in Int
        BY <2>1, <4>1, SomeTokens
      <4>3. PICK place : place = [n \in M |-> Cardinality({l \in M : rank[l] < rank[n]})]
        OBVIOUS
      <4>4. \A m, n \in M : place[m] = place[n] => m = n
        BY <4>2, <4>3, PlacesAreTaken
      <4>5. \A n \in M : {l \in M : rank[l] < rank[n]} = {l \in M : l < n}
        BY <4>2
      <4>6. \A n \in M : place[n] = early(n)
        BY <4>3, <4>5
      <4>7. Month[t] \in M /\ Month[u] \in M
        BY <2>3
      <4> HIDE DEF early
      <4> QED
        BY <2>5, <4>4, <4>6, <4>7
    <3>2. PICK T : T = of(Month[t])
      OBVIOUS
    <3>3. /\ IsFiniteSet(T) /\ t \in T /\ u \in T
          /\ \A v \in T : HashRank[v] \in Int
          /\ \A v, w \in T : HashRank[v] = HashRank[w] => v = w
      <4>1. T \subseteq S /\ t \in T /\ u \in T
        BY <2>3, <3>1, <3>2
      <4> QED
        BY <4>1, SomeTokens, EtlAssumption
    <3>4. PICK place : place = [v \in T |-> Cardinality({w \in T : HashRank[w] < HashRank[v]})]
      OBVIOUS
    <3>5. \A v, w \in T : place[v] = place[w] => v = w
      BY <3>3, <3>4, PlacesAreTaken
    <3>6. place[t] = pos(t) /\ place[u] = pos(u)
      BY <3>1, <3>2, <3>3, <3>4
    <3> HIDE DEF pos
    <3> QED
      BY <2>5, <3>3, <3>5, <3>6
  <2> HIDE DEF pos, early
  <2> DEFINE f == [t \in A |-> pos(t) * k + early(Month[t])]
  <2>6. ASSUME NEW p \in Nat, NEW e \in 0 .. k - 1, p < a \/ (p = a /\ e < r)
        PROVE  p * k + e \in 0 .. size - 1
    <3>1. p * k \in Nat /\ a * k = k * a /\ (p < a => p * k + k <= a * k)
      BY <2>2, Product
    <3>2. PICK y \in Nat, z \in Nat : y = p * k /\ z = k * a
      BY <2>2, <3>1
    <3>3. p < a => y + k <= z
      BY <3>1, <3>2
    <3>4. p = a => y = z
      BY <3>1, <3>2
    <3>5. y + e \in 0 .. size - 1
      <4>1. CASE p < a
        BY <2>2, <3>2, <3>3, <4>1
      <4>2. CASE p = a /\ e < r
        BY <2>2, <3>2, <3>4, <4>2
      <4> QED
        BY <2>6, <4>1, <4>2
    <3> QED
      BY <3>2, <3>5
  <2>7. ASSUME NEW p \in Nat, NEW d \in Nat, NEW e \in 0 .. k - 1, NEW g \in 0 .. k - 1,
               p * k + e = d * k + g
        PROVE  p = d /\ e = g
    <3>1. PICK y \in Nat, z \in Nat : y = p * k /\ z = d * k
      BY <2>2, Product
    <3>2. (p < d => y + k <= z) /\ (d < p => z + k <= y)
      BY <2>2, <3>1, Product
    <3>3. y + e = z + g
      BY <2>7, <3>1
    <3>4. ~(p < d) /\ ~(d < p)
      BY <2>2, <3>2, <3>3
    <3>5. p = d
      BY <3>4
    <3> QED
      BY <2>2, <3>1, <3>3, <3>5
  <2>8. f \in Injection(A, 0 .. size - 1)
    <3>1. \A t \in A : f[t] \in 0 .. size - 1
      <4> SUFFICES ASSUME NEW t \in A PROVE f[t] \in 0 .. size - 1
        OBVIOUS
      <4>1. PICK p, e : p = pos(t) /\ e = early(Month[t])
        OBVIOUS
      <4>2. p * k + e \in 0 .. size - 1
        BY <2>4, <2>6, <4>1
      <4> QED
        BY <4>1, <4>2
    <3>2. ASSUME NEW t \in A, NEW u \in A, f[t] = f[u] PROVE t = u
      <4>1. PICK p, e, d, g : /\ p = pos(t) /\ e = early(Month[t])
                              /\ d = pos(u) /\ g = early(Month[u])
        OBVIOUS
      <4>2. p \in Nat /\ d \in Nat /\ e \in 0 .. k - 1 /\ g \in 0 .. k - 1
        BY <2>4, <4>1
      <4>3. p * k + e = d * k + g
        BY <3>2, <4>1
      <4>4. p = d /\ e = g
        BY <2>7, <4>2, <4>3
      <4> QED
        BY <2>5, <4>1, <4>4
    <3> HIDE DEF f
    <3>3. f = [t \in A |-> f[t]]
      BY DEF f
    <3> QED
      BY <3>1, <3>2, <3>3 DEF Injection, IsInjective
  <2>9. IsFiniteSet(0 .. size - 1) /\ Cardinality(0 .. size - 1) = size
    BY FS_Interval
  <2>10. Cardinality(A) <= size
    BY <2>8, <2>9, FS_Injection
  <2> QED
    BY <1>1, <1>2, <2>10
<1> QED
  BY <1>3, <1>4

LEMMA SampleIsStratified ==
  ASSUME NEW S, S \subseteq Token, NEW size \in Nat, NEW A, A = Sample(S, size),
         NEW m \in MonthsOf(S), NEW n \in MonthsOf(S),
         Cardinality(OfMonth(A, m)) > Cardinality(OfMonth(A, n)) + 1
  PROVE  OfMonth(S, n) \subseteq A
<1>1. S # {}
  BY DEF MonthsOf
<1>2. PICK k, a, r : Shared(MonthsOf(S), size, k, a, r)
  BY <1>1, Shares
<1>3. PICK q, s : q = Quota(MonthsOf(S), m, size) /\ s = Quota(MonthsOf(S), n, size)
  OBVIOUS
<1>4. a \in Nat /\ q \in {a, a + 1} /\ s \in {a, a + 1}
  <2>1. PICK e : q = a + (IF e < r THEN 1 ELSE 0)
    BY <1>2, <1>3, Zenon DEF Shared
  <2>2. PICK g : s = a + (IF g < r THEN 1 ELSE 0)
    BY <1>2, <1>3, Zenon DEF Shared
  <2>3. a \in Nat
    BY <1>2 DEF Shared
  <2> QED
    BY <2>1, <2>2, <2>3
<1>5. PICK P, R : P = OfMonth(A, m) /\ R = OfMonth(A, n)
  OBVIOUS
<1>6. Cardinality(P) \in Nat /\ Cardinality(P) <= q
  BY <1>3, <1>5, SampleOfMonth
<1>7. Cardinality(R) \in Nat /\ (Cardinality(R) < s => R = OfMonth(S, n))
  BY <1>3, <1>5, SampleOfMonth
<1>8. Cardinality(R) < s
  BY <1>4, <1>5, <1>6, <1>7
<1> QED
  BY <1>5, <1>7, <1>8 DEF OfMonth

-----------------------------------------------------------------------------
(* The stages. *)

LEMMA Names ==
  /\ StageName = {"graduations", "outcome", "liquidity", "bonding_curve", "contract_flags",
                  "deployer", "holders", "snapshot"}
  /\ StageCount("etl") = 7 /\ StageCount("snapshots") = Days /\ Days \in 1 .. 14
  /\ Stage("etl", 1) = <<"graduations", 0>>
  /\ \A i \in 1 .. 7 : Stage("etl", i) = <<EtlStages[i], 0>> /\ EtlStages[i] \in StageName
  /\ \A i \in 2 .. 7 : EtlStages[i] \notin {"graduations", "snapshot"}
  /\ \A i, j \in 1 .. 7 : EtlStages[i] = EtlStages[j] => i = j
  /\ \A d \in 1 .. Days : Stage("snapshots", d) = <<"snapshot", d>>
<1>1. EtlStages = <<"graduations", "outcome", "liquidity", "bonding_curve", "contract_flags",
                    "deployer", "holders">>
  BY DEF EtlStages
<1>2. /\ Len(EtlStages) = 7 /\ DOMAIN EtlStages = 1 .. 7
      /\ EtlStages[1] = "graduations" /\ EtlStages[2] = "outcome" /\ EtlStages[3] = "liquidity"
      /\ EtlStages[4] = "bonding_curve" /\ EtlStages[5] = "contract_flags"
      /\ EtlStages[6] = "deployer" /\ EtlStages[7] = "holders"
  BY <1>1
<1>3. \A i \in 1 .. 7 : i = 1 \/ i = 2 \/ i = 3 \/ i = 4 \/ i = 5 \/ i = 6 \/ i = 7
  OBVIOUS
<1>4. Range(EtlStages) = {"graduations", "outcome", "liquidity", "bonding_curve",
                          "contract_flags", "deployer", "holders"}
  <2>1. Range(EtlStages) = {EtlStages[i] : i \in 1 .. 7}
    BY <1>2 DEF Range
  <2> QED
    BY <1>2, <1>3, <2>1
<1>5. StageName = {"graduations", "outcome", "liquidity", "bonding_curve", "contract_flags",
                   "deployer", "holders", "snapshot"}
  BY <1>4 DEF StageName
<1>6. \A i, j \in 1 .. 7 : EtlStages[i] = EtlStages[j] => i = j
  BY <1>2, <1>3
<1>7. \A i \in 1 .. 7 : EtlStages[i] \in StageName
  BY <1>2, <1>3, <1>5
<1>8. \A i \in 2 .. 7 : EtlStages[i] \notin {"graduations", "snapshot"}
  BY <1>2, <1>3
<1>9. StageCount("etl") = 7 /\ StageCount("snapshots") = Days /\ Days \in 1 .. 14
  BY <1>2, EtlAssumption DEF StageCount
<1>10. /\ Stage("etl", 1) = <<"graduations", 0>>
       /\ \A i \in 1 .. 7 : Stage("etl", i) = <<EtlStages[i], 0>>
       /\ \A d \in 1 .. Days : Stage("snapshots", d) = <<"snapshot", d>>
  BY <1>2 DEF Stage
<1> QED
  BY <1>5, <1>6, <1>7, <1>8, <1>9, <1>10

-----------------------------------------------------------------------------
(* What the queries answer. *)

(* The rows about a token.                                                  *)
RowsOf(rows, t) == {x \in rows : x[1] = t}

(* The last trades of a window, whenever it is asked for after its end.     *)
LEMMA SettledWindow ==
  ASSUME NEW S, S \subseteq Token, NEW t \in S, NEW from \in Int, NEW to \in Int,
         NEW when \in Int, T0[t] + to <= when
  PROVE  /\ RowsOf(LastQuotes(S, from, to, when), t) = LastQuotes({t}, from, to, T0[t] + to)
         /\ RowsOf(LastQuotes({t}, from, to, T0[t] + to), t) = LastQuotes({t}, from, to, T0[t] + to)
<1>1. T0[t] \in Nat /\ \A x \in Trades[t] : x[1] \in Int
  BY DuneAssumption
<1>2. Seen(t, from, to, when) = Seen(t, from, to, T0[t] + to)
  BY <1>1 DEF Seen
<1> DEFINE last(u, w) == {<<u, x[2]>> : x \in {y \in Seen(u, from, to, w) :
                                                \A z \in Seen(u, from, to, w) : z[1] <= y[1]}}
           all(R, w) == UNION {last(u, w) : u \in R}
<1>3. \A R, w : LastQuotes(R, from, to, w) = all(R, w)
  BY Zenon DEF LastQuotes
<1>4. \A u, w : \A x \in last(u, w) : x[1] = u
  OBVIOUS
<1>5. last(t, when) = last(t, T0[t] + to)
  BY <1>2
<1> HIDE DEF last
<1>6. \A R, w : t \in R => RowsOf(all(R, w), t) = last(t, w)
  BY <1>4 DEF RowsOf
<1>7. all({t}, T0[t] + to) = last(t, T0[t] + to)
  OBVIOUS
<1> HIDE DEF all
<1>8. RowsOf(LastQuotes(S, from, to, when), t) = last(t, when)
  BY <1>3, <1>6, Zenon
<1>9. LastQuotes({t}, from, to, T0[t] + to) = last(t, T0[t] + to)
  BY <1>3, <1>7, Zenon
<1>10. RowsOf(LastQuotes({t}, from, to, T0[t] + to), t) = last(t, T0[t] + to)
  <2>1. t \in {t}
    OBVIOUS
  <2>2. PICK w, R : w = T0[t] + to /\ R = {t}
    OBVIOUS
  <2>3. RowsOf(all(R, w), t) = last(t, w)
    BY <1>6, <2>1, <2>2
  <2>4. LastQuotes(R, from, to, w) = all(R, w)
    BY <1>3
  <2> QED
    BY <2>2, <2>3, <2>4
<1> QED
  BY <1>5, <1>8, <1>9, <1>10, Zenon

(* The last trade of a window is one: no two are at the same time.          *)
LEMMA LastQuoteIsOne ==
  ASSUME NEW t \in Token, NEW from \in Int, NEW to \in Int, NEW when \in Int,
         NEW x \in LastQuotes({t}, from, to, when), NEW y \in LastQuotes({t}, from, to, when)
  PROVE  x = y /\ x[1] = t /\ x[2] \in Nat /\ x \in Token \X Nat
<1>1. PICK v \in Seen(t, from, to, when) :
        x = <<t, v[2]>> /\ \A z \in Seen(t, from, to, when) : z[1] <= v[1]
  BY DEF LastQuotes
<1>2. PICK w \in Seen(t, from, to, when) :
        y = <<t, w[2]>> /\ \A z \in Seen(t, from, to, when) : z[1] <= w[1]
  BY DEF LastQuotes
<1>3. v \in Trades[t] /\ w \in Trades[t] /\ v \in Int \X Nat /\ w \in Int \X Nat
  BY DuneAssumption DEF Seen
<1>4. v[1] = w[1]
  BY <1>1, <1>2, <1>3
<1>5. v = w
  BY <1>3, <1>4, DuneAssumption
<1> QED
  BY <1>1, <1>2, <1>3, <1>5

LEMMA LastQuotesType ==
  ASSUME NEW S, S \subseteq Token, NEW from, NEW to, NEW when,
         NEW y \in LastQuotes(S, from, to, when)
  PROVE  y[1] \in S /\ y \in Row
<1>1. PICK t \in S : \E x \in Seen(t, from, to, when) : y = <<t, x[2]>>
  BY DEF LastQuotes
<1>2. PICK x \in Seen(t, from, to, when) : y = <<t, x[2]>>
  BY <1>1
<1>3. x \in Int \X Nat /\ t \in Token
  BY DuneAssumption DEF Seen
<1> QED
  BY <1>2, <1>3 DEF Row

(* The last trade on the curve.                                             *)
LEMMA CurveIsOne ==
  ASSUME NEW S, S \subseteq Token, NEW t \in S
  PROVE  /\ RowsOf(BondingCurve(S), t) = BondingCurve({t})
         /\ \A x, y \in BondingCurve({t}) : x = y
         /\ \A x \in BondingCurve({t}) : x[1] = t /\ x[2] \in Int /\ x[2] < T0[t] /\ x \in Token \X Int
<1> DEFINE final(u) == {<<u, T0[u] + x[1]>> : x \in {y \in Trades[u] : /\ y[1] < 0
                                                        /\ \A z \in Trades[u] :
                                                             z[1] < 0 => z[1] <= y[1]}}
<1>1. \A R : BondingCurve(R) = UNION {final(u) : u \in R}
  BY Zenon DEF BondingCurve
<1>2. \A u : \A x \in final(u) : x[1] = u
  OBVIOUS
<1>3. \A x \in final(t) : x[2] \in Int /\ x[2] < T0[t] /\ x \in Token \X Int
  <2> SUFFICES ASSUME NEW y \in Trades[t], y[1] < 0
               PROVE T0[t] + y[1] \in Int /\ T0[t] + y[1] < T0[t] /\ t \in Token
    OBVIOUS
  <2>1. y \in Int \X Nat /\ T0[t] \in Nat
    BY DuneAssumption
  <2> QED
    BY <2>1
<1>4. ASSUME NEW x \in final(t), NEW y \in final(t) PROVE x = y
  <2>1. PICK v \in Trades[t] : /\ x = <<t, T0[t] + v[1]>> /\ v[1] < 0
                               /\ \A z \in Trades[t] : z[1] < 0 => z[1] <= v[1]
    OBVIOUS
  <2>2. PICK w \in Trades[t] : /\ y = <<t, T0[t] + w[1]>> /\ w[1] < 0
                               /\ \A z \in Trades[t] : z[1] < 0 => z[1] <= w[1]
    OBVIOUS
  <2>3. v \in Int \X Nat /\ w \in Int \X Nat
    BY DuneAssumption
  <2>4. v[1] = w[1]
    BY <2>1, <2>2, <2>3
  <2> QED
    BY <2>1, <2>2, <2>4
<1> HIDE DEF final
<1> DEFINE all(R) == UNION {final(u) : u \in R}
<1>5. RowsOf(all(S), t) = final(t)
  BY <1>2 DEF RowsOf
<1>6. all({t}) = final(t)
  OBVIOUS
<1>7. \A R : BondingCurve(R) = all(R)
  BY <1>1
<1> HIDE DEF all
<1>8. BondingCurve({t}) = final(t) /\ RowsOf(BondingCurve(S), t) = final(t)
  BY <1>5, <1>6, <1>7
<1> QED
  BY <1>2, <1>3, <1>4, <1>8

LEMMA HeldCounted ==
  ASSUME NEW t \in Token, NEW at
  PROVE  Held(t, at) \in Nat
<1>1. PICK H : H = {g \in Holdings[t] : T0[t] + g[2] <= at /\ at < T0[t] + g[3]}
  OBVIOUS
<1>2. PICK O : O = {h[1] : h \in H}
  OBVIOUS
<1>3. IsFiniteSet(Holdings[t]) /\ H \subseteq Holdings[t]
  BY <1>1, DuneAssumption
<1>4. IsFiniteSet(H)
  BY <1>3, FS_Subset
<1>5. PICK f : f = [h \in H |-> h[1]]
  OBVIOUS
<1>6. f \in Surjection(H, O)
  BY <1>2, <1>5 DEF Surjection
<1>7. IsFiniteSet(O)
  BY <1>4, <1>6, FS_Surjection
<1>8. Held(t, at) = Cardinality(O)
  BY <1>1, <1>2 DEF Held
<1> QED
  BY <1>7, <1>8, FS_CardinalityType

LEMMA LaunchesCounted ==
  ASSUME NEW t \in Token
  PROVE  PriorLaunches(t) \in Nat
<1>1. PICK A : A = {u \in Token : Creator[u] = Creator[t] /\ T0[u] < T0[t]}
  OBVIOUS
<1>2. A \in SUBSET Token /\ IsFiniteSet(Token)
  BY <1>1, DuneAssumption
<1>3. IsFiniteSet(A)
  BY <1>2, FS_Subset
<1> QED
  BY <1>1, <1>3, FS_CardinalityType DEF PriorLaunches

(* Holders are counted half a day after the graduation of an older token.   *)
LEMMA HoldersEarly ==
  ASSUME NEW S, S \subseteq Token, NEW t \in S
  PROVE  \E u \in S : T0[u] <= T0[t] /\ HoldersAt(S) = T0[u] + 1
<1>1. PICK T : T = {T0[u] : u \in S}
  OBVIOUS
<1>2. T \subseteq Nat /\ T0[t] \in T
  BY <1>1, DuneAssumption
<1>3. IsFiniteSet(T)
  <2>1. PICK f : f = [u \in S |-> T0[u]]
    OBVIOUS
  <2>2. f \in Surjection(S, T)
    BY <1>1, <2>1 DEF Surjection
  <2>3. IsFiniteSet(S)
    BY SomeTokens
  <2> QED
    BY <2>2, <2>3, FS_Surjection
<1>4. \E x \in T : \A y \in T : x <= y
  BY <1>2, <1>3, SmallestExists
<1>5. Min(T) \in T /\ \A y \in T : Min(T) <= y
  BY <1>4 DEF Min
<1>6. PICK n \in Nat : n = Min(T)
  BY <1>2, <1>5
<1>7. HoldersAt(S) = n + 1
  BY <1>1, <1>6 DEF HoldersAt
<1>8. n <= T0[t] /\ n \in T
  BY <1>2, <1>5, <1>6
<1>9. PICK u \in S : n = T0[u]
  BY <1>1, <1>8
<1> QED
  BY <1>7, <1>8, <1>9

(* An answer is about the tokens that were asked for.                       *)
LEMMA AnswersOwn ==
  ASSUME NEW S, S \subseteq Token, NEW stage, stage[1] \in StageName \ {"graduations"},
         NEW when, NEW x \in Answer(stage, S, when)
  PROVE  x[1] \in S /\ x \in Row
<1>1. stage[1] \in {"outcome", "liquidity", "bonding_curve", "contract_flags", "deployer",
                    "holders", "snapshot"}
  BY Names
<1>2. CASE stage[1] = "outcome"
  BY <1>2, LastQuotesType DEF Answer, Outcomes
<1>3. CASE stage[1] = "liquidity"
  BY <1>3, LastQuotesType DEF Answer, Liquidity
<1>4. CASE stage[1] = "snapshot"
  BY <1>4, LastQuotesType DEF Answer, Snapshots
<1>5. CASE stage[1] = "bonding_curve"
  <2>1. x \in BondingCurve(S)
    BY <1>5 DEF Answer
  <2>2. x[1] \in S
    BY <2>1 DEF BondingCurve
  <2>3. x \in RowsOf(BondingCurve(S), x[1])
    BY <2>1 DEF RowsOf
  <2>4. RowsOf(BondingCurve(S), x[1]) = BondingCurve({x[1]})
    BY <2>2, CurveIsOne, Zenon
  <2>5. x \in BondingCurve({x[1]})
    BY <2>3, <2>4
  <2>6. x \in Token \X Int
    BY <2>2, <2>5, CurveIsOne
  <2> QED
    BY <2>2, <2>6 DEF Row
<1>6. CASE stage[1] = "contract_flags"
  <2>1. x \in ContractFlags(S, when)
    BY <1>6 DEF Answer
  <2>2. PICK t \in S : x = <<t, Flag(t, when)>>
    BY <2>1 DEF ContractFlags
  <2>3. Flag(t, when) \in Int
    BY DEF Flag
  <2> QED
    BY <2>2, <2>3 DEF Row
<1>7. CASE stage[1] = "deployer"
  <2>1. PICK t \in S : x = <<t, PriorLaunches(t)>>
    BY <1>7 DEF Answer, Deployers
  <2>2. PriorLaunches(t) \in Int
    BY LaunchesCounted
  <2> QED
    BY <2>1, <2>2 DEF Row
<1>8. CASE stage[1] = "holders"
  <2>1. PICK t \in S : x = <<t, Held(t, HoldersAt(S))>>
    BY <1>8 DEF Answer, Holders
  <2>2. Held(t, HoldersAt(S)) \in Int
    BY HeldCounted
  <2> QED
    BY <2>1, <2>2 DEF Row
<1> QED
  BY <1>1, <1>2, <1>3, <1>4, <1>5, <1>6, <1>7, <1>8

(* What rows of a stage have to say of a token.                             *)
Tells(stage, rows, t, mates, at) ==
  LET of == RowsOf(rows, t)
  IN CASE stage[1] = "outcome" -> of = Outcomes({t}, T0[t] + 32)
       [] stage[1] = "liquidity" -> of = Liquidity({t}, T0[t] + 1)
       [] stage[1] = "bonding_curve" -> of = BondingCurve({t})
       [] stage[1] = "contract_flags" ->
            \E when \in Int : /\ T0[t] <= when /\ when <= at
                              /\ of = IF t \in Minted THEN {<<t, Flag(t, when)>>} ELSE {}
       [] stage[1] = "deployer" -> of = {<<t, PriorLaunches(t)>>}
       [] stage[1] = "holders" ->
            \E u \in mates : /\ T0[u] <= T0[t]
                             /\ of = IF Held(t, T0[u] + 1) = 0 THEN {}
                                     ELSE {<<t, Held(t, T0[u] + 1)>>}
       [] stage[1] = "snapshot" -> of = Snapshots({t}, stage[2], T0[t] + 2 * stage[2] + 2)

LEMMA AnswersTell ==
  ASSUME NEW S, S \subseteq Token, NEW t \in S,
         NEW stage, stage[1] \in StageName \ {"graduations"}, stage[2] \in 0 .. 14,
         NEW when \in Int, T0[t] + 32 <= when, NEW at, when <= at
  PROVE  Tells(stage, Answer(stage, S, when), t, S, at)
<1>0. T0[t] \in Nat
  BY DuneAssumption
<1>1. stage[1] \in {"outcome", "liquidity", "bonding_curve", "contract_flags", "deployer",
                    "holders", "snapshot"}
  BY Names
<1>2. CASE stage[1] = "outcome"
  <2>1. PICK a \in Int, b \in Int : a = 24 /\ b = 32 /\ T0[t] + b <= when
    BY <1>0
  <2>2. RowsOf(LastQuotes(S, a, b, when), t) = LastQuotes({t}, a, b, T0[t] + b)
    <3>1. T0[t] + b <= when
      BY <2>1
    <3> QED
      BY <3>1, SettledWindow, Zenon
  <2>3. Answer(stage, S, when) = LastQuotes(S, a, b, when)
    BY <1>2, <2>1 DEF Answer, Outcomes
  <2>4. LastQuotes({t}, a, b, T0[t] + b) = Outcomes({t}, T0[t] + 32)
    BY <2>1 DEF Outcomes
  <2> QED
    BY <1>2, <2>2, <2>3, <2>4 DEF Tells
<1>3. CASE stage[1] = "liquidity"
  <2>1. PICK a \in Int, b \in Int : a = 0 /\ b = 1 /\ T0[t] + b <= when
    BY <1>0
  <2>2. RowsOf(LastQuotes(S, a, b, when), t) = LastQuotes({t}, a, b, T0[t] + b)
    <3>1. T0[t] + b <= when
      BY <2>1
    <3> QED
      BY <3>1, SettledWindow, Zenon
  <2>3. Answer(stage, S, when) = LastQuotes(S, a, b, when)
    BY <1>3, <2>1 DEF Answer, Liquidity
  <2>4. LastQuotes({t}, a, b, T0[t] + b) = Liquidity({t}, T0[t] + 1)
    BY <2>1 DEF Liquidity
  <2> QED
    BY <1>3, <2>2, <2>3, <2>4 DEF Tells
<1>4. CASE stage[1] = "snapshot"
  <2>1. PICK d \in 0 .. 14, a \in Int, b \in Int :
          d = stage[2] /\ a = 2 * d /\ b = 2 * d + 2 /\ T0[t] + b <= when
    BY <1>0
  <2>2. RowsOf(LastQuotes(S, a, b, when), t) = LastQuotes({t}, a, b, T0[t] + b)
    <3>1. T0[t] + b <= when
      BY <2>1
    <3> QED
      BY <3>1, SettledWindow, Zenon
  <2>3. Answer(stage, S, when) = LastQuotes(S, a, b, when)
    BY <1>4, <2>1 DEF Answer, Snapshots
  <2>4. T0[t] + b = T0[t] + 2 * stage[2] + 2
    BY <1>0, <2>1
  <2>5. LastQuotes({t}, a, b, T0[t] + b) = Snapshots({t}, stage[2], T0[t] + 2 * stage[2] + 2)
    BY <2>1, <2>4 DEF Snapshots
  <2> QED
    BY <1>4, <2>2, <2>3, <2>5 DEF Tells
<1>5. CASE stage[1] = "bonding_curve"
  <2>1. RowsOf(BondingCurve(S), t) = BondingCurve({t})
    BY CurveIsOne, Zenon
  <2> QED
    BY <1>5, <2>1 DEF Tells, Answer
<1>6. CASE stage[1] = "contract_flags"
  <2>1. RowsOf(ContractFlags(S, when), t) = IF t \in Minted THEN {<<t, Flag(t, when)>>} ELSE {}
    BY DEF RowsOf, ContractFlags
  <2>2. T0[t] <= when
    BY <1>0
  <2>3. Answer(stage, S, when) = ContractFlags(S, when)
    BY <1>6 DEF Answer
  <2> QED
    BY <1>6, <2>1, <2>2, <2>3 DEF Tells
<1>7. CASE stage[1] = "deployer"
  <2>1. RowsOf(Deployers(S), t) = {<<t, PriorLaunches(t)>>}
    BY DEF RowsOf, Deployers
  <2> QED
    BY <1>7, <2>1 DEF Tells, Answer
<1>8. CASE stage[1] = "holders"
  <2>1. PICK u \in S : T0[u] <= T0[t] /\ HoldersAt(S) = T0[u] + 1
    BY HoldersEarly
  <2>2. PICK n \in Nat : n = Held(t, T0[u] + 1)
    BY HeldCounted
  <2>3. Answer(stage, S, when) = Holders(S, T0[u] + 1)
    BY <1>8, <2>1 DEF Answer
  <2>4. RowsOf(Holders(S, T0[u] + 1), t) = IF n = 0 THEN {} ELSE {<<t, n>>}
    <3>1. \A x : x \in RowsOf(Holders(S, T0[u] + 1), t) <=> n > 0 /\ x = <<t, n>>
      BY <2>2 DEF RowsOf, Holders
    <3>2. n = 0 \/ n > 0
      BY <2>2
    <3> QED
      BY <3>1, <3>2
  <2> QED
    BY <1>8, <2>1, <2>2, <2>3, <2>4 DEF Tells
<1> QED
  BY <1>1, <1>2, <1>3, <1>4, <1>5, <1>6, <1>7, <1>8

-----------------------------------------------------------------------------
(* Records. *)

LEMMA MergedSame ==
  ASSUME NEW rows, NEW others, NEW t, RowsOf(rows, t) = RowsOf(others, t)
  PROVE  Values(rows, t) = Values(others, t) /\ Merged(rows, t) = Merged(others, t)
<1>1. Values(rows, t) = {x[2] : x \in RowsOf(rows, t)}
  BY DEF Values, RowsOf
<1>2. Values(others, t) = {x[2] : x \in RowsOf(others, t)}
  BY DEF Values, RowsOf
<1> QED
  BY <1>1, <1>2 DEF Merged

LEMMA MergedNone ==
  ASSUME NEW rows, NEW t, RowsOf(rows, t) = {}
  PROVE  Merged(rows, t) = Null
<1>1. Values(rows, t) = {}
  BY DEF Values, RowsOf
<1> QED
  BY <1>1 DEF Merged

LEMMA MergedOne ==
  ASSUME NEW rows, NEW t, NEW x \in RowsOf(rows, t), x[2] \in Int,
         \A y \in RowsOf(rows, t) : y = x
  PROVE  Merged(rows, t) = x[2]
<1>1. Values(rows, t) = {x[2]}
  BY DEF Values, RowsOf
<1>2. PICK v \in Int : v = x[2]
  OBVIOUS
<1>3. \A y \in {v} : v >= y
  OBVIOUS
<1>4. Max({v}) = v
  BY <1>3 DEF Max
<1> QED
  BY <1>1, <1>2, <1>4 DEF Merged

(* Where a token has no more than one row, of an integer.                   *)
LEMMA MergedIs ==
  ASSUME NEW rows, NEW t,
         \A x, y \in RowsOf(rows, t) : x = y, \A x \in RowsOf(rows, t) : x[2] \in Int
  PROVE  /\ Merged(rows, t) \in Int
         /\ RowsOf(rows, t) = {} => Merged(rows, t) = Null
         /\ \A x \in RowsOf(rows, t) : Merged(rows, t) = x[2]
<1>1. RowsOf(rows, t) = {} => Merged(rows, t) = Null
  BY MergedNone
<1>2. ASSUME NEW x \in RowsOf(rows, t) PROVE Merged(rows, t) = x[2] /\ x[2] \in Int
  <2>1. (\A y \in RowsOf(rows, t) : y = x) /\ x[2] \in Int
    BY <1>2
  <2> QED
    BY <1>2, <2>1, MergedOne
<1>3. Null \in Int
  BY DEF Null
<1> QED
  BY <1>1, <1>2, <1>3

LabelIsTrue(r, t) == r.survived = 1 <=> \E x \in Outcomes({t}, T0[t] + 32) : x[2] >= Threshold

(* The stages that gave up on the batch of a token.                         *)
GaveUp(t) == {name \in StageName : GivenUp(name, t)}

IsKnowable(r, t, mates, gave, skip, at) ==
  /\ r.liq = Merged(Liquidity({t}, T0[t] + 1), t) \/ (r.liq = Null /\ "liquidity" \in gave)
  /\ r.curve = Merged(BondingCurve({t}), t) \/ (r.curve = Null /\ "bonding_curve" \in gave)
  /\ \/ r.flags = 1 /\ t \in Minted /\ ~IsRevoked(t, T0[t])
     \/ r.flags = 0 /\ t \in Minted /\ IsRevoked(t, at)
     \/ r.flags = Null /\ (t \notin Minted \/ "contract_flags" \in gave)
  /\ r.launches = PriorLaunches(t)
  /\ \/ \E u \in mates : T0[u] <= T0[t] /\ r.holders = Holding(t, T0[u] + 1)
     \/ r.holders = Null /\ ("holders" \in gave \/ skip)

(* What a program got of a stage is what it has to say, or it gave up, or   *)
(* it did not ask.                                                          *)
Told(stage, rows, t, skip) ==
  \/ Tells(stage, rows, t, Mates(t), now)
  \/ RowsOf(rows, t) = {} /\ stage[1] \in Resilient /\ GivenUp(stage[1], t)
  \/ RowsOf(rows, t) = {} /\ stage[1] = "holders" /\ skip

(* The last trade of a window, if there is one, is what is merged of it.    *)
OneQuote(rows, t, Q) ==
  /\ Merged(rows, t) \in Int /\ Merged(rows, t) = Merged(Q, t)
  /\ Q = {} => Merged(rows, t) = Null
  /\ \A x \in Q : Merged(rows, t) = x[2] /\ x[2] \in Nat /\ x[1] = t

LEMMA QuotesTold ==
  ASSUME NEW t \in Token, NEW to \in Int, NEW from \in Int, NEW rows,
         NEW Q, Q = LastQuotes({t}, from, to, T0[t] + to), RowsOf(rows, t) = Q
  PROVE  OneQuote(rows, t, Q)
<1>1. PICK when \in Int : when = T0[t] + to
  BY DuneAssumption
<1>2. \A x, y \in Q : x = y /\ x[1] = t /\ x[2] \in Nat
  BY <1>1, LastQuoteIsOne
<1>3. RowsOf(Q, t) = Q
  BY <1>2 DEF RowsOf
<1>4. Merged(rows, t) = Merged(Q, t)
  BY <1>3, MergedSame
<1>5. /\ \A x, y \in RowsOf(rows, t) : x = y
      /\ \A x \in RowsOf(rows, t) : x[2] \in Int
  <2>1. \A n \in Nat : n \in Int
    OBVIOUS
  <2> QED
    BY <1>2, <2>1, Zenon
<1>6. /\ Merged(rows, t) \in Int
      /\ RowsOf(rows, t) = {} => Merged(rows, t) = Null
      /\ \A x \in RowsOf(rows, t) : Merged(rows, t) = x[2]
  BY <1>5, MergedIs
<1> QED
  BY <1>2, <1>4, <1>6 DEF OneQuote

LEMMA RecordTells ==
  ASSUME now \in Nat, NEW t \in Token, NEW got, NEW skip,
         \A i \in 2 .. 7 : Told(Stage("etl", i), got[EtlStages[i]], t, skip)
  PROVE  /\ RecordOf(got, t) \in Record
         /\ LabelIsTrue(RecordOf(got, t), t)
         /\ IsKnowable(RecordOf(got, t), t, Mates(t), GaveUp(t), skip, now)
<1>0. T0[t] \in Nat
  BY DuneAssumption
<1>1. /\ Told(<<"outcome", 0>>, got["outcome"], t, skip)
      /\ Told(<<"liquidity", 0>>, got["liquidity"], t, skip)
      /\ Told(<<"bonding_curve", 0>>, got["bonding_curve"], t, skip)
      /\ Told(<<"contract_flags", 0>>, got["contract_flags"], t, skip)
      /\ Told(<<"deployer", 0>>, got["deployer"], t, skip)
      /\ Told(<<"holders", 0>>, got["holders"], t, skip)
  <2>1. /\ 2 \in 2 .. 7 /\ 3 \in 2 .. 7 /\ 4 \in 2 .. 7 /\ 5 \in 2 .. 7 /\ 6 \in 2 .. 7
        /\ 7 \in 2 .. 7
    OBVIOUS
  <2>2. \A i \in 2 .. 7 : Stage("etl", i) = <<EtlStages[i], 0>>
    BY Names
  <2>3. \A i \in 2 .. 7 : Told(<<EtlStages[i], 0>>, got[EtlStages[i]], t, skip)
    BY <2>2
  <2>4. /\ EtlStages[2] = "outcome" /\ EtlStages[3] = "liquidity"
        /\ EtlStages[4] = "bonding_curve" /\ EtlStages[5] = "contract_flags"
        /\ EtlStages[6] = "deployer" /\ EtlStages[7] = "holders"
    BY DEF EtlStages
  <2> QED
    BY <2>1, <2>3, <2>4, Zenon
<1>2. PICK out, liq, curve, flags, dep, hold :
        /\ out = got["outcome"] /\ liq = got["liquidity"] /\ curve = got["bonding_curve"]
        /\ flags = got["contract_flags"] /\ dep = got["deployer"] /\ hold = got["holders"]
  OBVIOUS
<1>3. PICK r : r = RecordOf(got, t)
  OBVIOUS
<1>4. r = [survived |-> Survived(out, t), liq |-> Merged(liq, t), curve |-> CurveState(curve, t),
           flags |-> Merged(flags, t), launches |-> Merged(dep, t), holders |-> Merged(hold, t)]
  BY <1>2, <1>3 DEF RecordOf
<1>5. /\ Survived(out, t) \in {0, 1}
      /\ Survived(out, t) = 1 <=> \E x \in Outcomes({t}, T0[t] + 32) : x[2] >= Threshold
  <2>1. RowsOf(out, t) = Outcomes({t}, T0[t] + 32)
    BY <1>1, <1>2 DEF Told, Tells, Resilient
  <2>2. PICK Q : Q = Outcomes({t}, T0[t] + 32)
    OBVIOUS
  <2>3. Q = LastQuotes({t}, 24, 32, T0[t] + 32)
    BY <2>2 DEF Outcomes
  <2>4. 24 \in Int /\ 32 \in Int
    OBVIOUS
  <2>5. OneQuote(out, t, Q)
    <3>1. RowsOf(out, t) = Q
      BY <2>1, <2>2
    <3> QED
      BY <3>1, <2>3, <2>4, QuotesTold, Zenon
  <2>6. Threshold \in Nat /\ ~(Null >= Threshold)
    BY EtlAssumption DEF Null
  <2>7. Merged(out, t) >= Threshold <=> \E x \in Q : x[2] >= Threshold
    BY <2>5, <2>6 DEF OneQuote
  <2>8. CASE Merged(out, t) >= Threshold
    <3>1. Survived(out, t) = 1
      BY <2>8 DEF Survived
    <3>2. \E x \in Outcomes({t}, T0[t] + 32) : x[2] >= Threshold
      BY <2>2, <2>7, <2>8
    <3> QED
      BY <3>1, <3>2
  <2>9. CASE ~(Merged(out, t) >= Threshold)
    <3>1. Survived(out, t) = 0
      BY <2>9 DEF Survived
    <3>2. ~(\E x \in Outcomes({t}, T0[t] + 32) : x[2] >= Threshold)
      BY <2>2, <2>7, <2>9
    <3> QED
      BY <3>1, <3>2
  <2> QED
    BY <2>8, <2>9
<1>6. /\ Merged(liq, t) \in Int
      /\ \/ Merged(liq, t) = Merged(Liquidity({t}, T0[t] + 1), t)
         \/ Merged(liq, t) = Null /\ GivenUp("liquidity", t)
  <2>1. CASE Tells(<<"liquidity", 0>>, liq, t, Mates(t), now)
    <3>1. PICK Q : Q = Liquidity({t}, T0[t] + 1)
      OBVIOUS
    <3>2. Q = LastQuotes({t}, 0, 1, T0[t] + 1) /\ 0 \in Int /\ 1 \in Int
      BY <3>1 DEF Liquidity
    <3>3. RowsOf(liq, t) = Q
      BY <2>1, <3>1 DEF Tells
    <3>4. OneQuote(liq, t, Q)
      BY <3>2, <3>3, QuotesTold, Zenon
    <3> QED
      BY <3>1, <3>4 DEF OneQuote
  <2>2. CASE RowsOf(liq, t) = {} /\ GivenUp("liquidity", t)
    BY <2>2, MergedNone DEF Null
  <2> QED
    BY <1>1, <1>2, <2>1, <2>2 DEF Told
<1>7. /\ CurveState(curve, t) \in Int
      /\ \/ CurveState(curve, t) = Merged(BondingCurve({t}), t)
         \/ CurveState(curve, t) = Null /\ GivenUp("bonding_curve", t)
  <2>1. PICK C : C = {x \in curve : x[2] < T0[x[1]]}
    OBVIOUS
  <2>2. RowsOf(C, t) = {x \in RowsOf(curve, t) : x[2] < T0[t]}
    BY <2>1 DEF RowsOf
  <2>3. CurveState(curve, t) = Merged(C, t)
    BY <2>1 DEF CurveState
  <2>4. CASE Tells(<<"bonding_curve", 0>>, curve, t, Mates(t), now)
    <3>1. PICK B : B = BondingCurve({t})
      OBVIOUS
    <3>2. /\ \A x, y \in B : x = y
          /\ \A x \in B : x[1] = t /\ x[2] \in Int /\ x[2] < T0[t]
      BY <3>1, CurveIsOne
    <3>3. RowsOf(curve, t) = B
      BY <2>4, <3>1 DEF Tells
    <3>4. RowsOf(C, t) = B /\ RowsOf(B, t) = B
      BY <2>2, <3>2, <3>3 DEF RowsOf
    <3>5. Merged(C, t) = Merged(B, t)
      BY <3>4, MergedSame
    <3>6. Merged(C, t) \in Int
      BY <3>2, <3>4, MergedIs
    <3> QED
      BY <2>3, <3>1, <3>5, <3>6
  <2>5. CASE RowsOf(curve, t) = {} /\ GivenUp("bonding_curve", t)
    BY <2>2, <2>3, <2>5, MergedNone DEF Null
  <2> QED
    BY <1>1, <1>2, <2>4, <2>5 DEF Told
<1>8. /\ Merged(flags, t) \in Int
      /\ \/ Merged(flags, t) = 1 /\ t \in Minted /\ ~IsRevoked(t, T0[t])
         \/ Merged(flags, t) = 0 /\ t \in Minted /\ IsRevoked(t, now)
         \/ Merged(flags, t) = Null /\ (t \notin Minted \/ GivenUp("contract_flags", t))
  <2>1. CASE Tells(<<"contract_flags", 0>>, flags, t, Mates(t), now)
    <3>1. PICK when \in Int :
            /\ T0[t] <= when /\ when <= now
            /\ RowsOf(flags, t) = IF t \in Minted THEN {<<t, Flag(t, when)>>} ELSE {}
      BY <2>1 DEF Tells
    <3>2. CASE t \notin Minted
      BY <3>1, <3>2, MergedNone DEF Null
    <3>3. CASE t \in Minted
      <4>1. PICK x : x = <<t, Flag(t, when)>>
        OBVIOUS
      <4>2. /\ x \in RowsOf(flags, t) /\ x[2] = Flag(t, when) /\ x[2] \in Int
            /\ \A y \in RowsOf(flags, t) : y = x
        BY <3>1, <3>3, <4>1 DEF Flag
      <4>3. Merged(flags, t) = Flag(t, when)
        BY <4>2, MergedOne
      <4>4. IsRevoked(t, T0[t]) => IsRevoked(t, when)
        <5>1. ASSUME NEW n \in Revokes[t], T0[t] + n <= T0[t] PROVE T0[t] + n <= when
          BY <1>0, <3>1, <5>1, DuneAssumption
        <5> QED
          BY <5>1 DEF IsRevoked
      <4>5. IsRevoked(t, when) => IsRevoked(t, now)
        <5>1. ASSUME NEW n \in Revokes[t], T0[t] + n <= when PROVE T0[t] + n <= now
          BY <1>0, <3>1, <5>1, DuneAssumption
        <5> QED
          BY <5>1 DEF IsRevoked
      <4> QED
        BY <3>3, <4>3, <4>4, <4>5 DEF Flag
    <3> QED
      BY <3>2, <3>3
  <2>2. CASE RowsOf(flags, t) = {} /\ GivenUp("contract_flags", t)
    BY <2>2, MergedNone DEF Null
  <2> QED
    BY <1>1, <1>2, <2>1, <2>2 DEF Told
<1>9. Merged(dep, t) = PriorLaunches(t) /\ PriorLaunches(t) \in Nat
  <2>1. RowsOf(dep, t) = {<<t, PriorLaunches(t)>>}
    BY <1>1, <1>2 DEF Told, Tells, Resilient
  <2>2. PriorLaunches(t) \in Nat
    BY LaunchesCounted
  <2>3. PICK x : x = <<t, PriorLaunches(t)>>
    OBVIOUS
  <2>4. /\ x \in RowsOf(dep, t) /\ x[2] = PriorLaunches(t) /\ x[2] \in Int
        /\ \A y \in RowsOf(dep, t) : y = x
    BY <2>1, <2>2, <2>3
  <2>5. Merged(dep, t) = x[2]
    BY <2>4, MergedOne
  <2> QED
    BY <2>2, <2>4, <2>5
<1>10. /\ Merged(hold, t) \in Int
       /\ \/ \E u \in Mates(t) : T0[u] <= T0[t] /\ Merged(hold, t) = Holding(t, T0[u] + 1)
          \/ Merged(hold, t) = Null /\ (GivenUp("holders", t) \/ skip)
  <2>1. CASE Tells(<<"holders", 0>>, hold, t, Mates(t), now)
    <3>1. PICK u \in Mates(t) :
            /\ T0[u] <= T0[t]
            /\ RowsOf(hold, t) = IF Held(t, T0[u] + 1) = 0 THEN {} ELSE {<<t, Held(t, T0[u] + 1)>>}
      BY <2>1 DEF Tells
    <3>2. PICK n \in Nat : n = Held(t, T0[u] + 1)
      BY HeldCounted
    <3>3. CASE n = 0
      BY <3>1, <3>2, <3>3, MergedNone DEF Holding, Null
    <3>4. CASE n # 0
      <4>1. PICK x : x = <<t, n>>
        OBVIOUS
      <4>2. /\ x \in RowsOf(hold, t) /\ x[2] = n /\ x[2] \in Int
            /\ \A y \in RowsOf(hold, t) : y = x
        BY <3>1, <3>2, <3>4, <4>1
      <4>3. Merged(hold, t) = n
        BY <4>2, MergedOne
      <4> QED
        BY <3>1, <3>2, <3>4, <4>3 DEF Holding
    <3> QED
      BY <3>3, <3>4
  <2>2. CASE RowsOf(hold, t) = {} /\ (GivenUp("holders", t) \/ skip)
    BY <2>2, MergedNone DEF Null
  <2> QED
    BY <1>1, <1>2, <2>1, <2>2 DEF Told
<1>11. /\ r.survived = Survived(out, t) /\ r.liq = Merged(liq, t) /\ r.curve = CurveState(curve, t)
       /\ r.flags = Merged(flags, t) /\ r.launches = Merged(dep, t) /\ r.holders = Merged(hold, t)
  BY <1>4
<1>12. r \in Record
  <2>1. Merged(flags, t) \in Int /\ Merged(dep, t) \in Int
    BY <1>8, <1>9 DEF Null
  <2> QED
    BY <1>4, <1>5, <1>6, <1>7, <1>10, <2>1 DEF Record
<1>13. LabelIsTrue(r, t)
  BY <1>5, <1>11 DEF LabelIsTrue
<1>14. IsKnowable(r, t, Mates(t), GaveUp(t), skip, now)
  <2>1. \A name \in {"liquidity", "bonding_curve", "contract_flags", "holders"} :
          GivenUp(name, t) => name \in GaveUp(t)
    BY Names DEF GaveUp
  <2> QED
    BY <1>6, <1>7, <1>8, <1>9, <1>10, <1>11, <2>1 DEF IsKnowable
<1> QED
  BY <1>3, <1>12, <1>13, <1>14

LEMMA RowsAreTrue ==
  /\ LabelsAreTrue <=> \A t \in DOMAIN table : LabelIsTrue(table[t], t)
  /\ FeaturesAreKnowable <=> \A t \in DOMAIN table :
                               IsKnowable(table[t], t, Mates(t), GaveUp(t), Skipped, now)
<1>1. \A name \in {"liquidity", "bonding_curve", "contract_flags", "holders"} :
        \A t : GivenUp(name, t) <=> name \in GaveUp(t)
  BY Names DEF GaveUp
<1> QED
  BY <1>1 DEF LabelsAreTrue, FeaturesAreKnowable, LabelIsTrue, IsKnowable, PriorLaunches

-----------------------------------------------------------------------------
(* Files stay. *)

Kept == \A c \in DOMAIN cache : c \in DOMAIN cache' /\ cache'[c] = cache[c]

LEMMA FileAdded ==
  ASSUME NEW c, NEW file, c \notin DOMAIN cache, cache' = With(c, file)
  PROVE  /\ Kept /\ c \in DOMAIN cache' /\ cache'[c] = file
         /\ \A d \in DOMAIN cache' : d = c \/ d \in DOMAIN cache
BY DEF With, Kept

LEMMA ListKept ==
  ASSUME Kept, IsListed
  PROVE  /\ IsListed' /\ Listed' = Listed /\ Selected' = Selected
         /\ \A stage : Batched(Selected', Order(stage), BatchSize[stage[1]]) = BatchesOf(stage)
<1>1. cache'[ListCell] = cache[ListCell] /\ ListCell \in DOMAIN cache'
  BY DEF Kept, IsListed
<1>2. IsListed' /\ Listed' = Listed
  BY <1>1 DEF IsListed, Listed, ListCell
<1>3. Selected' = Selected
  BY <1>2 DEF Selected
<1> QED
  BY <1>2, <1>3 DEF BatchesOf

LEMMA GivenUpKept ==
  ASSUME Kept, IsListed, NEW t
  PROVE  Mates(t)' = Mates(t) /\ \A name : GivenUp(name, t) => GivenUp(name, t)'
<1>1. Selected' = Selected /\ \A stage : BatchesOf(stage)' = BatchesOf(stage)
  BY ListKept DEF BatchesOf
<1>2. Mates(t)' = Mates(t)
  BY <1>1 DEF Mates
<1>3. \A stage, k : IsBatch(stage, k, t)' <=> IsBatch(stage, k, t)
  BY <1>1 DEF IsBatch
<1>4. ASSUME NEW name, GivenUp(name, t) PROVE GivenUp(name, t)'
  <2>1. PICK c \in DOMAIN cache :
          c[1] = <<name, 0>> /\ cache[c].kind = "timed_out" /\ IsBatch(c[1], c[2], t)
    BY <1>4 DEF GivenUp
  <2>2. c \in DOMAIN cache' /\ cache'[c] = cache[c] /\ IsBatch(c[1], c[2], t)'
    BY <1>3, <2>1 DEF Kept
  <2> QED
    BY <2>1, <2>2 DEF GivenUp
<1> QED
  BY <1>2, <1>4

LEMMA ListOfKept ==
  ASSUME now \in Nat, now' \in Nat, now <= now', NEW rows, ListOf(rows)
  PROVE  ListOf(rows)'
<1>1. PICK when \in Times : when <= now /\ rows = Graduations(when)
  BY DEF ListOf
<1>2. when <= now'
  BY EtlAssumption, <1>1
<1> QED
  BY <1>1, <1>2 DEF ListOf

LEMMA AnswerToKept ==
  ASSUME now \in Nat, now' \in Nat, now <= now', NEW stage, NEW S, NEW rows,
         AnswerTo(stage, S, rows)
  PROVE  AnswerTo(stage, S, rows)'
<1>1. PICK when \in Times : /\ when <= now /\ \A t \in S : T0[t] + 32 <= when
                            /\ rows = Answer(stage, S, when)
  BY DEF AnswerTo
<1>2. when <= now'
  BY EtlAssumption, <1>1
<1> QED
  BY <1>1, <1>2 DEF AnswerTo

LEMMA FiledKept ==
  ASSUME Kept, now \in Nat, now' \in Nat, now <= now',
         NEW c \in DOMAIN cache, Filed(c)
  PROVE  Filed(c)'
<1>1. PICK file : file = cache[c] /\ cache'[c] = file
  BY DEF Kept
<1>2. CASE /\ c = ListCell
           /\ cache[c].kind # "timed_out" /\ (cache[c].kind = "rows" => ListOf(cache[c].rows))
  <2>1. ListOf(file.rows) => ListOf(file.rows)'
    BY ListOfKept
  <2> QED
    BY <1>1, <1>2, <2>1 DEF Filed
<1>3. ASSUME IsListed, NEW p \in Program, NEW i \in 1 .. StageCount(p),
             Stage(p, i)[1] # "graduations", NEW k \in DOMAIN BatchesOf(Stage(p, i)),
             c = Cell(p, i, k),
             file.kind = "rows" => AnswerTo(Stage(p, i), BatchesOf(Stage(p, i))[k], file.rows),
             file.kind = "timed_out" => file.rows = {} /\ Stage(p, i)[1] \in Resilient
      PROVE  Filed(c)'
  <2>1. IsListed' /\ BatchesOf(Stage(p, i))' = BatchesOf(Stage(p, i))
    BY <1>3, ListKept DEF BatchesOf
  <2>2. PICK S, rows : S = BatchesOf(Stage(p, i))[k] /\ rows = file.rows
    OBVIOUS
  <2>3. AnswerTo(Stage(p, i), S, rows) => AnswerTo(Stage(p, i), S, rows)'
    BY AnswerToKept
  <2> QED
    BY <1>1, <1>3, <2>1, <2>2, <2>3 DEF Filed
<1> QED
  BY <1>1, <1>2, <1>3 DEF Filed

-----------------------------------------------------------------------------
(* What is in the files. *)

(* Every token is in one batch.                                             *)
IsPartition(B, S) ==
  /\ Len(B) \in Nat /\ DOMAIN B = 1 .. Len(B)
  /\ \A b \in DOMAIN B : B[b] \subseteq S
  /\ \A t \in S : \E b \in DOMAIN B : t \in B[b]
  /\ \A b, c \in DOMAIN B : \A t : t \in B[b] /\ t \in B[c] => b = c

LEMMA Partitioned ==
  ASSUME NEW S, S \subseteq Token, NEW stage, stage[1] \in StageName \ {"graduations"}
  PROVE  IsPartition(Batched(S, Order(stage), BatchSize[stage[1]]), S)
<1>1. PICK rank, size : rank = Order(stage) /\ size = BatchSize[stage[1]]
  OBVIOUS
<1>2. size \in Nat \ {0}
  BY <1>1, EtlAssumption
<1>3. \A x \in Token : rank[x] \in Int
  <2>1. rank \in {PoolRank, T0, MintRank}
    BY <1>1 DEF Order
  <2> QED
    BY <2>1, EtlAssumption, DuneAssumption
<1>4. IsFiniteSet(S) /\ \A x \in S : rank[x] \in Int
  BY <1>3, SomeTokens
<1>5. PICK B : B = Batched(S, rank, size)
  OBVIOUS
<1>6. /\ Len(B) \in Nat /\ DOMAIN B = 1 .. Len(B)
      /\ \A b \in DOMAIN B : B[b] \subseteq S
      /\ \A t \in S : \E b \in DOMAIN B : t \in B[b]
      /\ \A b, c \in DOMAIN B : \A t : t \in B[b] /\ t \in B[c] => b = c
  BY <1>2, <1>4, <1>5, BatchesCover
<1> QED
  BY <1>1, <1>5, <1>6 DEF IsPartition

LEMMA LargestSize == Max(SampleSizes) \in SampleSizes /\ Max(SampleSizes) \in Nat
                     /\ \A n \in SampleSizes : n <= Max(SampleSizes)
<1>1. IsFiniteSet(SampleSizes) /\ SampleSizes # {} /\ \A n \in SampleSizes : n \in Nat
  BY EtlAssumption
<1>2. \E x \in SampleSizes : \A y \in SampleSizes : x >= y
  BY <1>1, LargestExists
<1>3. Max(SampleSizes) \in SampleSizes /\ \A y \in SampleSizes : Max(SampleSizes) >= y
  BY <1>2 DEF Max
<1> QED
  BY <1>1, <1>3

LEMMA SampledTokens ==
  ASSUME TypeOK, IsListed
  PROVE  Selected \subseteq Listed /\ Listed \subseteq Token /\ cache[ListCell].rows \subseteq Row
<1>1. Selected \subseteq Listed
  BY DEF Selected, Sample
<1>2. cache[ListCell].rows \subseteq Row
  BY DEF TypeOK, IsListed, File
<1>3. Listed \subseteq Token
  BY <1>2 DEF Listed, Row
<1> QED
  BY <1>1, <1>2, <1>3

LEMMA StageNames ==
  ASSUME NEW p \in Program, NEW i \in 1 .. StageCount(p)
  PROVE  /\ Stage(p, i)[1] \in StageName /\ Stage(p, i)[2] \in 0 .. 14
         /\ p = "snapshots" => Stage(p, i)[1] = "snapshot"
         /\ p = "etl" => Stage(p, i)[1] = EtlStages[i]
         /\ Stage(p, i)[1] = "graduations" <=> p = "etl" /\ i = 1
<1>1. CASE p = "etl"
  <2>1. i \in 1 .. 7 /\ Stage(p, i) = <<EtlStages[i], 0>> /\ EtlStages[i] \in StageName
    BY <1>1, Names
  <2>2. i = 1 \/ i \in 2 .. 7
    BY <2>1
  <2>3. EtlStages[1] = "graduations"
    BY DEF EtlStages
  <2> QED
    BY <1>1, <2>1, <2>2, <2>3, Names
<1>2. CASE p = "snapshots"
  BY <1>2, Names
<1> QED
  BY <1>1, <1>2 DEF Program

LEMMA FileTells ==
  ASSUME NEW p \in Program, NEW i \in 1 .. StageCount(p), NEW k,
         NEW stage, stage = Stage(p, i), stage[1] # "graduations",
         NEW c, c = <<stage, k>>, Filed(c)
  PROVE  /\ IsListed /\ k \in DOMAIN BatchesOf(stage)
         /\ cache[c].kind = "rows" => AnswerTo(stage, BatchesOf(stage)[k], cache[c].rows)
         /\ cache[c].kind = "timed_out" => cache[c].rows = {} /\ stage[1] \in Resilient
<1>1. c # ListCell
  BY DEF ListCell
<1>2. PICK q \in Program : \E j \in 1 .. StageCount(q) :
        /\ IsListed /\ Stage(q, j)[1] # "graduations"
        /\ \E l \in DOMAIN BatchesOf(Stage(q, j)) :
             /\ c = Cell(q, j, l)
             /\ cache[c].kind = "rows" =>
                  AnswerTo(Stage(q, j), BatchesOf(Stage(q, j))[l], cache[c].rows)
             /\ cache[c].kind = "timed_out" =>
                  cache[c].rows = {} /\ Stage(q, j)[1] \in Resilient
  BY <1>1 DEF Filed
<1>3. PICK s, l : /\ IsListed /\ c = <<s, l>> /\ l \in DOMAIN BatchesOf(s)
                  /\ cache[c].kind = "rows" => AnswerTo(s, BatchesOf(s)[l], cache[c].rows)
                  /\ cache[c].kind = "timed_out" => cache[c].rows = {} /\ s[1] \in Resilient
  BY <1>2 DEF Cell
<1>4. s = stage /\ l = k
  BY <1>3
<1> QED
  BY <1>3, <1>4

LEMMA AnswerToTells ==
  ASSUME NEW S, S \subseteq Token, NEW stage, stage[1] \in StageName \ {"graduations"},
         stage[2] \in 0 .. 14, NEW rows, AnswerTo(stage, S, rows)
  PROVE  /\ \A x \in rows : x[1] \in S /\ x \in Row
         /\ \A t \in S : Tells(stage, rows, t, S, now)
<1>1. PICK when \in Times : /\ when <= now /\ \A t \in S : T0[t] + 32 <= when
                            /\ rows = Answer(stage, S, when)
  BY DEF AnswerTo
<1>2. when \in Int
  BY EtlAssumption
<1>3. \A x \in Answer(stage, S, when) : x[1] \in S /\ x \in Row
  BY AnswersOwn
<1>4. \A t \in S : Tells(stage, Answer(stage, S, when), t, S, now)
  BY <1>1, <1>2, AnswersTell
<1> QED
  BY <1>1, <1>3, <1>4

(* The batches of a stage are on file, and what is in their files.          *)
OnFile(stage) ==
  \A k \in DOMAIN BatchesOf(stage) :
    <<stage, k>> \in DOMAIN cache /\ cache[<<stage, k>>].kind # "torn"
RowsOnFile(stage) == UNION {cache[<<stage, k>>].rows : k \in DOMAIN BatchesOf(stage)}

SaysOf(stage, rows, t) ==
  /\ Told(stage, rows, t, FALSE)
  /\ \A x \in rows : x \in Row /\ x[1] \in Selected

(* A program that has read all files of a stage has what there is to say,   *)
(* or has given up.                                                         *)
LEMMA StageTold ==
  ASSUME TypeOK, \A c \in DOMAIN cache : Filed(c), IsListed,
         NEW p \in Program, NEW i \in 1 .. StageCount(p),
         NEW stage, stage = Stage(p, i), stage[1] # "graduations",
         OnFile(stage), NEW rows, rows = RowsOnFile(stage), NEW t \in Selected
  PROVE  SaysOf(stage, rows, t)
<1>1. PICK B : B = BatchesOf(stage)
  OBVIOUS
<1>2. stage[1] \in StageName \ {"graduations"} /\ stage[2] \in 0 .. 14
  BY StageNames
<1>3. IsPartition(B, Selected) /\ Selected \subseteq Token
  BY <1>1, <1>2, SampledTokens, Partitioned DEF BatchesOf
<1>4. ASSUME NEW k \in DOMAIN B
      PROVE  /\ B[k] \subseteq Selected
             /\ \A x \in cache[<<stage, k>>].rows : x[1] \in B[k] /\ x \in Row
             /\ \/ \A u \in B[k] : Tells(stage, cache[<<stage, k>>].rows, u, B[k], now)
                \/ /\ cache[<<stage, k>>].rows = {} /\ stage[1] \in Resilient
                   /\ \A u \in B[k] : GivenUp(stage[1], u)
  <2>1. PICK c : c = <<stage, k>>
    OBVIOUS
  <2>2. c \in DOMAIN cache /\ Filed(c) /\ cache[c].kind \in {"rows", "timed_out"}
    BY <1>1, <2>1 DEF TypeOK, File, OnFile
  <2>3. /\ cache[c].kind = "rows" => AnswerTo(stage, B[k], cache[c].rows)
        /\ cache[c].kind = "timed_out" => cache[c].rows = {} /\ stage[1] \in Resilient
    BY <1>1, <2>1, <2>2, FileTells
  <2>4. B[k] \subseteq Selected /\ B[k] \subseteq Token
    BY <1>3 DEF IsPartition
  <2>5. CASE cache[c].kind = "rows"
    BY <1>2, <2>1, <2>3, <2>4, <2>5, AnswerToTells
  <2>6. CASE cache[c].kind = "timed_out"
    <3>1. stage[1] \in Resilient => stage = <<stage[1], 0>>
      BY Names DEF Resilient, Program
    <3>2. c[1] = stage /\ c[2] = k
      BY <2>1
    <3>3. \A u \in B[k] : IsBatch(c[1], c[2], u)
      BY <1>1, <1>4, <3>2 DEF IsBatch
    <3>4. \A u \in B[k] : GivenUp(stage[1], u)
      BY <2>2, <2>3, <2>6, <3>1, <3>2, <3>3 DEF GivenUp
    <3> QED
      BY <2>1, <2>3, <2>4, <2>6, <3>4
  <2> QED
    BY <2>2, <2>5, <2>6
<1>5. PICK k \in DOMAIN B : t \in B[k]
  BY <1>3 DEF IsPartition
<1>6. \A l \in DOMAIN B : t \in B[l] => l = k
  BY <1>3, <1>5 DEF IsPartition
<1>7. RowsOf(rows, t) = RowsOf(cache[<<stage, k>>].rows, t)
  <2>1. \A x : x \in rows <=> \E l \in DOMAIN B : x \in cache[<<stage, l>>].rows
    BY <1>1 DEF RowsOnFile
  <2>2. ASSUME NEW x \in rows, x[1] = t PROVE x \in cache[<<stage, k>>].rows
    <3>1. PICK l \in DOMAIN B : x \in cache[<<stage, l>>].rows
      BY <2>1
    <3>2. x[1] \in B[l]
      BY <1>4, <3>1
    <3>3. l = k
      BY <1>6, <2>2, <3>2
    <3> QED
      BY <3>1, <3>3
  <2>3. \A x \in cache[<<stage, k>>].rows : x \in rows
    BY <2>1
  <2> QED
    BY <2>2, <2>3 DEF RowsOf
<1>8. \A x \in rows : x \in Row /\ x[1] \in Selected
  <2> SUFFICES ASSUME NEW x \in rows PROVE x \in Row /\ x[1] \in Selected
    OBVIOUS
  <2>1. PICK l \in DOMAIN B : x \in cache[<<stage, l>>].rows
    BY <1>1 DEF RowsOnFile
  <2>2. B[l] \subseteq Selected /\ x[1] \in B[l] /\ x \in Row
    BY <1>4, <2>1
  <2> QED
    BY <2>2
<1>9. CASE \A u \in B[k] : Tells(stage, cache[<<stage, k>>].rows, u, B[k], now)
  <2>1. stage[1] = "holders" => B[k] = Mates(t)
    <3> SUFFICES ASSUME stage[1] = "holders" PROVE B[k] = Mates(t)
      OBVIOUS
    <3>1. stage = <<"holders", 0>>
      BY Names DEF Program
    <3>2. B = BatchesOf(<<"holders", 0>>)
      BY <1>1, <3>1
    <3>3. \A u : u \in Mates(t) <=> u \in Selected /\ \E l \in DOMAIN B : {t, u} \subseteq B[l]
      BY <3>2 DEF Mates
    <3>4. B[k] \subseteq Selected
      BY <1>4
    <3> QED
      BY <1>5, <1>6, <3>3, <3>4
  <2>2. Tells(stage, cache[<<stage, k>>].rows, t, B[k], now)
    BY <1>5, <1>9
  <2>3. Tells(stage, rows, t, B[k], now)
    BY <1>7, <2>2 DEF Tells
  <2>4. Tells(stage, rows, t, Mates(t), now)
    <3>1. CASE stage[1] = "holders"
      BY <2>1, <2>3, <3>1
    <3>2. CASE stage[1] # "holders"
      <4>1. stage[1] \in {"outcome", "liquidity", "bonding_curve", "contract_flags",
                         "deployer", "snapshot"}
        BY <1>2, <3>2, Names
      <4> QED
        BY <2>3, <4>1 DEF Tells
    <3> QED
      BY <3>1, <3>2
  <2> QED
    BY <1>8, <2>4 DEF Told, SaysOf
<1>10. CASE /\ cache[<<stage, k>>].rows = {} /\ stage[1] \in Resilient
            /\ \A u \in B[k] : GivenUp(stage[1], u)
  <2>1. RowsOf(rows, t) = {} /\ GivenUp(stage[1], t)
    BY <1>5, <1>7, <1>10 DEF RowsOf
  <2> QED
    BY <1>8, <1>10, <2>1 DEF Told, SaysOf
<1> QED
  BY <1>4, <1>5, <1>9, <1>10

-----------------------------------------------------------------------------
(* What the programs have read. *)

LEMMA NoBatches ==
  ASSUME NEW rank, NEW size \in Nat \ {0}
  PROVE  Len(Batched({}, rank, size)) = 0
<1>1. PICK n, m : n = size - 1 /\ m = n \div size
  OBVIOUS
<1>2. n \in Nat /\ m \in Nat /\ size * m \in Nat /\ size * m <= n
  <2>1. n \in Nat
    BY <1>1
  <2> QED
    BY <1>1, <2>1, Division
<1>3. size * m < size * 1
  BY <1>1, <1>2
<1>4. m = 0
  <2>1. m < 1
    BY <1>2, <1>3, Product
  <2> QED
    BY <1>2, <2>1
<1>5. Cardinality({}) = 0 /\ Cardinality({}) + size - 1 = n
  BY <1>1, FS_EmptySet
<1>6. PICK B : B = Batched({}, rank, size)
  OBVIOUS
<1>7. B = [b \in 1 .. m |-> {t \in {} : Place({}, rank, t) \div size = b - 1}]
  BY <1>1, <1>5, <1>6 DEF Batched
<1>8. Len(B) = 0
  BY <1>4, <1>7
<1> QED
  BY <1>6, <1>8

LEMMA BatchesType ==
  ASSUME NEW p \in Program, NEW i \in 1 .. StageCount(p), NEW r, r.todo \subseteq Token,
         NEW B, B = Batches(r, Stage(p, i))
  PROVE  /\ Len(B) \in Nat /\ DOMAIN B = 1 .. Len(B)
         /\ \A b \in DOMAIN B : B[b] \subseteq Token
         /\ Stage(p, i)[1] = "graduations" => Len(B) = 1 /\ B[1] = Token
<1>1. PICK stage : stage = Stage(p, i)
  OBVIOUS
<1>2. CASE stage[1] = "graduations"
  <2>1. B = <<Token>>
    BY <1>1, <1>2 DEF Batches
  <2> QED
    BY <2>1
<1>3. CASE stage[1] # "graduations" /\ stage[1] = "holders" /\ r.skip
  <2>1. B = << >>
    BY <1>1, <1>3 DEF Batches
  <2> QED
    BY <1>1, <1>3, <2>1
<1>4. CASE stage[1] # "graduations" /\ ~(stage[1] = "holders" /\ r.skip)
  <2>1. B = Batched(r.todo, Order(stage), BatchSize[stage[1]])
    BY <1>1, <1>4 DEF Batches
  <2>2. stage[1] \in StageName \ {"graduations"}
    BY <1>1, <1>4, StageNames
  <2>3. IsPartition(B, r.todo)
    BY <2>1, <2>2, Partitioned
  <2> QED
    BY <1>1, <1>4, <2>3 DEF IsPartition
<1> QED
  BY <1>2, <1>3, <1>4

(* The batches a program goes through are those of the sample.              *)
LEMMA BatchIsOfSample ==
  ASSUME TypeOK, Resuming, NEW p \in Program, proc[p].pc # "idle", NEW i \in 1 .. proc[p].stage,
         NEW stage, stage = Stage(p, i), stage[1] # "graduations",
         NEW k \in 1 .. Len(Batches(proc[p], stage))
  PROVE  /\ IsListed /\ proc[p].todo = Selected
         /\ Batches(proc[p], stage) = BatchesOf(stage)
<1>1. i \in 1 .. StageCount(p) /\ proc[p] \in Run
  <2>1. proc[p].stage \in 1 .. StageCount(p) /\ StageCount(p) \in Int /\ proc[p] \in Run
    BY Names DEF TypeOK, Program
  <2> QED
    BY <2>1
<1>2. stage[1] \in StageName \ {"graduations"}
  BY <1>1, StageNames
<1>3. Batches(proc[p], stage) =
        IF stage[1] = "holders" /\ proc[p].skip THEN << >>
        ELSE Batched(proc[p].todo, Order(stage), BatchSize[stage[1]])
  BY DEF Batches
<1>4. Batches(proc[p], stage) = Batched(proc[p].todo, Order(stage), BatchSize[stage[1]])
  <2>1. Batches(proc[p], stage) # << >>
    OBVIOUS
  <2> QED
    BY <1>3, <2>1
<1>5. proc[p].todo # {}
  <2> SUFFICES ASSUME proc[p].todo = {} PROVE FALSE
    OBVIOUS
  <2>1. BatchSize[stage[1]] \in Nat \ {0}
    BY <1>2, EtlAssumption
  <2>2. Len(Batched({}, Order(stage), BatchSize[stage[1]])) = 0
    BY <2>1, NoBatches
  <2> QED
    BY <1>4, <2>2
<1>6. IsListed /\ proc[p].todo = Selected
  <2>1. CASE p = "etl"
    <3>1. i # 1
      BY <1>1, <2>1, Names
    <3>2. proc[p].stage > 1
      <4>1. proc[p].stage \in Nat
        BY <1>1 DEF Run
      <4> QED
        BY <3>1, <4>1
    <3> QED
      BY <2>1, <3>2 DEF Resuming, RunOfEtl
  <2>2. CASE p = "snapshots"
    BY <1>5, <2>2 DEF Resuming, RunOfSnapshots
  <2> QED
    BY <2>1, <2>2 DEF Program
<1> QED
  BY <1>4, <1>6 DEF BatchesOf

(* What a program was and got of a stage, before and after a step.          *)
LEMMA SameBatches ==
  ASSUME NEW r, NEW s, r.todo = s.todo, r.skip = s.skip, NEW stage
  PROVE  Batches(r, stage) = Batches(s, stage)
BY DEF Batches

(* The stage of a program is one of its stages.                             *)
LEMMA RunType ==
  ASSUME TypeOK, NEW p \in Program
  PROVE  /\ proc[p] \in Run /\ proc[p].stage \in 1 .. StageCount(p)
         /\ proc[p].stage \in Nat /\ proc[p].batch \in Nat /\ StageCount(p) \in Nat
         /\ proc[p].todo \subseteq Token
         /\ \A i \in 1 .. StageCount(p) : Len(Batches(proc[p], Stage(p, i))) \in Nat
         /\ \A i \in 1 .. StageCount(p) : ReadTo(p, i) \in Int
<1>1. proc[p] \in Run /\ proc[p].stage \in 1 .. StageCount(p)
  BY DEF TypeOK
<1>2. proc[p].stage \in Nat /\ proc[p].batch \in Nat /\ proc[p].todo \subseteq Token
  BY <1>1 DEF Run
<1>3. StageCount(p) \in Nat
  BY Names DEF Program
<1>4. \A i \in 1 .. StageCount(p) : Len(Batches(proc[p], Stage(p, i))) \in Nat
  BY <1>2, BatchesType
<1>5. \A i \in 1 .. StageCount(p) : ReadTo(p, i) \in Int
  BY <1>2, <1>4 DEF ReadTo
<1> QED
  BY <1>1, <1>2, <1>3, <1>4, <1>5

(* What may be written of a batch may still be written.                     *)
LEMMA FitsKept ==
  ASSUME now \in Nat, now' \in Nat, now <= now', NEW p \in Program,
         CellOf(p)' = CellOf(p), StageOf(p)' = StageOf(p), BatchOf(p)' = BatchOf(p),
         NEW file, Fits(p, file)
  PROVE  Fits(p, file)'
<1>1. PICK stage, S, rows : stage = StageOf(p) /\ S = BatchOf(p) /\ rows = file.rows
  OBVIOUS
<1>2. ListOf(rows) => ListOf(rows)'
  BY ListOfKept
<1>3. AnswerTo(stage, S, rows) => AnswerTo(stage, S, rows)'
  BY AnswerToKept
<1>4. StageOf(p)' = stage /\ BatchOf(p)' = S /\ CellOf(p)' = CellOf(p)
  BY <1>1
<1> QED
  BY <1>1, <1>2, <1>3, <1>4 DEF Fits

LEMMA OtherStays ==
  ASSUME TypeOK, Kept, now \in Nat, now' \in Nat, now <= now',
         NEW q \in Program, proc'[q] = proc[q], Reading(q)
  PROVE  Reading(q)' /\ \A i \in 1 .. StageCount(q) : Taken(q, i)' = Taken(q, i)
<1>1. PICK r : r = proc[q] /\ proc'[q] = r
  OBVIOUS
<1>2. \A i \in 1 .. StageCount(q) : ReadTo(q, i)' = ReadTo(q, i)
  BY <1>1 DEF ReadTo
<1>3. \A i \in 1 .. StageCount(q) : \A k \in 1 .. ReadTo(q, i) :
        Cell(q, i, k) \in DOMAIN cache /\ cache[Cell(q, i, k)].kind # "torn"
  BY DEF Reading
<1>4. \A i \in 1 .. StageCount(q) : \A k \in 1 .. ReadTo(q, i) :
        Cell(q, i, k) \in DOMAIN cache' /\ cache'[Cell(q, i, k)] = cache[Cell(q, i, k)]
  BY <1>3 DEF Kept
<1>5. \A i \in 1 .. StageCount(q) : Taken(q, i)' = Taken(q, i)
  BY <1>2, <1>4 DEF Taken
<1>6. StageOf(q)' = StageOf(q) /\ HasBatch(q)' = HasBatch(q) /\ BatchOf(q)' = BatchOf(q)
      /\ CellOf(q)' = CellOf(q)
  BY <1>1 DEF StageOf, HasBatch, BatchOf, CellOf
<1>7. r.pc = "write" => HasBatch(q)' /\ r.answer.kind # "torn" /\ Fits(q, r.answer)'
  <2>1. PICK file : file = r.answer
    OBVIOUS
  <2>2. Fits(q, file) => Fits(q, file)'
    BY <1>6, FitsKept
  <2> QED
    BY <1>1, <1>6, <2>1, <2>2 DEF Reading
<1>8. r.batch \in 1 .. Len(Batches(r, StageOf(q)')) + 1
  BY <1>1, <1>6 DEF Reading
<1> QED
  BY <1>1, <1>2, <1>3, <1>4, <1>5, <1>7, <1>8 DEF Reading

(* A program that has read one more file.                                   *)
LEMMA Advances ==
  ASSUME TypeOK, Kept, NEW p \in Program, Reading(p), HasBatch(p), NEW rows,
         proc'[p] = NextBatch(proc[p], StageOf(p), rows),
         CellOf(p) \in DOMAIN cache', cache'[CellOf(p)].kind # "torn",
         cache'[CellOf(p)].rows = rows
  PROVE  /\ Reading(p)'
         /\ \A i \in 1 .. StageCount(p) :
              Taken(p, i)' = Taken(p, i) \cup (IF i = proc[p].stage THEN rows ELSE {})
<1>1. PICK r, s : r = proc[p] /\ s = NextBatch(r, StageOf(p), rows) /\ proc'[p] = s
  OBVIOUS
<1>2. r \in Run /\ r.stage \in 1 .. StageCount(p) /\ r.stage \in Nat /\ r.batch \in Nat
  BY <1>1, RunType
<1>3. /\ s.pc = "query" /\ s.stage = r.stage /\ s.batch = r.batch + 1
      /\ s.todo = r.todo /\ s.skip = r.skip
  BY <1>1, <1>2 DEF NextBatch, Run
<1>4. \A stage : Batches(s, stage) = Batches(r, stage)
  BY <1>3, SameBatches
<1>5. PICK n : n = r.stage
  OBVIOUS
<1>6. \A i \in 1 .. StageCount(p) :
        ReadTo(p, i)' = IF i = n THEN ReadTo(p, i) + 1 ELSE ReadTo(p, i)
  BY <1>1, <1>2, <1>3, <1>4, <1>5 DEF ReadTo
<1>7. ReadTo(p, n) = r.batch - 1 /\ CellOf(p) = Cell(p, n, r.batch)
  BY <1>1, <1>2, <1>5 DEF ReadTo, CellOf, Cell, StageOf
<1>8. ASSUME NEW i \in 1 .. StageCount(p), NEW k \in 1 .. ReadTo(p, i)
      PROVE  /\ Cell(p, i, k) \in DOMAIN cache /\ cache[Cell(p, i, k)].kind # "torn"
             /\ Cell(p, i, k) \in DOMAIN cache' /\ cache'[Cell(p, i, k)] = cache[Cell(p, i, k)]
  BY <1>8 DEF Reading, Kept
<1>9. PICK upto : upto = [i \in 1 .. StageCount(p) |->
                            IF i = n THEN ReadTo(p, i) + 1 ELSE ReadTo(p, i)]
  OBVIOUS
<1>10. ASSUME NEW i \in 1 .. StageCount(p), NEW k \in 1 .. upto[i]
       PROVE  /\ k \in 1 .. ReadTo(p, i) \/ (i = n /\ Cell(p, i, k) = CellOf(p))
              /\ Cell(p, i, k) \in DOMAIN cache' /\ cache'[Cell(p, i, k)].kind # "torn"
  <2>1. ReadTo(p, i) \in Int
    BY RunType
  <2>2. k \in 1 .. ReadTo(p, i) \/ (i = n /\ k = r.batch)
    BY <1>2, <1>7, <1>9, <2>1
  <2> QED
    BY <1>7, <1>8, <2>2
<1>11. ASSUME NEW i \in 1 .. StageCount(p)
       PROVE  Taken(p, i)' = Taken(p, i) \cup (IF i = n THEN rows ELSE {})
  <2>1. Taken(p, i)' = UNION {cache'[Cell(p, i, k)].rows : k \in 1 .. upto[i]}
    BY <1>6, <1>9 DEF Taken
  <2>2. ReadTo(p, i) \in Int
    BY RunType
  <2>3. \A k \in 1 .. ReadTo(p, i) : k \in 1 .. upto[i]
    BY <1>9, <2>2
  <2>4. i = n => r.batch \in 1 .. upto[i]
    <3>1. r.batch \in 1 .. r.batch /\ r.batch - 1 + 1 = r.batch
      BY <1>1, <1>2 DEF Run
    <3> QED
      BY <1>7, <1>9, <3>1
  <2>5. \A x \in Taken(p, i)' : x \in Taken(p, i) \/ (i = n /\ x \in rows)
    BY <1>8, <1>10, <2>1 DEF Taken
  <2>6. \A x \in Taken(p, i) : x \in Taken(p, i)'
    BY <1>8, <2>1, <2>3 DEF Taken
  <2>7. i = n => \A x \in rows : x \in Taken(p, i)'
    BY <1>7, <2>1, <2>4
  <2> QED
    BY <2>5, <2>6, <2>7
<1>12. s.batch \in 1 .. Len(Batches(s, StageOf(p)')) + 1
  <2>1. StageOf(p)' = StageOf(p)
    BY <1>1, <1>3 DEF StageOf
  <2>2. r.batch <= Len(Batches(r, StageOf(p))) /\ r.batch \in 1 .. Len(Batches(r, StageOf(p))) + 1
    BY <1>1 DEF HasBatch, Reading
  <2>3. Len(Batches(r, StageOf(p))) \in Nat
    BY <1>1, RunType DEF StageOf
  <2>4. Batches(s, StageOf(p)') = Batches(r, StageOf(p))
    BY <1>4, <2>1
  <2>5. s.batch \in 1 .. Len(Batches(r, StageOf(p))) + 1
    BY <1>2, <1>3, <2>2, <2>3
  <2> QED
    BY <2>4, <2>5
<1>13. \A i \in 1 .. StageCount(p) : \A k \in 1 .. ReadTo(p, i)' :
         Cell(p, i, k) \in DOMAIN cache' /\ cache'[Cell(p, i, k)].kind # "torn"
  BY <1>6, <1>9, <1>10
<1>14. Reading(p)'
  BY <1>1, <1>3, <1>12, <1>13 DEF Reading
<1> QED
  BY <1>1, <1>5, <1>11, <1>14

(* A program that goes on to its next stage.                                *)
LEMMA MovesOn ==
  ASSUME TypeOK, UNCHANGED cache, NEW p \in Program, Reading(p), ~HasBatch(p),
         proc[p].stage < StageCount(p),
         NEW s, proc'[p] = s, s.pc = "query", s.stage = proc[p].stage + 1, s.batch = 1,
         s.todo \subseteq Token,
         \A i \in 1 .. proc[p].stage : Batches(s, Stage(p, i)) = Batches(proc[p], Stage(p, i))
  PROVE  Reading(p)' /\ \A i \in 1 .. StageCount(p) : Taken(p, i)' = Taken(p, i)
<1>1. PICK r, n : r = proc[p] /\ n = proc[p].stage
  OBVIOUS
<1>2. /\ n \in 1 .. StageCount(p) /\ n \in Nat /\ r.batch \in Nat /\ StageCount(p) \in Nat
      /\ n < StageCount(p)
  BY <1>1, RunType
<1>3. \A i \in 1 .. StageCount(p) : ReadTo(p, i)' = ReadTo(p, i)
  <2> SUFFICES ASSUME NEW i \in 1 .. StageCount(p) PROVE ReadTo(p, i)' = ReadTo(p, i)
    OBVIOUS
  <2>1. CASE i < n
    <3>1. Batches(s, Stage(p, i)) = Batches(r, Stage(p, i))
      BY <1>1, <1>2, <2>1
    <3>2. i < s.stage
      BY <1>1, <1>2, <2>1
    <3> QED
      BY <1>1, <2>1, <3>1, <3>2 DEF ReadTo
  <2>2. CASE i = n
    <3>1. Batches(s, Stage(p, i)) = Batches(r, Stage(p, i))
      BY <1>1, <1>2, <2>2
    <3>2. i < s.stage /\ ~(i < n)
      BY <1>1, <1>2, <2>2
    <3>3. r.batch - 1 = Len(Batches(r, Stage(p, i)))
      <4>1. PICK l \in Nat : l = Len(Batches(r, Stage(p, i)))
        BY <1>1, RunType
      <4>2. ~(r.batch <= l) /\ r.batch \in 1 .. l + 1
        BY <1>1, <2>2, <4>1 DEF Reading, HasBatch, StageOf
      <4> QED
        BY <1>2, <4>1, <4>2
    <3> QED
      BY <1>1, <2>2, <3>1, <3>2, <3>3 DEF ReadTo
  <2>3. CASE i > n
    <3>1. ReadTo(p, i) = 0
      BY <1>1, <1>2, <2>3 DEF ReadTo
    <3>2. ReadTo(p, i)' = 0
      BY <1>1, <1>2, <2>3 DEF ReadTo
    <3> QED
      BY <3>1, <3>2
  <2> QED
    BY <1>2, <2>1, <2>2, <2>3
<1>4. \A i \in 1 .. StageCount(p) : Taken(p, i)' = Taken(p, i)
  BY <1>3 DEF Taken
<1>5. s.batch \in 1 .. Len(Batches(s, StageOf(p)')) + 1
  <2>1. n + 1 \in 1 .. StageCount(p) /\ StageOf(p)' = Stage(p, n + 1)
    BY <1>1, <1>2 DEF StageOf
  <2>2. Len(Batches(s, Stage(p, n + 1))) \in Nat
    BY <2>1, BatchesType
  <2> QED
    BY <2>1, <2>2
<1>6. \A i \in 1 .. StageCount(p) : \A k \in 1 .. ReadTo(p, i)' :
        Cell(p, i, k) \in DOMAIN cache' /\ cache'[Cell(p, i, k)].kind # "torn"
  BY <1>3 DEF Reading
<1> QED
  BY <1>4, <1>5, <1>6 DEF Reading

(* A program that starts.                                                   *)
LEMMA Begins ==
  ASSUME NEW p \in Program, NEW s, proc'[p] = s, s.pc = "query", s.stage = 1, s.batch = 1,
         s.todo \subseteq Token
  PROVE  Reading(p)' /\ \A i \in 1 .. StageCount(p) : Taken(p, i)' = {}
<1>1. \A i \in 1 .. StageCount(p) : ReadTo(p, i)' = 0
  BY DEF ReadTo
<1>2. \A i \in 1 .. StageCount(p) : Taken(p, i)' = {}
  <2>1. 1 .. 0 = {}
    OBVIOUS
  <2> QED
    BY <1>1, <2>1 DEF Taken
<1>3. s.batch \in 1 .. Len(Batches(s, StageOf(p)')) + 1
  <2>1. 1 \in 1 .. StageCount(p)
    BY Names DEF Program
  <2>2. StageOf(p)' = Stage(p, 1)
    BY DEF StageOf
  <2>3. Len(Batches(s, Stage(p, 1))) \in Nat
    BY <2>1, BatchesType
  <2> QED
    BY <2>2, <2>3
<1>4. \A i \in 1 .. StageCount(p) : \A k \in 1 .. ReadTo(p, i)' : FALSE
  BY <1>1
<1> QED
  BY <1>2, <1>3, <1>4 DEF Reading

-----------------------------------------------------------------------------
(* What a step leaves alone. *)

Later == now \in Nat /\ now' \in Nat /\ now <= now'

LEMMA NoEarlier ==
  ASSUME TypeOK, UNCHANGED now
  PROVE  Later
<1>1. now \in Nat
  BY EtlAssumption DEF TypeOK
<1> QED
  BY <1>1 DEF Later

LEMMA FilesStay ==
  ASSUME Kept, Later, \A c \in DOMAIN cache : Filed(c),
         \A c \in DOMAIN cache' : c \in DOMAIN cache \/ Filed(c)'
  PROVE  \A c \in DOMAIN cache' : Filed(c)'
BY FiledKept DEF Later

(* The table is the sample, once the list is on file.                       *)
TableIsSample == DOMAIN table = {} \/ (IsListed /\ DOMAIN table = Selected)

LEMMA SampleStays ==
  ASSUME Kept, TableIsSample, DOMAIN table' = DOMAIN table
  PROVE  TableIsSample'
<1>1. CASE DOMAIN table = {}
  BY <1>1 DEF TableIsSample
<1>2. CASE IsListed /\ DOMAIN table = Selected
  BY <1>2, ListKept DEF TableIsSample
<1> QED
  BY <1>1, <1>2 DEF TableIsSample

(* A row that was knowable still is, whatever else is given up meanwhile.   *)
LEMMA KnowableKept ==
  ASSUME NEW t \in Token, NEW r, NEW mates, NEW gave, NEW more, gave \subseteq more,
         NEW skip, NEW none, skip => none, NEW at \in Int, NEW after \in Int, at <= after,
         IsKnowable(r, t, mates, gave, skip, at)
  PROVE  IsKnowable(r, t, mates, more, none, after)
<1>1. IsRevoked(t, at) => IsRevoked(t, after)
  <2>1. ASSUME NEW n \in Revokes[t], T0[t] + n <= at PROVE T0[t] + n <= after
    <3>1. T0[t] \in Int /\ n \in Int
      BY DuneAssumption
    <3> QED
      BY <2>1, <3>1
  <2> QED
    BY <2>1 DEF IsRevoked
<1> QED
  BY <1>1, Zenon DEF IsKnowable

LEMMA RowsStay ==
  ASSUME Kept, Later, TypeOK, TableIsSample, UNCHANGED table, LabelsAreTrue, FeaturesAreKnowable
  PROVE  LabelsAreTrue' /\ FeaturesAreKnowable'
<1>1. LabelsAreTrue'
  BY DEF LabelsAreTrue
<1>2. ASSUME NEW t \in DOMAIN table
      PROVE  LET r == table[t]
                 liq == Merged(Liquidity({t}, T0[t] + 1), t)
                 curve == Merged(BondingCurve({t}), t)
             IN /\ r.liq = liq \/ (r.liq = Null /\ GivenUp("liquidity", t)')
                /\ r.curve = curve \/ (r.curve = Null /\ GivenUp("bonding_curve", t)')
                /\ \/ r.flags = 1 /\ t \in Minted /\ ~IsRevoked(t, T0[t])
                   \/ r.flags = 0 /\ t \in Minted /\ IsRevoked(t, now')
                   \/ r.flags = Null /\ (t \notin Minted \/ GivenUp("contract_flags", t)')
                /\ r.launches = Cardinality({u \in Token : Creator[u] = Creator[t] /\ T0[u] < T0[t]})
                /\ \/ \E u \in Mates(t)' : T0[u] <= T0[t] /\ r.holders = Holding(t, T0[u] + 1)
                   \/ r.holders = Null /\ (GivenUp("holders", t)' \/ Skipped)
  <2>1. t \in Token /\ IsListed
    BY DEF TypeOK, TableIsSample
  <2>2. Mates(t)' = Mates(t) /\ \A name : GivenUp(name, t) => GivenUp(name, t)'
    BY <2>1, GivenUpKept
  <2>3. PICK gave, more : gave = GaveUp(t) /\ more = {name \in StageName : GivenUp(name, t)'}
    OBVIOUS
  <2>4. gave \subseteq more
    BY <2>2, <2>3 DEF GaveUp
  <2>5. IsKnowable(table[t], t, Mates(t), gave, Skipped, now)
    BY <2>3, RowsAreTrue
  <2>6. PICK at \in Int, after \in Int : at = now /\ after = now' /\ at <= after
    BY DEF Later
  <2>7. PICK r, mates, skip : r = table[t] /\ mates = Mates(t) /\ skip = Skipped
    OBVIOUS
  <2>8. IsKnowable(r, t, mates, more, skip, after)
    <3>1. IsKnowable(r, t, mates, gave, skip, at)
      BY <2>5, <2>6, <2>7
    <3>2. skip => skip
      OBVIOUS
    <3> QED
      BY <2>1, <2>4, <2>6, <3>1, <3>2, KnowableKept, Zenon
  <2>9. \A name : name \in more => GivenUp(name, t)'
    BY <2>3
  <2> QED
    BY <2>2, <2>6, <2>7, <2>8, <2>9, Zenon DEF IsKnowable, PriorLaunches
<1>3. Skipped' = Skipped
  BY DEF Skipped
<1>4. FeaturesAreKnowable'
  BY <1>2, <1>3 DEF FeaturesAreKnowable
<1> QED
  BY <1>1, <1>4

LEMMA Rest ==
  ASSUME ResumeInv, Kept, Later, UNCHANGED <<table, snapshots>>, TypeOK',
         \A c \in DOMAIN cache' : c \in DOMAIN cache \/ Filed(c)',
         RunOfEtl', RunOfSnapshots'
  PROVE  ResumeInv'
<1>1. LabelsAreTrue' /\ FeaturesAreKnowable'
  BY RowsStay DEF ResumeInv, Resuming, TableIsSample
<1>2. SnapshotsAreExact'
  BY DEF ResumeInv, SnapshotsAreExact
<1>3. \A c \in DOMAIN cache' : Filed(c)'
  BY FilesStay DEF ResumeInv, Resuming
<1>4. TableIsSample'
  BY SampleStays DEF ResumeInv, Resuming, TableIsSample
<1>5. Resuming'
  BY <1>3, <1>4 DEF Resuming, ResumeInv, TableIsSample
<1> QED
  BY <1>1, <1>2, <1>5 DEF ResumeInv

(* The other program.                                                       *)
LEMMA EtlStays ==
  ASSUME TypeOK, Kept, Later, RunOfEtl, proc'["etl"] = proc["etl"],
         proc["etl"].stage > 1 => DOMAIN table' = DOMAIN table
  PROVE  RunOfEtl'
<1>1. PICK r : r = proc["etl"] /\ proc'["etl"] = r
  OBVIOUS
<1>2. CASE r.pc = "idle"
  BY <1>1, <1>2 DEF RunOfEtl
<1>3. CASE r.pc # "idle"
  <2>1. Reading("etl")
    BY <1>1, <1>3 DEF RunOfEtl
  <2>2. "etl" \in Program
    BY DEF Program
  <2>3. Reading("etl")' /\ \A i \in 1 .. StageCount("etl") : Taken("etl", i)' = Taken("etl", i)
    BY <2>1, <2>2, OtherStays DEF Later
  <2>4. r.stage > 1 => IsListed' /\ r.todo = Selected' /\ DOMAIN table' = {}
    BY <1>1, <1>3, ListKept DEF RunOfEtl
  <2> QED
    BY <1>1, <1>3, <2>3, <2>4 DEF RunOfEtl
<1> QED
  BY <1>2, <1>3

LEMMA SnapshotsStay ==
  ASSUME TypeOK, Kept, Later, RunOfSnapshots, proc'["snapshots"] = proc["snapshots"],
         UNCHANGED snapshots, DOMAIN table = {} \/ DOMAIN table' = DOMAIN table
  PROVE  RunOfSnapshots'
<1>1. PICK r : r = proc["snapshots"] /\ proc'["snapshots"] = r
  OBVIOUS
<1>2. CASE r.pc = "idle"
  BY <1>1, <1>2 DEF RunOfSnapshots
<1>3. CASE r.pc # "idle"
  <2>1. Reading("snapshots")
    BY <1>1, <1>3 DEF RunOfSnapshots
  <2>2. "snapshots" \in Program
    BY DEF Program
  <2>3. Reading("snapshots")' /\ \A i \in 1 .. StageCount("snapshots") :
                                   Taken("snapshots", i)' = Taken("snapshots", i)
    BY <2>1, <2>2, OtherStays DEF Later
  <2>4. r.todo = {} \/ r.todo = DOMAIN table'
    BY <1>1, <1>3 DEF RunOfSnapshots
  <2>5. r.stage \in 1 .. StageCount("snapshots")
    BY <1>1, <2>2, RunType
  <2>6. r.got["snapshot"] = Taken("snapshots", r.stage)'
    BY <1>1, <1>3, <2>3, <2>5 DEF RunOfSnapshots
  <2>7. DaysDone(r.todo, r.stage - 1)'
    BY <1>1, <1>3 DEF RunOfSnapshots, DaysDone
  <2> QED
    BY <1>1, <1>3, <2>3, <2>4, <2>6, <2>7 DEF RunOfSnapshots
<1> QED
  BY <1>2, <1>3

-----------------------------------------------------------------------------
(* The steps of a batch keep the inductive invariant. *)

LEMMA CellType ==
  ASSUME TypeOK, NEW p \in Program
  PROVE  /\ CellOf(p) = <<StageOf(p), proc[p].batch>> /\ proc[p].batch \in Nat \ {0}
         /\ StageOf(p) = Stage(p, proc[p].stage) /\ StageOf(p)[1] \in StageName
         /\ StageOf(p)[1] = "graduations" <=> p = "etl" /\ proc[p].stage = 1
         /\ CellOf(p)[1][1] \in StageName /\ CellOf(p)[2] \in Nat \ {0}
<1>1. CellOf(p) = <<StageOf(p), proc[p].batch>> /\ StageOf(p) = Stage(p, proc[p].stage)
  BY DEF CellOf, StageOf
<1>2. proc[p].batch \in Nat \ {0} /\ proc[p].stage \in 1 .. StageCount(p)
  BY DEF TypeOK, Run
<1>3. /\ StageOf(p)[1] \in StageName
      /\ StageOf(p)[1] = "graduations" <=> p = "etl" /\ proc[p].stage = 1
  BY <1>1, <1>2, StageNames
<1> QED
  BY <1>1, <1>2, <1>3

LEMMA StoppedType == Stopped \in Run /\ Stopped.stage = 1 /\ Torn \in File
<1>1. NoRows \in [StageName -> SUBSET Row]
  BY DEF NoRows
<1>2. Torn \in File
  BY DEF Torn, File
<1> QED
  BY <1>1, <1>2 DEF Stopped, Run

LEMMA NextBatchType ==
  ASSUME NEW r \in Run, NEW stage, stage[1] \in StageName, NEW rows, rows \subseteq Row
  PROVE  /\ NextBatch(r, stage, rows) \in Run /\ NextBatch(r, stage, rows).stage = r.stage
         /\ \A name \in StageName :
              NextBatch(r, stage, rows).got[name] =
                r.got[name] \cup (IF name = stage[1] THEN rows ELSE {})
         /\ NextBatch(r, stage, rows).pc = "query" /\ NextBatch(r, stage, rows).size = r.size
         /\ NextBatch(r, stage, rows).todo = r.todo /\ NextBatch(r, stage, rows).skip = r.skip
<1>1. PICK got : got = [r.got EXCEPT ![stage[1]] = @ \cup rows]
  OBVIOUS
<1>2. r.got \in [StageName -> SUBSET Row]
  BY DEF Run
<1>3. /\ got \in [StageName -> SUBSET Row]
      /\ \A name \in StageName : got[name] = r.got[name] \cup (IF name = stage[1] THEN rows ELSE {})
  BY <1>1, <1>2
<1>4. NextBatch(r, stage, rows) = [pc |-> "query", size |-> r.size, skip |-> r.skip, todo |-> r.todo,
        stage |-> r.stage, batch |-> r.batch + 1, got |-> got, answer |-> Torn]
  <2>1. NextBatch(r, stage, rows) =
          [r EXCEPT !.pc = "query", !.batch = r.batch + 1, !.got = got, !.answer = Torn]
    BY <1>1 DEF NextBatch
  <2> QED
    BY <2>1 DEF Run
<1>5. r.batch + 1 \in Nat \ {0} /\ Torn \in File
  BY StoppedType DEF Run
<1> QED
  BY <1>3, <1>4, <1>5 DEF Run

LEMMA GoesTo ==
  ASSUME TypeOK, NEW p \in Program, NEW r \in Run, r.stage \in 1 .. StageCount(p), Goes(p, r)
  PROVE  /\ proc'[p] = r /\ \A q \in Program \ {p} : proc'[q] = proc[q]
         /\ proc' \in [Program -> Run] /\ \A q \in Program : proc'[q].stage \in 1 .. StageCount(q)
BY DEF TypeOK, Goes

LEMMA TypeStays ==
  ASSUME TypeOK, NEW p \in Program, NEW r \in Run, r.stage \in 1 .. StageCount(p), Goes(p, r),
         UNCHANGED <<now, table, snapshots>>, spent' \in Nat, faults' \in 0 .. MaxFaults,
         UNCHANGED cache \/ \E file \in File : cache' = With(CellOf(p), file)
  PROVE  TypeOK'
<1>1. proc' \in [Program -> Run] /\ \A q \in Program : proc'[q].stage \in 1 .. StageCount(q)
  BY GoesTo
<1>2. \A c \in DOMAIN cache' : c[1][1] \in StageName /\ c[2] \in Nat \ {0} /\ cache'[c] \in File
  <2>1. CASE UNCHANGED cache
    BY <2>1 DEF TypeOK
  <2>2. CASE \E file \in File : cache' = With(CellOf(p), file)
    <3>1. PICK file \in File : cache' = With(CellOf(p), file)
      BY <2>2
    <3>2. PICK d : d = CellOf(p)
      OBVIOUS
    <3>3. d[1][1] \in StageName /\ d[2] \in Nat \ {0}
      BY <3>2, CellType
    <3> QED
      BY <3>1, <3>2, <3>3 DEF With, TypeOK
  <2> QED
    BY <2>1, <2>2
<1> QED
  BY <1>1, <1>2 DEF TypeOK

LEMMA Halts ==
  ASSUME ResumeInv, Kept, NEW p \in Program, Stops(p), TypeOK',
         UNCHANGED <<now, table, snapshots>>,
         \A c \in DOMAIN cache' : c \in DOMAIN cache \/ Filed(c)'
  PROVE  ResumeInv'
<1>1. proc'[p] = Stopped /\ \A q \in Program \ {p} : proc'[q] = proc[q]
  <2>1. Stopped.stage \in 1 .. StageCount(p)
    BY StoppedType, Names DEF Program
  <2> QED
    BY <2>1, StoppedType, GoesTo DEF ResumeInv, Stops
<1>2. Later
  BY NoEarlier DEF ResumeInv
<1>3. RunOfEtl'
  <2>1. CASE p = "etl"
    BY <1>1, <2>1, StoppedIsState DEF RunOfEtl
  <2>2. CASE p # "etl"
    <3>1. proc'["etl"] = proc["etl"]
      BY <1>1, <2>2 DEF Program
    <3> QED
      BY <1>2, <3>1, EtlStays DEF ResumeInv, Resuming
  <2> QED
    BY <2>1, <2>2
<1>4. RunOfSnapshots'
  <2>1. CASE p = "snapshots"
    BY <1>1, <2>1, StoppedIsState DEF RunOfSnapshots
  <2>2. CASE p # "snapshots"
    <3>1. proc'["snapshots"] = proc["snapshots"]
      BY <1>1, <2>2 DEF Program
    <3> QED
      BY <1>2, <3>1, SnapshotsStay DEF ResumeInv, Resuming
  <2> QED
    BY <2>1, <2>2
<1> QED
  BY <1>2, <1>3, <1>4, Rest

(* A batch is done, by a file that was there or one that was written.       *)
LEMMA GoesOn ==
  ASSUME ResumeInv, Kept, NEW p \in Program, proc[p].pc # "idle", HasBatch(p),
         NEW rows, rows \subseteq Row, Goes(p, NextBatch(proc[p], StageOf(p), rows)),
         CellOf(p) \in DOMAIN cache', cache'[CellOf(p)].kind # "torn",
         cache'[CellOf(p)].rows = rows,
         TypeOK', UNCHANGED <<now, table, snapshots>>,
         \A c \in DOMAIN cache' : c \in DOMAIN cache \/ Filed(c)'
  PROVE  ResumeInv'
<1>0. TypeOK /\ Later
  BY NoEarlier DEF ResumeInv
<1>1. PICK r, s : r = proc[p] /\ s = NextBatch(r, StageOf(p), rows)
  OBVIOUS
<1>2. r \in Run /\ StageOf(p)[1] \in StageName /\ r.stage \in 1 .. StageCount(p)
  BY <1>0, <1>1, RunType, CellType
<1>3. /\ s \in Run /\ s.stage = r.stage /\ s.pc = "query" /\ s.size = r.size /\ s.todo = r.todo
      /\ s.skip = r.skip
      /\ \A name \in StageName :
           s.got[name] = r.got[name] \cup (IF name = StageOf(p)[1] THEN rows ELSE {})
  BY <1>1, <1>2, NextBatchType
<1>4. proc'[p] = s /\ \A q \in Program \ {p} : proc'[q] = proc[q]
  BY <1>0, <1>1, <1>2, <1>3, GoesTo
<1>5. Reading(p)
  BY DEF ResumeInv, Resuming, RunOfEtl, RunOfSnapshots, Program
<1>6. /\ Reading(p)'
      /\ \A i \in 1 .. StageCount(p) :
           Taken(p, i)' = Taken(p, i) \cup (IF i = r.stage THEN rows ELSE {})
  BY <1>0, <1>1, <1>4, <1>5, Advances
<1>7. RunOfEtl'
  <2>1. CASE p = "etl"
    <3>1. /\ r.size = Max(SampleSizes) /\ r.skip \in Skips
          /\ r.stage > 1 => IsListed /\ r.todo = Selected /\ DOMAIN table = {}
          /\ \A i \in 1 .. StageCount("etl") : r.got[EtlStages[i]] = Taken("etl", i)
      BY <1>1, <2>1 DEF ResumeInv, Resuming, RunOfEtl
    <3>2. s.stage > 1 => IsListed' /\ s.todo = Selected' /\ DOMAIN table' = {}
      BY <1>3, <3>1, ListKept
    <3>3. StageCount("etl") = 7 /\ StageOf("etl")[1] = EtlStages[r.stage]
      BY <1>1, <1>2, <2>1, Names, StageNames DEF StageOf
    <3>4. ASSUME NEW i \in 1 .. StageCount("etl") PROVE s.got[EtlStages[i]] = Taken("etl", i)'
      <4>1. EtlStages[i] \in StageName /\ (EtlStages[i] = EtlStages[r.stage] => i = r.stage)
        BY <1>2, <2>1, <3>3, Names
      <4>2. s.got[EtlStages[i]] = r.got[EtlStages[i]] \cup (IF i = r.stage THEN rows ELSE {})
        BY <1>3, <2>1, <3>3, <4>1
      <4> QED
        BY <1>6, <2>1, <3>1, <4>2
    <3> QED
      BY <1>3, <1>4, <1>6, <2>1, <3>1, <3>2, <3>4 DEF RunOfEtl
  <2>2. CASE p # "etl"
    <3>1. proc'["etl"] = proc["etl"]
      BY <1>4, <2>2 DEF Program
    <3> QED
      BY <1>0, <3>1, EtlStays DEF ResumeInv, Resuming
  <2> QED
    BY <2>1, <2>2
<1>8. RunOfSnapshots'
  <2>1. CASE p = "snapshots"
    <3>1. /\ r.todo = {} \/ r.todo = DOMAIN table
          /\ r.got["snapshot"] = Taken("snapshots", r.stage)
          /\ DaysDone(r.todo, r.stage - 1)
      BY <1>1, <2>1 DEF ResumeInv, Resuming, RunOfSnapshots
    <3>2. StageOf("snapshots")[1] = "snapshot" /\ "snapshot" \in StageName
      BY <1>1, <1>2, <2>1, StageNames, Names DEF StageOf
    <3>3. s.got["snapshot"] = Taken("snapshots", s.stage)'
      <4>1. s.got["snapshot"] = Taken("snapshots", r.stage) \cup rows
        BY <1>3, <2>1, <3>1, <3>2
      <4>2. PICK n \in 1 .. StageCount("snapshots") : n = r.stage
        BY <1>2, <2>1
      <4>3. Taken("snapshots", n)' = Taken("snapshots", n) \cup rows
        BY <1>6, <2>1, <4>2
      <4> QED
        BY <1>3, <4>1, <4>2, <4>3
    <3>4. DaysDone(s.todo, s.stage - 1)'
      BY <1>3, <3>1 DEF DaysDone
    <3> QED
      BY <1>3, <1>4, <1>6, <2>1, <3>1, <3>3, <3>4 DEF RunOfSnapshots
  <2>2. CASE p # "snapshots"
    <3>1. proc'["snapshots"] = proc["snapshots"]
      BY <1>4, <2>2 DEF Program
    <3> QED
      BY <1>0, <3>1, SnapshotsStay DEF ResumeInv, Resuming
  <2> QED
    BY <2>1, <2>2
<1> QED
  BY <1>0, <1>7, <1>8, Rest

(* Where a program is that has a batch to do.                               *)
LEMMA AtBatch ==
  ASSUME ResumeInv, NEW p \in Program, proc[p].pc # "idle", HasBatch(p)
  PROVE  /\ BatchOf(p) \subseteq Token
         /\ CellOf(p) = ListCell => StageOf(p)[1] = "graduations" /\ BatchOf(p) = Token
         /\ CellOf(p) # ListCell =>
              /\ StageOf(p)[1] # "graduations"
              /\ IsListed /\ proc[p].todo = Selected
              /\ proc[p].batch \in DOMAIN BatchesOf(StageOf(p))
              /\ BatchOf(p) = BatchesOf(StageOf(p))[proc[p].batch]
<1>0. TypeOK /\ Resuming /\ Reading(p)
  BY DEF ResumeInv, Resuming, RunOfEtl, RunOfSnapshots, Program
<1>1. PICK i, b, stage : i = proc[p].stage /\ b = proc[p].batch /\ stage = StageOf(p)
  OBVIOUS
<1>2. /\ i \in 1 .. StageCount(p) /\ i \in 1 .. i /\ i \in Nat /\ b \in Nat \ {0}
      /\ stage = Stage(p, i) /\ CellOf(p) = <<stage, b>>
      /\ stage[1] = "graduations" <=> p = "etl" /\ i = 1
  BY <1>0, <1>1, RunType, CellType
<1>3. PICK B : B = Batches(proc[p], stage)
  OBVIOUS
<1>4. /\ Len(B) \in Nat /\ DOMAIN B = 1 .. Len(B)
      /\ \A c \in DOMAIN B : B[c] \subseteq Token
      /\ stage[1] = "graduations" => Len(B) = 1 /\ B[1] = Token
  BY <1>0, <1>1, <1>2, <1>3, RunType, BatchesType
<1>5. b \in 1 .. Len(B) /\ BatchOf(p) = B[b]
  <2>1. b <= Len(B) /\ BatchOf(p) = B[b]
    BY <1>1, <1>3 DEF HasBatch, BatchOf
  <2> QED
    BY <1>2, <1>4, <2>1
<1>6. CASE stage[1] = "graduations"
  <2>1. b = 1
    BY <1>4, <1>5, <1>6
  <2>2. stage = <<"graduations", 0>>
    BY <1>2, <1>6, Names
  <2>3. CellOf(p) = ListCell
    BY <1>2, <2>1, <2>2 DEF ListCell
  <2> QED
    BY <1>1, <1>4, <1>5, <1>6, <2>1, <2>3
<1>7. CASE stage[1] # "graduations"
  <2>1. CellOf(p) # ListCell
    BY <1>2, <1>7 DEF ListCell
  <2>2. IsListed /\ proc[p].todo = Selected /\ B = BatchesOf(stage)
    BY <1>0, <1>1, <1>2, <1>3, <1>5, <1>7, BatchIsOfSample
  <2> QED
    BY <1>1, <1>4, <1>5, <1>7, <2>1, <2>2
<1> QED
  BY <1>6, <1>7

LEMMA Files ==
  ASSUME ResumeInv, Kept, Later, NEW p \in Program, proc[p].pc # "idle", HasBatch(p),
         NEW file, cache'[CellOf(p)] = file, Fits(p, file)
  PROVE  \A c : c = CellOf(p) => Filed(c)'
<1> SUFFICES ASSUME NEW c, c = CellOf(p) PROVE Filed(c)'
  OBVIOUS
<1>0. /\ file.kind = "rows" => IF CellOf(p) = ListCell THEN ListOf(file.rows)
                               ELSE AnswerTo(StageOf(p), BatchOf(p), file.rows)
      /\ file.kind = "timed_out" => file.rows = {} /\ StageOf(p)[1] \in Resilient
  BY DEF Fits
<1>1. TypeOK
  BY DEF ResumeInv
<1>2. CASE c = ListCell
  <2>1. StageOf(p)[1] = "graduations"
    BY <1>2, AtBatch
  <2>2. file.kind # "timed_out"
    BY <1>0, <2>1 DEF Resilient
  <2>3. file.kind = "rows" => ListOf(file.rows)'
    <3>1. PICK rows : rows = file.rows
      OBVIOUS
    <3>2. ListOf(rows) => ListOf(rows)'
      BY ListOfKept DEF Later
    <3> QED
      BY <1>0, <1>2, <3>1, <3>2
  <2> QED
    BY <1>2, <2>2, <2>3 DEF Filed
<1>3. CASE c # ListCell
  <2>1. PICK i, k, stage : i = proc[p].stage /\ k = proc[p].batch /\ stage = Stage(p, i)
    OBVIOUS
  <2>2. /\ stage = StageOf(p) /\ c = Cell(p, i, k) /\ i \in 1 .. StageCount(p)
    BY <1>1, <2>1, CellType, RunType DEF Cell
  <2>3. /\ stage[1] # "graduations" /\ IsListed /\ k \in DOMAIN BatchesOf(stage)
        /\ BatchOf(p) = BatchesOf(stage)[k]
    BY <1>3, <2>1, <2>2, AtBatch
  <2>4. IsListed' /\ BatchesOf(stage)' = BatchesOf(stage)
    BY <2>3, ListKept DEF BatchesOf
  <2>5. file.kind = "rows" => AnswerTo(stage, BatchesOf(stage)[k], file.rows)'
    <3>1. PICK S, rows : S = BatchesOf(stage)[k] /\ rows = file.rows
      OBVIOUS
    <3>2. AnswerTo(stage, S, rows) => AnswerTo(stage, S, rows)'
      BY AnswerToKept DEF Later
    <3> QED
      BY <1>0, <1>3, <2>2, <2>3, <2>4, <3>1, <3>2
  <2>6. cache'[c] = file
    OBVIOUS
  <2>7. file.kind = "timed_out" => file.rows = {} /\ stage[1] \in Resilient
    BY <1>0, <2>2
  <2> QED
    BY <2>1, <2>2, <2>3, <2>4, <2>5, <2>6, <2>7 DEF Filed
<1> QED
  BY <1>2, <1>3

LEMMA ReadCacheResumes ==
  ASSUME ResumeInv, NEW p \in Program, ReadCache(p)
  PROVE  ResumeInv'
<1>1. /\ proc[p].pc = "query" /\ HasBatch(p) /\ CellOf(p) \in DOMAIN cache
      /\ UNCHANGED <<now, cache, table, snapshots, spent, faults>>
  BY DEF ReadCache, Cached
<1>2. Kept /\ TypeOK
  BY <1>1 DEF Kept, ResumeInv
<1>3. CASE Stops(p)
  <2>1. TypeOK'
    <3>1. Stopped.stage \in 1 .. StageCount(p)
      BY StoppedType, Names DEF Program
    <3>2. spent' \in Nat /\ faults' \in 0 .. MaxFaults
      BY <1>1, <1>2 DEF TypeOK
    <3> QED
      BY <1>1, <1>2, <1>3, <3>1, <3>2, StoppedType, TypeStays DEF Stops
  <2> QED
    BY <1>1, <1>2, <1>3, <2>1, Halts
<1>4. CASE cache[CellOf(p)].kind # "torn"
           /\ Goes(p, NextBatch(proc[p], StageOf(p), cache[CellOf(p)].rows))
  <2>1. PICK rows : rows = cache[CellOf(p)].rows
    OBVIOUS
  <2>2. rows \subseteq Row
    BY <1>1, <1>2, <2>1 DEF TypeOK, File
  <2>3. TypeOK'
    <3>1. PICK s : s = NextBatch(proc[p], StageOf(p), rows)
      OBVIOUS
    <3>2. s \in Run /\ s.stage \in 1 .. StageCount(p)
      BY <1>2, <2>2, <3>1, RunType, CellType, NextBatchType
    <3>3. spent' \in Nat /\ faults' \in 0 .. MaxFaults
      BY <1>1, <1>2 DEF TypeOK
    <3> QED
      BY <1>1, <1>2, <1>4, <2>1, <3>1, <3>2, <3>3, TypeStays
  <2> QED
    BY <1>1, <1>2, <1>4, <2>1, <2>2, <2>3, GoesOn
<1> QED
  BY <1>3, <1>4 DEF ReadCache

(* What Dune answers now is settled: the list leaves out what is not.       *)
LEMMA AnswersNow ==
  ASSUME ResumeInv, NEW p \in Program, proc[p].pc # "idle", HasBatch(p),
         NEW rows, rows = Answer(StageOf(p), BatchOf(p), now)
  PROVE  /\ rows \subseteq Row
         /\ Fits(p, [kind |-> "rows", rows |-> rows])
<1>1. TypeOK /\ now \in Times /\ now \in Nat
  BY EtlAssumption DEF ResumeInv, TypeOK
<1>2. CASE CellOf(p) = ListCell
  <2>1. rows = Graduations(now)
    BY <1>2, AtBatch DEF Answer
  <2>2. rows \subseteq Row
    BY <2>1, DuneAssumption DEF Graduations, Row
  <2>3. ListOf(rows)
    BY <1>1, <2>1 DEF ListOf
  <2> QED
    BY <1>2, <2>2, <2>3 DEF Fits
<1>3. CASE CellOf(p) # ListCell
  <2>1. PICK S, stage : S = BatchOf(p) /\ stage = StageOf(p)
    OBVIOUS
  <2>2. /\ S \subseteq Token /\ stage[1] \in StageName \ {"graduations"}
        /\ IsListed /\ S = BatchesOf(stage)[proc[p].batch] /\ proc[p].batch \in DOMAIN BatchesOf(stage)
    BY <1>1, <1>3, <2>1, AtBatch, CellType
  <2>3. rows \subseteq Row
    BY <2>1, <2>2, AnswersOwn
  <2>4. S \subseteq Listed
    <3>1. Selected \subseteq Listed /\ Selected \subseteq Token
      BY <1>1, <2>2, SampledTokens
    <3>2. IsPartition(BatchesOf(stage), Selected)
      BY <2>2, <3>1, Partitioned DEF BatchesOf
    <3> QED
      BY <2>2, <3>1, <3>2 DEF IsPartition
  <2>5. ListOf(cache[ListCell].rows)
    <3>1. ListCell \in DOMAIN cache /\ cache[ListCell].kind = "rows" /\ Filed(ListCell)
      BY <2>2 DEF IsListed, ResumeInv, Resuming
    <3>2. \A q \in Program : \A i \in 1 .. StageCount(q) : \A k :
            Stage(q, i)[1] # "graduations" => ListCell # Cell(q, i, k)
      BY DEF ListCell, Cell
    <3> QED
      BY <3>1, <3>2 DEF Filed
  <2>6. PICK when \in Times : when <= now /\ cache[ListCell].rows = Graduations(when)
    BY <2>5 DEF ListOf
  <2>7. ASSUME NEW t \in S PROVE T0[t] + 32 <= now
    <3>1. t \in Listed
      BY <2>4
    <3>2. T0[t] < SettleCutoff(when) /\ t \in Token
      BY <2>6, <3>1 DEF Listed, Graduations
    <3>3. T0[t] \in Nat /\ when \in Nat
      BY <3>2, EtlAssumption, DuneAssumption
    <3>4. 2 * ((when - 32) \div 2) <= when - 32
      BY <3>3
    <3> QED
      BY <1>1, <2>6, <3>2, <3>3, <3>4 DEF SettleCutoff
  <2>8. AnswerTo(stage, S, rows)
    <3>1. now \in Times /\ now <= now
      BY <1>1
    <3> QED
      BY <2>1, <2>7, <3>1 DEF AnswerTo
  <2> QED
    BY <1>3, <2>1, <2>3, <2>8 DEF Fits
<1> QED
  BY <1>2, <1>3

(* A program that has an answer and is about to write it.                   *)
LEMMA Asks ==
  ASSUME TypeOK, Later, UNCHANGED <<cache, now>>, NEW p \in Program, Reading(p), HasBatch(p),
         NEW s, proc'[p] = s, s.stage = proc[p].stage, s.batch = proc[p].batch,
         s.todo = proc[p].todo, s.skip = proc[p].skip,
         Fits(p, s.answer), s.answer.kind # "torn"
  PROVE  Reading(p)' /\ \A i \in 1 .. StageCount(p) : Taken(p, i)' = Taken(p, i)
<1>1. \A stage : Batches(s, stage) = Batches(proc[p], stage)
  BY SameBatches
<1>2. \A i \in 1 .. StageCount(p) : ReadTo(p, i)' = ReadTo(p, i)
  BY <1>1 DEF ReadTo
<1>3. \A i \in 1 .. StageCount(p) : Taken(p, i)' = Taken(p, i)
  BY <1>2 DEF Taken
<1>4. PICK stage, S, c : stage = StageOf(p) /\ S = BatchOf(p) /\ c = CellOf(p)
  OBVIOUS
<1>5. StageOf(p)' = stage /\ CellOf(p)' = c
  BY <1>4 DEF StageOf, CellOf
<1>6. HasBatch(p)' /\ BatchOf(p)' = S
  BY <1>1, <1>4, <1>5 DEF HasBatch, BatchOf
<1>7. Fits(p, s.answer)'
  <2>1. PICK file : file = s.answer
    OBVIOUS
  <2>2. CellOf(p)' = CellOf(p) /\ StageOf(p)' = StageOf(p) /\ BatchOf(p)' = BatchOf(p)
    BY <1>4, <1>5, <1>6
  <2>3. Fits(p, file)'
    BY <2>1, <2>2, FitsKept DEF Later
  <2> QED
    BY <2>1, <2>3
<1>9. s.batch \in 1 .. Len(Batches(s, StageOf(p)')) + 1
  BY <1>1, <1>4, <1>5 DEF Reading
<1>10. \A i \in 1 .. StageCount(p) : \A k \in 1 .. ReadTo(p, i)' :
         Cell(p, i, k) \in DOMAIN cache' /\ cache'[Cell(p, i, k)].kind # "torn"
  BY <1>2 DEF Reading
<1> QED
  BY <1>3, <1>6, <1>7, <1>9, <1>10 DEF Reading

(* A program that has something to write.                                   *)
LEMMA Holds ==
  ASSUME ResumeInv, NEW p \in Program, proc[p].pc # "idle", HasBatch(p),
         NEW file \in File, Fits(p, file), file.kind # "torn",
         Goes(p, [proc[p] EXCEPT !.pc = "write", !.answer = file]),
         UNCHANGED <<now, cache, table, snapshots>>,
         spent' \in Nat, faults' \in 0 .. MaxFaults
  PROVE  ResumeInv'
<1>1. TypeOK /\ Later /\ Reading(p)
  BY NoEarlier DEF ResumeInv, Resuming, RunOfEtl, RunOfSnapshots, Program
<1>2. PICK r, s : r = proc[p] /\ s = [r EXCEPT !.pc = "write", !.answer = file]
  OBVIOUS
<1>3. r \in Run /\ r.stage \in 1 .. StageCount(p)
  BY <1>1, <1>2, RunType
<1>4. /\ s \in Run /\ s.pc = "write" /\ s.answer = file /\ s.stage = r.stage /\ s.batch = r.batch
      /\ s.todo = r.todo /\ s.skip = r.skip /\ s.got = r.got /\ s.size = r.size
  BY <1>2, <1>3 DEF Run
<1>5. Goes(p, s)
  BY <1>2
<1>6. proc'[p] = s /\ \A q \in Program \ {p} : proc'[q] = proc[q]
  BY <1>1, <1>3, <1>4, <1>5, GoesTo
<1>7. TypeOK'
  <2>1. spent' \in Nat /\ faults' \in 0 .. MaxFaults
    BY <1>1
  <2> QED
    BY <1>1, <1>3, <1>4, <1>5, <2>1, TypeStays
<1>8. Reading(p)' /\ \A i \in 1 .. StageCount(p) : Taken(p, i)' = Taken(p, i)
  <2>1. HasBatch(p) /\ Fits(p, s.answer) /\ s.answer.kind # "torn"
    BY <1>4
  <2>2. /\ s.stage = proc[p].stage /\ s.batch = proc[p].batch /\ s.todo = proc[p].todo
        /\ s.skip = proc[p].skip /\ proc'[p] = s
    BY <1>2, <1>4, <1>6
  <2> QED
    BY <1>1, <2>1, <2>2, Asks
<1>9. Kept
  BY DEF Kept
<1>10. RunOfEtl'
  <2>1. CASE p = "etl"
    <3>1. /\ r.size = Max(SampleSizes) /\ r.skip \in Skips
          /\ r.stage > 1 => IsListed /\ r.todo = Selected /\ DOMAIN table = {}
          /\ \A i \in 1 .. StageCount("etl") : r.got[EtlStages[i]] = Taken("etl", i)
      BY <1>2, <2>1 DEF ResumeInv, Resuming, RunOfEtl
    <3>2. s.stage > 1 => IsListed' /\ s.todo = Selected' /\ DOMAIN table' = {}
      BY <1>4, <1>9, <3>1, ListKept
    <3>3. \A i \in 1 .. StageCount("etl") : s.got[EtlStages[i]] = Taken("etl", i)'
      BY <1>4, <1>8, <2>1, <3>1
    <3> QED
      BY <1>4, <1>6, <1>8, <2>1, <3>1, <3>2, <3>3 DEF RunOfEtl
  <2>2. CASE p # "etl"
    <3>1. proc'["etl"] = proc["etl"]
      BY <1>6, <2>2 DEF Program
    <3> QED
      BY <1>1, <1>9, <3>1, EtlStays DEF ResumeInv, Resuming
  <2> QED
    BY <2>1, <2>2
<1>11. RunOfSnapshots'
  <2>1. CASE p = "snapshots"
    <3>1. /\ r.todo = {} \/ r.todo = DOMAIN table
          /\ r.got["snapshot"] = Taken("snapshots", r.stage)
          /\ DaysDone(r.todo, r.stage - 1)
      BY <1>2, <2>1 DEF ResumeInv, Resuming, RunOfSnapshots
    <3>2. s.got["snapshot"] = Taken("snapshots", s.stage)'
      <4>1. PICK n \in 1 .. StageCount("snapshots") : n = r.stage
        BY <1>3, <2>1
      <4>2. Taken("snapshots", n)' = Taken("snapshots", n)
        BY <1>8, <2>1
      <4> QED
        BY <1>4, <3>1, <4>1, <4>2
    <3>3. DaysDone(s.todo, s.stage - 1)'
      BY <1>4, <3>1 DEF DaysDone
    <3> QED
      BY <1>4, <1>6, <1>8, <2>1, <3>1, <3>2, <3>3 DEF RunOfSnapshots
  <2>2. CASE p # "snapshots"
    <3>1. proc'["snapshots"] = proc["snapshots"]
      BY <1>6, <2>2 DEF Program
    <3> QED
      BY <1>1, <1>9, <3>1, SnapshotsStay DEF ResumeInv, Resuming
  <2> QED
    BY <2>1, <2>2
<1> QED
  BY <1>1, <1>7, <1>9, <1>10, <1>11, Rest
LEMMA QueryResumes ==
  ASSUME ResumeInv, NEW p \in Program, Query(p)
  PROVE  ResumeInv'
<1>1. /\ proc[p].pc = "query" /\ HasBatch(p) /\ CellOf(p) \notin DOMAIN cache
      /\ UNCHANGED <<now, cache, table, snapshots>>
  BY DEF Query, Cached
<1>2. TypeOK /\ spent \in Nat /\ faults \in 0 .. MaxFaults /\ MaxFaults \in Nat
  BY EtlAssumption DEF ResumeInv, TypeOK
<1>3. CASE /\ Goes(p, [proc[p] EXCEPT
                       !.pc = "write",
                       !.answer = [kind |-> "rows", rows |-> Answer(StageOf(p), BatchOf(p), now)]])
           /\ spent' = spent + 1
           /\ UNCHANGED faults
  <2>1. PICK rows : rows = Answer(StageOf(p), BatchOf(p), now)
    OBVIOUS
  <2>2. rows \subseteq Row /\ Fits(p, [kind |-> "rows", rows |-> rows])
    BY <1>1, <2>1, AnswersNow
  <2>3. PICK file : file = [kind |-> "rows", rows |-> rows]
    OBVIOUS
  <2>4. file \in File /\ file.kind # "torn" /\ Fits(p, file)
    BY <2>2, <2>3 DEF File
  <2>5. Goes(p, [proc[p] EXCEPT !.pc = "write", !.answer = file])
    BY <1>3, <2>1, <2>3
  <2>6. spent' \in Nat /\ faults' \in 0 .. MaxFaults
    BY <1>2, <1>3
  <2> QED
    BY <1>1, <2>4, <2>5, <2>6, Holds
<1>4. CASE /\ faults < MaxFaults /\ faults' = faults + 1
           /\ StageOf(p)[1] \in Resilient
           /\ Goes(p, [proc[p] EXCEPT !.pc = "write",
                                      !.answer = [kind |-> "timed_out", rows |-> {}]])
           /\ UNCHANGED spent
  <2>1. PICK file : file = [kind |-> "timed_out", rows |-> {}]
    OBVIOUS
  <2>2. file \in File /\ file.kind = "timed_out" /\ file.rows = {}
    BY <2>1 DEF File
  <2>3. Fits(p, file)
    BY <1>4, <2>2 DEF Fits
  <2>4. Goes(p, [proc[p] EXCEPT !.pc = "write", !.answer = file])
    BY <1>4, <2>1
  <2>5. spent' \in Nat /\ faults' \in 0 .. MaxFaults
    BY <1>2, <1>4
  <2> QED
    BY <1>1, <2>2, <2>3, <2>4, <2>5, Holds
<1>5. CASE faults < MaxFaults /\ faults' = faults + 1 /\ Stops(p) /\ spent' \in {spent, spent + 1}
  <2>1. Kept
    BY <1>1 DEF Kept
  <2>2. TypeOK'
    <3>1. Stopped.stage \in 1 .. StageCount(p)
      BY StoppedType, Names DEF Program
    <3>2. spent' \in Nat /\ faults' \in 0 .. MaxFaults
      BY <1>2, <1>5
    <3> QED
      BY <1>1, <1>2, <1>5, <3>1, <3>2, StoppedType, TypeStays DEF Stops
  <2> QED
    BY <1>1, <1>5, <2>1, <2>2, Halts
<1> QED
  BY <1>3, <1>4, <1>5 DEF Query

LEMMA WriteCacheResumes ==
  ASSUME IInv, ResumeInv, NEW p \in Program, WriteCache(p)
  PROVE  ResumeInv'
<1>1. PICK file, rows : file = proc[p].answer /\ rows = file.rows
  OBVIOUS
<1>2. /\ proc[p].pc = "write" /\ cache' = With(CellOf(p), file)
      /\ Goes(p, NextBatch(proc[p], StageOf(p), rows))
      /\ UNCHANGED <<now, table, snapshots, spent, faults>>
  BY <1>1 DEF WriteCache
<1>3. TypeOK /\ Later /\ Reading(p) /\ CellOf(p) \notin DOMAIN cache
  BY <1>2, NoEarlier DEF ResumeInv, Resuming, RunOfEtl, RunOfSnapshots, Program, IInv, WritesAreFresh
<1>4. HasBatch(p) /\ file.kind # "torn" /\ Fits(p, file)
  BY <1>1, <1>2, <1>3 DEF Reading
<1>5. rows \subseteq Row /\ file \in File /\ file.rows = rows
  BY <1>1, <1>3 DEF TypeOK, Run, File
<1>6. /\ Kept /\ CellOf(p) \in DOMAIN cache' /\ cache'[CellOf(p)] = file
      /\ \A d \in DOMAIN cache' : d = CellOf(p) \/ d \in DOMAIN cache
  BY <1>2, <1>3, FileAdded
<1>7. \A c : c = CellOf(p) => Filed(c)'
  BY <1>2, <1>3, <1>4, <1>6, Files
<1>8. \A c \in DOMAIN cache' : c \in DOMAIN cache \/ Filed(c)'
  BY <1>6, <1>7
<1>9. TypeOK'
  <2>1. PICK s : s = NextBatch(proc[p], StageOf(p), rows)
    OBVIOUS
  <2>2. s \in Run /\ s.stage \in 1 .. StageCount(p)
    BY <1>3, <1>5, <2>1, RunType, CellType, NextBatchType
  <2>3. spent' \in Nat /\ faults' \in 0 .. MaxFaults
    BY <1>2, <1>3 DEF TypeOK
  <2> QED
    BY <1>2, <1>3, <1>5, <2>1, <2>2, <2>3, TypeStays
<1> QED
  BY <1>2, <1>4, <1>5, <1>6, <1>8, <1>9, GoesOn

LEMMA CrashResumes ==
  ASSUME IInv, ResumeInv, NEW p \in Program, Crash(p)
  PROVE  ResumeInv'
<1>1. /\ proc[p].pc # "idle" /\ faults < MaxFaults /\ faults' = faults + 1 /\ Stops(p)
      /\ UNCHANGED <<now, table, snapshots, spent>>
  BY DEF Crash
<1>2. TypeOK /\ Later /\ Reading(p)
  BY <1>1, NoEarlier DEF ResumeInv, Resuming, RunOfEtl, RunOfSnapshots, Program
<1>3. /\ spent' \in Nat /\ faults' \in 0 .. MaxFaults
      /\ Stopped \in Run /\ Stopped.stage \in 1 .. StageCount(p)
  BY <1>1, <1>2, EtlAssumption, StoppedType, Names DEF TypeOK, Program
<1>4. CASE UNCHANGED cache
  <2>1. Kept
    BY <1>4 DEF Kept
  <2>2. TypeOK'
    BY <1>1, <1>2, <1>3, <1>4, TypeStays DEF Stops
  <2> QED
    BY <1>1, <1>4, <2>1, <2>2, Halts
<1>5. CASE proc[p].pc = "write" /\ cache' = With(CellOf(p), Torn)
  <2>1. PICK file : file = Torn
    OBVIOUS
  <2>2. file \in File /\ file.kind = "torn"
    BY <2>1, StoppedType DEF Torn
  <2>3. CellOf(p) \notin DOMAIN cache /\ HasBatch(p)
    BY <1>2, <1>5 DEF IInv, WritesAreFresh, Reading
  <2>4. /\ Kept /\ cache'[CellOf(p)] = file
        /\ \A d \in DOMAIN cache' : d = CellOf(p) \/ d \in DOMAIN cache
    BY <1>5, <2>1, <2>3, FileAdded
  <2>5. \A c : c = CellOf(p) => Filed(c)'
    <3>1. Fits(p, file)
      BY <2>2 DEF Fits
    <3> QED
      BY <1>1, <1>2, <2>3, <2>4, <3>1, Files
  <2>6. \A c \in DOMAIN cache' : c \in DOMAIN cache \/ Filed(c)'
    BY <2>4, <2>5
  <2>7. TypeOK'
    BY <1>1, <1>2, <1>3, <1>5, <2>1, <2>2, TypeStays DEF Stops
  <2> QED
    BY <1>1, <2>4, <2>6, <2>7, Halts
<1> QED
  BY <1>4, <1>5 DEF Crash

-----------------------------------------------------------------------------
(* The end of a stage. *)

LEMMA ReadAll ==
  ASSUME TypeOK, NEW p \in Program, Reading(p), ~HasBatch(p), NEW i \in 1 .. proc[p].stage
  PROVE  /\ i \in 1 .. StageCount(p)
         /\ ReadTo(p, i) = Len(Batches(proc[p], Stage(p, i)))
<1>1. PICK r, n : r = proc[p] /\ n = proc[p].stage
  OBVIOUS
<1>2. n \in 1 .. StageCount(p) /\ n \in Nat /\ StageCount(p) \in Nat /\ r.batch \in Nat
  BY <1>1, RunType
<1>3. i \in 1 .. StageCount(p)
  BY <1>1, <1>2
<1>4. CASE i < n
  BY <1>1, <1>3, <1>4 DEF ReadTo
<1>5. CASE i = n
  <2>1. PICK l \in Nat : l = Len(Batches(r, Stage(p, i)))
    BY <1>1, <1>3, RunType
  <2>2. ~(r.batch <= l) /\ r.batch \in 1 .. l + 1
    BY <1>1, <1>5, <2>1 DEF Reading, HasBatch, StageOf
  <2>3. r.batch - 1 = l
    BY <1>2, <2>1, <2>2
  <2>4. ReadTo(p, i) = r.batch - 1
    BY <1>1, <1>2, <1>5 DEF ReadTo
  <2> QED
    BY <1>1, <1>3, <2>1, <2>3, <2>4
<1> QED
  BY <1>1, <1>2, <1>4, <1>5

LEMMA AllTold ==
  ASSUME ResumeInv, NEW p \in Program, proc[p].pc # "idle", ~HasBatch(p),
         NEW i \in 1 .. proc[p].stage, NEW stage, stage = Stage(p, i), stage[1] # "graduations",
         NEW t \in proc[p].todo
  PROVE  /\ Told(stage, Taken(p, i), t, proc[p].skip)
         /\ \A x \in Taken(p, i) : x \in Row /\ x[1] \in proc[p].todo
<1>1. TypeOK /\ Resuming /\ Reading(p)
  BY DEF ResumeInv, Resuming, RunOfEtl, RunOfSnapshots, Program
<1>2. /\ i \in 1 .. StageCount(p) /\ ReadTo(p, i) = Len(Batches(proc[p], stage))
      /\ proc[p].todo \subseteq Token
  BY <1>1, ReadAll, RunType
<1>3. stage[1] \in StageName \ {"graduations"}
  BY <1>2, StageNames
<1>4. CASE stage[1] = "holders" /\ proc[p].skip
  <2>1. Batches(proc[p], stage) = << >>
    BY <1>4 DEF Batches
  <2>2. ReadTo(p, i) = 0
    BY <1>2, <2>1
  <2>3. Taken(p, i) = {}
    <3>1. 1 .. 0 = {}
      OBVIOUS
    <3> QED
      BY <2>2, <3>1 DEF Taken
  <2>4. RowsOf(Taken(p, i), t) = {}
    BY <2>3 DEF RowsOf
  <2> QED
    BY <1>4, <2>3, <2>4 DEF Told
<1>5. CASE ~(stage[1] = "holders" /\ proc[p].skip)
  <2>1. PICK B : B = Batches(proc[p], stage)
    OBVIOUS
  <2>2. B = Batched(proc[p].todo, Order(stage), BatchSize[stage[1]])
    BY <1>3, <1>5, <2>1 DEF Batches
  <2>3. IsPartition(B, proc[p].todo)
    BY <1>2, <1>3, <2>2, Partitioned
  <2>4. DOMAIN B = 1 .. Len(B) /\ \E k \in 1 .. Len(B) : t \in B[k]
    BY <2>3 DEF IsPartition
  <2>5. PICK k \in 1 .. Len(Batches(proc[p], stage)) : t \in B[k]
    BY <2>1, <2>4
  <2>6. IsListed /\ proc[p].todo = Selected /\ B = BatchesOf(stage)
    BY <1>1, <2>1, <2>5, BatchIsOfSample
  <2>7. OnFile(stage)
    BY <1>1, <1>2, <2>1, <2>4, <2>6 DEF Reading, Cell, OnFile
  <2>8. Taken(p, i) = RowsOnFile(stage)
    BY <1>2, <2>1, <2>4, <2>6 DEF Taken, Cell, RowsOnFile
  <2>9. \A c \in DOMAIN cache : Filed(c)
    BY <1>1 DEF Resuming
  <2>10. PICK rows : rows = Taken(p, i)
    OBVIOUS
  <2>11. t \in Selected /\ rows = RowsOnFile(stage) /\ i \in 1 .. StageCount(p)
    BY <1>2, <2>6, <2>8, <2>10
  <2>12. SaysOf(stage, rows, t)
    BY <1>1, <2>6, <2>7, <2>9, <2>11, StageTold
  <2>13. Told(stage, rows, t, proc[p].skip)
    BY <2>12 DEF SaysOf, Told
  <2> QED
    BY <2>6, <2>10, <2>12, <2>13 DEF SaysOf
<1> QED
  BY <1>4, <1>5

-----------------------------------------------------------------------------
(* The steps from stage to stage keep the inductive invariant. *)

LEMMA StartEtlResumes ==
  ASSUME OneSize, ResumeInv, NEW size \in SampleSizes, NEW skip \in Skips, StartEtl(size, skip)
  PROVE  ResumeInv'
<1>1. PICK s : s = [Stopped EXCEPT !.pc = "query", !.size = size, !.skip = skip]
  OBVIOUS
<1>2. /\ "etl" \in Program /\ Goes("etl", s)
      /\ UNCHANGED <<now, cache, table, snapshots, spent, faults>>
  BY <1>1 DEF StartEtl, Program
<1>3. /\ s \in Run /\ s.pc = "query" /\ s.size = size /\ s.stage = 1 /\ s.batch = 1
      /\ s.todo = {} /\ s.got = NoRows /\ s.skip = skip
  <2>1. size \in Nat /\ skip \in BOOLEAN
    BY EtlAssumption
  <2>2. s = [pc |-> "query", size |-> size, skip |-> skip, todo |-> {}, stage |-> 1, batch |-> 1,
             got |-> NoRows, answer |-> Torn]
    BY <1>1 DEF Stopped
  <2>3. NoRows \in [StageName -> SUBSET Row] /\ Torn \in File
    BY StoppedType DEF NoRows
  <2> QED
    BY <2>1, <2>2, <2>3 DEF Run
<1>4. TypeOK /\ Later /\ Kept
  BY <1>2, NoEarlier DEF ResumeInv, Kept
<1>5. s.stage \in 1 .. StageCount("etl") /\ spent' \in Nat /\ faults' \in 0 .. MaxFaults
  BY <1>2, <1>3, <1>4, Names DEF TypeOK
<1>6. TypeOK' /\ proc'["etl"] = s /\ proc'["snapshots"] = proc["snapshots"]
  <2>1. TypeOK'
    BY <1>2, <1>3, <1>4, <1>5, TypeStays
  <2> QED
    BY <1>2, <1>3, <1>4, <1>5, <2>1, GoesTo DEF Program
<1>7. Reading("etl")' /\ \A i \in 1 .. StageCount("etl") : Taken("etl", i)' = {}
  BY <1>2, <1>3, <1>6, Begins
<1>8. size = Max(SampleSizes)
  BY LargestSize DEF OneSize
<1>9. \A i \in 1 .. StageCount("etl") : s.got[EtlStages[i]] = {}
  BY <1>3, Names DEF NoRows
<1>10. RunOfEtl'
  <2>1. ~(s.stage > 1) /\ s.pc # "idle"
    BY <1>3
  <2>2. \A i \in 1 .. StageCount("etl") : s.got[EtlStages[i]] = Taken("etl", i)'
    BY <1>7, <1>9
  <2> QED
    BY <1>3, <1>6, <1>7, <1>8, <2>1, <2>2 DEF RunOfEtl
<1>11. RunOfSnapshots'
  BY <1>2, <1>4, <1>6, SnapshotsStay DEF ResumeInv, Resuming
<1> QED
  BY <1>2, <1>4, <1>6, <1>10, <1>11, Rest

LEMMA StartSnapshotsResumes ==
  ASSUME ResumeInv, StartSnapshots
  PROVE  ResumeInv'
<1>1. PICK s : s = [Stopped EXCEPT !.pc = "query", !.todo = DOMAIN table]
  OBVIOUS
<1>2. /\ "snapshots" \in Program /\ Goes("snapshots", s)
      /\ UNCHANGED <<now, cache, table, snapshots, spent, faults>>
  BY <1>1 DEF StartSnapshots, Program
<1>3. TypeOK /\ Later /\ Kept /\ DOMAIN table \subseteq Token
  BY <1>2, NoEarlier DEF ResumeInv, Kept, TypeOK
<1>4. /\ s \in Run /\ s.pc = "query" /\ s.stage = 1 /\ s.batch = 1
      /\ s.todo = DOMAIN table /\ s.got = NoRows
  <2>1. s = [pc |-> "query", size |-> 0, skip |-> FALSE, todo |-> DOMAIN table, stage |-> 1,
             batch |-> 1, got |-> NoRows, answer |-> Torn]
    BY <1>1 DEF Stopped
  <2>2. NoRows \in [StageName -> SUBSET Row] /\ Torn \in File
    BY StoppedType DEF NoRows
  <2> QED
    BY <1>3, <2>1, <2>2 DEF Run
<1>5. s.stage \in 1 .. StageCount("snapshots") /\ spent' \in Nat /\ faults' \in 0 .. MaxFaults
  BY <1>2, <1>3, <1>4, Names DEF TypeOK
<1>6. TypeOK' /\ proc'["snapshots"] = s /\ proc'["etl"] = proc["etl"]
  <2>1. TypeOK'
    BY <1>2, <1>3, <1>4, <1>5, TypeStays
  <2> QED
    BY <1>2, <1>3, <1>4, <1>5, <2>1, GoesTo DEF Program
<1>7. Reading("snapshots")' /\ \A i \in 1 .. StageCount("snapshots") : Taken("snapshots", i)' = {}
  BY <1>2, <1>3, <1>4, <1>6, Begins
<1>8. s.got["snapshot"] = Taken("snapshots", s.stage)'
  <2>1. s.got["snapshot"] = {}
    BY <1>4, Names DEF NoRows
  <2>2. Taken("snapshots", 1)' = {}
    BY <1>4, <1>5, <1>7
  <2> QED
    BY <1>4, <2>1, <2>2
<1>9. DaysDone(s.todo, s.stage - 1)'
  BY <1>4 DEF DaysDone
<1>10. RunOfSnapshots'
  BY <1>2, <1>4, <1>6, <1>7, <1>8, <1>9 DEF RunOfSnapshots
<1>11. RunOfEtl'
  BY <1>2, <1>3, <1>6, EtlStays DEF ResumeInv, Resuming
<1> QED
  BY <1>2, <1>3, <1>6, <1>10, <1>11, Rest

IsNextOf(s, r, todo, got) ==
  /\ s \in Run /\ s.pc = r.pc /\ s.stage = r.stage + 1 /\ s.batch = 1
  /\ s.todo = todo /\ s.got = got /\ s.size = r.size /\ s.skip = r.skip

LEMMA NextStageType ==
  ASSUME NEW r \in Run, NEW todo, todo \subseteq Token, NEW got \in [StageName -> SUBSET Row],
         NEW s, s = NextStage([r EXCEPT !.todo = todo, !.got = got])
  PROVE  IsNextOf(s, r, todo, got)
<1>1. PICK u : u = [r EXCEPT !.todo = todo, !.got = got]
  OBVIOUS
<1>2. /\ u \in Run /\ u.pc = r.pc /\ u.stage = r.stage /\ u.todo = todo /\ u.got = got
      /\ u.size = r.size /\ u.skip = r.skip
  BY <1>1 DEF Run
<1>3. s = [u EXCEPT !.stage = u.stage + 1, !.batch = 1]
  BY <1>1 DEF NextStage
<1>4. u.stage + 1 \in Nat /\ 1 \in Nat \ {0}
  BY <1>2 DEF Run
<1>5. s \in Run /\ s.stage = u.stage + 1 /\ s.batch = 1 /\ s.pc = u.pc
      /\ s.todo = u.todo /\ s.got = u.got /\ s.size = u.size /\ s.skip = u.skip
  BY <1>2, <1>3, <1>4 DEF Run
<1> QED
  BY <1>2, <1>5 DEF IsNextOf

(* The list as the bootstrap has read it.                                   *)
LEMMA ListRead ==
  ASSUME ResumeInv, proc["etl"].pc = "query", ~HasBatch("etl")
  PROVE  /\ IsListed /\ {x[1] : x \in proc["etl"].got["graduations"]} = Listed
<1>0. "etl" \in Program /\ proc["etl"].pc # "idle"
  BY DEF Program
<1>1. TypeOK /\ Reading("etl") /\ Resuming /\ 1 \in 1 .. StageCount("etl")
  <2>1. TypeOK /\ Resuming /\ RunOfEtl
    BY DEF ResumeInv, Resuming
  <2>2. Reading("etl")
    BY <1>0, <2>1 DEF RunOfEtl
  <2>3. 1 \in 1 .. StageCount("etl")
    BY Names
  <2> QED
    BY <2>1, <2>2, <2>3
<1>2. 1 \in 1 .. proc["etl"].stage
  BY <1>0, <1>1, RunType
<1>3. ReadTo("etl", 1) = 1
  <2>1. ReadTo("etl", 1) = Len(Batches(proc["etl"], Stage("etl", 1)))
    BY <1>0, <1>1, <1>2, ReadAll
  <2>2. Batches(proc["etl"], Stage("etl", 1)) = <<Token>>
    BY Names DEF Batches
  <2> QED
    BY <2>1, <2>2
<1>4. Cell("etl", 1, 1) = ListCell
  BY Names DEF Cell, ListCell
<1>5. ListCell \in DOMAIN cache /\ cache[ListCell].kind # "torn"
  BY <1>1, <1>3, <1>4 DEF Reading
<1>6. Taken("etl", 1) = cache[ListCell].rows
  <2>1. 1 .. 1 = {1}
    OBVIOUS
  <2> QED
    BY <1>3, <1>4, <2>1 DEF Taken
<1>7. proc["etl"].got["graduations"] = cache[ListCell].rows
  <2>1. EtlStages[1] = "graduations"
    BY DEF EtlStages
  <2>2. proc["etl"].got[EtlStages[1]] = Taken("etl", 1)
    BY <1>0, <1>1 DEF Resuming, RunOfEtl
  <2> QED
    BY <1>6, <2>1, <2>2
<1>8. cache[ListCell].kind = "rows"
  <2>1. cache[ListCell].kind \in {"rows", "timed_out"} /\ Filed(ListCell)
    BY <1>1, <1>5 DEF TypeOK, File, Resuming
  <2>2. \A q \in Program : \A i \in 1 .. StageCount(q) : \A k :
          Stage(q, i)[1] # "graduations" => ListCell # Cell(q, i, k)
    BY DEF ListCell, Cell
  <2> QED
    BY <2>1, <2>2 DEF Filed
<1> QED
  BY <1>5, <1>7, <1>8 DEF IsListed, Listed

LEMMA TakeSampleResumes ==
  ASSUME ResumeInv, TakeSample
  PROVE  ResumeInv'
<1>1. PICK r, todo : /\ r = proc["etl"]
                     /\ todo = Sample({x[1] : x \in r.got["graduations"]}, r.size) \ DOMAIN table
  OBVIOUS
<1>2. /\ "etl" \in Program /\ r.pc = "query" /\ r.stage = 1 /\ ~HasBatch("etl")
      /\ IF todo = {} THEN Stops("etl") ELSE Goes("etl", NextStage([r EXCEPT !.todo = todo]))
      /\ UNCHANGED <<now, cache, table, snapshots, spent, faults>>
  BY <1>1 DEF TakeSample, Program
<1>3. TypeOK /\ Later /\ Kept /\ Reading("etl") /\ r \in Run
  BY <1>1, <1>2, NoEarlier, RunType DEF ResumeInv, Kept, Resuming, RunOfEtl
<1>4. spent' \in Nat /\ faults' \in 0 .. MaxFaults /\ StageCount("etl") = 7
  BY <1>2, <1>3, Names DEF TypeOK
<1>5. IsListed /\ todo = Selected \ DOMAIN table
  <2>1. IsListed /\ {x[1] : x \in r.got["graduations"]} = Listed
    BY <1>1, <1>2, ListRead
  <2>2. r.size = Max(SampleSizes)
    BY <1>1, <1>2 DEF ResumeInv, Resuming, RunOfEtl
  <2> QED
    BY <1>1, <2>1, <2>2 DEF Selected
<1>6. CASE todo = {}
  <2>1. Stops("etl") /\ Stopped.stage \in 1 .. StageCount("etl") /\ Stopped \in Run
    BY <1>2, <1>4, <1>6, StoppedType
  <2>2. TypeOK'
    BY <1>2, <1>3, <1>4, <2>1, TypeStays DEF Stops
  <2> QED
    BY <1>2, <1>3, <2>1, <2>2, Halts
<1>7. CASE todo # {}
  <2>1. DOMAIN table = {} /\ todo = Selected /\ todo \subseteq Token
    <3>1. DOMAIN table = {} \/ DOMAIN table = Selected
      BY DEF ResumeInv, Resuming
    <3>2. Selected \subseteq Token
      BY <1>3, <1>5, SampledTokens
    <3> QED
      BY <1>5, <1>7, <3>1, <3>2
  <2>2. PICK s : s = NextStage([r EXCEPT !.todo = todo])
    OBVIOUS
  <2>3. r.got \in [StageName -> SUBSET Row]
    BY <1>3 DEF Run
  <2>4. [r EXCEPT !.todo = todo] = [r EXCEPT !.todo = todo, !.got = r.got]
    BY <1>3 DEF Run
  <2>5. /\ s \in Run /\ s.pc = "query" /\ s.stage = 2 /\ s.batch = 1
        /\ s.todo = todo /\ s.got = r.got /\ s.size = r.size /\ s.skip = r.skip
    <3>1. PICK got \in [StageName -> SUBSET Row] : got = r.got
      BY <2>3
    <3>2. s = NextStage([r EXCEPT !.todo = todo, !.got = got])
      BY <2>2, <2>4, <3>1
    <3>3. IsNextOf(s, r, todo, got)
      BY <1>3, <2>1, <3>2, NextStageType
    <3> QED
      BY <1>2, <3>1, <3>3 DEF IsNextOf
  <2>6. Goes("etl", s) /\ s.stage \in 1 .. StageCount("etl")
    BY <1>2, <1>4, <1>7, <2>2, <2>5
  <2>7. TypeOK' /\ proc'["etl"] = s /\ proc'["snapshots"] = proc["snapshots"]
    <3>1. TypeOK'
      BY <1>2, <1>3, <1>4, <2>5, <2>6, TypeStays
    <3> QED
      BY <1>2, <1>3, <2>5, <2>6, <3>1, GoesTo DEF Program
  <2>8. \A i \in 1 .. proc["etl"].stage : Batches(s, Stage("etl", i)) = Batches(proc["etl"], Stage("etl", i))
    <3>1. \A i \in 1 .. proc["etl"].stage : i = 1
      BY <1>1, <1>2
    <3>2. Batches(s, Stage("etl", 1)) = <<Token>> /\ Batches(proc["etl"], Stage("etl", 1)) = <<Token>>
      BY Names DEF Batches
    <3> QED
      BY <3>1, <3>2
  <2>9. Reading("etl")' /\ \A i \in 1 .. StageCount("etl") : Taken("etl", i)' = Taken("etl", i)
    <3>1. proc["etl"].stage < StageCount("etl") /\ s.stage = proc["etl"].stage + 1
      BY <1>1, <1>2, <1>4, <2>5
    <3> QED
      BY <1>1, <1>2, <1>3, <2>1, <2>5, <2>7, <2>8, <3>1, MovesOn
  <2>10. RunOfEtl'
    <3>1. /\ r.size = Max(SampleSizes) /\ r.skip \in Skips
          /\ \A i \in 1 .. StageCount("etl") : r.got[EtlStages[i]] = Taken("etl", i)
      BY <1>1, <1>2 DEF ResumeInv, Resuming, RunOfEtl
    <3>2. IsListed' /\ s.todo = Selected' /\ DOMAIN table' = {}
      BY <1>2, <1>3, <1>5, <2>1, <2>5, ListKept
    <3>3. \A i \in 1 .. StageCount("etl") : s.got[EtlStages[i]] = Taken("etl", i)'
      BY <2>5, <2>9, <3>1
    <3> QED
      BY <2>5, <2>7, <2>9, <3>1, <3>2, <3>3 DEF RunOfEtl
  <2>11. RunOfSnapshots'
    BY <1>2, <1>3, <2>7, SnapshotsStay DEF ResumeInv, Resuming
  <2> QED
    BY <1>2, <1>3, <2>7, <2>10, <2>11, Rest
<1> QED
  BY <1>6, <1>7

LEMMA EndStageResumes ==
  ASSUME ResumeInv, EndStage
  PROVE  ResumeInv'
<1>1. PICK r, s : r = proc["etl"] /\ s = NextStage(r)
  OBVIOUS
<1>2. /\ "etl" \in Program /\ r.pc = "query" /\ r.stage \in 2 .. 6 /\ ~HasBatch("etl")
      /\ Goes("etl", s) /\ StageCount("etl") = 7
      /\ UNCHANGED <<now, cache, table, snapshots, spent, faults>>
  BY <1>1, Names DEF EndStage, Program
<1>3. TypeOK /\ Later /\ Kept /\ Reading("etl") /\ r \in Run
  BY <1>1, <1>2, NoEarlier, RunType DEF ResumeInv, Kept, Resuming, RunOfEtl
<1>4. spent' \in Nat /\ faults' \in 0 .. MaxFaults
  BY <1>2, <1>3 DEF TypeOK
<1>5. /\ s \in Run /\ s.pc = "query" /\ s.stage = r.stage + 1 /\ s.batch = 1
      /\ s.todo = r.todo /\ s.got = r.got /\ s.size = r.size /\ s.skip = r.skip
  <2>1. r.got \in [StageName -> SUBSET Row] /\ r.todo \subseteq Token
    BY <1>3 DEF Run
  <2>2. r = [r EXCEPT !.todo = r.todo, !.got = r.got]
    BY <1>3 DEF Run
  <2>3. s = NextStage([r EXCEPT !.todo = r.todo, !.got = r.got])
    BY <1>1, <2>2
  <2> QED
    <3>1. PICK got \in [StageName -> SUBSET Row], todo \in SUBSET Token : got = r.got /\ todo = r.todo
      BY <2>1
    <3>2. s = NextStage([r EXCEPT !.todo = todo, !.got = got])
      BY <2>3, <3>1
    <3>3. IsNextOf(s, r, todo, got)
      BY <1>3, <3>2, NextStageType
    <3> QED
      BY <1>2, <3>1, <3>3 DEF IsNextOf
<1>6. TypeOK' /\ proc'["etl"] = s /\ proc'["snapshots"] = proc["snapshots"]
  <2>1. s.stage \in 1 .. StageCount("etl")
    BY <1>2, <1>5
  <2>2. TypeOK'
    BY <1>2, <1>3, <1>4, <1>5, <2>1, TypeStays
  <2> QED
    BY <1>2, <1>3, <1>5, <2>1, <2>2, GoesTo DEF Program
<1>7. Reading("etl")' /\ \A i \in 1 .. StageCount("etl") : Taken("etl", i)' = Taken("etl", i)
  <2>1. proc["etl"].stage < StageCount("etl") /\ s.stage = proc["etl"].stage + 1
    BY <1>1, <1>2, <1>5
  <2>2. \A i \in 1 .. proc["etl"].stage :
          Batches(s, Stage("etl", i)) = Batches(proc["etl"], Stage("etl", i))
    BY <1>1, <1>5, SameBatches
  <2>3. s.todo \subseteq Token
    BY <1>3, <1>5 DEF Run
  <2> QED
    BY <1>1, <1>2, <1>3, <1>5, <1>6, <2>1, <2>2, <2>3, MovesOn
<1>8. RunOfEtl'
  <2>1. /\ r.size = Max(SampleSizes) /\ r.skip \in Skips
        /\ IsListed /\ r.todo = Selected /\ DOMAIN table = {}
        /\ \A i \in 1 .. StageCount("etl") : r.got[EtlStages[i]] = Taken("etl", i)
    BY <1>1, <1>2 DEF ResumeInv, Resuming, RunOfEtl
  <2>2. IsListed' /\ s.todo = Selected' /\ DOMAIN table' = {}
    BY <1>2, <1>3, <1>5, <2>1, ListKept
  <2>3. \A i \in 1 .. StageCount("etl") : s.got[EtlStages[i]] = Taken("etl", i)'
    BY <1>5, <1>7, <2>1
  <2> QED
    BY <1>5, <1>6, <1>7, <2>1, <2>2, <2>3 DEF RunOfEtl
<1>9. RunOfSnapshots'
  BY <1>2, <1>3, <1>6, SnapshotsStay DEF ResumeInv, Resuming
<1> QED
  BY <1>2, <1>3, <1>6, <1>8, <1>9, Rest

LEMMA LoadRecordsResumes ==
  ASSUME ResumeInv, LoadRecords
  PROVE  ResumeInv'
<1>1. PICK r : r = proc["etl"]
  OBVIOUS
<1>2. /\ "etl" \in Program /\ r.pc = "query" /\ r.stage = 7 /\ ~HasBatch("etl")
      /\ StageCount("etl") = 7
      /\ table' = [t \in DOMAIN table \cup r.todo |->
                     IF t \in DOMAIN table THEN table[t] ELSE RecordOf(r.got, t)]
      /\ Stops("etl")
      /\ UNCHANGED <<now, cache, snapshots, spent, faults>>
  BY <1>1, Names DEF LoadRecords, Program
<1>3. TypeOK /\ Later /\ Kept /\ r.todo \subseteq Token
  BY <1>1, <1>2, NoEarlier, RunType DEF ResumeInv, Kept
<1>4. /\ IsListed /\ r.todo = Selected /\ DOMAIN table = {}
      /\ \A i \in 1 .. 7 : r.got[EtlStages[i]] = Taken("etl", i)
  BY <1>1, <1>2 DEF ResumeInv, Resuming, RunOfEtl
<1>5. DOMAIN table' = r.todo /\ \A t \in r.todo : table'[t] = RecordOf(r.got, t)
  BY <1>2, <1>4
<1>6. ASSUME NEW t \in r.todo
      PROVE  /\ table'[t] \in Record /\ t \in Token
             /\ LabelIsTrue(table'[t], t)
             /\ IsKnowable(table'[t], t, Mates(t), GaveUp(t), r.skip, now)
  <2>1. ASSUME NEW i \in 2 .. 7 PROVE Told(Stage("etl", i), r.got[EtlStages[i]], t, r.skip)
    <3>1. i \in 1 .. proc["etl"].stage /\ i \in 1 .. 7
      BY <1>1, <1>2
    <3>2. Stage("etl", i)[1] # "graduations"
      BY Names
    <3>3. Told(Stage("etl", i), Taken("etl", i), t, r.skip)
      BY <1>1, <1>2, <3>1, <3>2, AllTold
    <3> QED
      BY <1>4, <3>1, <3>3
  <2>2. PICK got, skip : got = r.got /\ skip = r.skip
    OBVIOUS
  <2>3. t \in Token /\ \A i \in 2 .. 7 : Told(Stage("etl", i), got[EtlStages[i]], t, skip)
    BY <1>3, <2>1, <2>2
  <2>4. /\ RecordOf(got, t) \in Record
        /\ LabelIsTrue(RecordOf(got, t), t)
        /\ IsKnowable(RecordOf(got, t), t, Mates(t), GaveUp(t), skip, now)
    BY <1>3, <2>3, RecordTells DEF Later
  <2> QED
    BY <1>5, <2>2, <2>3, <2>4
<1>7. LabelsAreTrue' /\ FeaturesAreKnowable'
  <2>1. DOMAIN table' = r.todo /\ (\A t \in r.todo : LabelIsTrue(table'[t], t))
    BY <1>5, <1>6
  <2>2. LabelsAreTrue'
    BY <2>1 DEF LabelsAreTrue, LabelIsTrue
  <2>3. r.skip => Skipped'
    <3> SUFFICES ASSUME r.skip PROVE Skipped'
      OBVIOUS
    <3>1. TRUE \in Skips
      <4>1. r.skip \in Skips /\ r.skip \in BOOLEAN
        BY <1>1, <1>2, EtlAssumption DEF ResumeInv, Resuming, RunOfEtl
      <4> QED
        BY <4>1
    <3>2. r.got["holders"] = {}
      <4>1. 7 \in 1 .. proc["etl"].stage /\ 7 \in 1 .. 7 /\ EtlStages[7] = "holders"
        BY <1>1, <1>2 DEF EtlStages
      <4>2. Stage("etl", 7) = <<"holders", 0>>
        BY <4>1, Names
      <4>3. Batches(proc["etl"], Stage("etl", 7)) = << >>
        BY <1>1, <4>2 DEF Batches
      <4>4. Reading("etl")
        BY <1>1, <1>2 DEF ResumeInv, Resuming, RunOfEtl
      <4>5. ReadTo("etl", 7) = 0
        BY <1>1, <1>2, <1>3, <4>1, <4>3, <4>4, ReadAll
      <4>6. 1 .. 0 = {}
        OBVIOUS
      <4>7. Taken("etl", 7) = {}
        BY <4>5, <4>6 DEF Taken
      <4> QED
        BY <1>4, <4>1, <4>7
    <3>3. ASSUME NEW t \in r.todo PROVE table'[t].holders = Null
      <4>1. RowsOf(r.got["holders"], t) = {}
        BY <3>2 DEF RowsOf
      <4>2. Merged(r.got["holders"], t) = Null
        BY <4>1, MergedNone
      <4>3. PICK rec : rec = RecordOf(r.got, t)
        OBVIOUS
      <4>4. rec.holders = Merged(r.got["holders"], t)
        BY <4>3 DEF RecordOf
      <4>5. table'[t] = rec
        BY <1>5, <4>3
      <4> QED
        BY <4>2, <4>4, <4>5
    <3> QED
      BY <2>1, <3>1, <3>3 DEF Skipped
  <2>4. ASSUME NEW t \in r.todo
        PROVE  IsKnowable(table'[t], t, Mates(t), GaveUp(t), Skipped', now)
    <3>1. PICK row, mates, gave, skip, none :
            /\ row = table'[t] /\ mates = Mates(t) /\ gave = GaveUp(t)
            /\ skip = r.skip /\ none = Skipped'
      OBVIOUS
    <3>2. PICK at \in Int : at = now /\ at <= at
      BY <1>3 DEF Later
    <3>3. IsKnowable(row, t, mates, gave, skip, at) /\ t \in Token /\ (skip => none)
      BY <1>6, <2>3, <3>1, <3>2
    <3>4. gave \subseteq gave
      OBVIOUS
    <3>5. IsKnowable(row, t, mates, gave, none, at)
      BY <3>2, <3>3, <3>4, KnowableKept, Zenon
    <3> QED
      BY <3>1, <3>2, <3>5
  <2>5. \A t : Mates(t)' = Mates(t) /\ \A name : GivenUp(name, t)' = GivenUp(name, t)
    BY <1>2 DEF Mates, GivenUp, IsBatch, BatchesOf, Selected, Listed
  <2>6. \A t : \A name : name \in GaveUp(t) => GivenUp(name, t)'
    BY <2>5 DEF GaveUp
  <2>7. now' = now
    BY <1>2
  <2>8. FeaturesAreKnowable'
    BY <2>1, <2>4, <2>5, <2>6, <2>7 DEF FeaturesAreKnowable, IsKnowable, PriorLaunches
  <2> QED
    BY <2>2, <2>8
<1>8. proc'["etl"] = Stopped /\ proc'["snapshots"] = proc["snapshots"]
      /\ proc' \in [Program -> Run] /\ \A q \in Program : proc'[q].stage \in 1 .. StageCount(q)
  <2>1. Stopped \in Run /\ Stopped.stage \in 1 .. StageCount("etl") /\ Goes("etl", Stopped)
    BY <1>2, StoppedType DEF Stops
  <2> QED
    BY <1>2, <1>3, <2>1, GoesTo DEF Program
<1>9. TypeOK'
  BY <1>2, <1>3, <1>5, <1>6, <1>8 DEF TypeOK
<1>10. RunOfEtl'
  BY <1>8, StoppedIsState DEF RunOfEtl
<1>11. RunOfSnapshots'
  BY <1>2, <1>3, <1>4, <1>8, SnapshotsStay DEF ResumeInv, Resuming
<1>12. \A c \in DOMAIN cache' : Filed(c)'
  BY <1>2, <1>3, FilesStay DEF ResumeInv, Resuming
<1>13. IsListed' /\ DOMAIN table' = Selected'
  BY <1>3, <1>4, <1>5, ListKept
<1>14. \A x \in DOMAIN snapshots' : x[1] \in DOMAIN table'
  BY <1>2, <1>4 DEF ResumeInv, Resuming
<1>15. Resuming'
  BY <1>10, <1>11, <1>12, <1>13, <1>14 DEF Resuming
<1>16. SnapshotsAreExact'
  BY <1>2 DEF ResumeInv, SnapshotsAreExact
<1> QED
  BY <1>7, <1>9, <1>15, <1>16 DEF ResumeInv

(* What a run of the snapshots has of its day when it inserts.              *)
LEMMA DayRead ==
  ASSUME ResumeInv, proc["snapshots"].pc = "query", ~HasBatch("snapshots"),
         NEW n, n = proc["snapshots"].stage, NEW rows, rows = proc["snapshots"].got["snapshot"]
  PROVE  /\ \A x \in rows : x[1] \in DOMAIN table
         /\ \A t \in proc["snapshots"].todo :
              RowsOf(rows, t) = Snapshots({t}, n, T0[t] + 2 * n + 2)
         /\ \A x \in rows : x[1] \in proc["snapshots"].todo
         /\ proc["snapshots"].todo \subseteq DOMAIN table
<1>1. PICK r : r = proc["snapshots"]
  OBVIOUS
<1>2. /\ "snapshots" \in Program /\ r.pc # "idle" /\ TypeOK
      /\ Reading("snapshots") /\ (r.todo = {} \/ r.todo = DOMAIN table)
      /\ rows = Taken("snapshots", n)
  BY <1>1 DEF ResumeInv, Resuming, RunOfSnapshots, Program
<1>3. n \in 1 .. StageCount("snapshots") /\ n \in 1 .. n /\ n \in Nat
  <2>1. n \in 1 .. StageCount("snapshots") /\ n \in Nat
    BY <1>2, RunType
  <2> QED
    BY <2>1
<1>4. PICK stage : stage = Stage("snapshots", n)
  OBVIOUS
<1>5. stage = <<"snapshot", n>>
  BY <1>3, <1>4, Names
<1>6. ASSUME NEW t \in r.todo
      PROVE  /\ RowsOf(rows, t) = Snapshots({t}, n, T0[t] + 2 * n + 2)
             /\ \A x \in rows : x[1] \in r.todo
  <2>1. stage[1] # "graduations" /\ n \in 1 .. proc["snapshots"].stage /\ t \in proc["snapshots"].todo
    BY <1>1, <1>3, <1>5
  <2>2. /\ Told(stage, Taken("snapshots", n), t, proc["snapshots"].skip)
        /\ \A x \in Taken("snapshots", n) : x \in Row /\ x[1] \in proc["snapshots"].todo
    BY <1>1, <1>2, <1>4, <2>1, AllTold
  <2>3. Tells(stage, rows, t, Mates(t), now)
    BY <1>2, <1>5, <2>2 DEF Told, Resilient
  <2>4. RowsOf(rows, t) = Snapshots({t}, n, T0[t] + 2 * n + 2)
    BY <1>5, <2>3 DEF Tells
  <2> QED
    BY <1>1, <1>2, <2>2, <2>4
<1>7. r.todo = {} => rows = {}
  <2> SUFFICES ASSUME r.todo = {} PROVE rows = {}
    OBVIOUS
  <2>1. n \in 1 .. proc["snapshots"].stage
    BY <1>3
  <2>2. ReadTo("snapshots", n) = Len(Batches(r, stage))
    BY <1>1, <1>2, <1>4, <2>1, ReadAll
  <2>3. Batches(r, stage) = Batched({}, Order(stage), BatchSize["snapshot"])
    BY <1>5 DEF Batches
  <2>4. BatchSize["snapshot"] \in Nat \ {0}
    BY Names, EtlAssumption
  <2>5. ReadTo("snapshots", n) = 0
    BY <2>2, <2>3, <2>4, NoBatches
  <2>6. 1 .. 0 = {}
    OBVIOUS
  <2> QED
    BY <1>2, <2>5, <2>6 DEF Taken
<1>8. \A x \in rows : x[1] \in r.todo
  BY <1>6, <1>7
<1> QED
  BY <1>1, <1>2, <1>6, <1>8

LEMMA SnapshotsTake ==
  ASSUME ResumeInv, InsertSnapshots,
         NEW n, n = proc["snapshots"].stage, NEW todo, todo = proc["snapshots"].todo
  PROVE  /\ DaysDone(todo, n)' /\ SnapshotsAreExact'
         /\ DOMAIN snapshots' \subseteq Token \X (1 .. Days)
         /\ \A x \in DOMAIN snapshots' : snapshots'[x] \in Nat /\ x[1] \in DOMAIN table
<1>1. PICK got, rows, taken : /\ got = proc["snapshots"].got["snapshot"]
                              /\ rows = {x \in got : x[1] \in DOMAIN table}
                              /\ taken = {<<x[1], n>> : x \in rows}
  OBVIOUS
<1>2. /\ proc["snapshots"].pc = "query" /\ ~HasBatch("snapshots")
      /\ snapshots' = [k \in DOMAIN snapshots \cup taken |->
                         IF k \in DOMAIN snapshots THEN snapshots[k] ELSE Merged(rows, k[1])]
  BY <1>1 DEF InsertSnapshots
<1>3. /\ \A x \in got : x[1] \in DOMAIN table
      /\ \A t \in todo : RowsOf(got, t) = Snapshots({t}, n, T0[t] + 2 * n + 2)
      /\ \A x \in got : x[1] \in todo
      /\ todo \subseteq DOMAIN table
  BY <1>1, <1>2, DayRead
<1>4. rows = got
  BY <1>1, <1>3
<1>5. TypeOK /\ DOMAIN table \subseteq Token /\ n \in 1 .. Days /\ Days \in 1 .. 14
  BY Names, RunType DEF ResumeInv, TypeOK, Program
<1>6. ASSUME NEW t \in todo, RowsOf(rows, t) # {}
      PROVE  /\ Merged(rows, t) \in Nat
             /\ <<t, Merged(rows, t)>> \in Snapshots({t}, n, T0[t] + 2 * n + 2)
  <2>1. t \in Token /\ T0[t] \in Nat
    BY <1>3, <1>5, DuneAssumption
  <2>2. PICK from \in Int, to \in Int, when \in Int :
          from = 2 * n /\ to = 2 * n + 2 /\ when = T0[t] + to
    BY <1>5, <2>1
  <2>3. T0[t] + 2 * n + 2 = T0[t] + to
    BY <1>5, <2>1, <2>2
  <2>4. PICK Q : Q = Snapshots({t}, n, T0[t] + 2 * n + 2)
    OBVIOUS
  <2>5. Q = LastQuotes({t}, from, to, T0[t] + to)
    BY <2>2, <2>3, <2>4 DEF Snapshots
  <2>6. RowsOf(rows, t) = Q
    BY <1>3, <1>4, <2>4
  <2>7. OneQuote(rows, t, Q)
    BY <2>1, <2>5, <2>6, QuotesTold, Zenon
  <2>8. PICK x : x \in Q
    BY <1>6, <2>6
  <2>9. x \in LastQuotes({t}, from, to, when)
    BY <2>2, <2>5, <2>8
  <2>10. x \in Token \X Nat /\ x[1] = t
    BY <2>1, <2>9, LastQuoteIsOne
  <2>11. Merged(rows, t) = x[2] /\ x[2] \in Nat
    BY <2>7, <2>8 DEF OneQuote
  <2>12. x = <<t, Merged(rows, t)>>
    BY <2>10, <2>11
  <2> QED
    BY <2>4, <2>8, <2>11, <2>12
<1>7. ASSUME NEW k \in taken
      PROVE  /\ k[1] \in todo /\ k[2] = n /\ k = <<k[1], n>> /\ RowsOf(rows, k[1]) # {}
  <2>1. PICK x \in rows : k = <<x[1], n>>
    BY <1>1
  <2>2. x[1] \in todo /\ x \in RowsOf(rows, x[1])
    BY <1>3, <1>4, <2>1 DEF RowsOf
  <2> QED
    BY <2>1, <2>2
<1>8. DOMAIN snapshots' = DOMAIN snapshots \cup taken
  BY <1>2
<1>9. ASSUME NEW k \in DOMAIN snapshots'
      PROVE  /\ k \in Token \X (1 .. Days) /\ snapshots'[k] \in Nat /\ k[1] \in DOMAIN table
             /\ <<k[1], snapshots'[k]>> \in Snapshots({k[1]}, k[2], T0[k[1]] + 2 * k[2] + 2)
  <2>1. CASE k \in DOMAIN snapshots
    <3>1. snapshots'[k] = snapshots[k]
      BY <1>2, <2>1
    <3> QED
      BY <2>1, <3>1 DEF ResumeInv, TypeOK, Resuming, SnapshotsAreExact
  <2>2. CASE k \notin DOMAIN snapshots
    <3>1. k \in taken /\ snapshots'[k] = Merged(rows, k[1])
      BY <1>2, <1>8, <2>2
    <3>2. /\ k[1] \in todo /\ k[2] = n /\ k = <<k[1], n>> /\ RowsOf(rows, k[1]) # {}
      BY <1>7, <3>1
    <3>3. PICK t \in todo : t = k[1]
      BY <3>2
    <3>4. /\ Merged(rows, t) \in Nat
          /\ <<t, Merged(rows, t)>> \in Snapshots({t}, n, T0[t] + 2 * n + 2)
      BY <1>6, <3>2, <3>3
    <3>5. t \in DOMAIN table /\ k \in Token \X (1 .. Days)
      BY <1>3, <1>5, <3>2, <3>3
    <3> QED
      BY <3>1, <3>2, <3>3, <3>4, <3>5
  <2> QED
    BY <2>1, <2>2
<1>10. SnapshotsAreExact'
  BY <1>9 DEF SnapshotsAreExact
<1>11. DaysDone(todo, n)'
  <2>1. ASSUME NEW t \in todo, NEW d \in 1 .. n, Snapshots({t}, d, T0[t] + 2 * d + 2) # {}
        PROVE  <<t, d>> \in DOMAIN snapshots'
    <3>1. CASE d = n
      <4>1. RowsOf(rows, t) # {}
        BY <1>3, <1>4, <2>1, <3>1
      <4>2. PICK x \in rows : x[1] = t
        BY <4>1 DEF RowsOf
      <4>3. <<t, d>> \in taken
        BY <1>1, <3>1, <4>2
      <4> QED
        BY <1>8, <4>3
    <3>2. CASE d # n
      <4>1. d \in 1 .. n - 1
        BY <1>5, <3>2
      <4>2. DaysDone(todo, n - 1)
        BY <1>2 DEF ResumeInv, Resuming, RunOfSnapshots
      <4>3. <<t, d>> \in DOMAIN snapshots
        BY <2>1, <4>1, <4>2 DEF DaysDone
      <4> QED
        BY <1>8, <4>3
    <3> QED
      BY <3>1, <3>2
  <2> QED
    BY <2>1 DEF DaysDone
<1> QED
  BY <1>9, <1>10, <1>11

LEMMA InsertSnapshotsResumes ==
  ASSUME ResumeInv, InsertSnapshots
  PROVE  ResumeInv'
<1>1. PICK r, n, todo : r = proc["snapshots"] /\ n = r.stage /\ todo = r.todo
  OBVIOUS
<1>2. /\ "snapshots" \in Program /\ r.pc = "query" /\ ~HasBatch("snapshots")
      /\ IF n < Days THEN Goes("snapshots", NextStage([r EXCEPT !.got = NoRows]))
         ELSE Stops("snapshots")
      /\ UNCHANGED <<now, cache, table, spent, faults>>
  BY <1>1 DEF InsertSnapshots, Program
<1>3. TypeOK /\ Later /\ Kept /\ Reading("snapshots") /\ r \in Run
  BY <1>1, <1>2, NoEarlier, RunType DEF ResumeInv, Kept, Resuming, RunOfSnapshots
<1>4. /\ DaysDone(todo, n)' /\ SnapshotsAreExact'
      /\ DOMAIN snapshots' \subseteq Token \X (1 .. Days)
      /\ \A x \in DOMAIN snapshots' : snapshots'[x] \in Nat /\ x[1] \in DOMAIN table
  BY <1>1, SnapshotsTake
<1>5. /\ n \in 1 .. Days /\ Days \in Nat /\ StageCount("snapshots") = Days
      /\ todo \subseteq Token /\ (todo = {} \/ todo = DOMAIN table)
  <2>1. todo = {} \/ todo = DOMAIN table
    BY <1>1, <1>2 DEF ResumeInv, Resuming, RunOfSnapshots
  <2> QED
    BY <1>1, <1>2, <1>3, <2>1, RunType, Names
<1>6. PICK s : s = IF n < Days THEN NextStage([r EXCEPT !.got = NoRows]) ELSE Stopped
  OBVIOUS
<1>7. /\ s \in Run /\ s.stage \in 1 .. StageCount("snapshots") /\ Goes("snapshots", s)
      /\ n < Days => IsNextOf(s, r, todo, NoRows)
      /\ ~(n < Days) => s = Stopped
  <2>1. CASE n < Days
    <3>1. NoRows \in [StageName -> SUBSET Row]
      BY DEF NoRows
    <3>2. s = NextStage([r EXCEPT !.todo = todo, !.got = NoRows])
      <4>1. [r EXCEPT !.got = NoRows] = [r EXCEPT !.todo = todo, !.got = NoRows]
        BY <1>1, <1>3 DEF Run
      <4> QED
        BY <1>6, <2>1, <4>1
    <3>3. IsNextOf(s, r, todo, NoRows)
      <4>1. PICK got \in [StageName -> SUBSET Row] : got = NoRows
        BY <3>1
      <4> QED
        BY <1>3, <1>5, <3>2, <4>1, NextStageType
    <3>4. s \in Run /\ s.stage = n + 1
      BY <1>1, <3>3 DEF IsNextOf
    <3> QED
      BY <1>2, <1>5, <1>6, <2>1, <3>3, <3>4
  <2>2. CASE ~(n < Days)
    <3>1. s = Stopped
      BY <1>6, <2>2
    <3> QED
      BY <1>2, <1>5, <2>2, <3>1, StoppedType DEF Stops
  <2> QED
    BY <2>1, <2>2
<1>8. /\ proc'["snapshots"] = s /\ proc'["etl"] = proc["etl"]
      /\ proc' \in [Program -> Run] /\ \A q \in Program : proc'[q].stage \in 1 .. StageCount(q)
  BY <1>2, <1>3, <1>7, GoesTo DEF Program
<1>9. TypeOK'
  BY <1>2, <1>3, <1>4, <1>8 DEF TypeOK
<1>10. RunOfSnapshots'
  <2>1. CASE n < Days
    <3>1. /\ s.pc = "query" /\ s.stage = n + 1 /\ s.batch = 1 /\ s.todo = todo /\ s.got = NoRows
          /\ s.skip = r.skip
      BY <1>2, <1>1, <1>7, <2>1 DEF IsNextOf
    <3>2. proc["snapshots"].stage < StageCount("snapshots") /\ s.stage = proc["snapshots"].stage + 1
      BY <1>1, <1>5, <2>1, <3>1
    <3>3. \A i \in 1 .. proc["snapshots"].stage :
            Batches(s, Stage("snapshots", i)) = Batches(proc["snapshots"], Stage("snapshots", i))
      BY <1>1, <3>1, SameBatches
    <3>4. /\ Reading("snapshots")'
          /\ \A i \in 1 .. StageCount("snapshots") : Taken("snapshots", i)' = Taken("snapshots", i)
      BY <1>2, <1>3, <1>5, <1>8, <3>1, <3>2, <3>3, MovesOn
    <3>5. Taken("snapshots", n + 1) = {}
      <4>1. ~(n + 1 < n) /\ n + 1 # n
        BY <1>5
      <4>2. ReadTo("snapshots", n + 1) = 0
        BY <1>1, <4>1 DEF ReadTo
      <4>3. 1 .. 0 = {}
        OBVIOUS
      <4> QED
        BY <4>2, <4>3 DEF Taken
    <3>6. s.got["snapshot"] = Taken("snapshots", s.stage)'
      <4>1. n + 1 \in 1 .. StageCount("snapshots")
        BY <1>5, <2>1
      <4>2. Taken("snapshots", n + 1)' = {}
        BY <3>4, <3>5, <4>1
      <4>3. NoRows["snapshot"] = {}
        BY Names DEF NoRows
      <4>4. PICK m : m = n + 1
        OBVIOUS
      <4> QED
        BY <3>1, <4>2, <4>3
    <3>7. DaysDone(todo, s.stage - 1)'
      <4>1. s.stage - 1 = n
        BY <1>5, <3>1
      <4> QED
        BY <1>4, <4>1 DEF DaysDone
    <3>8. s.todo = {} \/ s.todo = DOMAIN table'
      BY <1>2, <1>5, <3>1
    <3> QED
      BY <1>8, <3>1, <3>4, <3>6, <3>7, <3>8 DEF RunOfSnapshots, DaysDone
  <2>2. CASE ~(n < Days)
    BY <1>7, <1>8, <2>2, StoppedIsState DEF RunOfSnapshots
  <2> QED
    BY <2>1, <2>2
<1>11. RunOfEtl'
  BY <1>2, <1>3, <1>8, EtlStays DEF ResumeInv, Resuming
<1>12. LabelsAreTrue' /\ FeaturesAreKnowable'
  BY <1>2, <1>3, RowsStay DEF ResumeInv, Resuming, TableIsSample
<1>13. \A c \in DOMAIN cache' : Filed(c)'
  BY <1>2, <1>3, FilesStay DEF ResumeInv, Resuming
<1>14. TableIsSample'
  BY <1>2, <1>3, SampleStays DEF ResumeInv, Resuming, TableIsSample
<1>15. \A x \in DOMAIN snapshots' : x[1] \in DOMAIN table'
  BY <1>2, <1>4
<1>16. Resuming'
  BY <1>10, <1>11, <1>13, <1>14, <1>15 DEF Resuming, TableIsSample
<1> QED
  BY <1>4, <1>9, <1>12, <1>16 DEF ResumeInv

LEMMA NothingResumes ==
  ASSUME ResumeInv, UNCHANGED <<cache, table, snapshots, proc, spent, faults>>,
         now' = now \/ TimePasses
  PROVE  ResumeInv'
<1>1. TypeOK /\ Kept /\ now \in Times /\ now' \in Times /\ now <= now' /\ Times \subseteq Nat
  <2>1. TypeOK /\ Kept /\ now \in Times
    BY DEF ResumeInv, TypeOK, Kept
  <2>2. Times \subseteq Nat
    BY EtlAssumption
  <2>3. now' = now \/ (now' \in Times /\ now' > now)
    BY DEF TimePasses
  <2>4. now \in Nat /\ now' \in Nat /\ now' \in Times
    BY <2>1, <2>2, <2>3
  <2>5. now <= now'
    BY <2>3, <2>4
  <2> QED
    BY <2>1, <2>2, <2>4, <2>5
<1>2. Later
  BY <1>1 DEF Later
<1>3. TypeOK'
  BY <1>1 DEF TypeOK
<1>4. RunOfEtl'
  BY <1>1, <1>2, EtlStays DEF ResumeInv, Resuming
<1>5. RunOfSnapshots'
  BY <1>1, <1>2, SnapshotsStay DEF ResumeInv, Resuming
<1> QED
  BY <1>1, <1>2, <1>3, <1>4, <1>5, Rest

-----------------------------------------------------------------------------
(* The theorems about the data. *)

LEMMA ResumeInit == Init => ResumeInv
<1> SUFFICES ASSUME Init PROVE ResumeInv
  OBVIOUS
<1>1. /\ proc = [p \in Program |-> Stopped] /\ spent = 0 /\ faults = 0 /\ now = Min(Times)
      /\ DOMAIN cache = {} /\ DOMAIN table = {} /\ DOMAIN snapshots = {}
  BY DEF Init
<1>2. now \in Times
  <2>1. PICK t \in Times : t \in Nat /\ Times \subseteq Nat
    BY EtlAssumption
  <2>2. PICK S : S = {x \in Times : x <= t}
    OBVIOUS
  <2>3. IsFiniteSet(S)
    <3>1. S \subseteq 0 .. t
      <4>1. ASSUME NEW x \in S PROVE x \in 0 .. t
        <5>1. x \in Nat /\ x <= t
          BY <2>1, <2>2
        <5> QED
          BY <2>1, <5>1
      <4> QED
        BY <4>1
    <3>2. IsFiniteSet(0 .. t)
      BY <2>1, FS_Interval
    <3> QED
      BY <3>1, <3>2, FS_Subset
  <2>4. t \in S /\ \A x \in S : x \in Nat
    BY <2>1, <2>2
  <2>5. PICK m \in S : \A x \in S : m <= x
    BY <2>3, <2>4, SmallestExists
  <2>6. m \in Times /\ \A x \in Times : m <= x
    <3>1. ASSUME NEW x \in Times PROVE m <= x
      <4>1. m \in Nat /\ x \in Nat /\ m <= t
        BY <2>1, <2>4, <2>5
      <4>2. x <= t => m <= x
        BY <2>2, <2>5
      <4> QED
        BY <2>1, <4>1, <4>2
    <3> QED
      BY <2>2, <2>5, <3>1
  <2> QED
    BY <1>1, <2>6 DEF Min
<1>3. TypeOK
  <2>1. \A p \in Program : Stopped.stage \in 1 .. StageCount(p)
    BY StoppedType, Names DEF Program
  <2>2. MaxFaults \in Nat
    BY EtlAssumption
  <2> QED
    BY <1>1, <1>2, <2>1, <2>2, StoppedType DEF TypeOK
<1>4. RunOfEtl /\ RunOfSnapshots
  BY <1>1, StoppedIsState DEF RunOfEtl, RunOfSnapshots, Program
<1>5. Resuming
  BY <1>1, <1>4 DEF Resuming
<1>6. LabelsAreTrue /\ FeaturesAreKnowable /\ SnapshotsAreExact
  BY <1>1 DEF LabelsAreTrue, FeaturesAreKnowable, SnapshotsAreExact
<1> QED
  BY <1>3, <1>5, <1>6 DEF ResumeInv

LEMMA ResumeNext ==
  ASSUME OneSize
  PROVE  IInv /\ ResumeInv /\ [Next]_vars => ResumeInv'
<1> SUFFICES ASSUME IInv, ResumeInv, [Next]_vars PROVE ResumeInv'
  OBVIOUS
<1>1. CASE \E size \in SampleSizes, skip \in Skips : StartEtl(size, skip)
  BY <1>1, StartEtlResumes
<1>2. CASE StartSnapshots
  BY <1>2, StartSnapshotsResumes
<1>3. CASE InsertSnapshots
  BY <1>3, InsertSnapshotsResumes
<1>4. CASE RunEtl
  BY <1>4, TakeSampleResumes, EndStageResumes, LoadRecordsResumes DEF RunEtl
<1>5. ASSUME NEW p \in Program, Batch(p) PROVE ResumeInv'
  BY <1>5, ReadCacheResumes, QueryResumes, WriteCacheResumes DEF Batch
<1>6. ASSUME NEW p \in Program, Crash(p) PROVE ResumeInv'
  BY <1>6, CrashResumes
<1>7. CASE TimePasses \/ UNCHANGED vars
  BY <1>7, NothingResumes DEF TimePasses, vars
<1> QED
  BY <1>1, <1>2, <1>3, <1>4, <1>5, <1>6, <1>7 DEF Next

(* With one sample size: whatever the tokens, their trades, the batches and *)
(* the crashes, what a run has got is what the files of its batches hold,   *)
(* and these hold what Dune said of the batches of the one sample there is. *)
THEOREM RunsResume ==
  ASSUME OneSize
  PROVE  Spec => [](IInv /\ ResumeInv)
<1>1. Init => IInv /\ ResumeInv
  BY IInvInit, ResumeInit
<1>2. IInv /\ ResumeInv /\ [Next]_vars => (IInv /\ ResumeInv)'
  BY IInvNext, ResumeNext
<1> QED
  BY <1>1, <1>2, PTL DEF Spec

(* With one sample size, every label that is loaded is the one the last     *)
(* trade of the whole outcome window gives: no answer is asked for before   *)
(* the window closes, and none is taken for that of another batch.          *)
THEOREM EveryLabelIsTrue ==
  ASSUME OneSize
  PROVE  Spec => []LabelsAreTrue
<1>1. IInv /\ ResumeInv => LabelsAreTrue
  BY DEF ResumeInv
<1> QED
  BY <1>1, RunsResume, PTL

(* With one sample size, no feature that is loaded shows anything of later  *)
(* than half a day after the graduation but the flag, which may show that   *)
(* the authority was given up since; and one is NULL only where Dune has    *)
(* nothing to say of the token, where a timeout of the batch it is in is on *)
(* file, or, for the holders, where the run was told to skip them.          *)
THEOREM EveryFeatureIsKnowable ==
  ASSUME OneSize
  PROVE  Spec => []FeaturesAreKnowable
<1>1. IInv /\ ResumeInv => FeaturesAreKnowable
  BY DEF ResumeInv
<1> QED
  BY <1>1, RunsResume, PTL

LEMMA TableStratified == ResumeInv => TableIsStratified
<1> SUFFICES ASSUME ResumeInv, DOMAIN table # {}
             PROVE  /\ Cardinality(DOMAIN table) <= Max(SampleSizes)
                    /\ \A m, n \in {Month[t] : t \in Listed} :
                         Cardinality(OfMonth(DOMAIN table, m))
                             > Cardinality(OfMonth(DOMAIN table, n)) + 1
                           => OfMonth(Listed, n) \subseteq DOMAIN table
  BY DEF TableIsStratified
<1>1. PICK S, A, size : S = Listed /\ A = DOMAIN table /\ size = Max(SampleSizes)
  OBVIOUS
<1>2. IsListed /\ A = Sample(S, size)
  BY <1>1 DEF ResumeInv, Resuming, Selected
<1>3. S \subseteq Token /\ size \in Nat
  BY <1>1, <1>2, SampledTokens, LargestSize DEF ResumeInv
<1>4. Cardinality(A) <= size
  BY <1>2, <1>3, SampleFits
<1>5. ASSUME NEW m \in MonthsOf(S), NEW n \in MonthsOf(S),
             Cardinality(OfMonth(A, m)) > Cardinality(OfMonth(A, n)) + 1
      PROVE  OfMonth(S, n) \subseteq A
  BY <1>2, <1>3, <1>5, SampleIsStratified
<1> QED
  BY <1>1, <1>4, <1>5 DEF MonthsOf

(* With one sample size, the table is a sample of the months, no larger     *)
(* than what was asked for, and a snapshot is of its own token and day:     *)
(* runs that are killed and run again load nothing else.                    *)
THEOREM EverySampleIsSound ==
  ASSUME OneSize
  PROVE  Spec => []SampleIsSound
<1>1. IInv /\ ResumeInv => SampleIsSound
  BY TableStratified DEF ResumeInv, SampleIsSound
<1> QED
  BY <1>1, RunsResume, PTL

(* With one sample size, a run of the snapshots that comes to its end has   *)
(* all days of all the tokens it began with.                                *)
THEOREM EverySnapshotRunCompletes ==
  ASSUME OneSize
  PROVE  Spec => SnapshotRunsComplete
<1>1. ASSUME ResumeInv, InsertSnapshots, proc["snapshots"].stage = Days
      PROVE  \A t \in proc["snapshots"].todo, d \in 1 .. Days :
               Snapshots({t}, d, T0[t] + 2 * d + 2) # {} => <<t, d>> \in DOMAIN snapshots'
  <2>1. PICK n, todo : n = proc["snapshots"].stage /\ todo = proc["snapshots"].todo
    OBVIOUS
  <2>2. DaysDone(todo, n)'
    BY <1>1, <2>1, SnapshotsTake
  <2> QED
    BY <1>1, <2>1, <2>2 DEF DaysDone
<1>2. IInv /\ ResumeInv
        => [InsertSnapshots /\ proc["snapshots"].stage = Days =>
              \A t \in proc["snapshots"].todo, d \in 1 .. Days :
                Snapshots({t}, d, T0[t] + 2 * d + 2) # {} => <<t, d>> \in DOMAIN snapshots']_vars
  BY <1>1
<1> QED
  BY <1>2, RunsResume, PTL DEF SnapshotRunsComplete
=============================================================================
