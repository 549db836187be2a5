-------------------------------- MODULE Etl --------------------------------
(***************************************************************************)
(* The bootstrap: two programs that fill historical_graduations and        *)
(* intraperiod_snapshots from Dune.                                        *)
(*                                                                         *)
(* Each goes through its stages, each stage through its batches of tokens, *)
(* one query a batch.  What a query answers is kept in a cache file named  *)
(* after the stage and the number of the batch; a program that is run      *)
(* again reads the file instead of querying.                               *)
(***************************************************************************)
EXTENDS Dune, SequencesExt

CONSTANTS
  Month,        \* the calendar month of the graduation of a token
  MintRank, PoolRank, HashRank,  \* order of the mints, the pools, the sample
  BatchSize,    \* of each stage
  Days,         \* days a token is followed
  Threshold,    \* survival_min_quote_lamports
  SampleSizes,  \* sizes of a full and of a pilot run
  Skips,        \* whether --skip-holders is given
  Times,        \* bound: when something happens
  MaxFaults     \* bound: crashes, and errors and timeouts of Dune

Program == {"etl", "snapshots"}

(* A stage is a name and, for a snapshot, a day.                            *)
EtlStages == <<"graduations", "outcome", "liquidity", "bonding_curve", "contract_flags",
               "deployer", "holders">>
StageCount(p) == IF p = "etl" THEN Len(EtlStages) ELSE Days
Stage(p, i) == IF p = "etl" THEN <<EtlStages[i], 0>> ELSE <<"snapshot", i>>
StageName == Range(EtlStages) \cup {"snapshot"}

ASSUME EtlAssumption ==
  /\ Month \in [Token -> Nat]
  /\ \A rank \in {MintRank, PoolRank, HashRank} :
       rank \in [Token -> Nat] /\ \A t, u \in Token : rank[t] = rank[u] => t = u
  /\ BatchSize \in [StageName \ {"graduations"} -> Nat \ {0}]
  /\ Days \in 1 .. 14 /\ Threshold \in Nat
  /\ SampleSizes \subseteq Nat /\ SampleSizes # {} /\ IsFiniteSet(SampleSizes)
  /\ Skips \subseteq BOOLEAN /\ Times \subseteq Nat /\ Times # {} /\ MaxFaults \in Nat

VARIABLES
  now,
  cache,      \* the cache files there are
  table,      \* historical_graduations: the row of a token
  snapshots,  \* intraperiod_snapshots: <<token, day>> to quote reserve
  proc,       \* the two programs
  spent,      \* executions Dune completed and charged for
  faults

vars == <<now, cache, table, snapshots, proc, spent, faults>>

(* Stages where a timeout leaves columns NULL instead of ending the run.    *)
Resilient == {"liquidity", "bonding_curve", "contract_flags", "holders"}

Null == -1
NoRows == [s \in StageName |-> {}]
Torn == [kind |-> "torn", rows |-> {}]
Stopped == [pc |-> "idle", size |-> 0, skip |-> FALSE, todo |-> {}, stage |-> 1, batch |-> 1,
            got |-> NoRows, answer |-> Torn]

Row == Token \X Int
Record == [survived : {0, 1}, liq : Int, curve : Int, flags : Int, launches : Int, holders : Int]
File == [kind : {"rows", "timed_out", "torn"}, rows : SUBSET Row]
Run == [pc : {"idle", "query", "write"}, size : Nat, skip : BOOLEAN, todo : SUBSET Token,
        stage : Nat, batch : Nat \ {0}, got : [StageName -> SUBSET Row], answer : File]

TypeOK ==
  /\ now \in Times
  /\ \A c \in DOMAIN cache : /\ c[1][1] \in StageName /\ c[2] \in Nat \ {0}
                             /\ cache[c] \in File
  /\ DOMAIN table \subseteq Token /\ \A t \in DOMAIN table : table[t] \in Record
  /\ DOMAIN snapshots \subseteq Token \X (1 .. Days)
  /\ \A x \in DOMAIN snapshots : snapshots[x] \in Nat
  /\ proc \in [Program -> Run] /\ \A p \in Program : proc[p].stage \in 1 .. StageCount(p)
  /\ spent \in Nat /\ faults \in 0 .. MaxFaults

Init ==
  /\ now = Min(Times)
  /\ cache = << >>
  /\ table = << >>
  /\ snapshots = << >>
  /\ proc = [p \in Program |-> Stopped]
  /\ spent = 0
  /\ faults = 0

-----------------------------------------------------------------------------
(* The sample. *)

(* Mutant: every month's share is rounded up.                               *)
QuotaRoundedUp(months, m, size) == (size + Cardinality(months) - 1) \div Cardinality(months)

(* The earliest months get one more, until the size is used up.             *)
Quota(months, m, size) ==
  LET earlier == Cardinality({n \in months : n < m})
  IN (size \div Cardinality(months))
       + IF earlier < size % Cardinality(months) THEN 1 ELSE 0

(* As many of each month, those that come first in an order by hash.        *)
Sample(S, size) ==
  LET months == {Month[t] : t \in S}
      of(m) == {t \in S : Month[t] = m}
  IN {t \in S : Cardinality({u \in of(Month[t]) : HashRank[u] < HashRank[t]})
                  < Quota(months, Month[t], size)}

-----------------------------------------------------------------------------
(* Batches. *)

(* What the list of a stage is sorted by.                                   *)
Order(stage) ==
  CASE stage[1] \in {"outcome", "liquidity"} -> PoolRank
    [] stage[1] = "snapshot" -> T0
    [] OTHER -> MintRank

(* How many come before a token.                                            *)
Place(S, rank, t) == Cardinality({u \in S : rank[u] < rank[t]})

(* Mutant: the last batch is left out when it is not full.                  *)
BatchedWhole(S, rank, size) ==
  [b \in 1 .. (Cardinality(S) \div size) |-> {t \in S : Place(S, rank, t) \div size = b - 1}]

Batched(S, rank, size) ==
  [b \in 1 .. ((Cardinality(S) + size - 1) \div size) |->
     {t \in S : Place(S, rank, t) \div size = b - 1}]

Batches(r, stage) ==
  IF stage[1] = "graduations" THEN <<Token>>
  ELSE IF stage[1] = "holders" /\ r.skip THEN << >>
  ELSE Batched(r.todo, Order(stage), BatchSize[stage[1]])

(* Mutant: the latest graduation of the batch.                              *)
HoldersAtLatest(S) == Max({T0[t] : t \in S}) + 1

(* One snapshot time for a batch.                                           *)
HoldersAt(S) == Min({T0[t] : t \in S}) + 1

Answer(stage, S, when) ==
  CASE stage[1] = "graduations" -> Graduations(when)
    [] stage[1] = "outcome" -> Outcomes(S, when)
    [] stage[1] = "liquidity" -> Liquidity(S, when)
    [] stage[1] = "bonding_curve" -> BondingCurve(S)
    [] stage[1] = "contract_flags" -> ContractFlags(S, when)
    [] stage[1] = "deployer" -> Deployers(S)
    [] stage[1] = "holders" -> Holders(S, HoldersAt(S))
    [] stage[1] = "snapshot" -> Snapshots(S, stage[2], when)

-----------------------------------------------------------------------------
(* Records. *)

Values(rows, t) == {x[2] : x \in {y \in rows : y[1] = t}}
Merged(rows, t) == IF Values(rows, t) = {} THEN Null ELSE Max(Values(rows, t))

(* A pool without a row was abandoned.                                      *)
Survived(rows, t) == IF Merged(rows, t) >= Threshold THEN 1 ELSE 0

(* The last trade before the slot of the graduation.                        *)
CurveState(rows, t) == Merged({x \in rows : x[2] < T0[x[1]]}, t)

RecordOf(got, t) ==
  [survived |-> Survived(got["outcome"], t),
   liq |-> Merged(got["liquidity"], t),
   curve |-> CurveState(got["bonding_curve"], t),
   flags |-> Merged(got["contract_flags"], t),
   launches |-> Merged(got["deployer"], t),
   holders |-> Merged(got["holders"], t)]

-----------------------------------------------------------------------------
(* Running a program. *)

StageOf(p) == Stage(p, proc[p].stage)
CellOf(p) == <<StageOf(p), proc[p].batch>>
HasBatch(p) == proc[p].batch <= Len(Batches(proc[p], StageOf(p)))
BatchOf(p) == Batches(proc[p], StageOf(p))[proc[p].batch]

(* The cache with a file in it.                                             *)
With(c, file) == [d \in DOMAIN cache \cup {c} |-> IF d = c THEN file ELSE cache[d]]

Goes(p, r) == proc' = [proc EXCEPT ![p] = r]
Stops(p) == Goes(p, Stopped)
NextBatch(r, stage, rows) ==
  [r EXCEPT !.pc = "query", !.batch = @ + 1, !.got[stage[1]] = @ \cup rows, !.answer = Torn]
NextStage(r) == [r EXCEPT !.stage = @ + 1, !.batch = 1]

StartEtl(size, skip) ==
  /\ proc["etl"].pc = "idle"
  /\ Goes("etl", [Stopped EXCEPT !.pc = "query", !.size = size, !.skip = skip])
  /\ UNCHANGED <<now, cache, table, snapshots, spent, faults>>

StartSnapshots ==
  /\ proc["snapshots"].pc = "idle"
  /\ Goes("snapshots", [Stopped EXCEPT !.pc = "query", !.todo = DOMAIN table])
  /\ UNCHANGED <<now, cache, table, snapshots, spent, faults>>

Cached(p) == CellOf(p) \in DOMAIN cache

(* A file that holds half of its JSON ends the program.                     *)
ReadCache(p) ==
  /\ proc[p].pc = "query" /\ HasBatch(p) /\ Cached(p)
  /\ IF cache[CellOf(p)].kind = "torn" THEN Stops(p)
     ELSE Goes(p, NextBatch(proc[p], StageOf(p), cache[CellOf(p)].rows))
  /\ UNCHANGED <<now, cache, table, snapshots, spent, faults>>

(* Dune answers, or it gives the execution up as too heavy, or a request    *)
(* fails: also the one for the result of an execution that is paid for.     *)
Query(p) ==
  /\ proc[p].pc = "query" /\ HasBatch(p) /\ ~Cached(p)
  /\ \/ /\ Goes(p, [proc[p] EXCEPT
                     !.pc = "write",
                     !.answer = [kind |-> "rows", rows |-> Answer(StageOf(p), BatchOf(p), now)]])
        /\ spent' = spent + 1
        /\ UNCHANGED faults
     \/ /\ faults < MaxFaults /\ faults' = faults + 1
        /\ StageOf(p)[1] \in Resilient
        /\ Goes(p, [proc[p] EXCEPT !.pc = "write",
                                   !.answer = [kind |-> "timed_out", rows |-> {}]])
        /\ UNCHANGED spent
     \/ /\ faults < MaxFaults /\ faults' = faults + 1
        /\ Stops(p)
        /\ spent' \in {spent, spent + 1}
  /\ UNCHANGED <<now, cache, table, snapshots>>

(* Mutant: an answer without rows is not worth a file.                      *)
WriteCacheUnlessEmpty(p) ==
  /\ proc[p].pc = "write"
  /\ cache' = IF proc[p].answer.kind = "rows" /\ proc[p].answer.rows = {} THEN cache
              ELSE With(CellOf(p), proc[p].answer)
  /\ Goes(p, NextBatch(proc[p], StageOf(p), proc[p].answer.rows))
  /\ UNCHANGED <<now, table, snapshots, spent, faults>>

(* The rows, or the marker of a timeout.                                    *)
WriteCache(p) ==
  /\ proc[p].pc = "write"
  /\ cache' = With(CellOf(p), proc[p].answer)
  /\ Goes(p, NextBatch(proc[p], StageOf(p), proc[p].answer.rows))
  /\ UNCHANGED <<now, table, snapshots, spent, faults>>

(* The list is cached for good; of its sample, what is loaded is left out.  *)
TakeSample ==
  LET r == proc["etl"]
      listed == {x[1] : x \in r.got["graduations"]}
      todo == Sample(listed, r.size) \ DOMAIN table
  IN /\ r.pc = "query" /\ r.stage = 1 /\ ~HasBatch("etl")
     /\ IF todo = {} THEN Stops("etl") ELSE Goes("etl", NextStage([r EXCEPT !.todo = todo]))
     /\ UNCHANGED <<now, cache, table, snapshots, spent, faults>>

(* Mutant: the stage before the last has no end.                            *)
EndStageShort ==
  LET r == proc["etl"]
  IN /\ r.pc = "query" /\ r.stage \in 2 .. StageCount("etl") - 2 /\ ~HasBatch("etl")
     /\ Goes("etl", NextStage(r))
     /\ UNCHANGED <<now, cache, table, snapshots, spent, faults>>

EndStage ==
  LET r == proc["etl"]
  IN /\ r.pc = "query" /\ r.stage \in 2 .. StageCount("etl") - 1 /\ ~HasBatch("etl")
     /\ Goes("etl", NextStage(r))
     /\ UNCHANGED <<now, cache, table, snapshots, spent, faults>>

(* One transaction; rows that are there are kept.                           *)
LoadRecords ==
  LET r == proc["etl"]
  IN /\ r.pc = "query" /\ r.stage = StageCount("etl") /\ ~HasBatch("etl")
     /\ table' = [t \in DOMAIN table \cup r.todo |->
                   IF t \in DOMAIN table THEN table[t] ELSE RecordOf(r.got, t)]
     /\ Stops("etl")
     /\ UNCHANGED <<now, cache, snapshots, spent, faults>>

(* Pools that are no longer in the table are dropped; rows are kept.        *)
InsertSnapshots ==
  LET r == proc["snapshots"]
      rows == {x \in r.got["snapshot"] : x[1] \in DOMAIN table}
      taken == {<<x[1], r.stage>> : x \in rows}
  IN /\ r.pc = "query" /\ ~HasBatch("snapshots")
     /\ snapshots' = [k \in DOMAIN snapshots \cup taken |->
                       IF k \in DOMAIN snapshots THEN snapshots[k] ELSE Merged(rows, k[1])]
     /\ IF r.stage < Days THEN Goes("snapshots", NextStage([r EXCEPT !.got = NoRows]))
        ELSE Stops("snapshots")
     /\ UNCHANGED <<now, cache, table, spent, faults>>

(* Killed, and if it was writing a file, with the file half written.        *)
Crash(p) ==
  /\ proc[p].pc # "idle"
  /\ faults < MaxFaults
  /\ faults' = faults + 1
  /\ Stops(p)
  /\ \/ UNCHANGED cache
     \/ /\ proc[p].pc = "write"
        /\ cache' = With(CellOf(p), Torn)
  /\ UNCHANGED <<now, table, snapshots, spent>>

TimePasses ==
  /\ now' \in {x \in Times : x > now}
  /\ UNCHANGED <<cache, table, snapshots, proc, spent, faults>>

RunEtl == TakeSample \/ EndStage \/ LoadRecords
Batch(p) == ReadCache(p) \/ Query(p) \/ WriteCache(p)

Next ==
  \/ TimePasses
  \/ \E size \in SampleSizes, skip \in Skips : StartEtl(size, skip)
  \/ StartSnapshots \/ InsertSnapshots \/ RunEtl
  \/ \E p \in Program : Batch(p) \/ Crash(p)

Spec == Init /\ [][Next]_vars

(* Whoever runs the bootstrap runs it again until it is done, and a program *)
(* that runs goes on.                                                       *)
FairSpec ==
  /\ Spec
  /\ WF_now(TimePasses)
  /\ WF_vars(\E size \in SampleSizes, skip \in Skips : StartEtl(size, skip))
  /\ WF_vars(RunEtl \/ Batch("etl"))
=============================================================================
