------------------------------ MODULE EtlProps ------------------------------
(***************************************************************************)
(* What the bootstrap promises of the data the model is fitted on.         *)
(***************************************************************************)
EXTENDS Etl

(* The label of a row is what the last trade of days 12 to 16 says, all of  *)
(* them: nothing is labelled before its window has closed, and no batch's   *)
(* answer is taken for another's.                                           *)
LabelsAreTrue ==
  \A t \in DOMAIN table :
    table[t].survived = 1 <=> \E x \in Outcomes({t}, T0[t] + 32) : x[2] >= Threshold

(* The list is on file, and with it the sample and its batches are fixed.   *)
ListCell == <<<<"graduations", 0>>, 1>>
Listed == {x[1] : x \in cache[ListCell].rows}
Selected == Sample(Listed, Max(SampleSizes))
BatchesOf(stage) == Batched(Selected, Order(stage), BatchSize[stage[1]])
IsBatch(stage, k, t) == k \in DOMAIN BatchesOf(stage) /\ t \in BatchesOf(stage)[k]

(* A stage gave up on the batch of a token.                                 *)
GivenUp(name, t) ==
  \E c \in DOMAIN cache : /\ c[1] = <<name, 0>> /\ cache[c].kind = "timed_out"
                          /\ IsBatch(c[1], c[2], t)

(* The tokens whose holders are counted at the time of a token's.           *)
Mates(t) ==
  {u \in Selected : \E k \in DOMAIN BatchesOf(<<"holders", 0>>) :
                      {t, u} \subseteq BatchesOf(<<"holders", 0>>)[k]}
Holding(t, at) == IF Held(t, at) = 0 THEN Null ELSE Held(t, at)

(* The run that loaded the table did not ask for holders.                   *)
Skipped == TRUE \in Skips /\ \A t \in DOMAIN table : table[t].holders = Null

(* The features are what could be known twelve hours after the graduation   *)
(* (the holders, when a token of the batch was that old that is no younger),*)
(* and they are missing only where Dune has nothing to say of the token or  *)
(* gave up on its batch.  Only the flag looks beyond: a mint authority it   *)
(* shows was there at the graduation, but one it does not show may have     *)
(* been given up at any time since.                                         *)
FeaturesAreKnowable ==
  \A t \in DOMAIN table :
    LET r == table[t]
        liq == Merged(Liquidity({t}, T0[t] + 1), t)
        curve == Merged(BondingCurve({t}), t)
    IN /\ r.liq = liq \/ (r.liq = Null /\ GivenUp("liquidity", t))
       /\ r.curve = curve \/ (r.curve = Null /\ GivenUp("bonding_curve", t))
       /\ \/ r.flags = 1 /\ t \in Minted /\ ~IsRevoked(t, T0[t])
          \/ r.flags = 0 /\ t \in Minted /\ IsRevoked(t, now)
          \/ r.flags = Null /\ (t \notin Minted \/ GivenUp("contract_flags", t))
       /\ r.launches = Cardinality({u \in Token : Creator[u] = Creator[t] /\ T0[u] < T0[t]})
       /\ \/ \E u \in Mates(t) : T0[u] <= T0[t] /\ r.holders = Holding(t, T0[u] + 1)
          \/ r.holders = Null /\ (GivenUp("holders", t) \/ Skipped)

(* What contract_flags_sql promises, and does not keep: the flag says       *)
(* whether the authority was given up by the graduation.                    *)
FlagsAreOfGraduation ==
  \A t \in DOMAIN table : table[t].flags = 0 => IsRevoked(t, T0[t])

(* Crashes and re-runs cost no execution but the one that was in flight.    *)
CreditsBounded ==
  spent <= Cardinality({c \in DOMAIN cache : cache[c].kind = "rows"}) + faults
             + Cardinality({p \in Program : proc[p].pc = "write" /\ proc[p].answer.kind = "rows"})

(* No month has more rows than another that had more tokens to give, and    *)
(* the whole is no larger than the sample.                                  *)
OfMonth(S, m) == {t \in S : Month[t] = m}
TableIsStratified ==
  DOMAIN table # {} =>
    /\ Cardinality(DOMAIN table) <= Max(SampleSizes)
    /\ \A m, n \in {Month[t] : t \in Listed} :
         Cardinality(OfMonth(DOMAIN table, m)) > Cardinality(OfMonth(DOMAIN table, n)) + 1
           => OfMonth(Listed, n) \subseteq DOMAIN table

(* A snapshot is the last trade of its own day and token.                   *)
SnapshotsAreExact ==
  \A x \in DOMAIN snapshots :
    <<x[1], snapshots[x]>> \in Snapshots({x[1]}, x[2], T0[x[1]] + 2 * x[2] + 2)

(* What was loaded is a sample of the months, each token in it once, and    *)
(* every snapshot of it is one of the token and of the day.                 *)
SampleIsSound == TypeOK /\ TableIsStratified /\ SnapshotsAreExact

(* A run that comes to its end has the snapshots of all days of all tokens  *)
(* it began with, whatever was cached by the runs before it.                *)
SnapshotRunsComplete ==
  [][InsertSnapshots /\ proc["snapshots"].stage = Days =>
       \A t \in proc["snapshots"].todo, d \in 1 .. Days :
         Snapshots({t}, d, T0[t] + 2 * d + 2) # {} => <<t, d>> \in DOMAIN snapshots']_vars

(* Run again and again, the bootstrap loads its sample, unless a crash left *)
(* a file half written.                                                     *)
NoTornFile == \A c \in DOMAIN cache : cache[c].kind # "torn"
Resumable == []NoTornFile => <>(DOMAIN table # {})

-----------------------------------------------------------------------------
(* The inductive invariant behind these, where every run has the same size. *)

OneSize == \A a, b \in SampleSizes : a = b

IsListed == ListCell \in DOMAIN cache /\ cache[ListCell].kind = "rows"

(* What Dune said of a batch after the last of its windows had closed.      *)
AnswerTo(stage, S, rows) ==
  \E when \in Times : /\ when <= now /\ \A t \in S : T0[t] + 32 <= when
                      /\ rows = Answer(stage, S, when)
ListOf(rows) == \E when \in Times : when <= now /\ rows = Graduations(when)

Cell(p, i, k) == <<Stage(p, i), k>>

(* A file holds the list, or the answer for the batch of the sample that    *)
(* has its number.                                                          *)
Filed(c) ==
  \/ /\ c = ListCell
     /\ cache[c].kind # "timed_out" /\ (cache[c].kind = "rows" => ListOf(cache[c].rows))
  \/ IsListed /\ \E p \in Program : \E i \in 1 .. StageCount(p) :
       /\ Stage(p, i)[1] # "graduations"
       /\ \E k \in DOMAIN BatchesOf(Stage(p, i)) :
            /\ c = Cell(p, i, k)
            /\ cache[c].kind = "rows" =>
                 AnswerTo(Stage(p, i), BatchesOf(Stage(p, i))[k], cache[c].rows)
            /\ cache[c].kind = "timed_out" =>
                 cache[c].rows = {} /\ Stage(p, i)[1] \in Resilient

(* What a program may write of the batch it is at.                          *)
Fits(p, file) ==
  /\ file.kind = "rows" => IF CellOf(p) = ListCell THEN ListOf(file.rows)
                           ELSE AnswerTo(StageOf(p), BatchOf(p), file.rows)
  /\ file.kind = "timed_out" => file.rows = {} /\ StageOf(p)[1] \in Resilient

(* How many batches of a stage a program has read, and what it got of them. *)
ReadTo(p, i) ==
  IF i < proc[p].stage THEN Len(Batches(proc[p], Stage(p, i)))
  ELSE IF i = proc[p].stage THEN proc[p].batch - 1 ELSE 0
Taken(p, i) == UNION {cache[Cell(p, i, k)].rows : k \in 1 .. ReadTo(p, i)}

(* A program that runs has read the files of the batches before the one it  *)
(* is at, and what it is about to write is the answer for that one.         *)
Reading(p) ==
  /\ proc[p].batch \in 1 .. Len(Batches(proc[p], StageOf(p))) + 1
  /\ \A i \in 1 .. StageCount(p) : \A k \in 1 .. ReadTo(p, i) :
       Cell(p, i, k) \in DOMAIN cache /\ cache[Cell(p, i, k)].kind # "torn"
  /\ proc[p].pc = "write" =>
       HasBatch(p) /\ proc[p].answer.kind # "torn" /\ Fits(p, proc[p].answer)

(* The days that are done are complete.                                     *)
DaysDone(S, n) ==
  \A t \in S : \A d \in 1 .. n :
    Snapshots({t}, d, T0[t] + 2 * d + 2) # {} => <<t, d>> \in DOMAIN snapshots

RunOfEtl ==
  LET r == proc["etl"]
  IN IF r.pc = "idle" THEN r = Stopped
     ELSE /\ Reading("etl")
          /\ r.size = Max(SampleSizes) /\ r.skip \in Skips
          /\ r.stage > 1 => IsListed /\ r.todo = Selected /\ DOMAIN table = {}
          /\ \A i \in 1 .. StageCount("etl") : r.got[EtlStages[i]] = Taken("etl", i)

RunOfSnapshots ==
  LET r == proc["snapshots"]
  IN IF r.pc = "idle" THEN r = Stopped
     ELSE /\ Reading("snapshots")
          /\ r.todo = {} \/ r.todo = DOMAIN table
          /\ r.got["snapshot"] = Taken("snapshots", r.stage)
          /\ DaysDone(r.todo, r.stage - 1)

Resuming ==
  /\ \A c \in DOMAIN cache : Filed(c)
  /\ RunOfEtl /\ RunOfSnapshots
  /\ DOMAIN table = {} \/ (IsListed /\ DOMAIN table = Selected)
  /\ \A x \in DOMAIN snapshots : x[1] \in DOMAIN table

ResumeInv == TypeOK /\ Resuming /\ LabelsAreTrue /\ FeaturesAreKnowable /\ SnapshotsAreExact
=============================================================================
