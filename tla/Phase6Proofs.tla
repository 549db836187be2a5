----------------------------- MODULE Phase6Proofs -----------------------------
(***************************************************************************)
(* Proofs about what the fund learns: that self-tuning stays within its    *)
(* bounds and needs evidence, that a rejected rule stays rejected and a    *)
(* validated one was earned, that the ledger is sound, that the Reflector  *)
(* is asked often enough and about what happened, and that a refresh heals *)
(* what killed programs left behind.                                       *)
(***************************************************************************)
EXTENDS Phase6Props, SetLemmas, TLAPS

(* The calibration as a record of its parts.                                *)
Tuned ==
  [stop : StopBounds[1] .. StopBounds[2],
   penalty : {f \in [Bucket -> Int] : \A b \in Bucket : f[b] \in PenaltyBounds[b][1] .. PenaltyBounds[b][2]},
   tally : Tally]

Balanced(tally) == tally.total = tally.savings + tally.winners + tally.never

LEMMA WithinBounds ==
  ASSUME NEW x \in Int, NEW lo \in Int, NEW hi \in Int, lo <= hi
  PROVE  Within(x, <<lo, hi>>) \in lo .. hi
  BY DEF Within

LEMMA BoundsOrdered ==
  /\ StopBounds[1] \in Int /\ StopBounds[2] \in Int /\ StopBounds[1] <= StopBounds[2]
  /\ StopBounds = <<StopBounds[1], StopBounds[2]>>
  /\ \A b \in Bucket :
       /\ PenaltyBounds[b][1] \in Int /\ PenaltyBounds[b][2] \in Int
       /\ PenaltyBounds[b][1] <= PenaltyBounds[b][2]
       /\ PenaltyBounds[b] = <<PenaltyBounds[b][1], PenaltyBounds[b][2]>>
<1>1. /\ StopBounds[1] \in Int /\ StopBounds[2] \in Int /\ StopBounds = <<StopBounds[1], StopBounds[2]>>
      /\ StopDefault \in StopBounds[1] .. StopBounds[2]
  BY CalibrationAssumption
<1>2. ASSUME NEW b \in Bucket
      PROVE  /\ PenaltyBounds[b][1] \in Int /\ PenaltyBounds[b][2] \in Int
             /\ PenaltyBounds[b] = <<PenaltyBounds[b][1], PenaltyBounds[b][2]>>
             /\ PenaltyBounds[b][1] <= PenaltyBounds[b][2]
  <2>1. PenaltyBounds[b] \in Int \X Int /\ PenaltyDefault[b] \in PenaltyBounds[b][1] .. PenaltyBounds[b][2]
    BY CalibrationAssumption
  <2>2. QED
    BY <2>1
<1>3. QED
  BY <1>1, <1>2

LEMMA TalliedType ==
  ASSUME NEW tally \in Tally, NEW o \in Outcome, Balanced(tally)
  PROVE  /\ Tallied(tally, o) \in Tally
         /\ Tallied(tally, o).total = tally.total + 1
         /\ Balanced(Tallied(tally, o))
  BY DEF Tallied, Tally, Outcome, Balanced

LEMMA UncalibratedType == Uncalibrated \in Tuned /\ Balanced(Uncalibrated.tally)
  BY CalibrationAssumption DEF Uncalibrated, Tuned, Tally, Balanced

LEMMA WithinMoved ==
  ASSUME NEW x \in Int, NEW d \in {-1, 0, 1, 10, -10}, NEW lo \in Int, NEW hi \in Int, lo <= hi
  PROVE  Within(x + d, <<lo, hi>>) \in lo .. hi
<1>1. x + d \in Int
  OBVIOUS
<1>2. QED
  BY <1>1, WithinBounds

(* The stop is moved only when the tally has enough closes.                 *)
LEMMA StopTunedType ==
  ASSUME NEW c \in Tuned, Balanced(c.tally), NEW o \in Outcome
  PROVE  /\ StopTuned(c, o) \in Tuned
         /\ Balanced(StopTuned(c, o).tally)
         /\ StopTuned(c, o).penalty = c.penalty
         /\ StopTuned(c, o).tally.total \in {c.tally.total, c.tally.total + 1}
         /\ StopTuned(c, o).stop # c.stop => StopTuned(c, o).tally.total >= MinObservations
<1> DEFINE tally == Tallied(c.tally, o)
           step == IF 100 * tally.winners > 40 * tally.total THEN 1
                   ELSE IF 100 * tally.never > 60 * tally.total THEN -1 ELSE 0
           stop == IF tally.total < MinObservations THEN c.stop ELSE Within(c.stop + step, StopBounds)
<1>1. tally \in Tally /\ tally.total = c.tally.total + 1 /\ Balanced(tally)
  <2>1. c.tally \in Tally
    BY DEF Tuned
  <2>2. QED
    BY <2>1, TalliedType
<1>2. step \in {-1, 0, 1, 10, -10}
  OBVIOUS
<1>3. c.stop \in StopBounds[1] .. StopBounds[2]
  BY DEF Tuned
<1>4. Within(c.stop + step, StopBounds) \in StopBounds[1] .. StopBounds[2]
  <2> HIDE DEF step
  <2>1. Within(c.stop + step, <<StopBounds[1], StopBounds[2]>>) \in StopBounds[1] .. StopBounds[2]
    <3>1. c.stop \in Int
      BY <1>3, BoundsOrdered
    <3>2. QED
      BY <3>1, <1>2, BoundsOrdered, WithinMoved
  <2>2. QED
    BY <2>1, BoundsOrdered
<1>5. stop \in StopBounds[1] .. StopBounds[2] /\ (stop # c.stop => tally.total >= MinObservations)
  <2> HIDE DEF step, tally
  <2>1. tally.total \in Nat /\ MinObservations \in Nat
    BY <1>1, CalibrationAssumption DEF Tally
  <2>2. QED
    BY <1>3, <1>4, <2>1
<1>6. StopTuned(c, o) = IF ~o.volatile THEN c ELSE [c EXCEPT !.tally = tally, !.stop = stop]
  BY DEF StopTuned
<1> HIDE DEF step, tally, stop
<1>7. CASE ~o.volatile
  <2>1. StopTuned(c, o) = c
    BY <1>6, <1>7
  <2>2. QED
    BY <2>1
<1>8. CASE o.volatile
  <2>1. StopTuned(c, o) = [c EXCEPT !.tally = tally, !.stop = stop]
    BY <1>6, <1>8
  <2>2. QED
    BY <2>1, <1>1, <1>5 DEF Tuned
<1>9. QED
  BY <1>7, <1>8

(* A penalty is moved only on the record of its own bucket.                 *)
LEMMA PenaltiesTunedType ==
  ASSUME NEW c \in Tuned, NEW stats \in [Bucket \cup {Split} -> BucketStats]
  PROVE  /\ PenaltiesTuned(c, stats) \in Tuned
         /\ PenaltiesTuned(c, stats).tally = c.tally
         /\ PenaltiesTuned(c, stats).stop = c.stop
         /\ \A b \in Bucket : PenaltiesTuned(c, stats).penalty[b] # c.penalty[b]
                              => stats[b].n >= MinObservations
<1> DEFINE step(b) == IF stats[b].sum <= 0 THEN 10
                      ELSE IF stats[b].sum > 5 * stats[b].n THEN -10 ELSE 0
           pen(b) == IF stats[b].n < MinObservations THEN c.penalty[b]
                     ELSE Within(c.penalty[b] + step(b), PenaltyBounds[b])
           penalty == [b \in Bucket |-> pen(b)]
<1>1. PenaltiesTuned(c, stats) = [c EXCEPT !.penalty = penalty]
  BY DEF PenaltiesTuned
<1>2. c.penalty \in [Bucket -> Int]
      /\ \A b \in Bucket : c.penalty[b] \in PenaltyBounds[b][1] .. PenaltyBounds[b][2]
  BY DEF Tuned
<1>3. ASSUME NEW b \in Bucket
      PROVE  /\ pen(b) \in PenaltyBounds[b][1] .. PenaltyBounds[b][2]
             /\ pen(b) \in Int
             /\ pen(b) # c.penalty[b] => stats[b].n >= MinObservations
  <2>1. stats[b].n \in Nat /\ MinObservations \in Nat \ {0}
    BY CalibrationAssumption DEF BucketStats
  <2>2. step(b) \in {-1, 0, 1, 10, -10}
    OBVIOUS
  <2>3. Within(c.penalty[b] + step(b), PenaltyBounds[b]) \in PenaltyBounds[b][1] .. PenaltyBounds[b][2]
    <3> HIDE DEF step
    <3>1. Within(c.penalty[b] + step(b), <<PenaltyBounds[b][1], PenaltyBounds[b][2]>>)
            \in PenaltyBounds[b][1] .. PenaltyBounds[b][2]
      BY <1>2, <2>2, BoundsOrdered, WithinMoved
    <3>2. QED
      BY <3>1, BoundsOrdered
  <2> HIDE DEF step
  <2>4. QED
    BY <1>2, <2>1, <2>3, BoundsOrdered
<1> HIDE DEF pen, step
<1>4. penalty \in [Bucket -> Int]
      /\ \A b \in Bucket : penalty[b] \in PenaltyBounds[b][1] .. PenaltyBounds[b][2]
  BY <1>3
<1>5. \A b \in Bucket : penalty[b] # c.penalty[b] => stats[b].n >= MinObservations
  BY <1>3
<1> HIDE DEF penalty
<1>6. QED
  BY <1>1, <1>4, <1>5 DEF Tuned

-----------------------------------------------------------------------------
(* What the calibration rests on.  A close is logged before the stop is     *)
(* tuned, and a program killed in between leaves more closes in the log     *)
(* than in the tally, never fewer.                                          *)
Fields == {"counts", "body", "audited", "stats", "calibration"}

Earned ==
  /\ lessons.calibration.tally.total <= Len(audits)
  /\ pc = "stop" => lessons.calibration.tally.total < Len(audits)
  /\ lessons.calibration.stop # StopDefault => Len(audits) >= MinObservations
  /\ \A b \in Bucket : lessons.calibration.penalty[b] # PenaltyDefault[b]
                        => lessons.stats[b].n >= MinObservations

Calibrated ==
  /\ world \in DOMAIN World
  /\ DOMAIN lessons = Fields
  /\ audits \in Seq(Outcome)
  /\ pc \in {"log", "stop"} => closing \in Outcome
  /\ lessons.stats \in [Bucket \cup {Split} -> BucketStats]
  /\ lessons.calibration \in Tuned
  /\ Balanced(lessons.calibration.tally)
  /\ Earned

LEMMA CalibratedInit == Init => Calibrated
<1> SUFFICES ASSUME Init PROVE Calibrated
  OBVIOUS
<1>1. lessons = [counts |-> NoCounts, body |-> Nothing, audited |-> 0,
                 stats |-> [b \in Bucket \cup {Split} |-> [n |-> 0, sum |-> 0]],
                 calibration |-> Uncalibrated]
  BY DEF Init
<1>2. DOMAIN lessons = Fields
  BY <1>1 DEF Fields
<1>3. lessons.calibration = Uncalibrated
      /\ lessons.stats = [b \in Bucket \cup {Split} |-> [n |-> 0, sum |-> 0]]
  BY <1>1
<1>4. lessons.stats \in [Bucket \cup {Split} -> BucketStats]
  BY <1>3 DEF BucketStats
<1>5. world \in DOMAIN World /\ audits = << >> /\ pc = "idle"
  BY DEF Init
<1>6. Uncalibrated.stop = StopDefault /\ Uncalibrated.penalty = PenaltyDefault
      /\ Uncalibrated.tally.total = 0
  BY DEF Uncalibrated
<1>7. QED
  BY <1>2, <1>3, <1>4, <1>5, <1>6, UncalibratedType DEF Calibrated, Earned

LEMMA CalibratedStep == Calibrated /\ [Next]_vars => Calibrated'
<1> SUFFICES ASSUME Calibrated, [Next]_vars PROVE Calibrated'
  OBVIOUS
<1>1. CASE \E o \in World[world].outcomes : ScoreClose(o)
  <2>1. PICK o \in World[world].outcomes : ScoreClose(o)
    BY <1>1
  <2>2. o \in Outcome
    BY Phase6Assumption DEF Calibrated
  <2> DEFINE k == BucketOf(o.spread)
             st == [lessons.stats EXCEPT ![k] = [n |-> @.n + 1, sum |-> @.sum + o.pct]]
  <2>3. /\ DOMAIN lessons' = DOMAIN lessons
        /\ lessons'.calibration = lessons.calibration
        /\ lessons'.stats = st
    <3>1. lessons' = [lessons EXCEPT !.audited = @ + 1, !.stats[k] = [n |-> @.n + 1, sum |-> @.sum + o.pct]]
      BY <2>1 DEF ScoreClose
    <3> HIDE DEF k
    <3>2. QED
      BY <3>1 DEF Calibrated, Fields
  <2>4. /\ st \in [Bucket \cup {Split} -> BucketStats]
        /\ \A b \in Bucket : st[b].n >= lessons.stats[b].n /\ lessons.stats[b].n \in Nat
                              /\ st[b].n \in Nat
    <3> HIDE DEF k
    <3>1. o.pct \in Int
      BY <2>2 DEF Outcome
    <3> DEFINE D == Bucket \cup {Split}
    <3>2. lessons.stats \in [D -> BucketStats]
      BY DEF Calibrated
    <3> HIDE DEF D
    <3>3. ASSUME NEW b \in D
          PROVE  /\ st[b] \in BucketStats /\ st[b].n >= lessons.stats[b].n
                 /\ lessons.stats[b].n \in Nat /\ st[b].n \in Nat
      <4>1. lessons.stats[b].n \in Nat /\ lessons.stats[b].sum \in Int
        BY <3>2 DEF BucketStats
      <4>2. CASE b = k
        <5>1. st[b] = [n |-> lessons.stats[b].n + 1, sum |-> lessons.stats[b].sum + o.pct]
          BY <3>2, <4>2
        <5>2. QED
          BY <3>1, <4>1, <5>1 DEF BucketStats
      <4>3. CASE b # k
        <5>1. st[b] = lessons.stats[b] /\ lessons.stats[b] \in BucketStats
          BY <3>2, <4>3
        <5>2. QED
          BY <4>1, <5>1
      <4>4. QED
        BY <4>2, <4>3
    <3>4. st = [b \in D |-> st[b]]
      BY <3>2
    <3>5. Bucket \subseteq D
      BY DEF D
    <3> HIDE DEF st
    <3>6. st \in [D -> BucketStats]
      BY <3>3, <3>4
    <3>7. QED
      BY <3>3, <3>5, <3>6 DEF D
  <2> HIDE DEF st, k
  <2>5. UNCHANGED <<world, audits>> /\ pc' = "log" /\ closing' = o
    BY <2>1 DEF ScoreClose, marketVars
  <2>6. Earned'
    <3>1. ASSUME NEW b \in Bucket, lessons'.calibration.penalty[b] # PenaltyDefault[b]
          PROVE  lessons'.stats[b].n >= MinObservations
      <4>1. lessons.stats[b].n >= MinObservations
        BY <3>1, <2>3 DEF Calibrated, Earned
      <4>2. MinObservations \in Nat
        BY CalibrationAssumption
      <4>3. QED
        BY <4>1, <4>2, <2>3, <2>4
    <3>2. QED
      BY <3>1, <2>3, <2>5 DEF Calibrated, Earned
  <2>7. QED
    BY <2>2, <2>3, <2>4, <2>5, <2>6 DEF Calibrated
<1>2. CASE LogClose
  <2>1. /\ pc = "log" /\ audits' = Append(audits, closing) /\ pc' = "stop"
        /\ UNCHANGED <<world, lessons, closing>>
    BY <1>2 DEF LogClose, marketVars
  <2>2. closing \in Outcome /\ audits \in Seq(Outcome)
    BY <2>1 DEF Calibrated
  <2>3. audits' \in Seq(Outcome) /\ Len(audits') = Len(audits) + 1 /\ Len(audits) \in Nat
    BY <2>1, <2>2
  <2>4. lessons.calibration.tally.total \in Nat /\ MinObservations \in Nat
    BY CalibrationAssumption DEF Calibrated, Tuned, Tally
  <2>5. Earned'
    BY <2>1, <2>3, <2>4 DEF Calibrated, Earned
  <2>6. QED
    BY <2>1, <2>2, <2>3, <2>5 DEF Calibrated
<1>3. CASE CalibrateStop
  <2> DEFINE c == lessons.calibration
             d == StopTuned(c, closing)
  <2>1. /\ pc = "stop" /\ pc' = "penalty" /\ UNCHANGED <<world, audits, closing>>
        /\ lessons' = [lessons EXCEPT !.calibration = d]
    BY <1>3 DEF CalibrateStop, marketVars
  <2>2. DOMAIN lessons' = Fields /\ lessons'.calibration = d /\ lessons'.stats = lessons.stats
    <3> HIDE DEF d
    <3>1. QED
      BY <2>1 DEF Calibrated, Fields
  <2>3. closing \in Outcome /\ c \in Tuned /\ Balanced(c.tally)
    BY <2>1 DEF Calibrated
  <2>4. /\ d \in Tuned /\ Balanced(d.tally) /\ d.penalty = c.penalty
        /\ d.tally.total \in {c.tally.total, c.tally.total + 1}
        /\ d.stop # c.stop => d.tally.total >= MinObservations
    BY <2>3, StopTunedType
  <2>5. c.tally.total < Len(audits) /\ c.tally.total \in Nat /\ Len(audits) \in Nat
        /\ MinObservations \in Nat
    <3>1. audits \in Seq(Outcome) /\ c.tally.total < Len(audits)
      BY <2>1 DEF Calibrated, Earned
    <3>2. Len(audits) \in Nat /\ MinObservations \in Nat
      BY <3>1, CalibrationAssumption
    <3>3. c.tally.total \in Nat
      BY <2>3 DEF Tuned, Tally
    <3>4. QED
      BY <3>1, <3>2, <3>3
  <2> HIDE DEF d
  <2>6. Earned'
    BY <2>1, <2>2, <2>4, <2>5 DEF Calibrated, Earned
  <2>7. QED
    BY <2>1, <2>2, <2>4, <2>6 DEF Calibrated
<1>4. CASE CalibratePenalties
  <2> DEFINE c == lessons.calibration
             d == PenaltiesTuned(c, lessons.stats)
  <2>1. /\ pc' = "idle" /\ UNCHANGED <<world, audits>>
        /\ lessons' = [lessons EXCEPT !.calibration = d]
    BY <1>4 DEF CalibratePenalties, marketVars
  <2>2. DOMAIN lessons' = Fields /\ lessons'.calibration = d /\ lessons'.stats = lessons.stats
    <3> HIDE DEF d
    <3>1. QED
      BY <2>1 DEF Calibrated, Fields
  <2>3. /\ d \in Tuned /\ d.tally = c.tally /\ d.stop = c.stop
        /\ \A b \in Bucket : d.penalty[b] # c.penalty[b] => lessons.stats[b].n >= MinObservations
    BY PenaltiesTunedType DEF Calibrated
  <2> HIDE DEF d
  <2>4. Earned'
    BY <2>1, <2>2, <2>3 DEF Calibrated, Earned
  <2>5. QED
    BY <2>1, <2>2, <2>3, <2>4 DEF Calibrated
<1>5. CASE RefreshCounters \/ RefreshBody
  <2>1. pc' \in {"body", "idle"} /\ UNCHANGED <<world, audits>>
    BY <1>5 DEF RefreshCounters, RefreshBody, marketVars
  <2>2. /\ DOMAIN lessons' = DOMAIN lessons
        /\ lessons'.calibration = lessons.calibration /\ lessons'.stats = lessons.stats
    BY <1>5 DEF RefreshCounters, RefreshBody, Refreshed, Calibrated, Fields
  <2>3. QED
    BY <2>1, <2>2 DEF Calibrated, Earned
<1>6. ASSUME UNCHANGED <<world, audits, lessons>>,
             pc' \notin {"log", "stop"} \/ UNCHANGED <<pc, closing>>
      PROVE  Calibrated'
  BY <1>6 DEF Calibrated, Earned
<1>7. CASE StartPhase6 \/ Stage \/ WritePayload \/ PersistRun \/ Crash
  BY <1>6, <1>7 DEF StartPhase6, Stage, WritePayload, PersistRun, Crash, marketVars
<1>8. CASE PersistRow \/ (\E q \in Offered : Trade(q)) \/ (\E s \in Symbol : CloseOut(s))
           \/ (\E s \in Symbol : SnapshotRow(s))
           \/ (\E a \in World[world].answers : Reflect(a))
  BY <1>6, <1>8 DEF PersistRow, Trade, CloseOut, SnapshotRow, Reflect, marketVars
<1>9. CASE UNCHANGED vars
  BY <1>6, <1>9 DEF vars, marketVars
<1>10. QED
  BY <1>1, <1>2, <1>3, <1>4, <1>5, <1>7, <1>8, <1>9 DEF Next

(* Risk parameters stay within their bounds whatever the trades show, and   *)
(* none has moved before the closes that justify it are on record:          *)
(* update_stop_calibration and update_disagreement_calibration.             *)
THEOREM CalibrationStaysBounded == Spec => []CalibrationBounded
<1>1. Calibrated => CalibrationBounded
  <2> SUFFICES ASSUME Calibrated PROVE CalibrationBounded
    OBVIOUS
  <2> DEFINE c == lessons.calibration
  <2>1. /\ c.stop \in StopBounds[1] .. StopBounds[2]
        /\ \A b \in Bucket : c.penalty[b] \in PenaltyBounds[b][1] .. PenaltyBounds[b][2]
    BY DEF Calibrated, Tuned
  <2>2. QED
    BY <2>1 DEF CalibrationBounded, Calibrated, Earned, Balanced
<1>2. QED
  BY CalibratedInit, CalibratedStep, <1>1, PTL DEF Spec

-----------------------------------------------------------------------------
(* The rules the agents are told of are rules of the file: reflections are  *)
(* only appended.                                                           *)
RulesOfFile ==
  /\ \E S : reflections \in Seq(S)
  /\ DOMAIN lessons = Fields
  /\ lessons.body.rejected \subseteq Rules(reflections)

LEMMA RulesGrow ==
  ASSUME NEW S, NEW log \in Seq(S), NEW row
  PROVE  /\ Append(log, row) \in Seq(S \cup {row})
         /\ Rules(log) \subseteq Rules(Append(log, row))
<1>1. log \in Seq(S \cup {row}) /\ row \in S \cup {row}
  OBVIOUS
<1>2. /\ Append(log, row) \in Seq(S \cup {row})
      /\ DOMAIN log \subseteq DOMAIN Append(log, row)
      /\ \A i \in DOMAIN log : Append(log, row)[i] = log[i]
  BY <1>1
<1>3. Rules(log) \subseteq Rules(Append(log, row))
  BY <1>2 DEF Rules
<1>4. QED
  BY <1>2, <1>3

LEMMA AggregateRejected ==
  ASSUME NEW log
  PROVE  /\ Aggregate(log).rejected = WithStatus(log, "rejected")
         /\ WithStatus(log, "rejected") \subseteq Rules(log)
         /\ \A id \in Rules(log) : Disconfirms(log, id) >= RejectAt => id \in WithStatus(log, "rejected")
  BY DEF Aggregate, WithStatus, Status

LEMMA RulesOfFileInit == Init => RulesOfFile
<1> SUFFICES ASSUME Init PROVE RulesOfFile
  OBVIOUS
<1>1. DOMAIN lessons = Fields /\ lessons.body.rejected = {}
  BY DEF Init, Fields, Nothing
<1>2. reflections \in Seq({})
  BY DEF Init
<1>3. QED
  BY <1>1, <1>2 DEF RulesOfFile

(* Only a refresh of the body changes the rules the agents are told of.     *)
LEMMA BodyStep ==
  ASSUME RulesOfFile, Next
  PROVE  \/ lessons'.body = lessons.body /\ DOMAIN lessons' = Fields
         \/ /\ lessons'.body = Aggregate(reflections) /\ reflections' = reflections
            /\ DOMAIN lessons' = Fields
<1>1. DOMAIN lessons = Fields
  BY DEF RulesOfFile
<1>2. CASE \E o \in World[world].outcomes : ScoreClose(o)
  <2>1. PICK o \in World[world].outcomes : ScoreClose(o)
    BY <1>2
  <2> DEFINE k == BucketOf(o.spread)
  <2>2. lessons' = [lessons EXCEPT !.audited = @ + 1, !.stats[k] = [n |-> @.n + 1, sum |-> @.sum + o.pct]]
    BY <2>1 DEF ScoreClose
  <2> HIDE DEF k
  <2>3. QED
    BY <1>1, <2>2 DEF Fields
<1>3. CASE CalibrateStop \/ CalibratePenalties
  <2>1. PICK c : lessons' = [lessons EXCEPT !.calibration = c]
    BY <1>3 DEF CalibrateStop, CalibratePenalties
  <2>2. QED
    BY <1>1, <2>1 DEF Fields
<1>4. CASE RefreshCounters
  BY <1>1, <1>4 DEF RefreshCounters, Refreshed, Fields
<1>5. CASE RefreshBody
  <2> DEFINE a == Aggregate(reflections)
  <2>1. /\ lessons' = lessons \/ lessons' = [lessons EXCEPT !.body = a]
        /\ reflections' = reflections
    BY <1>5 DEF RefreshBody, answerVars
  <2> HIDE DEF a
  <2>2. \/ lessons' = lessons
        \/ lessons'.body = a /\ DOMAIN lessons' = Fields
    BY <1>1, <2>1 DEF Fields
  <2>3. QED
    BY <1>1, <2>1, <2>2 DEF a
<1>6. CASE StartPhase6 \/ Stage \/ WritePayload \/ PersistRun \/ Crash \/ LogClose
  BY <1>1, <1>6 DEF StartPhase6, Stage, WritePayload, PersistRun, Crash, LogClose
<1>7. CASE PersistRow \/ (\E q \in Offered : Trade(q)) \/ (\E s \in Symbol : CloseOut(s))
           \/ (\E s \in Symbol : SnapshotRow(s))
           \/ (\E a \in World[world].answers : Reflect(a))
  BY <1>1, <1>7 DEF PersistRow, Trade, CloseOut, SnapshotRow, Reflect
<1>8. QED
  BY <1>2, <1>3, <1>4, <1>5, <1>6, <1>7 DEF Next

LEMMA ReflectionsStep ==
  ASSUME Next
  PROVE  reflections' = reflections \/ \E row : reflections' = Append(reflections, row)
<1>1. CASE PersistRow
  BY <1>1 DEF PersistRow
<1>2. CASE ~PersistRow
  BY <1>2 DEF Next, ScoreClose, LogClose, CalibrateStop, CalibratePenalties, Trade, CloseOut, StartPhase6,
     SnapshotRow, Stage, WritePayload, Reflect, PersistRun, RefreshCounters, RefreshBody, Crash,
     answerVars
<1>3. QED
  BY <1>1, <1>2

LEMMA RulesOfFileStep == RulesOfFile /\ [Next]_vars => RulesOfFile'
<1> SUFFICES ASSUME RulesOfFile, [Next]_vars PROVE RulesOfFile'
  OBVIOUS
<1>1. CASE UNCHANGED vars
  BY <1>1 DEF vars, answerVars, RulesOfFile
<1>2. CASE Next
  <2>1. PICK S : reflections \in Seq(S)
    BY DEF RulesOfFile
  <2>2. (\E T : reflections' \in Seq(T)) /\ Rules(reflections) \subseteq Rules(reflections')
    <3>1. CASE reflections' = reflections
      BY <2>1, <3>1
    <3>2. CASE \E row : reflections' = Append(reflections, row)
      <4>1. PICK row : reflections' = Append(reflections, row)
        BY <3>2
      <4>2. reflections' \in Seq(S \cup {row}) /\ Rules(reflections) \subseteq Rules(reflections')
        BY <2>1, <4>1, RulesGrow
      <4>3. QED
        BY <4>2
    <3>3. QED
      BY <1>2, <3>1, <3>2, ReflectionsStep
  <2>3. CASE lessons'.body = lessons.body /\ DOMAIN lessons' = Fields
    BY <2>2, <2>3 DEF RulesOfFile
  <2>4. CASE /\ lessons'.body = Aggregate(reflections) /\ reflections' = reflections
             /\ DOMAIN lessons' = Fields
    BY <2>2, <2>4, AggregateRejected DEF RulesOfFile
  <2>5. QED
    BY <1>2, <2>3, <2>4, BodyStep
<1>3. QED
  BY <1>1, <1>2

(* A rule that enough ticks have disconfirmed stays rejected in lessons.md, *)
(* whatever status is called for and whatever is proposed later:            *)
(* _aggregate_reflections counts disconfirmations first.                    *)
THEOREM RejectionIsFinal == Spec => RejectedForGood
<1>1. RulesOfFile /\ [Next]_vars =>
        [\A id \in lessons.body.rejected :
           Disconfirms(reflections, id) >= RejectAt => id \in lessons'.body.rejected]_lessons
  <2> SUFFICES ASSUME RulesOfFile, [Next]_vars, lessons' # lessons,
                      NEW id \in lessons.body.rejected, Disconfirms(reflections, id) >= RejectAt
               PROVE  id \in lessons'.body.rejected
    OBVIOUS
  <2>1. Next
    BY DEF vars
  <2>2. id \in Rules(reflections)
    BY DEF RulesOfFile
  <2>3. CASE lessons'.body = lessons.body
    BY <2>3
  <2>4. CASE lessons'.body = Aggregate(reflections)
    BY <2>2, <2>4, AggregateRejected
  <2>5. QED
    BY <2>1, <2>3, <2>4, BodyStep
<1>2. QED
  BY RulesOfFileInit, RulesOfFileStep, <1>1, PTL DEF Spec, RejectedForGood
-----------------------------------------------------------------------------
(* Files that are only appended to.                                         *)
IsLog(s) == \E S : s \in Seq(S)

LEMMA LogGrows ==
  ASSUME NEW s, IsLog(s), NEW x
  PROVE  /\ Len(s) \in Nat /\ DOMAIN s = 1 .. Len(s)
         /\ IsLog(Append(s, x)) /\ Append(s, x) # << >>
         /\ Len(Append(s, x)) = Len(s) + 1 /\ DOMAIN Append(s, x) = 1 .. Len(s) + 1
         /\ \A i \in DOMAIN s : Append(s, x)[i] = s[i]
         /\ Append(s, x)[Len(s) + 1] = x
<1>1. PICK S : s \in Seq(S)
  BY DEF IsLog
<1>2. s \in Seq(S \cup {x}) /\ x \in S \cup {x}
  BY <1>1
<1>3. Append(s, x) \in Seq(S \cup {x})
  BY <1>2
<1>4. Len(s) \in Nat /\ DOMAIN s = 1 .. Len(s)
  BY <1>2
<1>5. IsLog(Append(s, x))
  BY <1>3 DEF IsLog
<1>6. /\ Len(Append(s, x)) = Len(s) + 1 /\ DOMAIN Append(s, x) = 1 .. Len(s) + 1
      /\ \A i \in DOMAIN s : Append(s, x)[i] = s[i]
      /\ Append(s, x)[Len(s) + 1] = x
  BY <1>2
<1>7. Append(s, x) # << >>
  BY <1>3, <1>4, <1>6
<1> QED
  BY <1>4, <1>5, <1>6, <1>7

(* The greatest of finitely many numbers.                                   *)
LEMMA MaxOfNat ==
  ASSUME NEW S, IsFiniteSet(S), \A x \in S : x \in Nat, S # {}
  PROVE  Max(S) \in S /\ \A x \in S : Max(S) >= x
BY LargestExists DEF Max

(* The last place of a log that is one of some.                             *)
LEMMA MaxPlace ==
  ASSUME NEW s, IsLog(s), NEW S, S \subseteq DOMAIN s
  PROVE  /\ IsFiniteSet(S)
         /\ S # {} => Max(S) \in S /\ \A x \in S : Max(S) >= x
<1>1. DOMAIN s = 1 .. Len(s) /\ Len(s) \in Nat
  BY LogGrows
<1>2. IsFiniteSet(1 .. Len(s))
  BY <1>1, FS_Interval
<1>3. IsFiniteSet(S)
  BY <1>1, <1>2, FS_Subset
<1>4. \A x \in S : x \in Nat
  BY <1>1
<1> QED
  BY <1>3, <1>4, MaxOfNat

(* And the first.                                                           *)
LEMMA MinPlace ==
  ASSUME NEW s, IsLog(s), NEW S, S \subseteq DOMAIN s, S # {}
  PROVE  Min(S) \in S /\ \A x \in S : Min(S) <= x
<1>1. IsFiniteSet(S)
  BY MaxPlace
<1>2. \A x \in S : x \in Nat
  <2>1. DOMAIN s = 1 .. Len(s) /\ Len(s) \in Nat
    BY LogGrows
  <2> QED
    BY <2>1
<1> QED
  BY <1>1, <1>2, SmallestExists DEF Min

LEMMA LogIsFinite == \A s : IsLog(s) => IsFiniteSet(DOMAIN s)
<1> SUFFICES ASSUME NEW s, IsLog(s) PROVE IsFiniteSet(DOMAIN s)
  OBVIOUS
<1>1. PICK S : S = DOMAIN s
  OBVIOUS
<1>2. S \subseteq DOMAIN s
  BY <1>1
<1>3. IsFiniteSet(S)
  BY <1>2, MaxPlace
<1> QED
  BY <1>1, <1>3

-----------------------------------------------------------------------------
(* The market and the program that runs. *)

Step == {"idle", "log", "stop", "penalty", "snapshot", "payload", "append", "counters", "body"}

Market ==
  /\ world \in DOMAIN World
  /\ round \in 0 .. Len(World[world].quotes)
  /\ round > 0 => quotes \in [Symbol -> Quote]
  /\ holdings \subseteq Symbol
  /\ pc \in Step
  /\ pc = "snapshot" => round > 0
  /\ faults \in 0 .. MaxFaults

LEMMA MarketInit == Init => Market
<1> SUFFICES ASSUME Init PROVE Market
  OBVIOUS
<1>1. world \in DOMAIN World
  BY DEF Init
<1>2. World[world].quotes \in Seq(SUBSET [Symbol -> Quote])
  BY <1>1, Phase6Assumption
<1>3. Len(World[world].quotes) \in Nat
  BY <1>2
<1> QED
  BY <1>1, <1>3, Phase6Assumption DEF Init, Market, Step

LEMMA MarketStep == Market /\ [Next]_vars => Market'
<1> SUFFICES ASSUME Market, [Next]_vars PROVE Market'
  OBVIOUS
<1>1. CASE \E q \in Offered : Trade(q)
  <2>1. PICK q \in Offered : Trade(q)
    BY <1>1
  <2>2. World[world].quotes \in Seq(SUBSET [Symbol -> Quote])
    BY Phase6Assumption DEF Market
  <2>3. Len(World[world].quotes) \in Nat /\ round \in Nat
    BY <2>2 DEF Market
  <2>4. round + 1 \in 1 .. Len(World[world].quotes) /\ q \in World[world].quotes[round + 1]
    BY <2>1, <2>3 DEF Offered
  <2>5. q \in [Symbol -> Quote]
    BY <2>2, <2>4
  <2>6. holdings' \subseteq Symbol
    BY <2>1 DEF Trade, Market, Ordered
  <2> QED
    BY <2>1, <2>3, <2>4, <2>5, <2>6 DEF Trade, Market, Step
<1>2. CASE Crash
  BY <1>2, Phase6Assumption DEF Crash, Market, Step, marketVars
<1>3. CASE UNCHANGED <<marketVars, faults>> /\ pc' \in Step /\ (pc' = "snapshot" => round > 0)
  BY <1>3 DEF Market, marketVars
<1>4. CASE UNCHANGED <<marketVars, faults>> /\ pc' = pc
  BY <1>4 DEF Market, marketVars
<1>5. CASE (\E o \in World[world].outcomes : ScoreClose(o)) \/ LogClose \/ CalibrateStop
           \/ CalibratePenalties \/ StartPhase6 \/ Stage \/ WritePayload \/ PersistRun
           \/ RefreshCounters \/ RefreshBody
  BY <1>3, <1>5
  DEF ScoreClose, LogClose, CalibrateStop, CalibratePenalties, StartPhase6, Stage, WritePayload,
      PersistRun, RefreshCounters, RefreshBody, Step, marketVars
<1>6. CASE (\E s \in Symbol : SnapshotRow(s)) \/ (\E a \in World[world].answers : Reflect(a)) \/ PersistRow
  BY <1>4, <1>6 DEF SnapshotRow, Reflect, PersistRow
<1>7. CASE \E s \in Symbol : CloseOut(s)
  BY <1>7 DEF CloseOut, Market
<1> QED
  BY <1>1, <1>2, <1>4, <1>5, <1>6, <1>7 DEF Next, vars
-----------------------------------------------------------------------------
(* The ledger. *)

InOrder ==
  \A i, j \in DOMAIN ledger : i < j =>
    \/ ledger[i].tick < ledger[j].tick
    \/ ledger[i].tick = ledger[j].tick /\ ledger[i].symbol # ledger[j].symbol

(* A run records each symbol once, in a tick that is none before.           *)
Recording ==
  tick > 0 /\ \A i \in DOMAIN ledger :
                ledger[i].tick <= tick /\ (ledger[i].tick = tick => ledger[i].symbol \notin todo)

Unbroken ==
  \A s \in Symbol : \A i, j \in Priced(s) :
    Consecutive(s, i, j) => ~Jumps(ledger[j].price, ledger[i].price)

Ledger ==
  /\ ledger \in Seq(Row) /\ tick \in Nat /\ todo \subseteq Symbol
  /\ InOrder
  /\ pc = "snapshot" => Recording
  /\ Unbroken

LEMMA GuardedPrice ==
  ASSUME NEW feed \in Nat, NEW prior \in Nat
  PROVE  /\ GuardPrice(feed, prior) \in Nat
         /\ prior > 0 => ~Jumps(GuardPrice(feed, prior), prior)
<1>1. JumpRatio \in Nat \ {0}
  BY Phase6Assumption
<1>2. \A p, r \in Nat : p > 0 /\ r > 0 => ~(p > r * p) /\ ~(r * p < p)
  OBVIOUS
<1>3. prior > 0 => ~Jumps(prior, prior)
  BY <1>1, <1>2 DEF Jumps
<1> QED
  BY <1>3 DEF GuardPrice

LEMMA LogOfRows == ledger \in Seq(Row) => IsLog(ledger)
  BY DEF IsLog

LEMMA RowsTyped ==
  ASSUME ledger \in Seq(Row)
  PROVE  \A i \in DOMAIN ledger :
           /\ ledger[i] \in Row /\ ledger[i].symbol \in Symbol
           /\ ledger[i].tick \in Nat \ {0} /\ ledger[i].price \in Nat
<1>1. \A i \in DOMAIN ledger : ledger[i] \in Row
  OBVIOUS
<1>2. \A r \in Row : r.symbol \in Symbol /\ r.tick \in Nat \ {0} /\ r.price \in Nat
  BY DEF Row
<1> QED
  BY <1>1, <1>2

LEMMA RowsLocated ==
  ASSUME ledger \in Seq(Row), NEW s \in Symbol
  PROVE  /\ RowsOf(s) \subseteq 1 .. Len(ledger) /\ Priced(s) \subseteq RowsOf(s)
         /\ LastPrice(s) \in Nat
         /\ \A i \in RowsOf(s) : i \in Nat
<1>1. Len(ledger) \in Nat /\ DOMAIN ledger = 1 .. Len(ledger)
  OBVIOUS
<1>2. RowsOf(s) \subseteq 1 .. Len(ledger) /\ Priced(s) \subseteq RowsOf(s)
  BY <1>1 DEF RowsOf, Priced
<1>3. Priced(s) # {} => Max(Priced(s)) \in DOMAIN ledger
  <2>1. Priced(s) \subseteq DOMAIN ledger
    BY <1>1, <1>2
  <2> QED
    BY <2>1, LogOfRows, MaxPlace
<1>4. \A i \in DOMAIN ledger : ledger[i].price \in Nat
  BY RowsTyped
<1>5. LastPrice(s) \in Nat
  BY <1>3, <1>4 DEF LastPrice
<1> QED
  BY <1>1, <1>2, <1>5

(* The tick of a run is later than every tick recorded.                     *)
LEMMA NextTickIsNew ==
  ASSUME ledger \in Seq(Row)
  PROVE  NextTick \in Nat \ {0} /\ \A i \in DOMAIN ledger : ledger[i].tick < NextTick
<1> DEFINE ticks == {ledger[i].tick : i \in DOMAIN ledger}
<1>1. \A i \in DOMAIN ledger : ledger[i].tick \in Nat
  BY RowsTyped
<1>2. IsFiniteSet(DOMAIN ledger)
  BY LogOfRows, LogIsFinite
<1>3. IsFiniteSet(ticks)
  <2>1. [i \in DOMAIN ledger |-> ledger[i].tick] \in Surjection(DOMAIN ledger, ticks)
    BY DEF Surjection
  <2> HIDE DEF ticks
  <2> QED BY <1>2, <2>1, FS_Surjection
<1>4. IsFiniteSet({0} \cup ticks)
  <2>1. PICK T : T = ticks
    OBVIOUS
  <2>2. IsFiniteSet(T \cup {0})
    BY <1>3, <2>1, FS_AddElement
  <2>3. {0} \cup ticks = T \cup {0}
    BY <2>1
  <2> QED BY <2>2, <2>3
<1>5. \A n \in {0} \cup ticks : n \in Nat
  BY <1>1
<1>6. LatestTick = Max({0} \cup ticks)
  BY DEF LatestTick
<1> HIDE DEF ticks
<1>7. LatestTick \in {0} \cup ticks /\ \A n \in {0} \cup ticks : LatestTick >= n
  BY <1>4, <1>5, <1>6, MaxOfNat
<1>8. LatestTick \in Nat
  BY <1>5, <1>7
<1>9. \A i \in DOMAIN ledger : ledger[i].tick <= LatestTick
  BY <1>1, <1>7, <1>8 DEF ticks
<1> QED
  BY <1>1, <1>8, <1>9 DEF NextTick

LEMMA SnapshotRecords ==
  ASSUME Market, Ledger, NEW s \in Symbol, SnapshotRow(s)
  PROVE  /\ Ledger' /\ Recording'
         /\ \E row \in Row : row.tick = tick /\ ledger' = Append(ledger, row)
<1> DEFINE price == GuardPrice(quotes[s].feed, LastPrice(s))
           new == [tick |-> tick, symbol |-> s, tag |-> DecisionTag(s), price |-> price,
                   consensus |-> quotes[s].consensus, optimism |-> quotes[s].optimism,
                   origin |-> Origin(quotes[s], LastPrice(s))]
<1>1. /\ pc = "snapshot" /\ s \in todo /\ todo' = todo \ {s}
      /\ ledger' = Append(ledger, new)
      /\ UNCHANGED <<pc, tick>>
  BY DEF SnapshotRow
<1>2. ledger \in Seq(Row) /\ tick \in Nat \ {0} /\ todo \subseteq Symbol /\ Recording
  BY <1>1 DEF Ledger, Recording
<1>3. quotes[s] \in Quote
  BY <1>1 DEF Market
<1>4. LastPrice(s) \in Nat /\ quotes[s].feed \in Nat
  BY <1>2, <1>3, RowsLocated DEF Quote
<1>5. price \in Nat /\ (LastPrice(s) > 0 => ~Jumps(price, LastPrice(s)))
  BY <1>4, GuardedPrice
<1>6. new \in Row
  <2>1. DecisionTag(s) \in {"BUY_EXECUTED", "SELL_EXECUTED", "RM_EXISTING_HOLD",
                            "RM_APPROVED_ENTRY", "REJECT"}
    <3>1. quotes[s].decision \in Decision
      BY <1>3 DEF Quote
    <3> QED
      BY <3>1 DEF DecisionTag, Decision
  <2>2. /\ quotes[s].consensus \in Int /\ quotes[s].optimism \in Int
        /\ Origin(quotes[s], LastPrice(s)) \in {"genuine", "wrong", "none", "carried"}
    BY <1>3 DEF Quote, Origin
  <2> HIDE DEF price
  <2> QED
    BY <1>2, <1>3, <1>5, <2>1, <2>2 DEF Row
<1>7. PICK row \in Row : row = new
  BY <1>6
<1>8. row.tick = tick /\ row.symbol = s /\ row.price = price
  BY <1>7
<1>9. ledger' = Append(ledger, row)
  BY <1>1, <1>7
<1> HIDE DEF new, price
<1> DEFINE n == Len(ledger)
<1>10. /\ ledger' \in Seq(Row) /\ n \in Nat /\ DOMAIN ledger = 1 .. n
       /\ DOMAIN ledger' = 1 .. n + 1 /\ ledger'[n + 1] = row
       /\ \A i \in 1 .. n : ledger'[i] = ledger[i]
  BY <1>2, <1>9
<1> HIDE DEF n
<1>11. InOrder'
  <2> SUFFICES ASSUME NEW i \in 1 .. n + 1, NEW j \in 1 .. n + 1, i < j
               PROVE  \/ ledger'[i].tick < ledger'[j].tick
                      \/ ledger'[i].tick = ledger'[j].tick /\ ledger'[i].symbol # ledger'[j].symbol
    BY <1>10 DEF InOrder
  <2>1. i \in 1 .. n
    BY <1>10
  <2>2. CASE j \in 1 .. n
    BY <1>10, <2>1, <2>2 DEF Ledger, InOrder
  <2>3. CASE j = n + 1
    <3>1. ledger[i].tick <= tick /\ (ledger[i].tick = tick => ledger[i].symbol # s)
      BY <1>1, <1>2, <1>10, <2>1 DEF Recording
    <3>2. ledger[i].tick \in Nat
      BY <1>2, <1>10, <2>1, RowsTyped
    <3> QED
      BY <1>2, <1>8, <1>10, <2>1, <2>3, <3>1, <3>2
  <2> QED
    BY <1>10, <2>2, <2>3
<1>12. Recording'
  <2>1. ASSUME NEW i \in 1 .. n + 1
        PROVE  ledger'[i].tick <= tick /\ (ledger'[i].tick = tick => ledger'[i].symbol \notin todo')
    <3>1. CASE i \in 1 .. n
      BY <1>1, <1>2, <1>10, <3>1 DEF Recording
    <3>2. CASE i = n + 1
      BY <1>1, <1>2, <1>8, <1>10, <3>2
    <3> QED
      BY <1>10, <3>1, <3>2
  <2> QED
    BY <1>1, <1>2, <1>10, <2>1 DEF Recording
<1>13. Unbroken'
  <2> SUFFICES ASSUME NEW x \in Symbol, NEW i \in Priced(x)', NEW j \in Priced(x)',
                      Consecutive(x, i, j)'
               PROVE  ~Jumps(ledger'[j].price, ledger'[i].price)
    BY DEF Unbroken
  <2>1. RowsOf(x) \subseteq 1 .. n /\ RowsOf(x) \subseteq RowsOf(x)' /\ RowsOf(x)' \subseteq 1 .. n + 1
    BY <1>10 DEF RowsOf
  <2>2. \A k \in 1 .. n : k \in Priced(x)' <=> k \in Priced(x)
    BY <1>10 DEF Priced, RowsOf
  <2>3. /\ i \in 1 .. n + 1 /\ j \in 1 .. n + 1 /\ i < j
        /\ \A k \in RowsOf(x) : ~(i < k /\ k < j)
    <3>1. i \in RowsOf(x)' /\ j \in RowsOf(x)'
      BY DEF Priced
    <3>2. i < j /\ (i + 1) .. (j - 1) \cap RowsOf(x)' = {}
      BY DEF Consecutive
    <3>3. i \in Int /\ j \in Int /\ \A k \in RowsOf(x) : k \in Int
      BY <1>10, <2>1, <3>1
    <3> QED
      BY <2>1, <3>1, <3>2, <3>3
  <2>4. i \in 1 .. n /\ i \in Priced(x)
    BY <1>10, <2>2, <2>3
  <2>5. CASE j \in 1 .. n
    <3>1. j \in Priced(x)
      BY <2>2, <2>5
    <3>2. Consecutive(x, i, j)
      <4>1. i \in RowsOf(x) /\ j \in RowsOf(x)
        BY <2>4, <3>1 DEF Priced
      <4>2. (i + 1) .. (j - 1) \cap RowsOf(x) = {}
        BY <1>10, <2>1, <2>3
      <4> QED
        BY <2>3, <4>1, <4>2 DEF Consecutive
    <3> QED
      BY <1>10, <2>4, <2>5, <3>1, <3>2 DEF Ledger, Unbroken
  <2>6. CASE j = n + 1
    <3>1. x = s
      BY <1>8, <1>10, <2>6 DEF Priced, RowsOf
    <3>2. Priced(x) \subseteq DOMAIN ledger /\ Priced(x) \subseteq RowsOf(x)
      BY DEF Priced, RowsOf
    <3>3. Max(Priced(x)) \in Priced(x) /\ \A k \in Priced(x) : Max(Priced(x)) >= k
      BY <1>2, <2>4, <3>2, LogOfRows, MaxPlace
    <3>4. Max(Priced(x)) \in 1 .. n /\ Max(Priced(x)) \in RowsOf(x)
      BY <1>10, <3>2, <3>3
    <3>5. Max(Priced(x)) = i
      <4>1. Max(Priced(x)) >= i
        BY <2>4, <3>3
      <4>2. ~(i < Max(Priced(x)))
        BY <1>10, <2>3, <2>6, <3>4
      <4> QED
        BY <1>10, <2>4, <3>4, <4>1, <4>2
    <3>6. LastPrice(s) = ledger[i].price /\ ledger[i].price > 0
      BY <2>4, <3>1, <3>5 DEF LastPrice, Priced
    <3> QED
      BY <1>5, <1>8, <1>10, <2>4, <2>6, <3>6
  <2> QED
    BY <1>10, <2>3, <2>5, <2>6
<1> QED
  BY <1>1, <1>2, <1>8, <1>9, <1>10, <1>11, <1>12, <1>13 DEF Ledger

LEMMA LedgerInit == Init => Ledger
<1> SUFFICES ASSUME Init PROVE Ledger
  OBVIOUS
<1>1. ledger = << >> /\ DOMAIN ledger = {} /\ \A s \in Symbol : Priced(s) = {}
  BY DEF Init, Priced, RowsOf
<1> QED
  BY <1>1 DEF Init, Ledger, InOrder, Unbroken

LEMMA LedgerStep == Market /\ Ledger /\ [Next]_vars => Ledger'
<1> SUFFICES ASSUME Market, Ledger, [Next]_vars PROVE Ledger'
  OBVIOUS
<1>1. CASE \E s \in Symbol : SnapshotRow(s)
  BY <1>1, SnapshotRecords
<1>2. CASE StartPhase6
  <2>1. /\ tick' = NextTick /\ UNCHANGED ledger
        /\ todo' = {} \/ todo' = World[world].universe
    BY <1>2 DEF StartPhase6, ledgerVars
  <2>2. NextTick \in Nat \ {0} /\ \A i \in DOMAIN ledger : ledger[i].tick < NextTick
    BY NextTickIsNew DEF Ledger
  <2>3. todo' \subseteq Symbol
    BY <2>1, Phase6Assumption DEF Market
  <2>4. \A i \in DOMAIN ledger : ledger[i].tick \in Nat
    BY RowsTyped DEF Ledger
  <2>5. Recording'
    BY <2>1, <2>2, <2>4 DEF Recording
  <2> QED
    BY <2>1, <2>2, <2>3, <2>5 DEF Ledger, InOrder, Unbroken, Priced, RowsOf, Consecutive
<1>3. CASE UNCHANGED <<ledger, tick>> /\ todo' \subseteq todo /\ (pc' = "snapshot" => pc = "snapshot")
  <2>1. InOrder' /\ Unbroken'
    BY <1>3 DEF Ledger, InOrder, Unbroken, Priced, RowsOf, Consecutive
  <2> QED
    BY <1>3, <2>1 DEF Ledger, Recording
<1>4. CASE (\E o \in World[world].outcomes : ScoreClose(o)) \/ LogClose \/ CalibrateStop
           \/ CalibratePenalties \/ Stage \/ WritePayload \/ PersistRun \/ PersistRow
           \/ RefreshCounters \/ RefreshBody \/ Crash
           \/ (\E q \in Offered : Trade(q)) \/ (\E s \in Symbol : CloseOut(s))
           \/ (\E a \in World[world].answers : Reflect(a)) \/ UNCHANGED vars
  BY <1>3, <1>4
  DEF ScoreClose, LogClose, CalibrateStop, CalibratePenalties, Stage, WritePayload, PersistRun,
      PersistRow, RefreshCounters, RefreshBody, Crash, Trade, CloseOut, Reflect, vars, ledgerVars
<1> QED
  BY <1>1, <1>2, <1>4 DEF Next
-----------------------------------------------------------------------------
(* What is staged for the Reflector. *)

StageEntries ==
  /\ IsLog(staged)
  /\ \A i \in DOMAIN staged : staged[i].tick \in Nat

(* A tick that was staged is in the ledger, and so the next run has a later *)
(* one.                                                                     *)
Staging ==
  /\ \A i \in DOMAIN staged : \E k \in DOMAIN ledger : staged[i].tick <= ledger[k].tick
  /\ \A i, j \in DOMAIN staged : i < j => staged[i].tick < staged[j].tick
  /\ pc = "snapshot" =>
       /\ \A i \in DOMAIN staged : staged[i].tick < tick
       /\ todo # {} \/ \E k \in DOMAIN ledger : ledger[k].tick = tick

(* What `Stage` appends.                                                    *)
Entry == [tick |-> tick, whatifs |-> WhatIfs # {}, triggers |-> Triggers,
          dispatched |-> Dispatches, quotes |-> quotes]

LEMMA StagedOnlyByStage == [Next]_vars /\ ~Stage => staged' = staged
  BY DEF Next, ScoreClose, LogClose, CalibrateStop, CalibratePenalties, Trade, CloseOut, StartPhase6,
     SnapshotRow, WritePayload, Reflect, PersistRun, PersistRow, RefreshCounters, RefreshBody,
     Crash, ledgerVars, vars

LEMMA StageAppends ==
  ASSUME Stage, StageEntries
  PROVE  /\ Len(staged) \in Nat /\ DOMAIN staged = 1 .. Len(staged)
         /\ DOMAIN staged' = 1 .. Len(staged) + 1
         /\ IsLog(staged')
         /\ \A i \in DOMAIN staged : staged'[i] = staged[i]
         /\ staged'[Len(staged) + 1] = Entry
<1>1. staged' = Append(staged, Entry) /\ IsLog(staged)
  BY DEF Stage, Entry, StageEntries
<1>2. PICK e : e = Entry
  OBVIOUS
<1>3. staged' = Append(staged, e)
  BY <1>1, <1>2
<1> QED
  BY <1>1, <1>2, <1>3, LogGrows

LEMMA StageEntriesInit == Init => StageEntries
<1> SUFFICES ASSUME Init PROVE StageEntries
  OBVIOUS
<1>1. staged \in Seq({})
  BY DEF Init
<1>2. DOMAIN staged = {}
  BY DEF Init
<1> QED
  BY <1>1, <1>2 DEF StageEntries, IsLog

LEMMA StageEntriesStep == Ledger /\ StageEntries /\ [Next]_vars => StageEntries'
<1> SUFFICES ASSUME Ledger, StageEntries, [Next]_vars PROVE StageEntries'
  OBVIOUS
<1>1. CASE Stage
  <2>1. Entry.tick = tick /\ tick \in Nat
    BY DEF Entry, Ledger
  <2>2. ASSUME NEW i \in DOMAIN staged' PROVE staged'[i].tick \in Nat
    <3>1. i \in DOMAIN staged \/ i = Len(staged) + 1
      BY <1>1, StageAppends
    <3> QED
      BY <1>1, <2>1, <3>1, StageAppends DEF StageEntries
  <2> QED
    BY <1>1, <2>2, StageAppends DEF StageEntries
<1>2. CASE ~Stage
  BY <1>2, StagedOnlyByStage DEF StageEntries
<1> QED
  BY <1>1, <1>2

LEMMA StagingInit == Init => Staging
  BY DEF Init, Staging

LEMMA StagingStep ==
  ASSUME UniverseIsNeverEmpty
  PROVE  Market /\ Ledger /\ StageEntries /\ Staging /\ [Next]_vars => Staging'
<1> SUFFICES ASSUME Market, Ledger, StageEntries, Staging, [Next]_vars PROVE Staging'
  OBVIOUS
<1>1. CASE \E s \in Symbol : SnapshotRow(s)
  <2>1. PICK s \in Symbol : SnapshotRow(s)
    BY <1>1
  <2>2. PICK row \in Row : row.tick = tick /\ ledger' = Append(ledger, row)
    BY <2>1, SnapshotRecords
  <2>3. UNCHANGED <<pc, tick, staged>>
    BY <2>1 DEF SnapshotRow
  <2>4. /\ Len(ledger) \in Nat /\ DOMAIN ledger = 1 .. Len(ledger)
        /\ DOMAIN ledger' = 1 .. Len(ledger) + 1
        /\ \A k \in DOMAIN ledger : ledger'[k] = ledger[k]
        /\ ledger'[Len(ledger) + 1] = row
    BY <2>2 DEF Ledger
  <2>5. \A k \in DOMAIN ledger : k \in DOMAIN ledger' /\ ledger'[k].tick = ledger[k].tick
    BY <2>4
  <2>6. Len(ledger) + 1 \in DOMAIN ledger' /\ ledger'[Len(ledger) + 1].tick = tick
    BY <2>2, <2>4
  <2> QED
    BY <2>3, <2>5, <2>6 DEF Staging
<1>2. CASE StartPhase6
  <2>1. /\ tick' = NextTick /\ UNCHANGED <<ledger, staged>>
        /\ todo' = IF ledger # << >> /\ Last(ledger).tick = NextTick THEN {} ELSE World[world].universe
    BY <1>2 DEF StartPhase6, ledgerVars
  <2>2. NextTick \in Nat /\ \A k \in DOMAIN ledger : ledger[k].tick \in Nat /\ ledger[k].tick < NextTick
    BY NextTickIsNew, RowsTyped DEF Ledger
  <2>3. todo' # {}
    <3>1. ledger # << >> => Len(ledger) \in DOMAIN ledger /\ Last(ledger) = ledger[Len(ledger)]
      BY DEF Ledger, Last
    <3>2. ~(ledger # << >> /\ Last(ledger).tick = NextTick)
      BY <2>2, <3>1
    <3> QED
      BY <2>1, <3>2 DEF Market, UniverseIsNeverEmpty
  <2>4. \A i \in DOMAIN staged : staged[i].tick \in Nat
    BY DEF StageEntries
  <2>5. \A i \in DOMAIN staged : staged[i].tick < tick'
    BY <2>1, <2>2, <2>4 DEF Staging
  <2> QED
    BY <2>1, <2>3, <2>5 DEF Staging
<1>3. CASE Stage
  <2>1. /\ pc = "snapshot" /\ todo = {} /\ pc' # "snapshot" /\ UNCHANGED ledger
    BY <1>3 DEF Stage
  <2>2. /\ \A i \in DOMAIN staged : staged[i].tick < tick
        /\ \E k \in DOMAIN ledger : ledger[k].tick = tick
    BY <2>1 DEF Staging
  <2>3. Entry.tick = tick /\ tick \in Nat
    BY DEF Entry, Ledger
  <2> DEFINE n == Len(staged)
  <2>4. /\ n \in Nat /\ DOMAIN staged = 1 .. n /\ DOMAIN staged' = 1 .. n + 1
        /\ \A i \in 1 .. n : staged'[i] = staged[i]
        /\ staged'[n + 1].tick = tick
    BY <1>3, <2>3, StageAppends
  <2> HIDE DEF n
  <2>5. \A i \in DOMAIN staged' : \E k \in DOMAIN ledger : staged'[i].tick <= ledger[k].tick
    <3> SUFFICES ASSUME NEW i \in 1 .. n + 1
                 PROVE  \E k \in DOMAIN ledger : staged'[i].tick <= ledger[k].tick
      BY <2>4
    <3>1. CASE i \in 1 .. n
      BY <2>4, <3>1 DEF Staging
    <3>2. CASE i = n + 1
      BY <2>2, <2>3, <2>4, <3>2
    <3> QED
      BY <2>4, <3>1, <3>2
  <2>6. \A i, j \in DOMAIN staged' : i < j => staged'[i].tick < staged'[j].tick
    <3> SUFFICES ASSUME NEW i \in 1 .. n + 1, NEW j \in 1 .. n + 1, i < j
                 PROVE  staged'[i].tick < staged'[j].tick
      BY <2>4
    <3>1. i \in 1 .. n
      BY <2>4
    <3>2. CASE j \in 1 .. n
      BY <2>4, <3>1, <3>2 DEF Staging
    <3>3. CASE j = n + 1
      BY <2>2, <2>4, <3>1, <3>3
    <3> QED
      BY <2>4, <3>2, <3>3
  <2> QED
    BY <2>1, <2>5, <2>6 DEF Staging
<1>4. CASE UNCHANGED <<ledger, staged>> /\ (pc' = "snapshot" => pc = "snapshot" /\ UNCHANGED <<tick, todo>>)
  BY <1>4 DEF Staging
<1>5. CASE (\E o \in World[world].outcomes : ScoreClose(o)) \/ LogClose \/ CalibrateStop
           \/ CalibratePenalties \/ WritePayload \/ PersistRun \/ PersistRow
           \/ RefreshCounters \/ RefreshBody \/ Crash
           \/ (\E q \in Offered : Trade(q)) \/ (\E s \in Symbol : CloseOut(s))
           \/ (\E a \in World[world].answers : Reflect(a)) \/ UNCHANGED vars
  BY <1>4, <1>5
  DEF ScoreClose, LogClose, CalibrateStop, CalibratePenalties, WritePayload, PersistRun,
      PersistRow, RefreshCounters, RefreshBody, Crash, Trade, CloseOut, Reflect, vars, ledgerVars
<1> QED
  BY <1>1, <1>2, <1>3, <1>5 DEF Next

-----------------------------------------------------------------------------
(* How long the Reflector may go unasked.                                   *)

(* Rows counted as asked among some, and those nobody was asked for; the    *)
(* one whose input is being written is not lost yet.                        *)
Flagged(i, j) == {k \in i .. j : staged[k].dispatched}
Pending == IF pc = "payload" THEN {Len(staged)} ELSE {}
Lost == {k \in DOMAIN staged : staged[k].dispatched /\ staged[k].tick \notin payload} \ Pending

Compared(i, j) == \A k \in i .. j : staged[k].whatifs

(* Row d is the last before j that counts as asked.                         *)
LastFlagged(d, j) == staged[d].dispatched /\ \A k \in d + 1 .. j : ~staged[k].dispatched

(* A row follows the last that counts as asked within a day of ticks, and a *)
(* stretch of rows is no longer than the days of those in it and the time   *)
(* since the last.                                                          *)
Spaced ==
  \A j \in DOMAIN staged : \A i \in 1 .. j : Compared(i, j) =>
    \E d \in 1 .. j :
      /\ LastFlagged(d, j) /\ staged[j].tick - staged[d].tick < ForceAfter
      /\ j - i + 1 <= ForceAfter * Cardinality(Flagged(i, j)) + (staged[j].tick - staged[d].tick)

Asking ==
  /\ IsFiniteSet(Lost) /\ Cardinality(Lost) <= faults
  /\ pc = "payload" => /\ staged # << >> /\ staged[Len(staged)].dispatched
                       /\ staged[Len(staged)].tick = tick

LEMMA FlaggedIsFinite ==
  ASSUME NEW i \in Nat, NEW j \in Nat
  PROVE  IsFiniteSet(Flagged(i, j)) /\ Cardinality(Flagged(i, j)) \in Nat
<1>1. PICK F : F = Flagged(i, j)
  OBVIOUS
<1>2. IsFiniteSet(i .. j) /\ F \in SUBSET (i .. j)
  BY <1>1, FS_Interval DEF Flagged
<1>3. IsFiniteSet(F)
  BY <1>2, FS_Subset
<1> QED
  BY <1>1, <1>3, FS_CardinalityType

LEMMA StretchOfOne ==
  ASSUME NEW f \in Nat \ {0}, NEW c \in Nat, NEW t \in Int, c >= 1, t >= 0
  PROVE  1 <= f * c + t
<1>1. \E m \in Nat : c = m + 1
  BY c - 1 \in Nat, c = (c - 1) + 1
<1>2. PICK m \in Nat : c = m + 1
  BY <1>1
<1>3. f * m \in Nat
  OBVIOUS
<1>4. f * c = f * m + f
  BY <1>2
<1> QED
  BY <1>3, <1>4

LEMMA StretchOfMore ==
  ASSUME NEW f \in Nat, NEW b \in Nat, NEW c \in Nat, c = b + 1, NEW l \in Int, NEW t \in Int,
         l <= f * b + t, t < f
  PROVE  l + 1 <= f * c
<1>1. f * c = f * b + f /\ f * b \in Nat
  OBVIOUS
<1> QED
  BY <1>1

LEMMA SpacedStage ==
  ASSUME UniverseIsNeverEmpty, Market, Ledger, StageEntries, Staging, Spaced, Stage
  PROVE  Spaced'
<1>0. PICK n : n = Len(staged)
  OBVIOUS
<1>1. /\ n \in Nat /\ DOMAIN staged = 1 .. n /\ DOMAIN staged' = 1 .. n + 1
      /\ \A i \in 1 .. n : staged'[i] = staged[i]
      /\ staged'[n + 1] = Entry
  BY <1>0, StageAppends
<1>2. /\ Entry.tick = tick /\ tick \in Nat /\ (Entry.whatifs <=> WhatIfs # {})
      /\ (Entry.dispatched <=> Dispatches)
  BY DEF Entry, Ledger
<1>3. /\ staged'[n + 1].tick = tick
      /\ (staged'[n + 1].whatifs <=> WhatIfs # {}) /\ (staged'[n + 1].dispatched <=> Dispatches)
  BY <1>1, <1>2
<1>4. ForceAfter \in Nat \ {0}
  BY Phase6Assumption
<1>5. /\ \A i \in 1 .. n : staged[i].tick \in Nat /\ staged[i].tick < tick
      /\ \A i, j \in 1 .. n : i < j => staged[i].tick < staged[j].tick
  BY <1>1 DEF Stage, Staging, StageEntries
<1> SUFFICES ASSUME NEW j \in 1 .. n + 1, NEW i \in 1 .. j, Compared(i, j)'
             PROVE  \E d \in 1 .. j :
                      /\ LastFlagged(d, j)' /\ staged'[j].tick - staged'[d].tick < ForceAfter
                      /\ j - i + 1 <= ForceAfter * Cardinality(Flagged(i, j)')
                                        + (staged'[j].tick - staged'[d].tick)
  BY <1>1 DEF Spaced
<1>6. \A k \in i .. j : staged'[k].whatifs
  BY DEF Compared
<1>7. CASE j \in 1 .. n
  <2>1. \A k \in 1 .. j : staged'[k] = staged[k] /\ k \in 1 .. n
    BY <1>1, <1>7
  <2>2. Compared(i, j)
    BY <1>1, <1>6, <1>7, <2>1 DEF Compared
  <2>3. PICK d \in 1 .. j :
          /\ LastFlagged(d, j) /\ staged[j].tick - staged[d].tick < ForceAfter
          /\ j - i + 1 <= ForceAfter * Cardinality(Flagged(i, j)) + (staged[j].tick - staged[d].tick)
    BY <1>1, <1>7, <2>2 DEF Spaced
  <2>4. Flagged(i, j)' = Flagged(i, j)
    BY <1>1, <1>7, <2>1 DEF Flagged
  <2>5. LastFlagged(d, j)'
    BY <1>1, <1>7, <2>1, <2>3 DEF LastFlagged
  <2> QED
    BY <1>1, <1>7, <2>1, <2>3, <2>4, <2>5
<1>8. CASE j = n + 1
  <2>1. WhatIfs # {}
    BY <1>1, <1>3, <1>6, <1>8
  <2>2. PICK F, G : F = Flagged(i, n) /\ G = Flagged(i, j)'
    OBVIOUS
  <2>3. F = {k \in i .. n : staged[k].dispatched} /\ G = {k \in i .. j : staged'[k].dispatched}
    BY <2>2 DEF Flagged
  <2>4. IsFiniteSet(F) /\ Cardinality(F) \in Nat
    BY <1>1, <2>2, FlaggedIsFinite
  <2>5. n + 1 \notin F
    BY <1>1, <2>3
  <2>6. G = IF Dispatches THEN F \cup {n + 1} ELSE F
    <3>1. \A k \in i .. j : k \in i .. n \/ k = n + 1
      BY <1>1, <1>8
    <3>2. \A k \in i .. n : k \in i .. j /\ staged'[k].dispatched = staged[k].dispatched
      BY <1>1, <1>8
    <3>3. n + 1 \in i .. j
      BY <1>1, <1>8
    <3> QED
      BY <1>3, <2>3, <3>1, <3>2, <3>3
  <2>7. Cardinality(F \cup {n + 1}) = Cardinality(F) + 1
    BY <2>4, <2>5, FS_AddElement
  <2>8. ASSUME i \in 1 .. n
        PROVE  \E d \in 1 .. n :
                 /\ LastFlagged(d, n) /\ staged[n].tick - staged[d].tick < ForceAfter
                 /\ n - i + 1 <= ForceAfter * Cardinality(F) + (staged[n].tick - staged[d].tick)
    <3>1. n \in 1 .. n /\ i \in 1 .. n
      BY <1>1, <2>8
    <3>2. Compared(i, n)
      BY <1>1, <1>6, <1>8, <2>8 DEF Compared
    <3> QED
      BY <1>1, <2>2, <3>1, <3>2 DEF Spaced
  <2>9. CASE Dispatches
    <3>1. LastFlagged(j, j)'
      <4>1. \A k \in j + 1 .. j : FALSE
        BY <1>1, <1>8
      <4> QED
        BY <1>3, <1>8, <2>9, <4>1 DEF LastFlagged
    <3>2. staged'[j].tick - staged'[j].tick = 0
      BY <1>2, <1>3, <1>8
    <3>3. PICK c : c = Cardinality(G)
      OBVIOUS
    <3>4. c = Cardinality(F) + 1 /\ c \in Nat
      BY <2>4, <2>6, <2>7, <2>9, <3>3
    <3>5. j - i + 1 <= ForceAfter * c
      <4>1. CASE i \in 1 .. n
        <5>1. PICK d \in 1 .. n :
                /\ staged[n].tick - staged[d].tick < ForceAfter
                /\ n - i + 1 <= ForceAfter * Cardinality(F) + (staged[n].tick - staged[d].tick)
          BY <2>8, <4>1
        <5>2. PICK l, t : l = n - i + 1 /\ t = staged[n].tick - staged[d].tick
          OBVIOUS
        <5>3. n \in 1 .. n
          BY <1>1, <4>1
        <5>4. l \in Int /\ t \in Int
          BY <1>1, <1>5, <4>1, <5>2, <5>3
        <5>5. l + 1 <= ForceAfter * c
          BY <1>4, <2>4, <3>4, <5>1, <5>2, <5>4, StretchOfMore
        <5> QED
          BY <1>1, <1>8, <4>1, <5>2, <5>5
      <4>2. CASE i = n + 1
        <5>1. 1 <= ForceAfter * c + 0
          BY <1>4, <2>4, <3>4, StretchOfOne
        <5>2. ForceAfter * c \in Int
          BY <1>4, <3>4
        <5> QED
          BY <1>1, <1>8, <4>2, <5>1, <5>2
      <4> QED
        BY <1>1, <1>8, <4>1, <4>2
    <3>6. j \in 1 .. j /\ staged'[j].tick - staged'[j].tick < ForceAfter
      BY <1>1, <1>4, <1>8, <3>2
    <3>7. ForceAfter * c \in Int
      BY <1>4, <3>4
    <3>8. j - i + 1 <= ForceAfter * c + 0
      BY <1>1, <1>8, <3>5, <3>7
    <3>9. j - i + 1 <= ForceAfter * Cardinality(G) + (staged'[j].tick - staged'[j].tick)
      BY <3>2, <3>3, <3>8
    <3>10. G = Flagged(i, j)'
      BY <2>2
    <3> QED
      BY <3>1, <3>6, <3>9, <3>10, Zenon
  <2>10. CASE ~Dispatches
    <3> DEFINE asked == {k \in DOMAIN staged : staged[k].dispatched}
    <3>1. ~Forced
      BY <2>1, <2>10 DEF Dispatches
    <3>2. LastDispatch # 0 /\ ~(tick - LastDispatch >= ForceAfter)
      BY <3>1 DEF Forced
    <3>3. asked # {} /\ LastDispatch = staged[Max(asked)].tick
      BY <3>2 DEF LastDispatch
    <3>4. Max(asked) \in asked /\ \A k \in asked : Max(asked) >= k
      <4>1. asked \subseteq DOMAIN staged /\ IsLog(staged)
        BY DEF StageEntries
      <4> HIDE DEF asked
      <4> QED
        BY <3>3, <4>1, MaxPlace
    <3>5. PICK d \in 1 .. n : d = Max(asked) /\ staged[d].dispatched /\ LastDispatch = staged[d].tick
      BY <1>1, <3>3, <3>4
    <3>6. ASSUME NEW k \in d + 1 .. n, staged[k].dispatched PROVE FALSE
      <4>1. k \in asked
        BY <1>1, <3>5, <3>6
      <4>2. d >= k
        BY <3>4, <3>5, <4>1
      <4> QED
        BY <1>1, <4>2
    <3>7. LastFlagged(d, j)'
      <4>1. staged'[d].dispatched
        BY <1>1, <3>5
      <4>2. ASSUME NEW k \in d + 1 .. n + 1 PROVE ~staged'[k].dispatched
        <5>1. k \in d + 1 .. n \/ k = n + 1
          BY <1>1
        <5>2. k \in d + 1 .. n => k \in 1 .. n
          BY <1>1
        <5> QED
          BY <1>1, <1>3, <2>10, <3>6, <5>1, <5>2
      <4> QED
        BY <1>8, <4>1, <4>2 DEF LastFlagged
    <3>8. staged[d].tick \in Nat /\ staged[d].tick < tick /\ tick - staged[d].tick < ForceAfter
      BY <1>2, <1>4, <1>5, <3>2, <3>5
    <3>9. j - i + 1 <= ForceAfter * Cardinality(F) + (tick - staged[d].tick)
      <4>1. ForceAfter * Cardinality(F) \in Nat
        BY <1>4, <2>4
      <4>2. CASE i \in 1 .. n
        <5>1. PICK e \in 1 .. n :
                /\ LastFlagged(e, n)
                /\ n - i + 1 <= ForceAfter * Cardinality(F) + (staged[n].tick - staged[e].tick)
          BY <2>8, <4>2
        <5>2. e = d
          <6>1. ~(e < d) /\ ~(d < e)
            BY <1>1, <3>5, <3>6, <5>1 DEF LastFlagged
          <6> QED
            BY <6>1
        <5>3. staged[n].tick \in Nat /\ staged[n].tick < tick
          BY <1>1, <1>5, <4>2
        <5> QED
          BY <1>1, <1>2, <1>8, <3>8, <4>1, <4>2, <5>1, <5>2, <5>3
      <4>3. CASE i = n + 1
        <5>1. PICK m \in Nat, x \in Nat : m = ForceAfter * Cardinality(F) /\ x = staged[d].tick
          BY <3>8, <4>1
        <5>2. j - i + 1 = 1
          BY <1>1, <1>8, <4>3
        <5>3. 1 <= m + (tick - x)
          BY <1>2, <3>8, <5>1
        <5> QED
          BY <5>1, <5>2, <5>3
      <4> QED
        BY <1>1, <1>8, <4>2, <4>3
    <3>10. staged'[j].tick = tick /\ staged'[d].tick = staged[d].tick /\ d \in 1 .. j
      BY <1>1, <1>3, <1>8, <3>5
    <3>11. G = F
      BY <2>6, <2>10
    <3>12. j - i + 1 <= ForceAfter * Cardinality(G) + (staged'[j].tick - staged'[d].tick)
      BY <3>9, <3>10, <3>11
    <3>13. staged'[j].tick - staged'[d].tick < ForceAfter
      BY <3>8, <3>10
    <3> QED
      BY <2>2, <3>7, <3>10, <3>12, <3>13
  <2> QED
    BY <2>9, <2>10
<1> QED
  BY <1>1, <1>7, <1>8

LEMMA AskingStep ==
  ASSUME UniverseIsNeverEmpty
  PROVE  Market /\ Ledger /\ StageEntries /\ Asking /\ [Next]_vars => Asking'
<1> SUFFICES ASSUME Market, Ledger, StageEntries, Asking, [Next]_vars PROVE Asking'
  OBVIOUS
<1>1. faults \in Nat /\ Cardinality(Lost) \in Nat
  BY FS_CardinalityType DEF Market, Asking
<1>2. CASE Stage
  <2>1. /\ Len(staged) \in Nat /\ DOMAIN staged = 1 .. Len(staged)
        /\ DOMAIN staged' = 1 .. Len(staged) + 1 /\ IsLog(staged')
        /\ \A i \in DOMAIN staged : staged'[i] = staged[i]
        /\ staged'[Len(staged) + 1] = Entry
    BY <1>2, StageAppends
  <2>2. /\ pc = "snapshot" /\ UNCHANGED <<payload, faults, tick>>
        /\ pc' = (IF Dispatches THEN "payload" ELSE "counters")
    BY <1>2 DEF Stage
  <2>3. Entry.tick = tick /\ (Entry.dispatched <=> Dispatches)
    BY DEF Entry
  <2>4. Len(staged') = Len(staged) + 1
    <3>1. staged' = Append(staged, Entry) /\ IsLog(staged)
      BY <1>2 DEF Stage, Entry, StageEntries
    <3>2. PICK e : e = Entry
      OBVIOUS
    <3> QED
      BY <3>1, <3>2, LogGrows
  <2>5. Pending = {} /\ Pending' = IF Dispatches THEN {Len(staged) + 1} ELSE {}
    BY <2>2, <2>4 DEF Pending
  <2>6. ASSUME NEW k \in DOMAIN staged', staged'[k].dispatched, staged'[k].tick \notin payload,
               k \notin Pending'
        PROVE  k \in DOMAIN staged /\ staged'[k] = staged[k]
    <3>1. k \in DOMAIN staged \/ k = Len(staged) + 1
      BY <2>1
    <3>2. k # Len(staged) + 1
      BY <2>1, <2>3, <2>5, <2>6
    <3> QED
      BY <2>1, <3>1, <3>2
  <2>7. Lost' \subseteq Lost
    BY <2>2, <2>5, <2>6 DEF Lost
  <2>8. IsFiniteSet(Lost') /\ Cardinality(Lost') <= Cardinality(Lost)
    <3>1. PICK A, B : A = Lost' /\ B = Lost
      OBVIOUS
    <3>2. A \in SUBSET B /\ IsFiniteSet(B)
      BY <2>7, <3>1 DEF Asking
    <3>3. IsFiniteSet(A) /\ Cardinality(A) <= Cardinality(B)
      BY <3>2, FS_Subset
    <3> QED
      BY <3>1, <3>3
  <2>9. Cardinality(Lost') <= faults'
    <3>1. Cardinality(Lost') \in Nat
      BY <2>8, FS_CardinalityType
    <3> QED
      BY <1>1, <2>2, <2>8, <3>1 DEF Asking
  <2>10. staged' # << >>
    BY <2>1
  <2> QED
    BY <2>1, <2>2, <2>3, <2>4, <2>8, <2>9, <2>10 DEF Asking
<1>3. CASE WritePayload
  <2>1. /\ pc = "payload" /\ pc' = "counters" /\ payload' = payload \cup {tick}
        /\ UNCHANGED <<staged, faults>>
    BY <1>3 DEF WritePayload
  <2>2. Pending = {Len(staged)} /\ Pending' = {} /\ staged[Len(staged)].tick = tick
    BY <2>1 DEF Pending, Asking
  <2>3. Lost' \subseteq Lost
    BY <2>1, <2>2 DEF Lost
  <2>4. IsFiniteSet(Lost') /\ Cardinality(Lost') <= Cardinality(Lost)
    <3>1. PICK A, B : A = Lost' /\ B = Lost
      OBVIOUS
    <3>2. A \in SUBSET B /\ IsFiniteSet(B)
      BY <2>3, <3>1 DEF Asking
    <3>3. IsFiniteSet(A) /\ Cardinality(A) <= Cardinality(B)
      BY <3>2, FS_Subset
    <3> QED
      BY <3>1, <3>3
  <2>5. Cardinality(Lost') \in Nat
    BY <2>4, FS_CardinalityType
  <2> QED
    BY <1>1, <2>1, <2>4, <2>5 DEF Asking
<1>4. CASE Crash
  <2>1. /\ pc' = "idle" /\ faults' = faults + 1 /\ UNCHANGED <<staged, payload>>
    BY <1>4 DEF Crash, ledgerVars
  <2>2. PICK p : Pending \subseteq {p}
    BY DEF Pending
  <2>3. Pending' = {}
    BY <2>1 DEF Pending
  <2>4. Lost' \subseteq Lost \cup {p}
    BY <2>1, <2>2, <2>3 DEF Lost
  <2>5. IsFiniteSet(Lost') /\ Cardinality(Lost') <= Cardinality(Lost) + 1
    <3>1. PICK A, B : A = Lost' /\ B = Lost
      OBVIOUS
    <3>2. A \in SUBSET (B \cup {p}) /\ IsFiniteSet(B)
      BY <2>4, <3>1 DEF Asking
    <3>3. IsFiniteSet(B \cup {p}) /\ Cardinality(B \cup {p}) <= Cardinality(B) + 1
      <4>1. CASE p \in B
        <5>1. B \cup {p} = B
          BY <4>1
        <5>2. Cardinality(B) \in Nat
          BY <3>2, FS_CardinalityType
        <5> QED
          BY <3>2, <5>1, <5>2
      <4>2. CASE p \notin B
        <5>1. IsFiniteSet(B \cup {p}) /\ Cardinality(B \cup {p}) = Cardinality(B) + 1
          BY <3>2, <4>2, FS_AddElement
        <5>2. Cardinality(B) \in Nat
          BY <3>2, FS_CardinalityType
        <5> QED
          BY <5>1, <5>2
      <4> QED
        BY <4>1, <4>2
    <3>4. IsFiniteSet(A) /\ Cardinality(A) <= Cardinality(B \cup {p})
      BY <3>2, <3>3, FS_Subset
    <3>5. Cardinality(A) \in Nat /\ Cardinality(B \cup {p}) \in Nat /\ Cardinality(B) \in Nat
      BY <3>2, <3>3, <3>4, FS_CardinalityType
    <3>6. Cardinality(A) <= Cardinality(B) + 1
      BY <3>3, <3>4, <3>5
    <3> QED
      BY <3>1, <3>4, <3>6
  <2>6. Cardinality(Lost') \in Nat
    BY <2>5, FS_CardinalityType
  <2> QED
    BY <1>1, <2>1, <2>5, <2>6 DEF Asking
<1>5. CASE UNCHANGED <<staged, payload, faults>> /\ pc # "payload" /\ pc' # "payload"
  <2>1. Pending = {} /\ Pending' = {}
    BY <1>5 DEF Pending
  <2>2. Lost' = Lost
    BY <1>5, <2>1 DEF Lost
  <2> QED
    BY <1>5, <2>2 DEF Asking
<1>6. CASE UNCHANGED <<staged, payload, faults, pc, tick>>
  <2>1. Lost' = Lost
    BY <1>6 DEF Lost, Pending
  <2> QED
    BY <1>6, <2>1 DEF Asking
<1>7. CASE (\E o \in World[world].outcomes : ScoreClose(o)) \/ LogClose \/ CalibrateStop
           \/ CalibratePenalties \/ PersistRun \/ RefreshCounters \/ RefreshBody \/ StartPhase6
  BY <1>5, <1>7
  DEF ScoreClose, LogClose, CalibrateStop, CalibratePenalties, PersistRun, RefreshCounters,
      RefreshBody, StartPhase6, ledgerVars
<1>8. CASE (\E q \in Offered : Trade(q)) \/ (\E s \in Symbol : CloseOut(s)) \/ PersistRow
           \/ (\E s \in Symbol : SnapshotRow(s)) \/ (\E a \in World[world].answers : Reflect(a))
           \/ UNCHANGED vars
  BY <1>6, <1>8 DEF Trade, CloseOut, PersistRow, SnapshotRow, Reflect, vars, ledgerVars
<1> QED
  BY <1>2, <1>3, <1>4, <1>7, <1>8 DEF Next

LEMMA SilenceHolds ==
  ASSUME Market, StageEntries, Spaced, Asking
  PROVE  SilenceBounded
<1> SUFFICES ASSUME NEW i \in DOMAIN staged, NEW j \in DOMAIN staged,
                    \A k \in i .. j : staged[k].whatifs /\ staged[k].tick \notin payload
             PROVE  j - i + 1 < ForceAfter * (faults + 1) + (IF pc = "payload" THEN 1 ELSE 0)
  BY DEF SilenceBounded
<1>1. PICK n : n = Len(staged)
  OBVIOUS
<1>2. n \in Nat /\ DOMAIN staged = 1 .. n
  BY <1>1, LogGrows DEF StageEntries
<1>3. ForceAfter \in Nat \ {0} /\ faults \in Nat
  BY Phase6Assumption DEF Market
<1>4. ForceAfter * (faults + 1) \in Nat /\ ForceAfter * (faults + 1) >= 1
  <2>1. faults + 1 \in Nat /\ faults + 1 >= 1
    BY <1>3
  <2>2. 1 <= ForceAfter * (faults + 1) + 0
    BY <1>3, <2>1, StretchOfOne
  <2>3. ForceAfter * (faults + 1) \in Nat
    BY <1>3
  <2> QED
    BY <2>2, <2>3
(* A stretch that ends before the row whose input is being written.         *)
<1>5. ASSUME NEW e \in 1 .. n, i <= e, e <= j, e \notin Pending
      PROVE  e - i + 1 < ForceAfter * (faults + 1)
  <2>1. Compared(i, e) /\ i \in 1 .. e
    BY <1>2, <1>5 DEF Compared
  <2>2. PICK d \in 1 .. e :
          /\ staged[e].tick - staged[d].tick < ForceAfter
          /\ e - i + 1 <= ForceAfter * Cardinality(Flagged(i, e)) + (staged[e].tick - staged[d].tick)
    BY <1>2, <1>5, <2>1 DEF Spaced
  <2>3. PICK F : F = Flagged(i, e)
    OBVIOUS
  <2>4. F \in SUBSET Lost
    <3> SUFFICES ASSUME NEW k \in F PROVE k \in Lost
      OBVIOUS
    <3>1. k \in i .. e /\ staged[k].dispatched
      BY <2>3 DEF Flagged
    <3>2. k \in i .. j /\ k \in 1 .. n /\ k <= e
      BY <1>2, <1>5, <3>1
    <3>3. k \notin Pending
      BY <1>1, <1>2, <1>5, <3>2 DEF Pending
    <3> QED
      BY <1>2, <3>1, <3>2, <3>3 DEF Lost
  <2>5. Cardinality(F) \in Nat /\ Cardinality(F) <= faults
    <3>1. PICK L : L = Lost
      OBVIOUS
    <3>2. IsFiniteSet(L) /\ Cardinality(L) <= faults /\ F \in SUBSET L
      BY <2>4, <3>1 DEF Asking
    <3>3. IsFiniteSet(F) /\ Cardinality(F) <= Cardinality(L)
      BY <3>2, FS_Subset
    <3>4. Cardinality(F) \in Nat /\ Cardinality(L) \in Nat
      BY <3>2, <3>3, FS_CardinalityType
    <3> QED
      BY <1>3, <3>2, <3>3, <3>4
  <2>6. PICK c, l, t : c = Cardinality(F) /\ l = e - i + 1 /\ t = staged[e].tick - staged[d].tick
    OBVIOUS
  <2>7. l \in Int /\ t \in Int /\ c \in Nat
    <3>1. staged[e].tick \in Nat /\ staged[d].tick \in Nat
      BY <1>2, <1>5 DEF StageEntries
    <3> QED
      BY <1>2, <1>5, <2>5, <2>6, <3>1
  <2>8. l + 1 <= ForceAfter * (c + 1)
    <3>1. PICK c1 : c1 = c + 1 /\ c1 \in Nat
      BY <2>7
    <3>2. l <= ForceAfter * c + t /\ t < ForceAfter
      BY <2>2, <2>3, <2>6
    <3>3. l + 1 <= ForceAfter * c1
      BY <1>3, <2>7, <3>1, <3>2, StretchOfMore
    <3> QED
      BY <3>1, <3>3
  <2>9. ForceAfter * (c + 1) <= ForceAfter * (faults + 1)
    <3>1. PICK r \in Nat : faults = c + r
      <4>1. faults - c \in Nat /\ faults = c + (faults - c)
        BY <1>3, <2>5, <2>6
      <4> QED BY <4>1
    <3>2. ForceAfter * (faults + 1) = ForceAfter * (c + 1) + ForceAfter * r
      BY <1>3, <2>7, <3>1
    <3>3. ForceAfter * r \in Nat /\ ForceAfter * (c + 1) \in Nat
      BY <1>3, <2>7, <3>1
    <3> QED
      BY <3>2, <3>3
  <2>10. ForceAfter * (c + 1) \in Int
    BY <1>3, <2>7
  <2> QED
    BY <1>4, <2>6, <2>7, <2>8, <2>9, <2>10
<1>6. CASE ~(i <= j)
  BY <1>2, <1>4, <1>6
<1>7. CASE i <= j /\ j \notin Pending
  <2>1. j - i + 1 < ForceAfter * (faults + 1)
    BY <1>2, <1>5, <1>7
  <2> QED
    BY <1>2, <1>4, <2>1
<1>8. CASE i <= j /\ j \in Pending
  <2>1. pc = "payload" /\ j = n
    BY <1>1, <1>8 DEF Pending
  <2>2. CASE i = j
    BY <1>2, <1>4, <2>1, <2>2
  <2>3. CASE i < j
    <3>1. PICK e \in 1 .. n : j = e + 1 /\ i <= e /\ e # n
      <4>1. j - 1 \in 1 .. n /\ j = (j - 1) + 1 /\ i <= j - 1 /\ j - 1 # n
        BY <1>2, <2>1, <2>3
      <4> QED BY <4>1
    <3>2. e \notin Pending
      BY <1>1, <3>1 DEF Pending
    <3>3. e - i + 1 < ForceAfter * (faults + 1)
      BY <1>2, <1>5, <3>1, <3>2
    <3> QED
      BY <1>2, <1>4, <2>1, <3>1, <3>3
  <2> QED
    BY <1>2, <1>8, <2>2, <2>3
<1> QED
  BY <1>2, <1>6, <1>7, <1>8

(* With a universe that is never empty: however long nobody asks the        *)
(* Reflector while there is something to compare, it is less than a day of  *)
(* ticks for each program that was killed and one more.  The force trigger  *)
(* of stage_phase6 reads its last dispatch off the staged inputs, and the   *)
(* kills between that row and the payload are what it does not see.         *)
THEOREM SilenceStaysBounded ==
  ASSUME UniverseIsNeverEmpty
  PROVE  Spec => []SilenceBounded
<1>1. Init => Spaced /\ Asking
  <2> SUFFICES ASSUME Init PROVE Spaced /\ Asking
    OBVIOUS
  <2>1. DOMAIN staged = {} /\ faults = 0 /\ pc = "idle"
    BY DEF Init
  <2>2. Lost = {}
    BY <2>1 DEF Lost
  <2>3. IsFiniteSet({}) /\ Cardinality({}) = 0
    BY FS_EmptySet
  <2> QED
    BY <2>1, <2>2, <2>3 DEF Spaced, Asking
<1>2. Market /\ Ledger /\ StageEntries /\ Staging /\ Spaced /\ [Next]_vars => Spaced'
  <2> SUFFICES ASSUME Market, Ledger, StageEntries, Staging, Spaced, [Next]_vars PROVE Spaced'
    OBVIOUS
  <2>1. CASE Stage
    BY <2>1, SpacedStage
  <2>2. CASE ~Stage
    BY <2>2, StagedOnlyByStage DEF Spaced, Compared, LastFlagged, Flagged
  <2> QED
    BY <2>1, <2>2
<1>3. Market /\ Ledger /\ StageEntries /\ Asking /\ [Next]_vars => Asking'
  BY AskingStep
<1>4. Market /\ Ledger /\ StageEntries /\ Staging /\ [Next]_vars => Staging'
  BY StagingStep
<1>5. Market /\ StageEntries /\ Spaced /\ Asking => SilenceBounded
  BY SilenceHolds
<1> QED
  BY MarketInit, LedgerInit, StageEntriesInit, StagingInit, MarketStep, LedgerStep,
     StageEntriesStep, <1>1, <1>2, <1>3, <1>4, <1>5, PTL DEF Spec
-----------------------------------------------------------------------------
(* The answers of the Reflector.                                            *)

Written == Proposal \cup Confirmation
Judged == [id : RuleId, said : Judgement]

Telling ==
  /\ payload \subseteq Nat \ {0} /\ IsFiniteSet(payload)
  /\ pc = "payload" => tick \in Nat \ {0}

Reflecting ==
  /\ answer \in [time : Nat, tick : Nat, new : Seq(Candidate), about : Seq(Judged)]
  /\ IsLog(runs)
  /\ rows \in Seq(Written)
  /\ reflections \in Seq(Written)
  /\ pc # "append" => rows = << >>

(* A rule that was named when it was persisted stands at the place it is    *)
(* named after, from a run whose answer was given before a time.            *)
Preceded(log, filed, id, t) ==
  Made(id) => id[2] \in DOMAIN log /\ filed[log[id[2]].run].time < t

(* What is said of such a rule is from a later answer than the rule.        *)
Timed ==
  /\ \A i \in DOMAIN answer.about : Preceded(reflections, runs, answer.about[i].id, answer.time)
  /\ \A i \in DOMAIN rows :
       IF rows[i].row = "confirmation" THEN Preceded(reflections, runs, rows[i].id, answer.time)
       ELSE ~Made(rows[i].id)
  /\ \A i \in DOMAIN reflections :
       IF reflections[i].row = "confirmation"
       THEN Preceded(reflections, runs, reflections[i].id, runs[reflections[i].run].time)
       ELSE Made(reflections[i].id) => reflections[i].id[2] = i

(* The runs of an answer are filed under what it says, or under the ledger. *)
Filed(j) ==
  /\ runs[j].tick \in Nat /\ runs[j].n \in Nat /\ runs[j].time \in Nat
  /\ runs[j].by \in {"caller", "answer", "ledger"}
  /\ runs[j].time <= answer.time
  /\ runs[j].time = answer.time =>
       /\ runs[j].by = "answer" => answer.tick # NoTick /\ runs[j].tick = answer.tick
       /\ runs[j].by = "ledger" => answer.tick = NoTick
  /\ runs[j].by = "ledger" =>
       runs[j].tick = 0 \/ \E k \in DOMAIN ledger : runs[j].tick <= ledger[k].tick

Filing ==
  /\ \A j \in DOMAIN runs : Filed(j)
  /\ \A i, j \in DOMAIN runs : i < j => runs[i].time <= runs[j].time
  /\ FiledOnce
  /\ \A i \in DOMAIN reflections : reflections[i].run \in DOMAIN runs
  /\ \A i \in DOMAIN rows : rows[i].run = Len(runs)
  /\ pc = "append" => runs # << >> /\ runs[Len(runs)].time = answer.time

LEMMA RowFacts ==
  /\ \A r \in Proposal : r.row = "new_candidate" /\ r.id \in RuleId /\ r.support \in Nat
                         /\ r.tick \in Nat /\ r.run \in Nat
  /\ \A r \in Confirmation : r.row = "confirmation" /\ r.id \in RuleId
  BY DEF Proposal, Confirmation

LEMMA RunsLocated ==
  ASSUME Reflecting
  PROVE  Len(runs) \in Nat /\ DOMAIN runs = 1 .. Len(runs)
  BY LogGrows DEF Reflecting

LEMMA SeqOfFunction ==
  ASSUME NEW S, NEW n \in Nat, NEW f, f = [i \in 1 .. n |-> f[i]], \A i \in 1 .. n : f[i] \in S
  PROVE  f \in Seq(S) /\ Len(f) = n
<1>1. f \in [1 .. n -> S]
  OBVIOUS
<1> QED
  BY <1>1

LEMMA Joined ==
  ASSUME NEW S, NEW a \in Seq(S), NEW b \in Seq(S), NEW all, all = a \o b
  PROVE  /\ all \in Seq(S) /\ Len(all) = Len(a) + Len(b)
         /\ \A k \in DOMAIN all :
              (\E i \in DOMAIN a : all[k] = a[i]) \/ (\E i \in DOMAIN b : all[k] = b[i])
<1>1. all \in Seq(S) /\ Len(all) = Len(a) + Len(b) /\ Len(a) \in Nat /\ Len(b) \in Nat
  OBVIOUS
<1>2. ASSUME NEW k \in DOMAIN all
      PROVE  (\E i \in DOMAIN a : all[k] = a[i]) \/ (\E i \in DOMAIN b : all[k] = b[i])
  <2>1. k \in 1 .. Len(a) + Len(b)
    BY <1>1
  <2>2. CASE k <= Len(a)
    BY <1>1, <2>1, <2>2
  <2>3. CASE k > Len(a)
    <3>1. all[k] = b[k - Len(a)] /\ k - Len(a) \in 1 .. Len(b)
      BY <1>1, <2>1, <2>3
    <3> QED BY <3>1
  <2> QED
    BY <1>1, <2>1, <2>2, <2>3
<1> QED
  BY <1>1, <1>2

(* What is persisted of an answer.                                          *)
LEMMA RowsOfAnswer ==
  ASSUME Reflecting, NEW t \in Nat
  PROVE  /\ RowsFor(answer, t) \in Seq(Written)
         /\ Len(RowsFor(answer, t)) = Len(answer.new) + Len(answer.about)
         /\ Len(answer.new) + Len(answer.about) \in Nat
         /\ \A k \in DOMAIN RowsFor(answer, t) :
              /\ RowsFor(answer, t)[k].run = Len(runs) + 1
              /\ \/ /\ RowsFor(answer, t)[k].row = "new_candidate"
                    /\ \E i \in DOMAIN answer.new : RowsFor(answer, t)[k].id = answer.new[i].id
                 \/ /\ RowsFor(answer, t)[k].row = "confirmation"
                    /\ \E i \in DOMAIN answer.about : RowsFor(answer, t)[k].id = answer.about[i].id
<1>1. PICK r : r = Len(runs) + 1 /\ r \in Nat
  BY RunsLocated
<1> DEFINE new == [i \in DOMAIN answer.new |->
                    [row |-> "new_candidate", id |-> answer.new[i].id,
                     support |-> answer.new[i].support, tick |-> t, run |-> r]]
           about == [i \in DOMAIN answer.about |->
                      [row |-> "confirmation", id |-> answer.about[i].id,
                       kind |-> answer.about[i].said.kind, support |-> answer.about[i].said.support,
                       suggestion |-> answer.about[i].said.suggestion, tick |-> t, run |-> r]]
<1>2. answer.new \in Seq(Candidate) /\ answer.about \in Seq(Judged)
  BY DEF Reflecting
<1>3. RowsFor(answer, t) = new \o about
  BY <1>1 DEF RowsFor
<1>4. new \in Seq(Written) /\ Len(new) = Len(answer.new) /\ DOMAIN new = DOMAIN answer.new
  <2>1. \A i \in DOMAIN answer.new : answer.new[i] \in Candidate
    BY <1>2
  <2>2. \A c \in Candidate : c.id \in RuleId /\ c.support \in Nat
    BY DEF Candidate, RuleId, OwnName
  <2>3. \A i \in DOMAIN answer.new : new[i] \in Proposal
    BY <1>1, <2>1, <2>2 DEF Proposal
  <2> DEFINE n == Len(answer.new)
  <2>4. n \in Nat /\ DOMAIN answer.new = 1 .. n
    BY <1>2
  <2>5. new = [i \in 1 .. n |-> new[i]] /\ DOMAIN new = 1 .. n
    BY <2>4
  <2>6. \A i \in 1 .. n : new[i] \in Written
    BY <2>3, <2>4 DEF Written
  <2> HIDE DEF n, new
  <2>7. new \in Seq(Written) /\ Len(new) = n
    BY <2>4, <2>5, <2>6, SeqOfFunction
  <2> QED
    BY <2>4, <2>5, <2>7 DEF n
<1>5. about \in Seq(Written) /\ Len(about) = Len(answer.about) /\ DOMAIN about = DOMAIN answer.about
  <2>1. \A i \in DOMAIN answer.about : answer.about[i] \in Judged
    BY <1>2
  <2>2. \A j \in Judged : j.id \in RuleId /\ j.said \in Judgement
    BY DEF Judged
  <2>3. \A j \in Judgement : /\ j.kind \in {"confirming", "disconfirming"}
                             /\ j.support \in Nat \cup {NoCount} /\ j.suggestion \in Suggestion
    BY DEF Judgement
  <2>4. \A i \in DOMAIN answer.about : about[i] \in Confirmation
    BY <1>1, <2>1, <2>2, <2>3 DEF Confirmation
  <2> DEFINE n == Len(answer.about)
  <2>5. n \in Nat /\ DOMAIN answer.about = 1 .. n
    BY <1>2
  <2>6. about = [i \in 1 .. n |-> about[i]] /\ DOMAIN about = 1 .. n
    BY <2>5
  <2>7. \A i \in 1 .. n : about[i] \in Written
    BY <2>4, <2>5 DEF Written
  <2> HIDE DEF n, about
  <2>8. about \in Seq(Written) /\ Len(about) = n
    BY <2>5, <2>6, <2>7, SeqOfFunction
  <2> QED
    BY <2>5, <2>6, <2>8 DEF n
<1>6. /\ \A i \in DOMAIN answer.new : new[i].row = "new_candidate" /\ new[i].id = answer.new[i].id
                                      /\ new[i].run = r
      /\ \A i \in DOMAIN answer.about : about[i].row = "confirmation"
                                        /\ about[i].id = answer.about[i].id /\ about[i].run = r
  OBVIOUS
<1>7. Len(answer.new) \in Nat /\ Len(answer.about) \in Nat
  BY <1>2
<1> HIDE DEF new, about
<1>8. PICK p, q, all : p = new /\ q = about /\ all = p \o q
  OBVIOUS
<1>9. /\ all \in Seq(Written) /\ Len(all) = Len(p) + Len(q)
      /\ \A k \in DOMAIN all :
           (\E i \in DOMAIN p : all[k] = p[i]) \/ (\E i \in DOMAIN q : all[k] = q[i])
  <2>1. p \in Seq(Written) /\ q \in Seq(Written)
    BY <1>4, <1>5, <1>8
  <2> QED
    BY <1>8, <2>1, Joined
<1>10. \A k \in DOMAIN all :
         (\E i \in DOMAIN new : all[k] = new[i]) \/ (\E i \in DOMAIN about : all[k] = about[i])
  BY <1>8, <1>9
<1>11. \A k \in DOMAIN all :
         /\ all[k].run = r
         /\ \/ /\ all[k].row = "new_candidate"
               /\ \E i \in DOMAIN answer.new : all[k].id = answer.new[i].id
            \/ /\ all[k].row = "confirmation"
               /\ \E i \in DOMAIN answer.about : all[k].id = answer.about[i].id
  BY <1>4, <1>5, <1>6, <1>10
<1>12. RowsFor(answer, t) = all /\ Len(all) = Len(answer.new) + Len(answer.about)
  BY <1>3, <1>4, <1>5, <1>8, <1>9
<1>13. Len(answer.new) + Len(answer.about) \in Nat
  <2>1. PICK x \in Nat, y \in Nat : x = Len(answer.new) /\ y = Len(answer.about)
    BY <1>7
  <2>2. x + y \in Nat
    OBVIOUS
  <2> QED
    BY <2>1, <2>2
<1> QED
  BY <1>1, <1>9, <1>11, <1>12, <1>13

(* The steps that touch what is answered or persisted are three.            *)
LEMMA ReflectionUntouched ==
  ASSUME [Next]_vars, ~PersistRun, ~PersistRow,
         ~\E a \in World[world].answers : Reflect(a), Reflecting
  PROVE  /\ UNCHANGED <<answer, runs, reflections>>
         /\ rows' = rows \/ rows' = << >>
         /\ pc' # "append" => rows' = << >>
         /\ pc' = "append" => pc = "append" /\ rows' = rows /\ faults' = faults
         /\ faults' = faults \/ faults' = faults + 1
         /\ pc = "append" /\ pc' # "append" =>
              (rows = << >> /\ faults' = faults) \/ faults' = faults + 1
<1>1. CASE RefreshCounters
  BY <1>1 DEF RefreshCounters, ledgerVars, answerVars, Reflecting
<1>2. CASE Crash
  BY <1>2 DEF Crash, ledgerVars, answerVars
<1>3. CASE UNCHANGED <<answer, runs, reflections, rows, pc, faults>>
  BY <1>3 DEF Reflecting
<1>4. CASE UNCHANGED <<answer, runs, reflections, rows, faults>> /\ pc # "append" /\ pc' # "append"
  BY <1>4 DEF Reflecting
<1>5. CASE (\E o \in World[world].outcomes : ScoreClose(o)) \/ LogClose \/ CalibrateStop
           \/ CalibratePenalties \/ StartPhase6 \/ RefreshBody
  BY <1>4, <1>5
  DEF ScoreClose, LogClose, CalibrateStop, CalibratePenalties, StartPhase6, RefreshBody, answerVars
<1>6. CASE Stage \/ WritePayload
  BY <1>4, <1>6 DEF Stage, WritePayload, answerVars
<1>7. CASE (\E q \in Offered : Trade(q)) \/ (\E s \in Symbol : CloseOut(s))
           \/ (\E s \in Symbol : SnapshotRow(s)) \/ UNCHANGED vars
  BY <1>3, <1>7 DEF Trade, CloseOut, SnapshotRow, vars, answerVars
<1> QED
  BY <1>1, <1>2, <1>5, <1>6, <1>7 DEF Next

LEMMA LedgerKept ==
  ASSUME Market, Ledger, [Next]_vars
  PROVE  \A k \in DOMAIN ledger : k \in DOMAIN ledger' /\ ledger'[k] = ledger[k]
<1>1. CASE \E s \in Symbol : SnapshotRow(s)
  <2>1. PICK row \in Row : ledger' = Append(ledger, row)
    BY <1>1, SnapshotRecords
  <2>2. ledger \in Seq(Row)
    BY DEF Ledger
  <2> QED
    BY <2>1, <2>2
<1>2. CASE ~\E s \in Symbol : SnapshotRow(s)
  <2>1. ledger' = ledger
    BY <1>2 DEF Next, ScoreClose, LogClose, CalibrateStop, CalibratePenalties, Trade, CloseOut,
       StartPhase6, Stage, WritePayload, Reflect, PersistRun, PersistRow, RefreshCounters,
       RefreshBody, Crash, ledgerVars, vars
  <2> QED
    BY <2>1
<1> QED
  BY <1>1, <1>2

LEMMA TellingInit == Init => Telling
<1> SUFFICES ASSUME Init PROVE Telling
  OBVIOUS
<1>1. payload = {} /\ pc = "idle"
  BY DEF Init
<1> QED
  BY <1>1, FS_EmptySet DEF Telling

LEMMA TellingStep == Ledger /\ Telling /\ [Next]_vars => Telling'
<1> SUFFICES ASSUME Ledger, Telling, [Next]_vars PROVE Telling'
  OBVIOUS
<1>1. CASE Stage
  <2>1. pc = "snapshot" /\ UNCHANGED <<payload, tick>>
    BY <1>1 DEF Stage
  <2>2. tick \in Nat \ {0}
    BY <2>1 DEF Ledger, Recording
  <2> QED
    BY <2>1, <2>2 DEF Telling
<1>2. CASE WritePayload
  <2>1. pc = "payload" /\ pc' = "counters" /\ payload' = payload \cup {tick}
    BY <1>2 DEF WritePayload
  <2>2. IsFiniteSet(payload \cup {tick})
    BY FS_AddElement DEF Telling
  <2> QED
    BY <2>1, <2>2 DEF Telling
<1>3. CASE UNCHANGED payload /\ pc' # "payload"
  BY <1>3 DEF Telling
<1>4. CASE UNCHANGED <<payload, pc, tick>>
  BY <1>4 DEF Telling
<1>5. CASE (\E o \in World[world].outcomes : ScoreClose(o)) \/ LogClose \/ CalibrateStop
           \/ CalibratePenalties \/ StartPhase6 \/ PersistRun \/ RefreshCounters \/ RefreshBody
           \/ Crash
  BY <1>3, <1>5
  DEF ScoreClose, LogClose, CalibrateStop, CalibratePenalties, StartPhase6, PersistRun,
      RefreshCounters, RefreshBody, Crash, ledgerVars
<1>6. CASE (\E q \in Offered : Trade(q)) \/ (\E s \in Symbol : CloseOut(s)) \/ PersistRow
           \/ (\E s \in Symbol : SnapshotRow(s)) \/ (\E a \in World[world].answers : Reflect(a))
           \/ UNCHANGED vars
  BY <1>4, <1>6 DEF Trade, CloseOut, PersistRow, SnapshotRow, Reflect, vars, ledgerVars
<1> QED
  BY <1>1, <1>2, <1>5, <1>6 DEF Next

LEMMA ReflectingInit == Init => Reflecting /\ Timed /\ Filing
<1> SUFFICES ASSUME Init PROVE Reflecting /\ Timed /\ Filing
  OBVIOUS
<1>1. /\ answer = [time |-> 0, tick |-> 0, new |-> << >>, about |-> << >>]
      /\ rows = << >> /\ reflections = << >> /\ runs = << >> /\ pc = "idle"
  BY DEF Init, NoAnswer, NoTick
<1>2. answer \in [time : Nat, tick : Nat, new : Seq(Candidate), about : Seq(Judged)]
  <2>1. << >> \in Seq(Candidate) /\ << >> \in Seq(Judged)
    OBVIOUS
  <2> QED BY <1>1, <2>1
<1>3. DOMAIN answer.about = {} /\ DOMAIN runs = {} /\ DOMAIN rows = {} /\ DOMAIN reflections = {}
  BY <1>1
<1>4. IsLog(runs)
  <2>1. runs \in Seq({})
    BY <1>1
  <2> QED BY <2>1 DEF IsLog
<1>5. Reflecting
  BY <1>1, <1>2, <1>4 DEF Reflecting
<1>6. FiledOnce
  BY <1>3 DEF FiledOnce
<1> QED
  BY <1>1, <1>3, <1>5, <1>6 DEF Timed, Filing

(* The Reflector is told of rules from answers before its own.              *)
LEMMA ReflectAnswers ==
  ASSUME Market, Telling, Reflecting, Timed, Filing, NEW a \in World[world].answers, Reflect(a)
  PROVE  /\ answer' \in [time : Nat, tick : Nat, new : Seq(Candidate), about : Seq(Judged)]
         /\ answer.time \in Nat /\ answer.time < answer'.time
         /\ \A i \in DOMAIN answer'.about : Preceded(reflections, runs, answer'.about[i].id, answer'.time)
         /\ UNCHANGED <<runs, reflections, rows, ledger, pc, faults>> /\ pc = "idle"
<1>1. a \in Answer
  BY Phase6Assumption DEF Market
<1>2. a.new \in Seq(Candidate) /\ a.about \in Seq(Judgement)
  BY <1>1 DEF Answer
<1>3. PICK named \in {NoTick, Asked}, ids \in [DOMAIN a.about -> Judgeable(a)] :
        answer' = [time |-> Asked, tick |-> named, new |-> a.new,
                   about |-> [i \in DOMAIN a.about |-> [id |-> ids[i], said |-> a.about[i]]]]
  BY DEF Reflect
<1>4. Asked \in Nat /\ answer.time \in Nat /\ answer.time < Asked
  <2>1. IsFiniteSet({0} \cup payload)
    <3>1. IsFiniteSet(payload \cup {0})
      BY FS_AddElement DEF Telling
    <3>2. {0} \cup payload = payload \cup {0}
      OBVIOUS
    <3> QED BY <3>1, <3>2
  <2>2. PICK P : P = {0} \cup payload
    OBVIOUS
  <2>3. P # {} /\ \A x \in P : x \in Nat
    BY <2>2 DEF Telling
  <2>4. Max(P) \in P
    BY <2>1, <2>2, <2>3, MaxOfNat
  <2>5. Asked \in Nat
    BY <2>2, <2>3, <2>4 DEF Asked
  <2>6. answer.time \in Nat /\ Asked > answer.time
    BY DEF Reflecting, Reflect
  <2> QED
    BY <2>5, <2>6
<1> DEFINE about == [i \in DOMAIN a.about |-> [id |-> ids[i], said |-> a.about[i]]]
           n == Len(a.about)
<1>5. n \in Nat /\ DOMAIN a.about = 1 .. n /\ \A i \in 1 .. n : a.about[i] \in Judgement
  BY <1>2
<1>6. \A i \in 1 .. n : ids[i] \in Judgeable(a)
  BY <1>3, <1>5
<1>7. \A id \in Judgeable(a) : id \in RuleId /\ Preceded(reflections, runs, id, Asked)
  <2>1. ASSUME NEW id \in Rules(reflections) PROVE id \in RuleId /\ Preceded(reflections, runs, id, Asked)
    <3>1. PICK i \in DOMAIN reflections : reflections[i].row = "new_candidate" /\ id = reflections[i].id
      BY <2>1 DEF Rules
    <3>2. id \in RuleId
      <4>1. reflections[i] \in Proposal \cup Confirmation
        BY DEF Reflecting, Written
      <4> QED
        BY <3>1, <4>1, RowFacts
    <3>3. Made(id) => id[2] = i
      BY <3>1 DEF Timed
    <3>4. runs[reflections[i].run].time \in Nat /\ runs[reflections[i].run].time <= answer.time
      BY DEF Filing, Filed
    <3>5. runs[reflections[i].run].time < Asked
      BY <1>4, <3>4
    <3> QED
      BY <3>2, <3>3, <3>5 DEF Preceded
  <2>2. \A id \in OwnName : id \in RuleId /\ ~Made(id)
    BY DEF OwnName, RuleId, Made
  <2>3. \A i \in DOMAIN a.new : a.new[i].id \in OwnName
    <3>1. \A i \in DOMAIN a.new : a.new[i] \in Candidate
      BY <1>2
    <3> QED
      BY <3>1 DEF Candidate
  <2>4. Unnamed \in OwnName
    BY DEF Unnamed, OwnName
  <2>5. ASSUME NEW id \in Judgeable(a) PROVE id \in Rules(reflections) \/ id \in OwnName
    BY <2>3, <2>4 DEF Judgeable
  <2> QED
    BY <2>1, <2>2, <2>5 DEF Preceded
<1>8. \A i \in 1 .. n : about[i] \in Judged /\ about[i].id = ids[i]
  BY <1>5, <1>6, <1>7 DEF Judged
<1>9. about = [i \in 1 .. n |-> about[i]] /\ DOMAIN about = 1 .. n
  BY <1>5
<1>10. answer' = [time |-> Asked, tick |-> named, new |-> a.new, about |-> about]
  BY <1>3
<1>11. \A i \in 1 .. n : Preceded(reflections, runs, about[i].id, Asked)
  <2> SUFFICES ASSUME NEW i \in 1 .. n PROVE Preceded(reflections, runs, about[i].id, Asked)
    OBVIOUS
  <2>1. about[i].id = ids[i]
    BY <1>8
  <2>2. Preceded(reflections, runs, ids[i], Asked)
    BY <1>6, <1>7
  <2> QED
    BY <2>1, <2>2
<1> HIDE DEF about, n
<1>12. about \in Seq(Judged)
  BY <1>5, <1>8, <1>9, SeqOfFunction
<1>13. named \in Nat
  BY <1>3, <1>4 DEF NoTick
<1>14. /\ answer'.time = Asked /\ answer'.about = about
       /\ answer' \in [time : Nat, tick : Nat, new : Seq(Candidate), about : Seq(Judged)]
  <2>1. a.new \in Seq(Candidate)
    BY <1>2
  <2>2. PICK x : x = Asked /\ x \in Nat
    BY <1>4
  <2>3. PICK y : y = a.new /\ y \in Seq(Candidate)
    BY <2>1
  <2>4. answer' = [time |-> x, tick |-> named, new |-> y, about |-> about]
    BY <1>10, <2>2, <2>3
  <2> QED
    BY <1>12, <1>13, <2>2, <2>3, <2>4
<1>15. \A i \in DOMAIN about : Preceded(reflections, runs, about[i].id, Asked)
  BY <1>9, <1>11
<1>16. UNCHANGED <<runs, reflections, rows, ledger, pc, faults>> /\ pc = "idle"
  BY DEF Reflect, ledgerVars
<1> QED
  BY <1>4, <1>14, <1>15, <1>16

(* What is known of a rule stays known as the files grow.                   *)
LEMMA PrecededStays ==
  ASSUME Filing,
         \A i \in DOMAIN reflections : i \in DOMAIN reflections' /\ reflections'[i] = reflections[i],
         \A j \in DOMAIN runs : j \in DOMAIN runs' /\ runs'[j] = runs[j]
  PROVE  /\ \A id, t : Preceded(reflections, runs, id, t) => Preceded(reflections', runs', id, t)
         /\ \A i \in DOMAIN reflections :
              runs'[reflections'[i].run] = runs[reflections[i].run]
<1>1. \A i \in DOMAIN reflections :
        reflections'[i].run = reflections[i].run /\ runs'[reflections[i].run] = runs[reflections[i].run]
  BY DEF Filing
<1> QED
  BY <1>1 DEF Preceded, Made

LEMMA LatestIsLatest ==
  ASSUME Ledger
  PROVE  /\ LatestTick \in Nat
         /\ LatestTick = 0 \/ \E k \in DOMAIN ledger : LatestTick = ledger[k].tick
         /\ \A k \in DOMAIN ledger : ledger[k].tick \in Nat /\ ledger[k].tick <= LatestTick
<1> DEFINE ticks == {ledger[i].tick : i \in DOMAIN ledger}
<1>1. ledger \in Seq(Row) /\ \A i \in DOMAIN ledger : ledger[i].tick \in Nat
  BY RowsTyped DEF Ledger
<1>2. IsFiniteSet({0} \cup ticks)
  <2>1. IsFiniteSet(DOMAIN ledger)
    BY <1>1, LogOfRows, LogIsFinite
  <2>2. [i \in DOMAIN ledger |-> ledger[i].tick] \in Surjection(DOMAIN ledger, ticks)
    BY DEF Surjection
  <2>3. PICK T : T = ticks
    OBVIOUS
  <2> HIDE DEF ticks
  <2>4. IsFiniteSet(T)
    BY <2>1, <2>2, <2>3, FS_Surjection
  <2>5. IsFiniteSet(T \cup {0})
    BY <2>4, FS_AddElement
  <2>6. {0} \cup ticks = T \cup {0}
    BY <2>3
  <2> QED BY <2>5, <2>6
<1>3. \A n \in {0} \cup ticks : n \in Nat
  BY <1>1
<1>4. LatestTick = Max({0} \cup ticks)
  BY DEF LatestTick
<1> HIDE DEF ticks
<1>5. LatestTick \in {0} \cup ticks /\ \A n \in {0} \cup ticks : LatestTick >= n
  BY <1>2, <1>3, <1>4, MaxOfNat
<1>6. LatestTick \in Nat
  BY <1>3, <1>5
<1>7. \A k \in DOMAIN ledger : ledger[k].tick <= LatestTick
  BY <1>1, <1>5, <1>6 DEF ticks
<1>8. LatestTick = 0 \/ \E k \in DOMAIN ledger : LatestTick = ledger[k].tick
  BY <1>5 DEF ticks
<1> QED
  BY <1>1, <1>6, <1>7, <1>8

(* The run that is kept of an answer.                                       *)
NewRun(given) ==
  [tick |-> FiledUnder(given), by |-> FiledBy(given), time |-> answer.time,
   n |-> Len(answer.new) + Len(answer.about)]

LEMMA RunPersisted ==
  ASSUME Market, Ledger, Reflecting, PersistRun
  PROVE  \E given, run, m :
           /\ given \in Nat /\ m \in Nat
           /\ run = NewRun(given) /\ m = Len(runs)
           /\ FiledUnder(given) \in Nat /\ ~Persisted(FiledUnder(given))
           /\ runs' = Append(runs, run) /\ IsLog(runs') /\ rows' = RowsFor(answer, FiledUnder(given))
           /\ DOMAIN runs = 1 .. m /\ DOMAIN runs' = 1 .. m + 1 /\ Len(runs') = m + 1
           /\ runs' # << >> /\ runs'[m + 1] = run /\ \A j \in 1 .. m : runs'[j] = runs[j]
           /\ pc = "idle" /\ pc' = "append"
           /\ UNCHANGED <<answer, reflections, ledger, faults>>
<1>1. PICK given \in World[world].given :
        /\ ~Persisted(FiledUnder(given))
        /\ runs' = Append(runs, NewRun(given)) /\ rows' = RowsFor(answer, FiledUnder(given))
  BY DEF PersistRun, NewRun
<1>2. pc = "idle" /\ pc' = "append" /\ UNCHANGED <<answer, reflections, ledger, faults>>
  BY DEF PersistRun, ledgerVars
<1>3. given \in Nat
  BY Phase6Assumption DEF Market
<1>4. FiledUnder(given) \in Nat
  <2>1. answer.tick \in Nat /\ LatestTick \in Nat
    BY LatestIsLatest DEF Reflecting
  <2> QED
    BY <1>3, <2>1 DEF FiledUnder, FiledBy, NoTick
<1>5. PICK run, m : run = NewRun(given) /\ m = Len(runs)
  OBVIOUS
<1>6. IsLog(runs) /\ runs' = Append(runs, run)
  BY <1>1, <1>5 DEF Reflecting
<1>7. /\ m \in Nat /\ DOMAIN runs = 1 .. m /\ IsLog(runs') /\ DOMAIN runs' = 1 .. m + 1
      /\ Len(runs') = m + 1 /\ runs' # << >> /\ runs'[m + 1] = run
      /\ \A j \in 1 .. m : runs'[j] = runs[j]
  BY <1>5, <1>6, LogGrows
<1> QED
  BY <1>1, <1>2, <1>3, <1>4, <1>5, <1>6, <1>7, Zenon

(* The row that is appended next.                                           *)
LEMMA RowPersisted ==
  ASSUME Reflecting, Timed, Filing, PersistRow
  PROVE  \E row \in Written, m \in Nat :
           /\ row = Named(Head(rows)) /\ m = Len(reflections)
           /\ reflections' = Append(reflections, row)
           /\ DOMAIN reflections = 1 .. m /\ DOMAIN reflections' = 1 .. m + 1
           /\ reflections'[m + 1] = row
           /\ \A i \in 1 .. m : reflections'[i] = reflections[i]
           /\ reflections' \in Seq(Written)
           /\ row.run = Len(runs)
           /\ IF row.row = "confirmation" THEN Preceded(reflections, runs, row.id, answer.time)
              ELSE Made(row.id) => row.id[2] = m + 1
           /\ rows' = Tail(rows) /\ Tail(rows) \in Seq(Written)
           /\ Len(rows) \in Nat \ {0} /\ Len(rows') = Len(rows) - 1
           /\ \A i \in DOMAIN rows' : \E k \in DOMAIN rows : rows'[i] = rows[k]
           /\ UNCHANGED <<answer, runs, pc, faults, ledger>> /\ pc = "append"
<1>1. /\ rows # << >> /\ reflections' = Append(reflections, Named(Head(rows))) /\ rows' = Tail(rows)
      /\ UNCHANGED <<answer, runs, pc, faults, ledger>> /\ pc = "append"
  BY DEF PersistRow, ledgerVars
<1>2. rows \in Seq(Written) /\ reflections \in Seq(Written)
  BY DEF Reflecting
<1>3. Head(rows) = rows[1] /\ 1 \in DOMAIN rows /\ Head(rows) \in Written
  BY <1>1, <1>2
<1>4. /\ Head(rows).run = Len(runs)
      /\ IF Head(rows).row = "confirmation" THEN Preceded(reflections, runs, Head(rows).id, answer.time)
         ELSE ~Made(Head(rows).id)
  BY <1>3 DEF Timed, Filing
<1>5. PICK row, m, h : row = Named(Head(rows)) /\ m = Len(reflections) /\ h = Head(rows)
  OBVIOUS
<1>6. m \in Nat /\ DOMAIN reflections = 1 .. m
  BY <1>2, <1>5
<1>7. /\ row \in Written /\ row.run = Len(runs)
      /\ IF row.row = "confirmation" THEN Preceded(reflections, runs, row.id, answer.time)
         ELSE Made(row.id) => row.id[2] = m + 1
  <2>1. CASE h.row = "new_candidate" /\ h.id = Unnamed
    <3>1. h \in Proposal
      BY <1>3, <1>5, <2>1, RowFacts DEF Written
    <3>2. h.tick \in Nat /\ h.support \in Nat /\ h.run \in Nat /\ h.run = Len(runs)
      BY <1>4, <1>5, <3>1, RowFacts
    <3>3. row = [h EXCEPT !.id = <<h.tick, m + 1>>]
      BY <1>5, <2>1 DEF Named
    <3>4. PICK name : name = <<h.tick, m + 1>>
      OBVIOUS
    <3>5. name \in RuleId /\ name[2] = m + 1
      BY <1>6, <3>2, <3>4 DEF RuleId
    <3>6. row \in Proposal /\ row.id = name /\ row.run = h.run /\ row.row = "new_candidate"
      BY <3>1, <3>3, <3>4, <3>5 DEF Proposal
    <3> QED
      BY <3>2, <3>5, <3>6 DEF Written
  <2>2. CASE ~(h.row = "new_candidate" /\ h.id = Unnamed)
    <3>1. row = h
      BY <1>5, <2>2 DEF Named
    <3> QED
      BY <1>3, <1>4, <1>5, <3>1
  <2> QED
    BY <2>1, <2>2
<1>8. /\ reflections' = Append(reflections, row) /\ DOMAIN reflections' = 1 .. m + 1
      /\ reflections' \in Seq(Written)
      /\ reflections'[m + 1] = row /\ \A i \in 1 .. m : reflections'[i] = reflections[i]
  BY <1>1, <1>2, <1>5, <1>6, <1>7
<1>9. /\ Tail(rows) \in Seq(Written) /\ Len(rows) \in Nat \ {0} /\ Len(Tail(rows)) = Len(rows) - 1
      /\ \A i \in DOMAIN Tail(rows) : i + 1 \in DOMAIN rows /\ Tail(rows)[i] = rows[i + 1]
  BY <1>1, <1>2
<1> QED
  BY <1>1, <1>5, <1>6, <1>7, <1>8, <1>9

LEMMA FiledPersistRun ==
  ASSUME Market, Ledger, Reflecting, Timed, Filing, PersistRun
  PROVE  Reflecting' /\ Timed' /\ Filing'
<1>1. PICK given, run, m :
        /\ given \in Nat /\ m \in Nat
        /\ run = NewRun(given) /\ m = Len(runs)
        /\ FiledUnder(given) \in Nat /\ ~Persisted(FiledUnder(given))
        /\ runs' = Append(runs, run) /\ IsLog(runs') /\ rows' = RowsFor(answer, FiledUnder(given))
        /\ DOMAIN runs = 1 .. m /\ DOMAIN runs' = 1 .. m + 1 /\ Len(runs') = m + 1
        /\ runs' # << >> /\ runs'[m + 1] = run /\ \A j \in 1 .. m : runs'[j] = runs[j]
        /\ pc = "idle" /\ pc' = "append"
        /\ UNCHANGED <<answer, reflections, ledger, faults>>
  BY RunPersisted
<1>2. PICK new, t : new = RowsFor(answer, FiledUnder(given)) /\ t = FiledUnder(given)
  OBVIOUS
<1>3. /\ new \in Seq(Written)
      /\ \A k \in DOMAIN new :
           /\ new[k].run = m + 1
           /\ \/ new[k].row = "new_candidate" /\ \E i \in DOMAIN answer.new : new[k].id = answer.new[i].id
              \/ new[k].row = "confirmation" /\ \E i \in DOMAIN answer.about : new[k].id = answer.about[i].id
      /\ Len(answer.new) + Len(answer.about) \in Nat
  BY <1>1, <1>2, RowsOfAnswer
<1>4. Reflecting'
  BY <1>1, <1>2, <1>3 DEF Reflecting
<1>5. /\ \A id, u : Preceded(reflections, runs, id, u) => Preceded(reflections', runs', id, u)
      /\ \A i \in DOMAIN reflections : runs'[reflections'[i].run] = runs[reflections[i].run]
  <2>1. \A i \in DOMAIN reflections : i \in DOMAIN reflections' /\ reflections'[i] = reflections[i]
    BY <1>1
  <2>2. \A j \in DOMAIN runs : j \in DOMAIN runs' /\ runs'[j] = runs[j]
    BY <1>1
  <2> QED
    BY <2>1, <2>2, PrecededStays
<1>6. Timed'
  <2>1. \A i \in DOMAIN answer'.about : Preceded(reflections', runs', answer'.about[i].id, answer'.time)
    <3>1. \A i \in DOMAIN answer.about : Preceded(reflections', runs', answer.about[i].id, answer.time)
      <4> SUFFICES ASSUME NEW i \in DOMAIN answer.about
                   PROVE  Preceded(reflections', runs', answer.about[i].id, answer.time)
        BY <1>1
      <4>1. PICK id, u : id = answer.about[i].id /\ u = answer.time
        OBVIOUS
      <4>2. Preceded(reflections', runs', id, u)
        BY <1>5, <4>1 DEF Timed
      <4> QED
        BY <1>1, <4>1, <4>2
    <3> QED
      BY <1>1, <3>1
  <2>2. \A i \in DOMAIN new :
          IF new[i].row = "confirmation" THEN Preceded(reflections, runs, new[i].id, answer.time) ELSE ~Made(new[i].id)
    <3>1. \A i \in DOMAIN answer.new : ~Made(answer.new[i].id)
      <4>1. \A i \in DOMAIN answer.new : answer.new[i] \in Candidate
        BY DEF Reflecting
      <4>2. \A c \in Candidate : ~Made(c.id)
        BY DEF Candidate, OwnName, Made
      <4> QED BY <4>1, <4>2
    <3> QED
      BY <1>3, <3>1 DEF Timed
  <2>3. \A i \in DOMAIN rows' :
          IF rows'[i].row = "confirmation" THEN Preceded(reflections', runs', rows'[i].id, answer'.time)
          ELSE ~Made(rows'[i].id)
    <3> SUFFICES ASSUME NEW i \in DOMAIN new
                 PROVE  IF new[i].row = "confirmation" THEN Preceded(reflections', runs', new[i].id, answer.time)
                        ELSE ~Made(new[i].id)
      BY <1>1, <1>2
    <3>1. PICK id, u : id = new[i].id /\ u = answer.time
      OBVIOUS
    <3>2. Preceded(reflections, runs, id, u) => Preceded(reflections', runs', id, u)
      BY <1>5
    <3> QED
      BY <1>1, <2>2, <3>1, <3>2
  <2>4. \A i \in DOMAIN reflections' :
          IF reflections'[i].row = "confirmation"
          THEN Preceded(reflections', runs', reflections'[i].id, runs'[reflections'[i].run].time)
          ELSE Made(reflections'[i].id) => reflections'[i].id[2] = i
    <3> SUFFICES ASSUME NEW i \in DOMAIN reflections
                 PROVE  IF reflections[i].row = "confirmation"
                        THEN Preceded(reflections', runs', reflections[i].id, runs[reflections[i].run].time)
                        ELSE Made(reflections[i].id) => reflections[i].id[2] = i
      BY <1>1, <1>5
    <3>1. PICK id, u : id = reflections[i].id /\ u = runs[reflections[i].run].time
      OBVIOUS
    <3>2. Preceded(reflections, runs, id, u) => Preceded(reflections', runs', id, u)
      BY <1>5
    <3>3. runs'[reflections'[i].run].time = u /\ reflections'[i].id = id
      BY <1>1, <1>5, <3>1
    <3> QED
      BY <1>1, <3>1, <3>2, <3>3 DEF Timed
  <2> QED
    BY <2>1, <2>3, <2>4 DEF Timed
<1>7. /\ run.tick = t /\ run.by = FiledBy(given) /\ run.time = answer.time
      /\ run.n \in Nat /\ t \in Nat /\ run.by \in {"caller", "answer", "ledger"}
  BY <1>1, <1>2, <1>3 DEF NewRun, FiledBy
<1>8. /\ run.by = "answer" => answer.tick # NoTick /\ t = answer.tick
      /\ run.by = "ledger" => answer.tick = NoTick /\ t = LatestTick
  BY <1>2, <1>7 DEF FiledUnder, FiledBy
<1>9. answer.time \in Nat
  BY DEF Reflecting
<1>10. \A j \in 1 .. m + 1 : j \in 1 .. m \/ j = m + 1
  BY <1>1
<1>11. \A j \in 1 .. m + 1 : Filed(j)'
  <2>1. ASSUME NEW j \in 1 .. m PROVE Filed(j)'
    <3>1. Filed(j) /\ runs'[j] = runs[j] /\ UNCHANGED <<answer, ledger>>
      BY <1>1, <2>1 DEF Filing
    <3> QED
      BY <3>1 DEF Filed
  <2>2. runs'[m + 1].by = "ledger" =>
          runs'[m + 1].tick = 0 \/ \E k \in DOMAIN ledger : runs'[m + 1].tick <= ledger[k].tick
    <3>1. ASSUME run.by = "ledger" PROVE t = 0 \/ \E k \in DOMAIN ledger : t <= ledger[k].tick
      <4>1. t = LatestTick
        BY <1>8, <3>1
      <4> QED
        BY <4>1, LatestIsLatest
    <3> QED
      BY <1>1, <1>7, <3>1
  <2>3. /\ runs'[m + 1] = run /\ answer.time <= answer.time
    BY <1>1, <1>9
  <2>4. /\ runs'[m + 1].tick \in Nat /\ runs'[m + 1].n \in Nat /\ runs'[m + 1].time \in Nat
        /\ runs'[m + 1].by \in {"caller", "answer", "ledger"}
        /\ runs'[m + 1].time <= answer'.time
        /\ runs'[m + 1].by = "answer" => answer'.tick # NoTick /\ runs'[m + 1].tick = answer'.tick
        /\ runs'[m + 1].by = "ledger" => answer'.tick = NoTick
    BY <1>1, <1>7, <1>8, <1>9, <2>3
  <2>5. Filed(m + 1)'
    <3>1. PICK j : j = m + 1
      OBVIOUS
    <3>2. Filed(j)'
      BY <1>1, <2>2, <2>4, <3>1 DEF Filed
    <3> QED
      BY <3>1, <3>2
  <2> QED
    BY <1>10, <2>1, <2>5
<1>12. ASSUME NEW i \in 1 .. m + 1, NEW j \in 1 .. m + 1, i < j
       PROVE  i \in 1 .. m /\ runs'[i].time <= runs'[j].time
  <2>1. i \in 1 .. m
    BY <1>1, <1>12
  <2>2. CASE j \in 1 .. m
    BY <1>1, <1>12, <2>1, <2>2 DEF Filing
  <2>3. CASE j = m + 1
    BY <1>1, <1>7, <2>1, <2>3 DEF Filing, Filed
  <2> QED
    BY <1>10, <2>1, <2>2, <2>3
<1>13. FiledOnce'
  <2> SUFFICES ASSUME NEW i \in 1 .. m + 1, NEW j \in 1 .. m + 1, i < j,
                      runs'[i].time = runs'[j].time, \A k \in i .. j : runs'[k].by # "caller"
               PROVE  runs'[i].by = "ledger" /\ runs'[i].tick < runs'[j].tick
    BY <1>1 DEF FiledOnce
  <2>1. i \in 1 .. m /\ runs'[i] = runs[i]
    BY <1>1, <1>12
  <2>2. CASE j \in 1 .. m
    <3>1. \A k \in i .. j : runs[k].by # "caller"
      <4>1. \A k \in i .. j : k \in 1 .. m
        BY <1>1, <2>1, <2>2
      <4> QED BY <1>1, <4>1
    <3> QED
      BY <1>1, <2>1, <2>2, <3>1 DEF Filing, FiledOnce
  <2>3. CASE j = m + 1
    <3>1. runs[i].time = answer.time
      BY <1>1, <1>7, <2>1, <2>3
    <3>2. m \in 1 .. m /\ m \in i .. j /\ runs'[m] = runs[m] /\ j \in i .. j
      BY <1>1, <2>1, <2>3
    <3>3. runs[m].by # "caller" /\ run.by # "caller"
      BY <1>1, <2>3, <3>2
    <3>4. runs[m].time = answer.time
      <4>1. Filed(m) /\ (i < m => runs[i].time <= runs[m].time)
        BY <1>1, <2>1, <3>2 DEF Filing
      <4>2. runs[m].time \in Nat /\ runs[m].time <= answer.time
        BY <4>1 DEF Filed
      <4>3. i = m \/ i < m
        BY <1>1, <2>1
      <4> QED
        BY <1>9, <3>1, <4>1, <4>2, <4>3
    <3>5. runs[m].tick # t
      <4>1. runs # << >> /\ Last(runs) = runs[m]
        BY <1>1, <3>2 DEF Last
      <4> QED
        BY <1>1, <1>2, <4>1 DEF Persisted
    <3>6. /\ runs[m].by = "answer" => answer.tick # NoTick /\ runs[m].tick = answer.tick
          /\ runs[m].by = "ledger" => answer.tick = NoTick
          /\ runs[m].by = "ledger" =>
               runs[m].tick = 0 \/ \E k \in DOMAIN ledger : runs[m].tick <= ledger[k].tick
          /\ runs[m].by \in {"caller", "answer", "ledger"} /\ runs[m].tick \in Nat
      BY <1>1, <3>2, <3>4 DEF Filing, Filed
    <3>7. run.by = "ledger" /\ runs[m].by = "ledger" /\ t = LatestTick
      BY <1>7, <1>8, <3>3, <3>5, <3>6
    <3>8. runs[m].tick < t
      <4>1. runs[m].tick <= LatestTick
        BY <3>6, <3>7, LatestIsLatest
      <4> QED
        BY <1>7, <3>5, <3>6, <3>7, <4>1
    <3>9. CASE i = m
      BY <1>1, <1>7, <2>1, <2>3, <3>7, <3>8, <3>9
    <3>10. CASE i < m
      <4>1. runs[i].by = "ledger" /\ runs[i].tick < runs[m].tick
        <5>1. \A k \in i .. m : runs[k].by # "caller"
          <6>1. \A k \in i .. m : k \in 1 .. m /\ k \in i .. j
            BY <1>1, <2>1, <2>3
          <6> QED BY <1>1, <6>1
        <5> QED
          BY <1>1, <2>1, <3>1, <3>2, <3>4, <3>10, <5>1 DEF Filing, FiledOnce
      <4>2. runs[i].tick \in Nat
        BY <1>1, <2>1 DEF Filing, Filed
      <4> QED
        BY <1>1, <1>7, <2>1, <2>3, <3>6, <3>8, <4>1, <4>2
    <3> QED
      BY <1>1, <2>1, <3>9, <3>10
  <2> QED
    BY <1>10, <2>2, <2>3
<1>14. \A i \in DOMAIN reflections' : reflections'[i].run \in DOMAIN runs'
  BY <1>1 DEF Filing
<1>15. \A i \in DOMAIN rows' : rows'[i].run = Len(runs')
  BY <1>1, <1>2, <1>3
<1>16. pc' = "append" => runs' # << >> /\ runs'[Len(runs')].time = answer'.time
  BY <1>1, <1>7
<1> QED
  BY <1>1, <1>4, <1>6, <1>11, <1>12, <1>13, <1>14, <1>15, <1>16 DEF Filing

LEMMA FiledPersistRow ==
  ASSUME Reflecting, Timed, Filing, PersistRow
  PROVE  Reflecting' /\ Timed' /\ Filing'
<1>1. PICK row \in Written, m \in Nat :
        /\ row = Named(Head(rows)) /\ m = Len(reflections)
        /\ reflections' = Append(reflections, row)
        /\ DOMAIN reflections = 1 .. m /\ DOMAIN reflections' = 1 .. m + 1
        /\ reflections'[m + 1] = row
        /\ \A i \in 1 .. m : reflections'[i] = reflections[i]
        /\ reflections' \in Seq(Written)
        /\ row.run = Len(runs)
        /\ IF row.row = "confirmation" THEN Preceded(reflections, runs, row.id, answer.time)
           ELSE Made(row.id) => row.id[2] = m + 1
        /\ rows' = Tail(rows) /\ Tail(rows) \in Seq(Written)
        /\ Len(rows) \in Nat \ {0} /\ Len(rows') = Len(rows) - 1
        /\ \A i \in DOMAIN rows' : \E k \in DOMAIN rows : rows'[i] = rows[k]
        /\ UNCHANGED <<answer, runs, pc, faults, ledger>> /\ pc = "append"
  BY RowPersisted
<1>2. Reflecting'
  BY <1>1 DEF Reflecting
<1>3. \A i \in 1 .. m + 1 : i \in 1 .. m \/ i = m + 1
  BY <1>1
<1>4. /\ Len(runs) \in DOMAIN runs /\ runs[Len(runs)].time = answer.time
  <2>1. runs # << >> /\ runs[Len(runs)].time = answer.time
    BY <1>1 DEF Filing
  <2>2. runs \in Seq(Range(runs))
    <3>1. PICK S : runs \in Seq(S)
      BY DEF Reflecting, IsLog
    <3> QED BY <3>1 DEF Range
  <2> QED
    BY <2>1, <2>2
<1>5. /\ \A id, u : Preceded(reflections, runs, id, u) => Preceded(reflections', runs', id, u)
      /\ \A i \in DOMAIN reflections : runs'[reflections'[i].run] = runs[reflections[i].run]
  <2>1. \A i \in DOMAIN reflections : i \in DOMAIN reflections' /\ reflections'[i] = reflections[i]
    BY <1>1
  <2>2. \A j \in DOMAIN runs : j \in DOMAIN runs' /\ runs'[j] = runs[j]
    BY <1>1
  <2> QED
    BY <2>1, <2>2, PrecededStays
<1>6. \A i \in DOMAIN answer'.about : Preceded(reflections', runs', answer'.about[i].id, answer'.time)
  <2> SUFFICES ASSUME NEW i \in DOMAIN answer.about
               PROVE  Preceded(reflections', runs', answer.about[i].id, answer.time)
    BY <1>1
  <2>1. PICK id, u : id = answer.about[i].id /\ u = answer.time
    OBVIOUS
  <2>2. Preceded(reflections', runs', id, u)
    BY <1>5, <2>1 DEF Timed
  <2> QED
    BY <1>1, <2>1, <2>2
<1>7. \A i \in DOMAIN rows' :
        IF rows'[i].row = "confirmation" THEN Preceded(reflections', runs', rows'[i].id, answer'.time)
        ELSE ~Made(rows'[i].id)
  <2> SUFFICES ASSUME NEW i \in DOMAIN rows'
               PROVE  IF rows'[i].row = "confirmation" THEN Preceded(reflections', runs', rows'[i].id, answer'.time)
                      ELSE ~Made(rows'[i].id)
    OBVIOUS
  <2>1. PICK k \in DOMAIN rows : rows'[i] = rows[k]
    BY <1>1
  <2>2. PICK id, u, r : id = rows[k].id /\ u = answer.time /\ r = rows[k]
    OBVIOUS
  <2>3. IF r.row = "confirmation" THEN Preceded(reflections', runs', id, u) ELSE ~Made(id)
    BY <1>5, <2>2 DEF Timed
  <2>4. rows'[i] = r /\ r.id = id /\ answer'.time = u
    BY <1>1, <2>1, <2>2
  <2> QED
    BY <2>3, <2>4
<1>8. \A i \in DOMAIN reflections' :
        IF reflections'[i].row = "confirmation"
        THEN Preceded(reflections', runs', reflections'[i].id, runs'[reflections'[i].run].time)
        ELSE Made(reflections'[i].id) => reflections'[i].id[2] = i
  <2> SUFFICES ASSUME NEW i \in DOMAIN reflections'
               PROVE  IF reflections'[i].row = "confirmation"
                      THEN Preceded(reflections', runs', reflections'[i].id, runs'[reflections'[i].run].time)
                      ELSE Made(reflections'[i].id) => reflections'[i].id[2] = i
    OBVIOUS
  <2>1. CASE i \in 1 .. m
    <3>1. PICK id, u, r : id = reflections[i].id /\ u = runs[reflections[i].run].time
                          /\ r = reflections[i]
      OBVIOUS
    <3>2. IF r.row = "confirmation" THEN Preceded(reflections', runs', id, u) ELSE Made(id) => id[2] = i
      BY <1>1, <1>5, <2>1, <3>1 DEF Timed
    <3>3. runs'[reflections'[i].run].time = u /\ reflections'[i] = r /\ r.id = id
      BY <1>1, <1>5, <2>1, <3>1
    <3> QED
      BY <3>2, <3>3
  <2>2. CASE i = m + 1
    <3>1. reflections'[i] = row /\ runs'[row.run].time = answer.time
      BY <1>1, <1>4, <2>2
    <3>2. PICK id, u : id = row.id /\ u = answer.time
      OBVIOUS
    <3>3. IF row.row = "confirmation" THEN Preceded(reflections', runs', id, u) ELSE Made(id) => id[2] = i
      BY <1>1, <1>5, <2>2, <3>2
    <3> QED
      BY <3>1, <3>2, <3>3
  <2> QED
    BY <1>1, <1>3, <2>1, <2>2
<1>9. Timed'
  BY <1>6, <1>7, <1>8 DEF Timed
<1>10. Filing'
  <2>1. \A j \in DOMAIN runs' : Filed(j)'
    <3>1. \A j \in DOMAIN runs : Filed(j)
      BY DEF Filing
    <3> QED
      BY <1>1, <3>1 DEF Filed
  <2>2. FiledOnce'
    BY <1>1 DEF Filing, FiledOnce
  <2>3. \A i \in DOMAIN reflections' : reflections'[i].run \in DOMAIN runs'
    <3>1. \A i \in 1 .. m : reflections'[i].run \in DOMAIN runs'
      BY <1>1 DEF Filing
    <3>2. reflections'[m + 1].run \in DOMAIN runs'
      BY <1>1, <1>4
    <3> QED
      BY <1>1, <1>3, <3>1, <3>2
  <2>4. \A i \in DOMAIN rows' : rows'[i].run = Len(runs')
    BY <1>1 DEF Filing
  <2> QED
    BY <1>1, <2>1, <2>2, <2>3, <2>4 DEF Filing
<1> QED
  BY <1>2, <1>9, <1>10

LEMMA ReflectingStep ==
  Market /\ Ledger /\ Telling /\ Reflecting /\ Timed /\ Filing /\ [Next]_vars
    => Reflecting' /\ Timed' /\ Filing'
<1> SUFFICES ASSUME Market, Ledger, Telling, Reflecting, Timed, Filing, [Next]_vars
             PROVE  Reflecting' /\ Timed' /\ Filing'
  OBVIOUS
<1>1. CASE PersistRun
  BY <1>1, FiledPersistRun
<1>2. CASE PersistRow
  BY <1>2, FiledPersistRow
<1>3. CASE \E a \in World[world].answers : Reflect(a)
  <2>1. /\ answer' \in [time : Nat, tick : Nat, new : Seq(Candidate), about : Seq(Judged)]
        /\ answer.time \in Nat /\ answer.time < answer'.time
        /\ \A i \in DOMAIN answer'.about : Preceded(reflections, runs, answer'.about[i].id, answer'.time)
        /\ UNCHANGED <<runs, reflections, rows, ledger, pc, faults>> /\ pc = "idle"
    BY <1>3, ReflectAnswers
  <2>2. answer'.time \in Nat
    BY <2>1
  <2>3. Reflecting' /\ DOMAIN rows' = {}
    BY <2>1 DEF Reflecting
  <2>4. \A id, u : Preceded(reflections', runs', id, u) <=> Preceded(reflections, runs, id, u)
    BY <2>1 DEF Preceded
  <2>5. \A i \in DOMAIN answer'.about : Preceded(reflections', runs', answer'.about[i].id, answer'.time)
    <3> SUFFICES ASSUME NEW i \in DOMAIN answer'.about
                 PROVE  Preceded(reflections', runs', answer'.about[i].id, answer'.time)
      OBVIOUS
    <3>1. PICK id, u : id = answer'.about[i].id /\ u = answer'.time
      OBVIOUS
    <3>2. Preceded(reflections', runs', id, u)
      BY <2>1, <2>4, <3>1
    <3> QED
      BY <3>1, <3>2
  <2>6. \A i \in DOMAIN reflections' :
          IF reflections'[i].row = "confirmation"
          THEN Preceded(reflections', runs', reflections'[i].id, runs'[reflections'[i].run].time)
          ELSE Made(reflections'[i].id) => reflections'[i].id[2] = i
    BY <2>1 DEF Timed, Preceded
  <2>7. Timed'
    BY <2>3, <2>5, <2>6 DEF Timed
  <2>8. \A j \in DOMAIN runs' : Filed(j)'
    <3> SUFFICES ASSUME NEW j \in DOMAIN runs PROVE Filed(j)'
      BY <2>1
    <3>1. Filed(j) /\ runs' = runs /\ ledger' = ledger
      BY <2>1 DEF Filing
    <3>2. runs[j].time \in Nat /\ runs[j].time <= answer.time
      BY <3>1 DEF Filed
    <3>3. runs[j].time <= answer'.time /\ runs[j].time # answer'.time
      BY <2>1, <2>2, <3>2
    <3> QED
      BY <3>1, <3>3 DEF Filed
  <2>9. FiledOnce'
    BY <2>1 DEF Filing, FiledOnce
  <2> QED
    BY <2>1, <2>3, <2>7, <2>8, <2>9 DEF Filing
<1>4. CASE ~PersistRun /\ ~PersistRow /\ ~\E a \in World[world].answers : Reflect(a)
  <2>1. /\ UNCHANGED <<answer, runs, reflections>>
        /\ rows' = rows \/ rows' = << >>
        /\ pc' # "append" => rows' = << >>
        /\ pc' = "append" => pc = "append" /\ rows' = rows
    BY <1>4, ReflectionUntouched
  <2>2. rows' \in Seq(Written) /\ \A k \in DOMAIN rows' : rows' = rows
    <3>1. CASE rows' = rows
      BY <3>1 DEF Reflecting
    <3>2. CASE rows' = << >>
      BY <3>2
    <3> QED
      BY <2>1, <3>1, <3>2
  <2>3. Reflecting'
    BY <2>1, <2>2 DEF Reflecting
  <2>4. Timed'
    BY <2>1, <2>2 DEF Timed, Preceded
  <2>5. \A j \in DOMAIN runs' : Filed(j)'
    <3> SUFFICES ASSUME NEW j \in DOMAIN runs PROVE Filed(j)'
      BY <2>1
    <3>1. Filed(j)
      BY DEF Filing
    <3>2. runs[j].by = "ledger" =>
            runs[j].tick = 0 \/ \E k \in DOMAIN ledger' : runs[j].tick <= ledger'[k].tick
      BY <3>1, LedgerKept DEF Filed
    <3> QED
      BY <2>1, <3>1, <3>2 DEF Filed
  <2>6. FiledOnce'
    BY <2>1 DEF Filing, FiledOnce
  <2> QED
    BY <2>1, <2>2, <2>3, <2>4, <2>5, <2>6 DEF Filing
<1> QED
  BY <1>1, <1>2, <1>3, <1>4

(* The runs that lack some of their rows.                                   *)
Short == {n \in DOMAIN runs : Cardinality(Kept(n)) < runs[n].n}
InProgress == IF pc = "append" THEN {Len(runs)} ELSE {}

(* What a run lacks is still to be appended, or was lost to a kill.         *)
Whole ==
  /\ \A n \in DOMAIN runs : Cardinality(Kept(n)) <= runs[n].n
  /\ pc = "append" => Cardinality(Kept(Len(runs))) + Len(rows) = runs[Len(runs)].n
  /\ Cardinality(Short \ InProgress) <= faults

LEMMA KeptIsFinite ==
  ASSUME Reflecting, NEW n
  PROVE  IsFiniteSet(Kept(n)) /\ Cardinality(Kept(n)) \in Nat
<1>1. IsLog(reflections)
  BY DEF Reflecting, IsLog
<1>2. PICK K : K = Kept(n)
  OBVIOUS
<1>3. K \subseteq DOMAIN reflections
  BY <1>2 DEF Kept
<1>4. IsFiniteSet(K)
  BY <1>1, <1>3, MaxPlace
<1>5. Cardinality(K) \in Nat
  BY <1>4, FS_CardinalityType
<1> QED
  BY <1>2, <1>4, <1>5

LEMMA ShortIsFinite ==
  ASSUME Reflecting
  PROVE  IsFiniteSet(Short)
<1>1. PICK K : K = Short
  OBVIOUS
<1>2. K \subseteq DOMAIN runs /\ IsLog(runs)
  BY <1>1 DEF Short, Reflecting
<1>3. IsFiniteSet(K)
  BY <1>2, MaxPlace
<1> QED
  BY <1>1, <1>3

LEMMA WholeInit == Init => Whole
<1> SUFFICES ASSUME Init PROVE Whole
  OBVIOUS
<1>1. DOMAIN runs = {} /\ pc = "idle" /\ faults = 0
  BY DEF Init
<1>2. Short \ InProgress = {}
  BY <1>1 DEF Short
<1>3. Cardinality(Short \ InProgress) = 0
  BY <1>2, FS_EmptySet
<1> QED
  BY <1>1, <1>3 DEF Whole

(* A new run has no rows yet.                                               *)
LEMMA WholePersistRun ==
  ASSUME Market, Ledger, Reflecting, Filing, Whole, PersistRun
  PROVE  Whole'
<1>1. PICK given, run, m :
        /\ given \in Nat /\ m \in Nat
        /\ run = NewRun(given) /\ m = Len(runs)
        /\ FiledUnder(given) \in Nat /\ ~Persisted(FiledUnder(given))
        /\ runs' = Append(runs, run) /\ IsLog(runs') /\ rows' = RowsFor(answer, FiledUnder(given))
        /\ DOMAIN runs = 1 .. m /\ DOMAIN runs' = 1 .. m + 1 /\ Len(runs') = m + 1
        /\ runs' # << >> /\ runs'[m + 1] = run /\ \A j \in 1 .. m : runs'[j] = runs[j]
        /\ pc = "idle" /\ pc' = "append"
        /\ UNCHANGED <<answer, reflections, ledger, faults>>
  BY RunPersisted
<1>2. PICK size : size = Len(answer.new) + Len(answer.about)
  OBVIOUS
<1>3. size \in Nat /\ Len(rows') = size
  BY <1>1, <1>2, RowsOfAnswer
<1>4. run.n = size
  BY <1>1, <1>2 DEF NewRun
<1>5. \A n : Kept(n)' = Kept(n)
  BY <1>1 DEF Kept
<1>6. Kept(m + 1) = {} /\ Cardinality(Kept(m + 1)) = 0
  <2>1. \A i \in DOMAIN reflections : reflections[i].run # m + 1
    <3>1. m + 1 \notin 1 .. m
      BY <1>1
    <3> QED
      BY <1>1, <3>1 DEF Filing
  <2>2. Kept(m + 1) = {}
    BY <2>1 DEF Kept
  <2> QED
    BY <2>2, FS_EmptySet
<1>7. \A n \in 1 .. m + 1 : n \in 1 .. m \/ n = m + 1
  BY <1>1
<1>8. Short' \ InProgress' = Short \ InProgress
  <2>1. Short' \subseteq 1 .. m + 1 /\ Short \subseteq 1 .. m
    BY <1>1 DEF Short
  <2>2. InProgress' = {m + 1} /\ InProgress = {}
    BY <1>1 DEF InProgress
  <2>3. \A n \in 1 .. m : n \in Short' <=> n \in Short
    <3> SUFFICES ASSUME NEW n \in 1 .. m PROVE n \in Short' <=> n \in Short
      OBVIOUS
    <3>1. n \in DOMAIN runs /\ n \in DOMAIN runs' /\ runs'[n] = runs[n]
      BY <1>1, <1>7
    <3>2. Kept(n)' = Kept(n)
      BY <1>5
    <3> QED
      BY <3>1, <3>2 DEF Short
  <2>4. PICK A, B : A = Short' /\ B = Short
    OBVIOUS
  <2>5. A \subseteq 1 .. m + 1 /\ B \subseteq 1 .. m /\ \A n \in 1 .. m : n \in A <=> n \in B
    BY <2>1, <2>3, <2>4
  <2>6. A \ {m + 1} = B \ {}
    <3>1. m + 1 \notin 1 .. m
      BY <1>1
    <3> QED
      BY <1>7, <2>5, <3>1
  <2> QED
    BY <2>2, <2>4, <2>6
<1>9. \A n \in DOMAIN runs' : Cardinality(Kept(n)') <= runs'[n].n
  <2>1. \A n \in 1 .. m : Cardinality(Kept(n)') <= runs'[n].n
    BY <1>1, <1>5 DEF Whole
  <2>2. Cardinality(Kept(m + 1)) <= runs'[m + 1].n
    BY <1>1, <1>3, <1>4, <1>6
  <2> QED
    BY <1>1, <1>5, <1>7, <2>1, <2>2
<1>10. pc' = "append" => Cardinality(Kept(Len(runs))') + Len(rows') = runs'[Len(runs')].n
  <2>1. PICK K : K = Kept(m + 1)
    OBVIOUS
  <2>2. Cardinality(K) = 0
    BY <1>6, <2>1
  <2>3. Kept(Len(runs))' = K
    BY <1>1, <2>1 DEF Kept
  <2>4. Cardinality(K) + size = size
    BY <1>3, <2>2
  <2> QED
    BY <1>1, <1>3, <1>4, <2>3, <2>4
<1>11. Cardinality(Short' \ InProgress') <= faults'
  BY <1>1, <1>8 DEF Whole
<1> QED
  BY <1>9, <1>10, <1>11 DEF Whole

(* A reflection more is a row less to append.                               *)
LEMMA WholePersistRow ==
  ASSUME Reflecting, Timed, Filing, Whole, PersistRow
  PROVE  Whole'
<1>1. PICK row \in Written, m \in Nat :
        /\ row = Named(Head(rows)) /\ m = Len(reflections)
        /\ reflections' = Append(reflections, row)
        /\ DOMAIN reflections = 1 .. m /\ DOMAIN reflections' = 1 .. m + 1
        /\ reflections'[m + 1] = row
        /\ \A i \in 1 .. m : reflections'[i] = reflections[i]
        /\ row.run = Len(runs)
        /\ Len(rows) \in Nat \ {0} /\ Len(rows') = Len(rows) - 1
        /\ UNCHANGED <<answer, runs, pc, faults, ledger>> /\ pc = "append"
  BY RowPersisted
<1>2. PICK t : t = Len(runs)
  OBVIOUS
<1>3. DOMAIN runs = 1 .. t /\ t \in DOMAIN runs /\ t \in Nat /\ runs[t].n \in Nat
  <2>1. runs # << >>
    BY <1>1 DEF Filing
  <2>2. t \in Nat /\ DOMAIN runs = 1 .. t
    BY <1>2, RunsLocated
  <2>3. t # 0
    <3>1. PICK S : runs \in Seq(S)
      BY DEF Reflecting, IsLog
    <3> QED
      BY <1>2, <2>1, <3>1
  <2>4. t \in DOMAIN runs
    BY <2>2, <2>3
  <2> QED
    BY <2>2, <2>4 DEF Filing, Filed
<1>4. Kept(t)' = Kept(t) \cup {m + 1} /\ m + 1 \notin Kept(t)
  <2>1. m + 1 \notin 1 .. m /\ m + 1 \in 1 .. m + 1 /\ \A i \in 1 .. m + 1 : i \in 1 .. m \/ i = m + 1
    BY <1>1
  <2>2. Kept(t)' = {i \in DOMAIN reflections' : reflections'[i].run = t}
    BY DEF Kept
  <2> QED
    BY <1>1, <1>2, <2>1, <2>2 DEF Kept
<1>5. ASSUME NEW n \in DOMAIN runs, n # t PROVE Kept(n)' = Kept(n)
  <2>1. m + 1 \notin 1 .. m /\ m + 1 \in 1 .. m + 1 /\ \A i \in 1 .. m + 1 : i \in 1 .. m \/ i = m + 1
    BY <1>1
  <2>2. Kept(n)' = {i \in DOMAIN reflections' : reflections'[i].run = n}
    BY DEF Kept
  <2> QED
    BY <1>1, <1>2, <1>5, <2>1, <2>2 DEF Kept
<1>6. PICK K, L : K = Kept(t) /\ L = Kept(t)'
  OBVIOUS
<1>7. Cardinality(K) \in Nat /\ Cardinality(L) = Cardinality(K) + 1
  <2>1. IsFiniteSet(K) /\ Cardinality(K) \in Nat
    BY <1>6, KeptIsFinite
  <2>2. L = K \cup {m + 1} /\ m + 1 \notin K
    BY <1>4, <1>6
  <2> QED
    BY <2>1, <2>2, FS_AddElement
<1>8. Cardinality(K) + Len(rows) = runs[t].n
  BY <1>1, <1>2, <1>6 DEF Whole
<1>9. Cardinality(L) + Len(rows') = runs[t].n /\ Cardinality(L) <= runs[t].n
  BY <1>1, <1>3, <1>7, <1>8
<1>10. Short' \ InProgress' = Short \ InProgress
  <2>1. InProgress' = {t} /\ InProgress = {t}
    BY <1>1, <1>2 DEF InProgress
  <2>2. Short' = {n \in DOMAIN runs : Cardinality(Kept(n)') < runs[n].n}
    BY <1>1 DEF Short
  <2>3. Short = {n \in DOMAIN runs : Cardinality(Kept(n)) < runs[n].n}
    BY DEF Short
  <2>4. \A n \in DOMAIN runs : n # t => (n \in Short' <=> n \in Short)
    BY <1>5, <2>2, <2>3
  <2> QED
    BY <2>1, <2>2, <2>3, <2>4
<1>11. \A n \in DOMAIN runs' : Cardinality(Kept(n)') <= runs'[n].n
  <2>1. \A n \in DOMAIN runs : n # t => Cardinality(Kept(n)') <= runs[n].n
    BY <1>5 DEF Whole
  <2> QED
    BY <1>1, <1>6, <1>9, <2>1
<1>12. Kept(Len(runs))' = L
  BY <1>1, <1>2, <1>6 DEF Kept
<1>13. Cardinality(Short' \ InProgress') <= faults'
  BY <1>1, <1>10 DEF Whole
<1> QED
  BY <1>1, <1>2, <1>9, <1>11, <1>12, <1>13 DEF Whole

(* A run that ends has all its rows, one that is killed counts.             *)
LEMMA WholeEnd ==
  ASSUME Market, Reflecting, Filing, Whole, UNCHANGED <<runs, reflections>>,
         pc = "append", pc' # "append", (rows = << >> /\ faults' = faults) \/ faults' = faults + 1
  PROVE  Whole'
<1>1. PICK t : t = Len(runs)
  OBVIOUS
<1>2. IsFiniteSet(Short) /\ faults \in Nat
  BY ShortIsFinite DEF Market
<1>3. InProgress = {t} /\ InProgress' = {} /\ Short' = Short
  BY <1>1 DEF InProgress, Short, Kept
<1>4. PICK A, B : A = Short /\ B = Short \ {t}
  OBVIOUS
<1>5. IsFiniteSet(A) /\ IsFiniteSet(B)
  <2>1. IsFiniteSet(A)
    BY <1>2, <1>4
  <2> QED
    BY <1>4, <2>1, FS_RemoveElement
<1>6. Cardinality(B) \in Nat /\ Cardinality(A) \in Nat /\ Cardinality(B) <= faults
  <2>1. Cardinality(B) <= faults
    BY <1>3, <1>4 DEF Whole
  <2> QED
    BY <1>5, <2>1, FS_CardinalityType
<1>7. Cardinality(A) <= faults'
  <2>1. CASE rows = << >> /\ faults' = faults
    <3>1. PICK K : K = Kept(t)
      OBVIOUS
    <3>2. Cardinality(K) \in Nat /\ Cardinality(K) + Len(rows) = runs[t].n /\ Len(rows) = 0
      BY <1>1, <2>1, <3>1, KeptIsFinite DEF Whole
    <3>3. ~(Cardinality(K) < runs[t].n)
      BY <3>2
    <3>4. t \notin A
      BY <1>4, <3>1, <3>3 DEF Short
    <3>5. A = B
      BY <1>4, <3>4
    <3> QED
      BY <1>6, <2>1, <3>5
  <2>2. CASE faults' = faults + 1
    <3>1. A = B \/ (A = B \cup {t} /\ t \notin B)
      BY <1>4
    <3>2. Cardinality(A) <= Cardinality(B) + 1
      <4>1. CASE A = B
        BY <1>6, <4>1
      <4>2. CASE A = B \cup {t} /\ t \notin B
        <5>1. Cardinality(B \cup {t}) = Cardinality(B) + 1
          BY <1>5, <4>2, FS_AddElement
        <5> QED
          BY <1>6, <4>2, <5>1
      <4> QED
        BY <3>1, <4>1, <4>2
    <3> QED
      BY <1>2, <1>6, <2>2, <3>2
  <2> QED
    BY <2>1, <2>2
<1>8. Cardinality(Short' \ InProgress') <= faults'
  <2>1. Short' \ InProgress' = A
    BY <1>3, <1>4
  <2> QED
    BY <1>7, <2>1
<1> QED
  BY <1>8 DEF Whole, Kept

LEMMA WholeStep ==
  Market /\ Ledger /\ Telling /\ Reflecting /\ Timed /\ Filing /\ Whole /\ [Next]_vars => Whole'
<1> SUFFICES ASSUME Market, Ledger, Telling, Reflecting, Timed, Filing, Whole, [Next]_vars
             PROVE  Whole'
  OBVIOUS
<1>1. CASE PersistRun
  BY <1>1, WholePersistRun
<1>2. CASE PersistRow
  BY <1>2, WholePersistRow
<1>3. ASSUME UNCHANGED <<runs, reflections>>, pc # "append", pc' # "append",
             faults' = faults \/ faults' = faults + 1
      PROVE  Whole'
  <2>1. Short' = Short /\ InProgress' = {} /\ InProgress = {}
    BY <1>3 DEF Short, Kept, InProgress
  <2>2. faults \in Nat /\ IsFiniteSet(Short)
    BY ShortIsFinite DEF Market
  <2>3. PICK A : A = Short
    OBVIOUS
  <2>4. Cardinality(A) \in Nat
    BY <2>2, <2>3, FS_CardinalityType
  <2>5. A = Short \ InProgress /\ A = Short' \ InProgress'
    BY <2>1, <2>3
  <2>6. Cardinality(A) <= faults
    BY <2>5 DEF Whole
  <2>7. Cardinality(Short' \ InProgress') <= faults'
    BY <1>3, <2>2, <2>4, <2>5, <2>6
  <2> QED
    BY <1>3, <2>7 DEF Whole, Kept
<1>4. CASE \E a \in World[world].answers : Reflect(a)
  <2>1. UNCHANGED <<runs, reflections, pc, faults>> /\ pc = "idle"
    BY <1>4, ReflectAnswers
  <2> QED
    BY <1>3, <2>1
<1>5. CASE ~PersistRun /\ ~PersistRow /\ ~\E a \in World[world].answers : Reflect(a)
  <2>1. /\ UNCHANGED <<answer, runs, reflections>>
        /\ pc' = "append" => pc = "append" /\ rows' = rows /\ faults' = faults
        /\ faults' = faults \/ faults' = faults + 1
        /\ pc = "append" /\ pc' # "append" => (rows = << >> /\ faults' = faults) \/ faults' = faults + 1
    BY <1>5, ReflectionUntouched
  <2>2. CASE pc' = "append"
    <3>1. UNCHANGED <<runs, reflections, pc, rows, faults>>
      BY <2>1, <2>2
    <3>2. Short' = Short /\ InProgress' = InProgress
      BY <3>1 DEF Short, Kept, InProgress
    <3> QED
      BY <3>1, <3>2 DEF Whole, Kept
  <2>3. CASE pc' # "append" /\ pc = "append"
    BY <2>1, <2>3, WholeEnd
  <2>4. CASE pc' # "append" /\ pc # "append"
    BY <1>3, <2>1, <2>4
  <2> QED
    BY <2>2, <2>3, <2>4
<1> QED
  BY <1>1, <1>2, <1>4, <1>5

(* A rule that is called validated was called so, or held up, in a row      *)
(* after its own, of a later answer where the two can be told apart.        *)
LEMMA StatusEarned ==
  ASSUME Reflecting, Timed, NEW id \in Aggregate(reflections).validated
  PROVE  \E p, c \in DOMAIN reflections :
           /\ reflections[p].row = "new_candidate" /\ reflections[p].id = id
           /\ reflections[c].row = "confirmation" /\ reflections[c].id = id /\ p < c
           /\ reflections[c].suggestion = "validated" \/ reflections[c].kind = "confirming"
           /\ Made(id) => runs[reflections[p].run].time < runs[reflections[c].run].time
<1>1. Status(reflections, id) = "validated" /\ id \in Rules(reflections)
  BY DEF Aggregate, WithStatus
<1>2. \/ Called(reflections, id) = "validated"
      \/ Forward(reflections, id)
  BY <1>1 DEF Status
<1>3. IsLog(reflections) /\ DOMAIN reflections \subseteq Nat
  <2>1. IsLog(reflections)
    BY DEF Reflecting, IsLog
  <2> QED
    BY <2>1, LogGrows
<1>4. PICK p \in DOMAIN reflections :
        p = Genesis(reflections, id) /\ reflections[p].row = "new_candidate" /\ reflections[p].id = id
  <2>1. PICK P : P = Proposals(reflections, id)
    OBVIOUS
  <2>2. P \subseteq DOMAIN reflections /\ P # {}
    BY <1>1, <2>1 DEF Proposals, Rules
  <2>3. Min(P) \in P
    BY <1>3, <2>2, MinPlace
  <2> QED
    BY <2>1, <2>2, <2>3 DEF Genesis, Proposals
<1>5. PICK c \in DOMAIN reflections :
        /\ reflections[c].row = "confirmation" /\ reflections[c].id = id /\ c > Genesis(reflections, id)
        /\ reflections[c].suggestion = "validated" \/ reflections[c].kind = "confirming"
  <2>1. CASE Called(reflections, id) = "validated"
    <3> DEFINE calls == {i \in About(reflections, id, {"confirming", "disconfirming"}) :
                           reflections[i].suggestion # "none"}
    <3>1. calls # {} /\ reflections[Max(calls)].suggestion = "validated"
      BY <2>1 DEF Called
    <3>2. /\ calls \subseteq DOMAIN reflections
          /\ \A i \in calls : /\ reflections[i].row = "confirmation" /\ reflections[i].id = id
                              /\ i > Genesis(reflections, id)
      BY DEF About
    <3> HIDE DEF calls
    <3>3. Max(calls) \in calls
      BY <1>3, <3>1, <3>2, MaxPlace
    <3> QED
      BY <3>1, <3>2, <3>3
  <2>2. CASE Forward(reflections, id)
    BY <2>2 DEF Forward, About
  <2> QED
    BY <1>2, <2>1, <2>2
<1>6. p < c
  BY <1>3, <1>4, <1>5
<1>7. ASSUME Made(id) PROVE runs[reflections[p].run].time < runs[reflections[c].run].time
  <2>1. id[2] = p
    BY <1>4, <1>7 DEF Timed
  <2>2. Preceded(reflections, runs, id, runs[reflections[c].run].time)
    BY <1>5 DEF Timed
  <2> QED
    BY <1>7, <2>1, <2>2 DEF Preceded
<1> QED
  BY <1>4, <1>5, <1>6, <1>7

LEMMA ValidatedStep ==
  /\ Market /\ Ledger /\ Reflecting /\ Timed /\ Filing /\ RulesOfFile
  /\ ValidatedEarned /\ [Next]_vars
  => ValidatedEarned'
<1> SUFFICES ASSUME Market, Ledger, Reflecting, Timed, Filing, RulesOfFile, ValidatedEarned,
                    [Next]_vars
             PROVE  ValidatedEarned'
  OBVIOUS
<1>1. CASE UNCHANGED vars
  BY <1>1 DEF ValidatedEarned, vars, answerVars
<1>2. CASE Next
  <2>1. /\ \A i \in DOMAIN reflections : i \in DOMAIN reflections' /\ reflections'[i] = reflections[i]
        /\ \A j \in DOMAIN runs : j \in DOMAIN runs' /\ runs'[j] = runs[j]
    <3>1. CASE PersistRun
      <4>1. PICK given, run, m :
              /\ given \in Nat /\ m \in Nat
              /\ DOMAIN runs = 1 .. m /\ DOMAIN runs' = 1 .. m + 1
              /\ \A j \in 1 .. m : runs'[j] = runs[j]
              /\ UNCHANGED <<answer, reflections, ledger, faults>>
        BY <3>1, RunPersisted
      <4> QED
        BY <4>1
    <3>2. CASE PersistRow
      <4>1. PICK row \in Written, m \in Nat :
              /\ DOMAIN reflections = 1 .. m /\ DOMAIN reflections' = 1 .. m + 1
              /\ \A i \in 1 .. m : reflections'[i] = reflections[i]
              /\ UNCHANGED <<answer, runs, pc, faults, ledger>>
        BY <3>2, RowPersisted
      <4> QED
        BY <4>1
    <3>3. CASE \E a \in World[world].answers : Reflect(a)
      BY <3>3 DEF Reflect
    <3>4. CASE ~PersistRun /\ ~PersistRow /\ ~\E a \in World[world].answers : Reflect(a)
      BY <3>4, ReflectionUntouched
    <3> QED
      BY <3>1, <3>2, <3>3, <3>4
  <2>2. \A i \in DOMAIN reflections : runs'[reflections'[i].run] = runs[reflections[i].run]
    BY <2>1 DEF Filing
  <2>3. ASSUME NEW id,
               \E p, c \in DOMAIN reflections :
                 /\ reflections[p].row = "new_candidate" /\ reflections[p].id = id
                 /\ reflections[c].row = "confirmation" /\ reflections[c].id = id /\ p < c
                 /\ reflections[c].suggestion = "validated" \/ reflections[c].kind = "confirming"
                 /\ Made(id) => runs[reflections[p].run].time < runs[reflections[c].run].time
        PROVE  \E p, c \in DOMAIN reflections' :
                 /\ reflections'[p].row = "new_candidate" /\ reflections'[p].id = id
                 /\ reflections'[c].row = "confirmation" /\ reflections'[c].id = id /\ p < c
                 /\ reflections'[c].suggestion = "validated" \/ reflections'[c].kind = "confirming"
                 /\ Made(id) => runs'[reflections'[p].run].time < runs'[reflections'[c].run].time
    <3>1. PICK p \in DOMAIN reflections, c \in DOMAIN reflections :
            /\ reflections[p].row = "new_candidate" /\ reflections[p].id = id
            /\ reflections[c].row = "confirmation" /\ reflections[c].id = id /\ p < c
            /\ reflections[c].suggestion = "validated" \/ reflections[c].kind = "confirming"
            /\ Made(id) => runs[reflections[p].run].time < runs[reflections[c].run].time
      BY <2>3
    <3>2. /\ p \in DOMAIN reflections' /\ c \in DOMAIN reflections'
          /\ reflections'[p] = reflections[p] /\ reflections'[c] = reflections[c]
          /\ runs'[reflections'[p].run] = runs[reflections[p].run]
          /\ runs'[reflections'[c].run] = runs[reflections[c].run]
      BY <2>1, <2>2
    <3> QED
      BY <3>1, <3>2
  <2>4. CASE lessons'.body = lessons.body
    BY <2>3, <2>4 DEF ValidatedEarned
  <2>5. CASE lessons'.body = Aggregate(reflections) /\ reflections' = reflections
    BY <2>3, <2>5, StatusEarned DEF ValidatedEarned
  <2> QED
    BY <1>2, <2>4, <2>5, BodyStep
<1> QED
  BY <1>1, <1>2

(* An answer of the Reflector that names its tick is filed once, however    *)
(* often it is presented, and one that does not once for each tick the      *)
(* ledger ends with, unless a caller gives ticks of his own; a run has its  *)
(* rows unless it was killed; and a rule called validated was called so, or *)
(* held up, after it was proposed, by a later answer where the rule was     *)
(* named as it was persisted: the run guard and the row order of            *)
(* persist_reflector_output, and the precedence of _aggregate_reflections.  *)
THEOREM RulesStayEarned == Spec => []RulesAreEarned
<1>1. Init => ValidatedEarned
  BY DEF Init, ValidatedEarned, Nothing
<1>2. Filing /\ Whole /\ ValidatedEarned => RulesAreEarned
  <2> SUFFICES ASSUME Filing, Whole, ValidatedEarned PROVE RulesAreEarned
    OBVIOUS
  <2>1. RunsAreWhole
    BY DEF RunsAreWhole, Whole, Short, InProgress
  <2> QED
    BY <2>1 DEF RulesAreEarned, Filing
<1> QED
  BY MarketInit, LedgerInit, TellingInit, ReflectingInit, WholeInit, RulesOfFileInit,
     MarketStep, LedgerStep, TellingStep, ReflectingStep, WholeStep, RulesOfFileStep,
     ValidatedStep, <1>1, <1>2, PTL DEF Spec
-----------------------------------------------------------------------------
(* Types, and the ledger. *)

AuditCount == DOMAIN lessons = Fields /\ lessons.audited \in Nat

LEMMA AuditCountStep == Calibrated /\ AuditCount /\ [Next]_vars => AuditCount'
<1> SUFFICES ASSUME Calibrated, AuditCount, [Next]_vars PROVE AuditCount'
  OBVIOUS
<1>1. CASE \E o \in World[world].outcomes : ScoreClose(o)
  <2>1. PICK o \in World[world].outcomes : ScoreClose(o)
    BY <1>1
  <2>2. PICK k : k = BucketOf(o.spread)
    OBVIOUS
  <2>3. lessons' = [lessons EXCEPT !.audited = @ + 1, !.stats[k] = [n |-> @.n + 1, sum |-> @.sum + o.pct]]
    BY <2>1, <2>2 DEF ScoreClose
  <2> QED
    BY <2>3 DEF AuditCount, Fields
<1>2. CASE CalibrateStop \/ CalibratePenalties
  <2>1. PICK c : lessons' = [lessons EXCEPT !.calibration = c]
    BY <1>2 DEF CalibrateStop, CalibratePenalties
  <2> QED
    BY <2>1 DEF AuditCount, Fields
<1>3. CASE RefreshCounters
  <2>1. PICK sizes : sizes = Sizes(Aggregate(reflections))
    OBVIOUS
  <2>2. Len(audits) \in Nat
    BY DEF Calibrated
  <2>3. \/ lessons' = lessons
        \/ lessons' = [lessons EXCEPT !.counts = sizes,
                                      !.audited = IF audits = << >> THEN @ ELSE Len(audits)]
    BY <1>3, <2>1 DEF RefreshCounters, Refreshed
  <2> QED
    BY <2>2, <2>3 DEF AuditCount, Fields
<1>4. CASE RefreshBody
  <2>1. PICK a : a = Aggregate(reflections)
    OBVIOUS
  <2>2. lessons' = lessons \/ lessons' = [lessons EXCEPT !.body = a]
    BY <1>4, <2>1 DEF RefreshBody
  <2> QED
    BY <2>2 DEF AuditCount, Fields
<1>5. CASE StartPhase6 \/ Stage \/ WritePayload \/ PersistRun \/ Crash \/ LogClose \/ PersistRow
  BY <1>5
  DEF StartPhase6, Stage, WritePayload, PersistRun, Crash, LogClose, PersistRow, AuditCount
<1>6. CASE \/ \E q \in Offered : Trade(q)
           \/ \E s \in Symbol : CloseOut(s)
           \/ \E s \in Symbol : SnapshotRow(s)
           \/ \E a \in World[world].answers : Reflect(a)
           \/ UNCHANGED vars
  <2>1. CASE \E q \in Offered : Trade(q)
    BY <2>1 DEF Trade, AuditCount
  <2>2. CASE \E s \in Symbol : CloseOut(s)
    BY <2>2 DEF CloseOut, AuditCount
  <2>3. CASE \E s \in Symbol : SnapshotRow(s)
    BY <2>3 DEF SnapshotRow, AuditCount
  <2>4. CASE \E a \in World[world].answers : Reflect(a)
    BY <2>4 DEF Reflect, AuditCount
  <2>5. CASE UNCHANGED vars
    BY <2>5 DEF vars, AuditCount
  <2> QED
    BY <1>6, <2>1, <2>2, <2>3, <2>4, <2>5
<1> QED
  BY <1>1, <1>2, <1>3, <1>4, <1>5, <1>6 DEF Next

(* A run of Phase 6 has a tick of its own and its rows together, no tick is *)
(* staged twice, and no price in the ledger jumps: snapshot_tick with its   *)
(* price guard and its idempotence, wherever a run was killed.  The         *)
(* universe is what the scouts hand over, never empty: a run that records   *)
(* nothing would have the tick of the run before.                           *)
THEOREM LedgerStaysSound ==
  ASSUME UniverseIsNeverEmpty
  PROVE  Spec => []LedgerIsSound
<1>1. Init => AuditCount
  BY DEF Init, AuditCount, Fields
<1>2. Market /\ Ledger /\ Telling /\ Reflecting /\ Calibrated /\ AuditCount => TypeOK
  <2> SUFFICES ASSUME Market, Ledger, Telling, Reflecting, Calibrated, AuditCount PROVE TypeOK
    OBVIOUS
  <2>1. lessons.calibration.tally \in Tally
    BY DEF Calibrated, Tuned
  <2> QED
    BY <2>1 DEF Market, Ledger, Telling, Reflecting, Written, Calibrated, AuditCount,
                 TypeOK, Step
<1>3. Ledger => NoPriceJumps
  BY DEF Ledger, Unbroken, NoPriceJumps, PriceHistoryJumps
<1>4. Ledger /\ Staging => TicksAreDistinct
  BY DEF Ledger, InOrder, Staging, TicksAreDistinct
<1>5. Market /\ Ledger /\ Staging /\ Telling /\ Reflecting /\ Calibrated /\ AuditCount => LedgerIsSound
  BY <1>2, <1>3, <1>4 DEF LedgerIsSound
<1> QED
  BY MarketInit, LedgerInit, StageEntriesInit, StagingInit, TellingInit, ReflectingInit,
     CalibratedInit, MarketStep, LedgerStep, StageEntriesStep, StagingStep, TellingStep,
     ReflectingStep, CalibratedStep, AuditCountStep, <1>1, <1>5, PTL DEF Spec

-----------------------------------------------------------------------------
(* A refresh is two rewrites of lessons.md: the counters, then the body.    *)

Healing ==
  /\ reflections = << >> => lessons.body = Nothing
  /\ pc = "body" /\ Aggregable(reflections) =>
       /\ lessons.counts = Sizes(Aggregate(reflections))
       /\ audits # << >> => lessons.audited = Len(audits)

LEMMA AggregateOfNothing == Aggregate(<< >>) = Nothing
<1>1. Rules(<< >>) = {}
  BY DEF Rules
<1> QED
  BY <1>1 DEF Aggregate, WithStatus, Nothing

LEMMA BodyRefreshed ==
  ASSUME RulesOfFile, RefreshBody
  PROVE  /\ pc = "body" /\ pc' = "idle" /\ UNCHANGED <<reflections, audits, faults>>
         /\ lessons'.counts = lessons.counts /\ lessons'.audited = lessons.audited
         /\ IF Aggregable(reflections) /\ reflections # << >>
            THEN lessons'.body = Aggregate(reflections) ELSE lessons'.body = lessons.body
<1>1. PICK a : a = Aggregate(reflections)
  OBVIOUS
<1>2. /\ pc = "body" /\ pc' = "idle" /\ UNCHANGED <<reflections, audits, faults>>
      /\ lessons' = IF Aggregable(reflections) /\ reflections # << >>
                    THEN [lessons EXCEPT !.body = a] ELSE lessons
  BY <1>1 DEF RefreshBody, answerVars
<1>3. DOMAIN lessons = Fields
  BY DEF RulesOfFile
<1>4. CASE Aggregable(reflections) /\ reflections # << >>
  <2>1. lessons' = [lessons EXCEPT !.body = a]
    BY <1>2, <1>4
  <2>2. lessons'.body = a /\ lessons'.counts = lessons.counts /\ lessons'.audited = lessons.audited
    BY <1>3, <2>1 DEF Fields
  <2> QED
    BY <1>1, <1>2, <1>4, <2>2
<1>5. CASE ~(Aggregable(reflections) /\ reflections # << >>)
  <2>1. lessons' = lessons
    BY <1>2, <1>5
  <2> QED
    BY <1>2, <1>5, <2>1
<1> QED
  BY <1>4, <1>5

LEMMA CountersRefreshed ==
  ASSUME RulesOfFile, RefreshCounters, Aggregable(reflections)
  PROVE  /\ lessons'.counts = Sizes(Aggregate(reflections))
         /\ audits # << >> => lessons'.audited = Len(audits)
<1>1. PICK sizes : sizes = Sizes(Aggregate(reflections))
  OBVIOUS
<1>2. lessons' = [lessons EXCEPT !.counts = sizes,
                                 !.audited = IF audits = << >> THEN @ ELSE Len(audits)]
  BY <1>1 DEF RefreshCounters, Refreshed
<1>3. DOMAIN lessons = Fields
  BY DEF RulesOfFile
<1> QED
  BY <1>1, <1>2, <1>3 DEF Fields

LEMMA HealingStep == RulesOfFile /\ Healing /\ [Next]_vars => Healing'
<1> SUFFICES ASSUME RulesOfFile, Healing, [Next]_vars PROVE Healing'
  OBVIOUS
<1>1. CASE UNCHANGED vars
  BY <1>1 DEF Healing, vars, answerVars
<1>2. CASE Next
  <2>1. reflections' = << >> => reflections = << >>
    <3>1. PICK S : reflections \in Seq(S)
      BY DEF RulesOfFile
    <3>2. ASSUME NEW row, reflections' = Append(reflections, row) PROVE reflections' # << >>
      <4>1. IsLog(reflections)
        BY <3>1 DEF IsLog
      <4> QED
        BY <3>2, <4>1, LogGrows
    <3> QED
      BY <1>2, <3>2, ReflectionsStep
  <2>2. reflections' = << >> => lessons'.body = Nothing
    <3>1. CASE lessons'.body = lessons.body
      BY <2>1, <3>1 DEF Healing
    <3>2. CASE lessons'.body = Aggregate(reflections)
      BY <2>1, <3>2, AggregateOfNothing
    <3> QED
      BY <1>2, <3>1, <3>2, BodyStep
  <2>3. CASE RefreshCounters
    <3>1. UNCHANGED <<reflections, audits>>
      BY <2>3 DEF RefreshCounters, answerVars
    <3>2. Aggregable(reflections) => /\ lessons'.counts = Sizes(Aggregate(reflections))
                                     /\ audits # << >> => lessons'.audited = Len(audits)
      BY <2>3, CountersRefreshed
    <3> QED
      BY <2>2, <3>1, <3>2 DEF Healing
  <2>4. CASE \E s \in Symbol : CloseOut(s)
    <3>1. UNCHANGED <<pc, lessons, reflections, audits>>
      BY <2>4 DEF CloseOut, answerVars
    <3> QED
      BY <3>1 DEF Healing
  <2>5. CASE ~RefreshCounters /\ ~\E s \in Symbol : CloseOut(s)
    <3>1. pc' # "body"
      <4>1. CASE (\E o \in World[world].outcomes : ScoreClose(o)) \/ LogClose \/ CalibrateStop
                 \/ CalibratePenalties \/ StartPhase6 \/ Stage \/ WritePayload \/ PersistRun
                 \/ RefreshBody \/ Crash
        BY <4>1 DEF ScoreClose, LogClose, CalibrateStop, CalibratePenalties, StartPhase6, Stage,
                    WritePayload, PersistRun, RefreshBody, Crash
      <4>2. CASE (\E q \in Offered : Trade(q)) \/ (\E s \in Symbol : SnapshotRow(s)) \/ PersistRow
                 \/ (\E a \in World[world].answers : Reflect(a))
        BY <4>2 DEF Trade, SnapshotRow, PersistRow, Reflect
      <4> QED
        BY <1>2, <2>5, <4>1, <4>2 DEF Next
    <3> QED
      BY <2>2, <3>1 DEF Healing
  <2> QED
    BY <2>3, <2>4, <2>5
<1> QED
  BY <1>1, <1>2

(* A refresh that gets to its end leaves lessons.md in agreement with what  *)
(* it sums up, counters and rules, wherever earlier programs were killed:   *)
(* refresh_frontmatter_counters and refresh_body.                           *)
THEOREM RefreshAlwaysHeals == Spec => RefreshHeals
<1>1. Init => Healing
  BY DEF Init, Healing
<1>2. Market /\ RulesOfFile /\ Healing /\ [Next]_vars =>
        [pc = "body" /\ pc' = "idle" /\ faults' = faults /\ Aggregable(reflections) =>
           /\ lessons'.counts = Sizes(lessons'.body)
           /\ lessons'.body = Aggregate(reflections)
           /\ audits # << >> => lessons'.audited = Len(audits)]_vars
  <2> SUFFICES ASSUME Market, RulesOfFile, Healing, Next,
                      pc = "body", pc' = "idle", faults' = faults, Aggregable(reflections)
               PROVE  /\ lessons'.counts = Sizes(lessons'.body)
                      /\ lessons'.body = Aggregate(reflections)
                      /\ audits # << >> => lessons'.audited = Len(audits)
    OBVIOUS
  <2>1. RefreshBody
    <3>1. ~Crash
      <4>1. faults \in Nat
        BY DEF Market
      <4> QED
        BY <4>1 DEF Crash
    <3>2. ~PersistRow /\ ~RefreshCounters /\ ~WritePayload /\ ~Stage /\ ~PersistRun
      BY DEF PersistRow, RefreshCounters, WritePayload, Stage, PersistRun
    <3>3. /\ ~LogClose /\ ~CalibrateStop /\ ~CalibratePenalties /\ ~StartPhase6
          /\ ~\E o \in World[world].outcomes : ScoreClose(o)
      BY DEF LogClose, CalibrateStop, CalibratePenalties, StartPhase6, ScoreClose
    <3>4. /\ ~\E q \in Offered : Trade(q)
          /\ ~\E s \in Symbol : CloseOut(s)
          /\ ~\E s \in Symbol : SnapshotRow(s)
          /\ ~\E a \in World[world].answers : Reflect(a)
      BY DEF Trade, CloseOut, SnapshotRow, Reflect
    <3> QED
      BY <3>1, <3>2, <3>3, <3>4 DEF Next
  <2>2. lessons'.counts = lessons.counts /\ lessons'.audited = lessons.audited
    BY <2>1, BodyRefreshed
  <2>3. lessons'.body = Aggregate(reflections)
    <3>1. CASE reflections # << >>
      BY <2>1, <3>1, BodyRefreshed
    <3>2. CASE reflections = << >>
      BY <2>1, <3>2, BodyRefreshed, AggregateOfNothing DEF Healing
    <3> QED
      BY <3>1, <3>2
  <2>4. lessons.counts = Sizes(Aggregate(reflections)) /\ (audits # << >> => lessons.audited = Len(audits))
    BY DEF Healing
  <2> QED
    BY <2>2, <2>3, <2>4
<1> QED
  BY MarketInit, RulesOfFileInit, MarketStep, RulesOfFileStep, HealingStep, <1>1, <1>2,
     PTL DEF Spec, RefreshHeals

-----------------------------------------------------------------------------
(* Where the prices of the ledger come from. *)

(* The price of a row, if there is one, was the genuine one when it or a    *)
(* row before it was recorded, unless a wrong price was.                    *)
TracedRow(log, i) ==
  \E k \in DOMAIN log :
    /\ k <= i /\ log[k].symbol = log[i].symbol
    /\ \/ log[k].origin = "wrong"
       \/ log[k].origin = "genuine" /\ log[k].price = log[i].price

Traced == \A i \in DOMAIN ledger : ledger[i].price > 0 => TracedRow(ledger, i)

(* A price recorded in the tick of the run is right, wrong, missing, or far *)
(* from the one of the tick before.                                         *)
Believed(i) ==
  LET q == quotes[ledger[i].symbol]
  IN \/ q.feed = q.price \/ q.feed = 0 \/ ledger[i].origin = "wrong"
     \/ \A j \in Priced(ledger[i].symbol) :
          ledger[j].tick = tick - 1 => Jumps(q.feed, ledger[j].price)

(* A run records the universe.                                              *)
Covered ==
  /\ \A i \in DOMAIN ledger : ledger[i].symbol \in World[world].universe
  /\ todo \subseteq World[world].universe
  /\ pc = "snapshot" =>
       /\ \A s \in World[world].universe \ todo :
            \E i \in DOMAIN ledger : ledger[i].tick = tick /\ ledger[i].symbol = s
       /\ \A i \in DOMAIN ledger : ledger[i].tick = tick => Believed(i)

(* What a row says.                                                         *)
LEMMA SnapshotRowIs ==
  ASSUME Market, Ledger, NEW s \in Symbol, SnapshotRow(s)
  PROVE  /\ Len(ledger) \in Nat /\ DOMAIN ledger = 1 .. Len(ledger)
         /\ DOMAIN ledger' = 1 .. Len(ledger) + 1
         /\ \A i \in 1 .. Len(ledger) : ledger'[i] = ledger[i]
         /\ ledger'[Len(ledger) + 1].tick = tick
         /\ ledger'[Len(ledger) + 1].symbol = s
         /\ ledger'[Len(ledger) + 1].price = GuardPrice(quotes[s].feed, LastPrice(s))
         /\ ledger'[Len(ledger) + 1].origin = Origin(quotes[s], LastPrice(s))
         /\ pc = "snapshot" /\ s \in todo
         /\ quotes[s].feed \in Nat /\ quotes[s].price \in Nat \ {0}
         /\ LastPrice(s) \in Nat
         /\ todo' = todo \ {s}
         /\ UNCHANGED <<world, quotes, staged, tick, pc>>
<1>1. PICK n, price, origin, row :
        /\ n = Len(ledger) /\ price = GuardPrice(quotes[s].feed, LastPrice(s))
        /\ origin = Origin(quotes[s], LastPrice(s))
        /\ row = [tick |-> tick, symbol |-> s, tag |-> DecisionTag(s), price |-> price,
                  consensus |-> quotes[s].consensus, optimism |-> quotes[s].optimism,
                  origin |-> origin]
  OBVIOUS
<1>2. ledger' = Append(ledger, row)
  BY <1>1 DEF SnapshotRow
<1>3. ledger \in Seq(Row) /\ IsLog(ledger)
  BY DEF Ledger, IsLog
<1>4. /\ n \in Nat /\ DOMAIN ledger = 1 .. n /\ DOMAIN ledger' = 1 .. n + 1
      /\ \A i \in 1 .. n : ledger'[i] = ledger[i]
      /\ ledger'[n + 1] = row
  BY <1>1, <1>2, <1>3, LogGrows
<1>5. row.tick = tick /\ row.symbol = s /\ row.price = price /\ row.origin = origin
  BY <1>1
<1>6. /\ pc = "snapshot" /\ s \in todo /\ todo' = todo \ {s}
      /\ UNCHANGED <<world, quotes, staged, tick, pc>>
  BY DEF SnapshotRow, marketVars
<1>7. quotes[s] \in Quote
  BY <1>6 DEF Market
<1>8. quotes[s].feed \in Nat /\ quotes[s].price \in Nat \ {0}
  BY <1>7 DEF Quote
<1>9. LastPrice(s) \in Nat
  BY <1>3, RowsLocated
<1> QED
  BY <1>1, <1>4, <1>5, <1>6, <1>8, <1>9

(* The last price is that of a priced row that no other one follows.        *)
LEMMA LastPriceIs ==
  ASSUME Ledger, NEW s \in Symbol, Priced(s) # {}
  PROVE  \E m \in Priced(s) : /\ LastPrice(s) = ledger[m].price /\ ledger[m].price > 0
                              /\ \A i \in Priced(s) : i <= m
<1>1. IsLog(ledger) /\ Priced(s) \subseteq DOMAIN ledger
  BY DEF Ledger, IsLog, Priced, RowsOf
<1>2. PICK m : m = Max(Priced(s))
  OBVIOUS
<1>3. m \in Priced(s) /\ \A i \in Priced(s) : m >= i
  BY <1>1, <1>2, MaxPlace
<1>4. DOMAIN ledger = 1 .. Len(ledger) /\ Len(ledger) \in Nat
  BY <1>1, LogGrows
<1>5. \A i \in Priced(s) : i <= m
  BY <1>1, <1>3, <1>4
<1> QED
  BY <1>2, <1>3, <1>5 DEF LastPrice, Priced

LEMMA TracedSnapshot ==
  ASSUME Market, Ledger, Traced, NEW s \in Symbol, SnapshotRow(s)
  PROVE  Traced'
<1>1. PICK n, feed, cost, prior, price, origin :
        /\ n = Len(ledger) /\ feed = quotes[s].feed /\ cost = quotes[s].price
        /\ prior = LastPrice(s) /\ price = ledger'[n + 1].price /\ origin = ledger'[n + 1].origin
  OBVIOUS
<1>2. /\ n \in Nat /\ DOMAIN ledger = 1 .. n /\ DOMAIN ledger' = 1 .. n + 1
      /\ \A i \in 1 .. n : ledger'[i] = ledger[i]
      /\ ledger'[n + 1].symbol = s
      /\ price = GuardPrice(feed, prior) /\ origin = Origin(quotes[s], prior)
      /\ feed \in Nat /\ cost \in Nat \ {0} /\ prior \in Nat
  BY <1>1, SnapshotRowIs
<1>3. \/ origin = "carried" /\ price = prior
      \/ origin \in {"genuine", "wrong"}
      \/ price = 0
  BY <1>1, <1>2 DEF Origin, GuardPrice
<1>4. ASSUME NEW i \in 1 .. n, ledger'[i].price > 0 PROVE TracedRow(ledger', i)
  <2>1. TracedRow(ledger, i)
    BY <1>2, <1>4 DEF Traced
  <2> QED
    BY <1>2, <2>1 DEF TracedRow
<1>5. ASSUME ledger'[n + 1].price > 0 PROVE TracedRow(ledger', n + 1)
  <2>1. CASE origin \in {"genuine", "wrong"}
    <3>1. n + 1 \in DOMAIN ledger' /\ n + 1 <= n + 1
      BY <1>2
    <3> QED
      BY <1>1, <2>1, <3>1 DEF TracedRow
  <2>2. CASE origin = "carried" /\ price = prior
    <3>1. Priced(s) # {}
      BY <1>1, <1>5, <2>2 DEF LastPrice
    <3>2. PICK m \in Priced(s) : prior = ledger[m].price /\ ledger[m].price > 0
      BY <1>1, <3>1, LastPriceIs
    <3>3. m \in 1 .. n /\ ledger[m].symbol = s
      BY <1>2, <3>2 DEF Priced, RowsOf
    <3>4. PICK k \in 1 .. n :
            /\ k <= m /\ ledger[k].symbol = s
            /\ \/ ledger[k].origin = "wrong"
               \/ ledger[k].origin = "genuine" /\ ledger[k].price = prior
      BY <1>2, <3>2, <3>3 DEF Traced, TracedRow
    <3>5. k \in DOMAIN ledger' /\ k <= n + 1 /\ ledger'[k] = ledger[k]
      BY <1>2, <3>4
    <3>6. ledger'[n + 1].price = prior
      BY <1>1, <2>2
    <3> QED
      BY <1>2, <3>4, <3>5, <3>6 DEF TracedRow
  <2> QED
    BY <1>1, <1>3, <1>5, <2>1, <2>2
<1> QED
  BY <1>2, <1>4, <1>5 DEF Traced

LEMMA PricedGrows ==
  ASSUME Market, Ledger, NEW s \in Symbol, SnapshotRow(s), NEW x
  PROVE  /\ Priced(x) \subseteq Priced(x)'
         /\ \A j \in Priced(x)' : j \in Priced(x) \/ ledger'[j].tick = tick
<1>1. PICK n : n = Len(ledger)
  OBVIOUS
<1>2. /\ n \in Nat /\ DOMAIN ledger = 1 .. n /\ DOMAIN ledger' = 1 .. n + 1
      /\ \A i \in 1 .. n : ledger'[i] = ledger[i]
      /\ ledger'[n + 1].tick = tick
  BY <1>1, SnapshotRowIs
<1>3. Priced(x) = {i \in 1 .. n : ledger[i].symbol = x /\ ledger[i].price > 0}
  BY <1>2 DEF Priced, RowsOf
<1>4. Priced(x)' = {i \in 1 .. n + 1 : ledger'[i].symbol = x /\ ledger'[i].price > 0}
  BY <1>2 DEF Priced, RowsOf
<1>5. ASSUME NEW j \in Priced(x) PROVE j \in Priced(x)'
  <2>1. j \in 1 .. n /\ j \in 1 .. n + 1
    BY <1>2, <1>3
  <2> QED
    BY <1>2, <1>3, <1>4, <2>1
<1>6. ASSUME NEW j \in Priced(x)' PROVE j \in Priced(x) \/ ledger'[j].tick = tick
  <2>1. j \in 1 .. n \/ j = n + 1
    BY <1>2, <1>4
  <2> QED
    BY <1>2, <1>3, <1>4, <2>1
<1> QED
  BY <1>5, <1>6

(* A price the guard lets pass is that of the feed, and a feed the guard    *)
(* would not let pass jumps from the last price.                            *)
LEMMA BelievedSnapshot ==
  ASSUME Market, Ledger, NEW s \in Symbol, SnapshotRow(s), NEW n, n = Len(ledger)
  PROVE  Believed(n + 1)'
<1>1. PICK feed, cost, prior, origin :
        /\ feed = quotes[s].feed /\ cost = quotes[s].price
        /\ prior = LastPrice(s) /\ origin = ledger'[n + 1].origin
  OBVIOUS
<1>2. /\ n \in Nat /\ DOMAIN ledger = 1 .. n /\ DOMAIN ledger' = 1 .. n + 1
      /\ \A i \in 1 .. n : ledger'[i] = ledger[i]
      /\ ledger'[n + 1].symbol = s /\ ledger'[n + 1].tick = tick
      /\ origin = Origin(quotes[s], prior)
      /\ feed \in Nat /\ prior \in Nat /\ pc = "snapshot" /\ s \in todo
      /\ UNCHANGED <<quotes, tick>>
  BY <1>1, SnapshotRowIs
<1>3. tick \in Nat \ {0} /\ \A i \in DOMAIN ledger : /\ ledger[i].tick \in Nat /\ ledger[i].tick <= tick
                                                     /\ ledger[i].tick = tick => ledger[i].symbol # s
  BY <1>2, RowsTyped DEF Ledger, Recording
<1>4. ASSUME feed # cost, feed # 0, origin # "wrong",
             NEW j \in Priced(s)', ledger'[j].tick = tick - 1
      PROVE  Jumps(feed, ledger'[j].price)
  <2>1. j \in Priced(s)
    BY <1>3, <1>4, PricedGrows
  <2>2. j \in 1 .. n /\ ledger[j].symbol = s /\ ledger'[j] = ledger[j]
    BY <1>2, <2>1 DEF Priced, RowsOf
  <2>3. PICK m \in Priced(s) : /\ prior = ledger[m].price /\ ledger[m].price > 0
                               /\ \A i \in Priced(s) : i <= m
    BY <1>1, <2>1, LastPriceIs
  <2>4. m \in 1 .. n /\ ledger[m].symbol = s /\ j <= m
    BY <1>2, <2>1, <2>3 DEF Priced, RowsOf
  <2>5. m = j
    <3> SUFFICES ASSUME j < m PROVE FALSE
      BY <1>2, <2>2, <2>4
    <3>1. ledger[j].tick < ledger[m].tick
      BY <1>2, <2>2, <2>4 DEF Ledger, InOrder
    <3>2. ledger[m].tick # tick /\ ledger[m].tick <= tick /\ ledger[m].tick \in Nat
      BY <1>2, <1>3, <2>4
    <3> QED
      BY <1>3, <1>4, <2>2, <3>1, <3>2
  <2>6. ~Jumps(feed, prior) => GuardPrice(feed, prior) = feed
    BY <1>4 DEF GuardPrice
  <2>7. GuardPrice(feed, prior) = feed => origin = "wrong"
    BY <1>1, <1>2, <1>4 DEF Origin
  <2> QED
    BY <1>4, <2>2, <2>3, <2>5, <2>6, <2>7
<1> QED
  BY <1>1, <1>2, <1>4 DEF Believed

LEMMA CoveredSnapshot ==
  ASSUME Market, Ledger, Covered, NEW s \in Symbol, SnapshotRow(s)
  PROVE  Covered'
<1>1. PICK n : n = Len(ledger)
  OBVIOUS
<1>2. /\ n \in Nat /\ DOMAIN ledger = 1 .. n /\ DOMAIN ledger' = 1 .. n + 1
      /\ \A i \in 1 .. n : ledger'[i] = ledger[i]
      /\ ledger'[n + 1].symbol = s /\ ledger'[n + 1].tick = tick
      /\ pc = "snapshot" /\ s \in todo /\ todo' = todo \ {s}
      /\ UNCHANGED <<world, quotes, tick, pc>>
  BY <1>1, SnapshotRowIs
<1>3. \A i \in 1 .. n + 1 : i \in 1 .. n \/ i = n + 1
  BY <1>2
<1>4. ASSUME NEW i \in 1 .. n, ledger[i].tick = tick PROVE Believed(i)'
  <2>1. PICK x : x = ledger[i].symbol
    OBVIOUS
  <2>2. Believed(i) /\ ledger'[i] = ledger[i]
    BY <1>2, <1>4 DEF Covered
  <2>3. \A j \in Priced(x)' : ledger'[j].tick = tick - 1 =>
          j \in Priced(x) /\ ledger'[j] = ledger[j]
    <3> SUFFICES ASSUME NEW j \in Priced(x)', ledger'[j].tick = tick - 1
                 PROVE  j \in Priced(x) /\ ledger'[j] = ledger[j]
      OBVIOUS
    <3>1. tick \in Nat
      BY DEF Ledger
    <3>2. j \in Priced(x)
      BY <3>1, PricedGrows
    <3>3. j \in 1 .. n
      BY <1>2, <3>2 DEF Priced, RowsOf
    <3> QED
      BY <1>2, <3>2, <3>3
  <2> QED
    BY <1>2, <2>1, <2>2, <2>3 DEF Believed
<1>5. Believed(n + 1)'
  BY <1>1, BelievedSnapshot
<1>6. ASSUME NEW x \in World[world].universe \ todo'
      PROVE  \E i \in DOMAIN ledger' : ledger'[i].tick = tick /\ ledger'[i].symbol = x
  <2>1. CASE x = s
    <3>1. n + 1 \in DOMAIN ledger'
      BY <1>2
    <3> QED
      BY <1>2, <2>1, <3>1
  <2>2. CASE x # s
    <3>1. PICK i \in 1 .. n : ledger[i].tick = tick /\ ledger[i].symbol = x
      BY <1>2, <1>6, <2>2 DEF Covered
    <3>2. i \in DOMAIN ledger' /\ ledger'[i] = ledger[i]
      BY <1>2, <3>1
    <3> QED
      BY <3>1, <3>2
  <2> QED
    BY <2>1, <2>2
<1>7. \A i \in DOMAIN ledger' : ledger'[i].symbol \in World[world].universe
  BY <1>2, <1>3 DEF Covered
<1>8. todo' \subseteq World[world].universe
  BY <1>2 DEF Covered
<1>9. \A i \in DOMAIN ledger' : ledger'[i].tick = tick => Believed(i)'
  BY <1>2, <1>3, <1>4, <1>5
<1> QED
  BY <1>2, <1>6, <1>7, <1>8, <1>9 DEF Covered

LEMMA TracedCoveredStep ==
  Market /\ Ledger /\ Traced /\ Covered /\ [Next]_vars => Traced' /\ Covered'
<1> SUFFICES ASSUME Market, Ledger, Traced, Covered, [Next]_vars PROVE Traced' /\ Covered'
  OBVIOUS
<1>1. CASE \E s \in Symbol : SnapshotRow(s)
  BY <1>1, TracedSnapshot, CoveredSnapshot
<1>2. CASE StartPhase6
  <2>1. UNCHANGED <<world, quotes, ledger>> /\ tick' = NextTick /\ pc' = "snapshot"
        /\ todo' = IF ledger # << >> /\ Last(ledger).tick = NextTick THEN {}
                   ELSE World[world].universe
    BY <1>2 DEF StartPhase6, marketVars, ledgerVars
  <2>2. NextTick \in Nat /\ \A i \in DOMAIN ledger : ledger[i].tick < NextTick /\ ledger[i].tick \in Nat
    BY NextTickIsNew, RowsTyped DEF Ledger
  <2>3. ledger # << >> => Last(ledger).tick # NextTick
    <3> SUFFICES ASSUME ledger # << >> PROVE Last(ledger).tick # NextTick
      OBVIOUS
    <3>1. ledger \in Seq(Row)
      BY DEF Ledger
    <3>2. Len(ledger) \in DOMAIN ledger
      BY <3>1
    <3> QED
      BY <2>2, <3>2 DEF Last
  <2>4. todo' = World[world].universe
    BY <2>1, <2>3
  <2>5. \A i \in DOMAIN ledger' : ledger'[i].tick # tick'
    BY <2>1, <2>2
  <2> QED
    BY <2>1, <2>4, <2>5 DEF Traced, TracedRow, Covered
<1>3. ASSUME UNCHANGED <<world, ledger>>, todo' = todo \/ todo' = {},
             pc' = "snapshot" => pc = "snapshot" /\ UNCHANGED <<quotes, tick, todo>>
      PROVE  Traced' /\ Covered'
  <2>1. Traced'
    BY <1>3 DEF Traced, TracedRow
  <2>2. ASSUME pc' = "snapshot", NEW i \in DOMAIN ledger, ledger[i].tick = tick PROVE Believed(i)'
    <3>1. Believed(i) /\ UNCHANGED <<ledger, quotes, tick>>
      BY <1>3, <2>2 DEF Covered
    <3> QED
      BY <3>1 DEF Believed, Priced, RowsOf
  <2>3. /\ \A i \in DOMAIN ledger' : ledger'[i].symbol \in World[world]'.universe
        /\ todo' \subseteq World[world]'.universe
    BY <1>3 DEF Covered
  <2>4. pc' = "snapshot" =>
          /\ \A s \in World[world]'.universe \ todo' :
               \E i \in DOMAIN ledger' : ledger'[i].tick = tick' /\ ledger'[i].symbol = s
          /\ \A i \in DOMAIN ledger' : ledger'[i].tick = tick' => Believed(i)'
    BY <1>3, <2>2 DEF Covered
  <2> QED
    BY <2>1, <2>3, <2>4 DEF Covered
<1>4. CASE (\E o \in World[world].outcomes : ScoreClose(o)) \/ LogClose \/ CalibrateStop
           \/ CalibratePenalties \/ Stage \/ WritePayload \/ PersistRun
           \/ RefreshCounters \/ RefreshBody \/ Crash
  BY <1>3, <1>4
  DEF ScoreClose, LogClose, CalibrateStop, CalibratePenalties, Stage, WritePayload,
      PersistRun, RefreshCounters, RefreshBody, Crash, ledgerVars, marketVars
<1>5. CASE \E q \in Offered : Trade(q)
  <2>1. UNCHANGED <<world, ledger, todo, pc>> /\ pc = "idle"
    BY <1>5 DEF Trade, ledgerVars
  <2> QED
    BY <1>3, <2>1
<1>6. CASE (\E s \in Symbol : CloseOut(s)) \/ (\E a \in World[world].answers : Reflect(a))
           \/ PersistRow \/ UNCHANGED vars
  <2>1. UNCHANGED <<world, ledger, todo, pc, quotes, tick>>
    BY <1>6 DEF CloseOut, Reflect, PersistRow, vars, ledgerVars, marketVars
  <2> QED
    BY <1>3, <2>1
<1> QED
  BY <1>1, <1>2, <1>4, <1>5, <1>6 DEF Next

-----------------------------------------------------------------------------
(* What the Reflector is asked about. *)

TriggerReal(e, t) ==
  NeverFooled(t.symbol, e.tick) =>
    LET q == e.quotes[t.symbol]
    IN /\ e.tick = t.tick + 1 => q.feed = q.price
       /\ \E r \in Range(ledger) :
            /\ r.symbol = t.symbol /\ r.tick <= t.tick /\ r.origin = "genuine"
            /\ IF t.kind \in Rising THEN 100 * q.feed >= 105 * r.price
               ELSE 100 * q.feed <= 95 * r.price

Real == \A i \in DOMAIN staged : \A t \in staged[i].triggers : TriggerReal(staged[i], t)

(* What a kind of trigger says of the row it is about.                      *)
LEMMA KindMeans ==
  ASSUME NEW r, r.price \in Nat \ {0}, quotes[r.symbol].feed \in Nat, NEW k \in KindsOf(r)
  PROVE  /\ ~Implausible(r)
         /\ k \in Rising => Up(r, 5)
         /\ k \notin Rising => Down(r, 5)
<1>1. PICK ago : ago = tick - r.tick
  OBVIOUS
<1>2. ~Implausible(r)
  BY DEF KindsOf
<1>3. /\ Up(r, 10) => Up(r, 5)
      /\ Down(r, 10) => Down(r, 5)
  <2>1. \A f \in Nat, p \in Nat \ {0} : /\ 100 * f >= (100 + 10) * p => 100 * f >= (100 + 5) * p
                                        /\ 100 * f <= (100 - 10) * p => 100 * f <= (100 - 5) * p
    OBVIOUS
  <2> QED
    BY <2>1 DEF Up, Down
<1>4. \/ Rejected(r) /\ (k \in Rejection(r, 5) \/ k \in Rejection(r, 10))
      \/ k \in Followed(r, "premature_exit", "good_exit")
      \/ k \in Followed(r, "good_entry", "entry_underwater")
  BY <1>2 DEF KindsOf
<1>5. CASE Rejected(r) /\ (k \in Rejection(r, 5) \/ k \in Rejection(r, 10))
  <2>1. \/ Up(r, 5) /\ k \in {"enterable_missed_winner", "missed_winner"}
        \/ Down(r, 5) /\ k \in {"good_rejection", "uncontested_rejection_down"}
    BY <1>3, <1>5 DEF Rejection
  <2> QED
    BY <1>2, <1>5, <2>1 DEF Rising
<1>6. CASE k \in Followed(r, "premature_exit", "good_exit")
  <2>1. (Up(r, 5) /\ k = "premature_exit") \/ (Down(r, 5) /\ k = "good_exit")
    BY <1>6 DEF Followed
  <2> QED
    BY <1>2, <2>1 DEF Rising
<1>7. CASE k \in Followed(r, "good_entry", "entry_underwater")
  <2>1. (Up(r, 5) /\ k = "good_entry") \/ (Down(r, 5) /\ k = "entry_underwater")
    BY <1>7 DEF Followed
  <2> QED
    BY <1>2, <2>1 DEF Rising
<1> QED
  BY <1>4, <1>5, <1>6, <1>7

LEMMA StagedTrigger ==
  ASSUME Market, Ledger, Traced, Covered, Stage, NEW t \in Triggers
  PROVE  TriggerReal(Entry, t)
<1>1. PICK r \in WhatIfs : \E k \in KindsOf(r) : t = [kind |-> k, symbol |-> r.symbol, tick |-> r.tick]
  BY DEF Triggers
<1>2. PICK k \in KindsOf(r) : t = [kind |-> k, symbol |-> r.symbol, tick |-> r.tick]
  BY <1>1
<1>3. PICK s \in Symbol : quotes[s].feed > 0 /\ r \in Prior(s) /\ r.price > 0
  BY DEF WhatIfs
<1>4. PICK i \in DOMAIN ledger : r = ledger[i] /\ ledger[i].symbol = s
  BY <1>3 DEF Prior, RowsOf
<1>5. t.kind = k /\ t.symbol = s /\ t.tick = r.tick /\ r.symbol = s /\ i \in Priced(s)
  BY <1>2, <1>3, <1>4 DEF Priced, RowsOf
<1>6. /\ r.price \in Nat \ {0} /\ r.tick \in Nat
      /\ \A j \in DOMAIN ledger : ledger[j].tick \in Nat /\ ledger[j].price \in Nat
      /\ DOMAIN ledger = 1 .. Len(ledger) /\ Len(ledger) \in Nat
  <2>1. \A j \in DOMAIN ledger : ledger[j].tick \in Nat /\ ledger[j].price \in Nat
    BY RowsTyped DEF Ledger
  <2>2. ledger \in Seq(Row)
    BY DEF Ledger
  <2>3. DOMAIN ledger = 1 .. Len(ledger) /\ Len(ledger) \in Nat
    BY <2>2
  <2> QED
    BY <1>3, <1>4, <2>1, <2>3
<1>7. pc = "snapshot" /\ todo = {} /\ tick \in Nat \ {0}
  BY DEF Stage, Ledger, Recording
<1>8. quotes[s].feed \in Nat \ {0}
  <2>1. quotes[s] \in Quote
    BY <1>7 DEF Market
  <2> QED
    BY <1>3, <2>1 DEF Quote
<1>9. Entry.quotes = quotes /\ Entry.tick = tick
  BY DEF Entry
<1>10. /\ ~Implausible(r)
       /\ k \in Rising => Up(r, 5)
       /\ k \notin Rising => Down(r, 5)
  BY <1>5, <1>6, <1>8, KindMeans
<1>11. ~Jumps(quotes[s].feed, r.price)
  <2>1. JumpRatio \in Nat /\ JumpRatio >= 20
    BY Phase6Assumption
  <2>2. \A j, f, p \in Nat : j >= 20 => /\ f > j * p => f > 6 * p \/ p = 0
                                        /\ j * f < p => 20 * f < p
    <3>1. \A j, p \in Nat : j >= 20 => j * p >= 20 * p
      OBVIOUS
    <3> QED
      BY <3>1
  <2>3. ~(quotes[s].feed > 6 * r.price) /\ ~(20 * quotes[s].feed < r.price)
    BY <1>5, <1>10 DEF Implausible
  <2> QED
    BY <1>6, <1>8, <2>1, <2>2, <2>3 DEF Jumps
<1> SUFFICES ASSUME NeverFooled(s, tick)
             PROVE  /\ tick = r.tick + 1 => quotes[s].feed = quotes[s].price
                    /\ \E x \in Range(ledger) :
                         /\ x.symbol = s /\ x.tick <= r.tick /\ x.origin = "genuine"
                         /\ IF k \in Rising THEN 100 * quotes[s].feed >= 105 * x.price
                            ELSE 100 * quotes[s].feed <= 95 * x.price
  BY <1>5, <1>9 DEF TriggerReal
<1>12. \A j \in DOMAIN ledger : ledger[j].symbol = s => ledger[j].origin # "wrong"
  <2>1. \A j \in DOMAIN ledger : ledger[j] \in Range(ledger)
    BY DEF Range
  <2>2. \A j \in DOMAIN ledger : ledger[j].tick <= tick
    BY <1>7 DEF Ledger, Recording
  <2> QED
    BY <2>1, <2>2 DEF NeverFooled
<1>13. ASSUME tick = r.tick + 1 PROVE quotes[s].feed = quotes[s].price
  <2>1. s \in World[world].universe \ todo
    BY <1>4, <1>7 DEF Covered
  <2>2. PICK m \in DOMAIN ledger : ledger[m].tick = tick /\ ledger[m].symbol = s
    BY <1>7, <2>1 DEF Covered
  <2>3. Believed(m)
    BY <1>7, <2>2 DEF Covered
  <2>4. ledger[i].tick = tick - 1
    BY <1>4, <1>6, <1>7, <1>13
  <2> QED
    BY <1>4, <1>5, <1>8, <1>11, <1>12, <2>2, <2>3, <2>4 DEF Believed
<1>14. PICK m \in DOMAIN ledger :
         m <= i /\ ledger[m].symbol = s /\ ledger[m].origin = "genuine" /\ ledger[m].price = r.price
  <2>1. TracedRow(ledger, i)
    BY <1>4, <1>6 DEF Traced
  <2> QED
    BY <1>4, <1>12, <2>1 DEF TracedRow
<1>15. ledger[m].tick <= r.tick
  <2>1. m \in Nat /\ i \in Nat
    BY <1>6
  <2>2. m = i \/ m < i
    BY <1>14, <2>1
  <2>3. ledger[m].tick < ledger[i].tick \/ ledger[m].tick = ledger[i].tick
    BY <2>2 DEF Ledger, InOrder
  <2> QED
    BY <1>4, <1>6, <2>3
<1>16. IF k \in Rising THEN 100 * quotes[s].feed >= 105 * ledger[m].price
       ELSE 100 * quotes[s].feed <= 95 * ledger[m].price
  <2>1. /\ Up(r, 5) => 100 * quotes[s].feed >= 105 * r.price
        /\ Down(r, 5) => 100 * quotes[s].feed <= 95 * r.price
    BY <1>5, <1>6, <1>8 DEF Up, Down
  <2> QED
    BY <1>10, <1>14, <2>1
<1>17. ledger[m] \in Range(ledger)
  BY DEF Range
<1> QED
  BY <1>13, <1>14, <1>15, <1>16, <1>17

(* What was asked of a genuine price stays so: rows are only appended.      *)
LEMMA TriggerStaysReal ==
  ASSUME NEW e, NEW t, TriggerReal(e, t), Range(ledger) \subseteq Range(ledger')
  PROVE  TriggerReal(e, t)'
<1>1. NeverFooled(t.symbol, e.tick)' => NeverFooled(t.symbol, e.tick)
  BY DEF NeverFooled
<1> QED
  BY <1>1 DEF TriggerReal

LEMMA RangeGrows == Market /\ Ledger /\ [Next]_vars => Range(ledger) \subseteq Range(ledger')
<1> SUFFICES ASSUME Market, Ledger, [Next]_vars, NEW i \in DOMAIN ledger
             PROVE  \E k \in DOMAIN ledger' : ledger'[k] = ledger[i]
  BY DEF Range
<1> QED
  BY LedgerKept

LEMMA RealStep ==
  Market /\ Ledger /\ StageEntries /\ Traced /\ Covered /\ Real /\ [Next]_vars => Real'
<1> SUFFICES ASSUME Market, Ledger, StageEntries, Traced, Covered, Real, [Next]_vars
             PROVE  Real'
  OBVIOUS
<1>1. ASSUME NEW e, NEW t, TriggerReal(e, t) PROVE TriggerReal(e, t)'
  BY <1>1, RangeGrows, TriggerStaysReal
<1>2. ASSUME NEW e, \A t \in e.triggers : TriggerReal(e, t)
      PROVE  \A t \in e.triggers : TriggerReal(e, t)'
  BY <1>1, <1>2
<1>3. \A i \in DOMAIN staged : \A t \in staged[i].triggers : TriggerReal(staged[i], t)
  BY DEF Real
<1>4. CASE Stage
  <2>1. PICK e : e = Entry
    OBVIOUS
  <2>2. e.triggers = Triggers
    BY <2>1 DEF Entry
  <2>3. \A t \in e.triggers : TriggerReal(e, t)
    BY <1>4, <2>1, <2>2, StagedTrigger
  <2>4. \A i \in DOMAIN staged' : staged'[i] = e \/ (i \in DOMAIN staged /\ staged'[i] = staged[i])
    BY <1>4, <2>1, StageAppends
  <2>5. ASSUME NEW i \in DOMAIN staged'
        PROVE  \A f : f = staged'[i] => \A t \in f.triggers : TriggerReal(f, t)'
    BY <1>2, <1>3, <2>3, <2>4
  <2> SUFFICES ASSUME NEW i \in DOMAIN staged'
               PROVE  \A t \in staged'[i].triggers : TriggerReal(staged[i], t)'
    BY DEF Real
  <2>6. PICK f : f = staged'[i]
    OBVIOUS
  <2>7. \A t \in f.triggers : TriggerReal(f, t)'
    BY <2>5, <2>6
  <2> QED
    BY <2>6, <2>7
<1>5. CASE ~Stage
  <2>1. staged' = staged
    BY <1>5, StagedOnlyByStage
  <2> SUFFICES ASSUME NEW i \in DOMAIN staged'
               PROVE  \A t \in staged'[i].triggers : TriggerReal(staged[i], t)'
    BY DEF Real
  <2>2. PICK f : f = staged[i] /\ f = staged'[i]
    BY <2>1
  <2>3. \A t \in f.triggers : TriggerReal(f, t)
    BY <1>3, <2>1, <2>2
  <2>4. \A t \in f.triggers : TriggerReal(f, t)'
    BY <1>2, <2>3
  <2> QED
    BY <2>2, <2>4
<1> QED
  BY <1>4, <1>5

(* What the Reflector is asked about happened, as long as no wrong price of *)
(* the symbol passed the guard: a price in the ledger is then a genuine one *)
(* carried on, the clamp of the what-ifs is narrower than the guard, and so *)
(* a feed that triggers a day after the decision was believed by the guard  *)
(* of snapshot_tick too.                                                    *)
THEOREM TriggersStayReal == Spec => []TriggersAreReal
<1>1. Init => Traced /\ Covered /\ Real
  <2> SUFFICES ASSUME Init PROVE Traced /\ Covered /\ Real
    OBVIOUS
  <2>1. DOMAIN staged = {} /\ DOMAIN ledger = {} /\ todo = {} /\ pc = "idle"
    BY DEF Init
  <2> QED
    BY <2>1 DEF Traced, Covered, Real
<1>2. Real => TriggersAreReal
  BY DEF Real, TriggerReal, TriggersAreReal
<1> QED
  BY MarketInit, LedgerInit, StageEntriesInit, MarketStep, LedgerStep, StageEntriesStep,
     TracedCoveredStep, RealStep, <1>1, <1>2, PTL DEF Spec
=============================================================================
