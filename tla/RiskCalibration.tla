--------------------------- MODULE RiskCalibration ---------------------------
(***************************************************************************)
(* The self-tuning risk parameters: how wide a stop is set and how much a  *)
(* position is cut when the specialists disagree, both tuned by what the   *)
(* closed trades show.  The multiplier is in quarters, penalties and       *)
(* returns are in percent.                                                 *)
(***************************************************************************)
EXTENDS Integers

CONSTANTS
  MinObservations,  \* MIN_OBSERVATIONS
  StopBounds,       \* BOUNDS["stop_vol_multiplier"]
  StopDefault,      \* DEFAULT_STOP_VOL_MULT
  Bucket,           \* the buckets that may be tuned, named by their lower bound
  PenaltyBounds,    \* BOUNDS["disagreement_penalty"]
  PenaltyDefault    \* DEFAULT_DISAGREEMENT_PENALTIES

ASSUME CalibrationAssumption ==
  /\ MinObservations \in Nat \ {0}
  /\ StopBounds \in Int \X Int /\ StopDefault \in StopBounds[1] .. StopBounds[2]
  /\ Bucket \subseteq 0 .. 69 /\ 0 \in Bucket
  /\ PenaltyBounds \in [Bucket -> Int \X Int] /\ PenaltyDefault \in [Bucket -> Int]
  /\ \A b \in Bucket : PenaltyDefault[b] \in PenaltyBounds[b][1] .. PenaltyBounds[b][2]

(* Spreads of 70 percent and more are rejected whatever is tuned.           *)
Split == 70
BucketOf(spread) ==
  IF spread >= Split THEN Split
  ELSE CHOOSE b \in Bucket : b <= spread /\ \A c \in Bucket : c <= spread => c <= b

Tally == [total : Nat, savings : Nat, winners : Nat, never : Nat]
BucketStats == [n : Nat, sum : Int]

Uncalibrated == [stop |-> StopDefault, penalty |-> PenaltyDefault,
                 tally |-> [total |-> 0, savings |-> 0, winners |-> 0, never |-> 0]]

Tallied(tally, o) ==
  [total |-> tally.total + 1,
   savings |-> tally.savings + (IF o.stopped /\ o.pct <= 0 THEN 1 ELSE 0),
   winners |-> tally.winners + (IF o.stopped /\ o.pct > 0 THEN 1 ELSE 0),
   never |-> tally.never + (IF o.stopped THEN 0 ELSE 1)]

Within(x, bounds) ==
  IF x < bounds[1] THEN bounds[1] ELSE IF x > bounds[2] THEN bounds[2] ELSE x

(* Stops that hit winners are widened, stops that are never hit tightened.  *)
StopTuned(c, o) ==
  LET tally == Tallied(c.tally, o)
      step == IF 100 * tally.winners > 40 * tally.total THEN 1
              ELSE IF 100 * tally.never > 60 * tally.total THEN -1 ELSE 0
  IN IF ~o.volatile THEN c   \* volatility 0 or less; a missing one counts as 5%
     ELSE [c EXCEPT !.tally = tally,
                    !.stop = IF tally.total < MinObservations THEN @
                             ELSE Within(@ + step, StopBounds)]

(* Mutant: however few closes a bucket has.                                 *)
PenaltiesTunedEarly(c, stats) ==
  [c EXCEPT !.penalty = [b \in Bucket |->
     Within(@[b] + (IF stats[b].sum <= 0 THEN 10 ELSE 0), PenaltyBounds[b])]]

(* A bucket that loses is cut more, one that gains 5% is cut less.  Every   *)
(* close tunes every bucket that has enough of them.                        *)
PenaltiesTuned(c, stats) ==
  [c EXCEPT !.penalty = [b \in Bucket |->
     LET step == IF stats[b].sum <= 0 THEN 10 ELSE IF stats[b].sum > 5 * stats[b].n THEN -10 ELSE 0
     IN IF stats[b].n < MinObservations THEN @[b] ELSE Within(@[b] + step, PenaltyBounds[b])]]
=============================================================================
