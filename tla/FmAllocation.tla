---------------------------- MODULE FmAllocation ----------------------------
(***************************************************************************)
(* How the fund manager of the predictions sizes the picks of the          *)
(* specialists.  Weights, multipliers and scores are in percent; sizes are *)
(* in parts of ten thousand of the book.                                   *)
(***************************************************************************)
EXTENDS Integers, FiniteSets, FiniteSetsExt

CONSTANTS
  Specialist, Mint,
  ColdPicks,  \* COLD_START_PICKS_AUDITED_THRESHOLD
  ColdTotal   \* COLD_START_FM_TOTAL_THRESHOLD

ASSUME AllocationAssumption ==
  /\ IsFiniteSet(Specialist) /\ IsFiniteSet(Mint)
  /\ ColdPicks \in Nat /\ ColdTotal \in Nat

Conviction == {"BUY HIGH", "BUY MEDIUM", "WATCH", "SKIP"}
Absent == "not listed"   \* the specialist's file does not name the mint

ConvictionPct ==
  [c \in Conviction |-> CASE c = "BUY HIGH" -> 100 [] c = "BUY MEDIUM" -> 60
                          [] c = "WATCH" -> 20 [] c = "SKIP" -> 0]

MaxPosition(cold) == IF cold THEN 1000 ELSE 2000
MaxBook(cold) == IF cold THEN 5000 ELSE 8000
MinPosition == 200

Larger(a, b) == IF a > b THEN a ELSE b

Weight(stats) == IF stats.picks < ColdPicks THEN 100 ELSE Larger(10, stats.rate30)

IsColdTotal(total) == total < ColdTotal

(* A decision file lists a mint once at most.                               *)
Converging(decisions, m) ==
  Cardinality({s \in Specialist : decisions[s][m] \notin {Absent, "SKIP"}})

(* score_pick, with no lesson firing: dispatch passes no other.             *)
Score(decisions, stats, s, m) ==
  (Weight(stats[s]) * ConvictionPct[decisions[s][m]]) \div 100
    + IF Converging(decisions, m) >= 2 THEN 10 ELSE 0

Scored(decisions, stats) ==
  {x \in Specialist \X Mint : /\ decisions[x[1]][x[2]] # Absent
                              /\ Score(decisions, stats, x[1], x[2]) > 0}

(* The best pick gets the largest position allowed, the others their share  *)
(* of it, none too small to bother; then all shrink to fit the book.        *)
Sizes(score, cold) ==
  LET best == Max({score[x] : x \in DOMAIN score})
      raw == [x \in DOMAIN score |-> (score[x] * MaxPosition(cold)) \div best]
      kept == [x \in {y \in DOMAIN raw : raw[y] >= MinPosition} |-> raw[x]]
  IN IF SumFunction(kept) <= MaxBook(cold) THEN kept
     ELSE [x \in DOMAIN kept |-> (kept[x] * MaxBook(cold)) \div SumFunction(kept)]

(* Mutant: the sizes forget the bonus.                                      *)
AllocationUnbonused(decisions, stats, total) ==
  Sizes([x \in Scored(decisions, stats) |->
           (Weight(stats[x[1]]) * ConvictionPct[decisions[x[1]][x[2]]]) \div 100],
        IsColdTotal(total))

Allocation(decisions, stats, total) ==
  Sizes([x \in Scored(decisions, stats) |-> Score(decisions, stats, x[1], x[2])],
        IsColdTotal(total))
=============================================================================
