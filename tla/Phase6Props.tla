----------------------------- MODULE Phase6Props -----------------------------
(* What may be relied on in the ledger, the reflections and the lessons.     *)
EXTENDS Phase6

(* What is relied on of the world where ticks must be distinct: the scouts   *)
(* hand over a universe.                                                     *)
UniverseIsNeverEmpty == \A w \in DOMAIN World : World[w].universe # {}

Row == [tick : Nat \ {0}, symbol : Symbol, price : Nat, consensus : Int, optimism : Int,
        origin : {"genuine", "wrong", "none", "carried"},
        tag : {"BUY_EXECUTED", "SELL_EXECUTED", "RM_EXISTING_HOLD", "RM_APPROVED_ENTRY", "REJECT"}]

TypeOK ==
  /\ world \in DOMAIN World /\ round \in 0 .. Len(World[world].quotes)
  /\ holdings \subseteq Symbol
  /\ ledger \in Seq(Row)
  /\ payload \subseteq Nat \ {0}
  /\ reflections \in Seq(Proposal \cup Confirmation)
  /\ audits \in Seq(Outcome)
  /\ lessons.audited \in Nat
  /\ lessons.calibration.tally \in Tally
  /\ lessons.stats \in [Bucket \cup {Split} -> BucketStats]
  /\ pc \in {"idle", "log", "stop", "penalty", "snapshot", "payload", "append", "counters", "body"}
  /\ todo \subseteq Symbol
  /\ faults \in 0 .. MaxFaults

(* The price guard of the ledger and the price gate of Phase 7 agree: a      *)
(* ledger written through the guard never has a jump for the gate to find,   *)
(* whatever the feed says and however often it fails.                        *)
NoPriceJumps == PriceHistoryJumps = {}

(* A run of Phase 6 has a tick of its own: the rows of a tick are together   *)
(* in the ledger, one for each symbol, and no tick is staged twice, also     *)
(* when a run was killed half way and Phase 6 is run again.                  *)
TicksAreDistinct ==
  /\ \A i, j \in DOMAIN ledger : i < j =>
       \/ ledger[i].tick < ledger[j].tick
       \/ ledger[i].tick = ledger[j].tick /\ ledger[i].symbol # ledger[j].symbol
  /\ \A i, j \in DOMAIN staged : i < j => staged[i].tick < staged[j].tick

(* The ledger that every comparison is made from is in order: ticks apart,  *)
(* prices without jumps.                                                    *)
LedgerIsSound == TypeOK /\ NoPriceJumps /\ TicksAreDistinct

(* Being asked is having the input written, and what is counted as asked is  *)
(* the row written before it: a program killed between the two leaves a tick *)
(* that passes for asked.  Each such kill costs a day of ticks at most: of   *)
(* the ticks that had something to compare, ForceAfter in a row go by        *)
(* without a question, and as many again for each program killed, never more.*)
SilenceBounded ==
  \A i, j \in DOMAIN staged :
    (\A k \in i .. j : staged[k].whatifs /\ staged[k].tick \notin payload)
      => j - i + 1 < ForceAfter * (faults + 1) + (IF pc = "payload" THEN 1 ELSE 0)

Rising == {"missed_winner", "enterable_missed_winner", "premature_exit", "good_entry"}

(* No wrong price of the symbol was taken for a right one.                   *)
NeverFooled(s, n) ==
  \A r \in Range(ledger) : r.symbol = s /\ r.tick <= n => r.origin # "wrong"

(* What the Reflector is told to look at happened.  The guard of the ledger  *)
(* and the clamp of the triggers judge a price apart, one against the last   *)
(* recorded and one against an older one; as long as no wrong price of the   *)
(* symbol came near enough to the last to be recorded, then however often    *)
(* the feed fails or lies, the older price is 5% away from what the symbol   *)
(* did cost by then, and today's is right where the decision was taken in    *)
(* the tick before.  (A day later a right price may have moved away from     *)
(* where the lie is: that trigger the clamp lets pass.)                      *)
TriggersAreReal ==
  \A i \in DOMAIN staged : \A t \in staged[i].triggers :
    NeverFooled(t.symbol, staged[i].tick) =>
      LET q == staged[i].quotes[t.symbol]
      IN /\ staged[i].tick = t.tick + 1 => q.feed = q.price
         /\ \E r \in Range(ledger) :
              /\ r.symbol = t.symbol /\ r.tick <= t.tick /\ r.origin = "genuine"
              /\ IF t.kind \in Rising THEN 100 * q.feed >= 105 * r.price
                 ELSE 100 * q.feed <= 95 * r.price

(* An answer that names its tick is filed once, however often it is          *)
(* presented; one that does not is filed again only as the ledger moves on,  *)
(* unless a caller files it under a tick of his own in between.              *)
FiledOnce ==
  \A i, j \in DOMAIN runs :
    /\ i < j /\ runs[i].time = runs[j].time
    /\ \A k \in i .. j : runs[k].by # "caller"
    => runs[i].by = "ledger" /\ runs[i].tick < runs[j].tick

Kept(n) == {i \in DOMAIN reflections : reflections[i].run = n}

(* A run has the rows it says and no others, unless its program was killed.  *)
RunsAreWhole ==
  LET short == {n \in DOMAIN runs : Cardinality(Kept(n)) < runs[n].n}
  IN /\ \A n \in DOMAIN runs : Cardinality(Kept(n)) <= runs[n].n
     /\ Cardinality(short \ (IF pc = "append" THEN {Len(runs)} ELSE {})) <= faults

(* A rule the agents are told is validated was confirmed, or called so, in a *)
(* row after the one that proposed it; and where the rule was named when it  *)
(* was persisted, by a later answer than the one that proposed it, though    *)
(* answers may be filed twice.  (A rule the Reflector names itself may be    *)
(* confirmed in the very answer.)                                            *)
ValidatedEarned ==
  \A id \in lessons.body.validated :
    \E p, c \in DOMAIN reflections :
      /\ reflections[p].row = "new_candidate" /\ reflections[p].id = id
      /\ reflections[c].row = "confirmation" /\ reflections[c].id = id /\ p < c
      /\ reflections[c].suggestion = "validated" \/ reflections[c].kind = "confirming"
      /\ Made(id) => runs[reflections[p].run].time < runs[reflections[c].run].time

(* What the agents are told to follow rests on answers that were kept whole  *)
(* and counted once where they can be told apart.                            *)
RulesAreEarned == FiledOnce /\ RunsAreWhole /\ ValidatedEarned

(* A rule three ticks have disconfirmed stays rejected, whatever is called   *)
(* for or proposed later.                                                    *)
RejectedForGood ==
  [][\A id \in lessons.body.rejected :
       Disconfirms(reflections, id) >= RejectAt => id \in lessons'.body.rejected]_lessons

(* A refresh that gets to its end leaves lessons.md in agreement with the    *)
(* three files it sums up, counters and rules, wherever earlier programs     *)
(* were killed; unless the reflections cannot be aggregated.                 *)
RefreshHeals ==
  [][pc = "body" /\ pc' = "idle" /\ faults' = faults /\ Aggregable(reflections) =>
       /\ lessons'.counts = Sizes(lessons'.body)
       /\ lessons'.body = Aggregate(reflections)
       /\ audits # << >> => lessons'.audited = Len(audits)]_vars

(* Risk parameters stay within their bounds, and none is moved before there  *)
(* are enough closes that speak of it: of any kind for the stop, of its own  *)
(* bucket for a penalty.                                                     *)
CalibrationBounded ==
  LET c == lessons.calibration
  IN /\ c.stop \in StopBounds[1] .. StopBounds[2]
     /\ \A b \in Bucket : c.penalty[b] \in PenaltyBounds[b][1] .. PenaltyBounds[b][2]
     /\ c.stop # StopDefault => Len(audits) >= MinObservations
     /\ \A b \in Bucket : c.penalty[b] # PenaltyDefault[b] => lessons.stats[b].n >= MinObservations
     /\ c.tally.total = c.tally.savings + c.tally.winners + c.tally.never
     /\ c.tally.total <= Len(audits)
=============================================================================
