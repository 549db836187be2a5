-------------------------- MODULE PredictionProps --------------------------
(***************************************************************************)
(* What makes the audit of predictions and the sizing that rests on it     *)
(* correct.                                                                *)
(***************************************************************************)
EXTENDS Predictions

OwnPicks(s) == {p \in Pick : Owner[p] = s}

(* The total is what the specialists' picks and the first version's add up  *)
(* to, and no specialist has more hits than picks.                          *)
Agree(f) ==
  /\ f.total = V1Audits + SumFunction([s \in Specialist |-> f.stats[s].picks])
  /\ \A s \in Specialist :
       /\ f.stats[s].hits <= f.stats[s].picks
       /\ f.stats[s].picks = SumFunctionOnSet(f.counted, OwnPicks(s))

(* The statistics are of one audit ledger, in lessons.md and in every       *)
(* tick's copy.                                                             *)
StatsAgree == Agree(lessons) /\ \A t \in Tick : Agree(fm[t])

(* The picks that have been judged and, with left still queued, are done.   *)
Settled(left) == {p \in Pick : outcomes[p] # NoOutcome /\ \A e \in left : e.id # p}
WonPicks(s, left) == {p \in OwnPicks(s) \cap Settled(left) : outcomes[p].won}

(* The statistics of f tell what the outcome files do, with left to judge:  *)
(* a settled pick is counted, and no pick more often than that and once for *)
(* each tick killed between its two rewrites; where there was none, the     *)
(* hits are the settled picks whose outcome is a win.                       *)
Tells(f, left) ==
  /\ \A p \in Pick :
       /\ p \in Settled(left) => f.counted[p] >= 1
       /\ f.counted[p] <= torn + (IF p \in Settled(left) THEN 1 ELSE 0)
  /\ torn = 0 => \A s \in Specialist : f.stats[s].hits = Cardinality(WonPicks(s, left))

(* lessons.md, the outcome files and the queue tell one story, whatever was *)
(* killed: a tick that a lookup or a crash ends leaves outcome files behind *)
(* and counts none of them, and its picks are judged and counted again,     *)
(* with the outcome the file then shows.  Only a kill between the rewrite   *)
(* of lessons.md and that of the queue counts a pick once too often.        *)
JudgedIsCounted == (\A t \in Tick : pc[t] # "queue") => Tells(lessons, pending)

CountsAreExact == TypeOK /\ StatsAgree /\ JudgedIsCounted

(* The only record of a vetoed pick never gets lost: until its outcome is   *)
(* written the shadow watch is there.                                       *)
WatchesKept ==
  [][\A e \in shadows : e \in shadows' \/ outcomes[e.id] # NoOutcome]_vars

(* The sizes the fund manager is told fit the book it may deploy, at the    *)
(* limits for what has been audited, no position is above its limit, and a  *)
(* pick with the better score never gets the smaller size, a pick left out  *)
(* for its size included.                                                   *)
BookIsFair ==
  LET sizes == Allocation(decisions, lessons.stats, lessons.total)
      cold == IsColdTotal(lessons.total)
      scored == Scored(decisions, lessons.stats)
      size == [x \in scored |-> IF x \in DOMAIN sizes THEN sizes[x] ELSE 0]
      score == [x \in scored |-> Score(decisions, lessons.stats, x[1], x[2])]
  IN /\ SumFunction(sizes) <= MaxBook(cold)
     /\ \A x \in DOMAIN sizes : sizes[x] <= MaxPosition(cold)
     /\ \A x, y \in scored : score[x] >= score[y] => size[x] >= size[y]

(* A pick leaves the queue counted, whatever crashes.  It needs that one    *)
(* tick runs at a time and nothing is queued meanwhile.                     *)
AQ == INSTANCE AuditQueue WITH queue <- Queued, counts <- lessons.counted
IsAuditQueue == AQ!Spec

(* Whatever is queued is counted at last.                                   *)
QueuedIsCounted == \A p \in Pick : p \in Queued ~> lessons.counted[p] > 0

-----------------------------------------------------------------------------
(* What a tick maintains on its way. *)

(* The entries a tick has still to judge or will leave. *)
Left(t) == kept[t] \cup (IF pc[t] \in {"stats", "picks"} THEN due[t] ELSE {})

(* The tick's copy tells what it has judged itself, which lessons.md does   *)
(* once it is rewritten and until then as if nothing of the queue were.     *)
Tallied(t) ==
  /\ pc[t] # "queue" => Tells(lessons, pending)
  /\ pc[t] = "queue" => Tells(lessons, kept[t])
  /\ pc[t] \in {"picks", "watches", "unlink", "lessons"} => Tells(fm[t], Left(t))
  /\ pc[t] = "queue" /\ ~processed[t] => kept[t] = pending
  /\ pc[t] = "lessons" => processed[t]

AllTallied == \A t \in Tick : Tallied(t)

-----------------------------------------------------------------------------
(* A statement of the documentation that the code does not keep: section 6  *)
(* of the README says how to see it.                                        *)

(* predictions/paper_portfolio.py:12: both versions are one continuous      *)
(* audit ledger, so every pick judged is in the portfolio.                  *)
PortfolioIsComplete ==
  PortfolioAudits = V1Audits + Cardinality({p \in Pick : outcomes[p] # NoOutcome})
=============================================================================
