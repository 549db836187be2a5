----------------------------- MODULE FundProps ------------------------------
(***************************************************************************)
(* What the books of the fund must add up to, and what its health checks   *)
(* and comments say of them.                                               *)
(***************************************************************************)
EXTENDS Fund, Functions

(* Of the trades in S, as the journal has them. *)
CostOfAll(S) == SumFunctionOnSet([i \in DOMAIN trades |-> trades[i].cost], S)
CashOfAll(S) == SumFunctionOnSet([i \in DOMAIN trades |-> trades[i].cash], S)
PnlOfAll(S) == SumFunctionOnSet([i \in DOMAIN trades |-> trades[i].pnl], S)

Basis(a) == SumFunction([t \in Ticker |-> a.holdings[t].basis])

Sales(t) == {i \in DOMAIN trades : trades[i].side = "sell" /\ trades[i].ticker = t}
Closures(t) == {i \in Sales(t) : trades[i].flat}
Audited(t) == {i \in DOMAIN audits : audits[i].ticker = t}

(* The sale left more of the position than dust.                            *)
LeftOpen(c) == trades[c].residue >= DustUsd

AuditedOnce ==
  \A j \in DOMAIN audits : \A i \in 1 .. j - 1 :
    audits[i].position = audits[j].position => LeftOpen(audits[i].trade)

Copies == {account, state} \cup {view[v] : v \in Viewer}

(* healthcheck.py I1 and I2: no order, however sized, takes the cash or a   *)
(* position below zero, and an open position has a cost.                    *)
Solvent ==
  \A a \in Copies :
    /\ a.cash >= 0
    /\ \A t \in Ticker : a.holdings[t].units > 0 => a.holdings[t].basis > 0

(* What a copy of the account owes to the journal. *)
Journalled(a) ==
  LET books == a.cash + Basis(a)
      earned == Deposit + PnlOfAll(a.applied)
  IN /\ a.applied \subseteq DOMAIN trades
     /\ a.count = Cardinality(a.applied)
     /\ a.cash = Deposit + CashOfAll(a.applied)
     /\ a.cost = CostOfAll(a.applied)
     /\ books <= earned
     /\ (\A i \in a.applied : ~trades[i].swept) => books = earned

(* The journal comes first: whatever was lost by a crash or overwritten by  *)
(* a viewer, the account on disk and every copy of it are exactly what some *)
(* of the journalled trades make of the deposit, in cash, in costs and in   *)
(* number; and profit and loss reconcile: cash and cost basis together are  *)
(* the deposit and the realised profits, or less when a sweep of dust wrote *)
(* off the basis of the residue without a loss in the journal.              *)
AccountIsJournalled == \A a \in Copies : Journalled(a)

(* healthcheck.py I5: "Fee + slippage running totals should be sum of       *)
(* trades" between two ticks.                                               *)
LedgerBalances == pc = "idle" => account.cost = CostOfAll(DOMAIN trades)

(* The peak a trailing stop is measured from, and the age of a position,    *)
(* belong to the position that is open and not to an earlier one of the     *)
(* same token, whichever copy was saved last.                               *)
HistoryIsOwn ==
  \A a \in Copies, t \in Ticker :
    LET h == a.holdings[t] IN
    h.units > 0 => h.peak >= h.position /\ h.first >= h.position

(* A position that is open without a stop of its own is never silent: the   *)
(* bug log has a buy of it that came without one.                           *)
UnprotectedIsReported ==
  \A a \in Copies, t \in Ticker :
    LET h == a.holdings[t] IN
    h.units > 0 /\ h.stop # h.position =>
      \E b \in unstopped : b >= h.position /\ b \in DOMAIN trades /\ trades[b].ticker = t

(* An audit row stands for a close in the journal, a close has one row at   *)
(* most, and the scoreboards never lag the log.                             *)
AuditsAreCloses ==
  /\ \A i \in DOMAIN audits :
       LET c == audits[i].trade IN
       /\ c \in DOMAIN trades /\ trades[c].flat /\ trades[c].position = audits[i].position
       /\ \A j \in DOMAIN audits : audits[j].trade = c => j = i
  /\ scored >= Len(audits)

(* When nothing fails every close is audited, with the consensus of a buy   *)
(* of the position it closed, and that audit is the last of the position.   *)
(* One close is excepted, which is told by its units and swept by its worth:*)
(* it may leave some units of a dear token, that are sold and audited again.*)
ClosesAreAudited ==
  /\ pc = "idle" => \A t \in Ticker :
       /\ Cardinality(Audited(t)) = Cardinality(Closures(t))
       /\ \A i \in Audited(t) : audits[i].consensus >= audits[i].position
  /\ AuditedOnce

-----------------------------------------------------------------------------
(* Statements of the documentation. *)

(* account.py:213-215 clears the levels of a closed position so that they   *)
(* "can't re-fire a phantom trigger": a trigger is of a level that was set  *)
(* for the position it is reported on.                                      *)
NoPhantomTriggers == \A e \in triggers : e.level = e.position

-----------------------------------------------------------------------------
(* The inductive invariant behind these.  Sound holds of a holding in any   *)
(* copy of the account, and goes on holding as the journals grow.           *)

Sound(h, t) ==
  /\ h.position <= Len(trades)
  /\ h.units > 0 =>
       /\ h.basis > 0
       /\ h.peak >= h.position /\ h.first >= h.position
       /\ h.stop # h.position =>
            \E b \in unstopped : b >= h.position /\ b \in DOMAIN trades /\ trades[b].ticker = t

SoundCopy(a) == a.cash >= 0 /\ \A t \in Ticker : Sound(a.holdings[t], t)

CopiesSound == \A a \in Copies : SoundCopy(a)

(* The audit in progress is of the last trade of the journal, a close no    *)
(* row stands for yet.                                                      *)
AuditInProgress ==
  /\ pc \in {"audit_lessons", "audit_log"} =>
       /\ closing.trade = Len(trades) /\ closing.trade > 0
       /\ trades[closing.trade].flat
       /\ trades[closing.trade].position = closing.position
       /\ \A i \in DOMAIN audits : audits[i].trade < closing.trade
  /\ pc = "audit_log" => scored > Len(audits)

FundInv ==
  /\ TypeOK
  /\ CopiesSound
  /\ AccountIsJournalled
  /\ AuditsAreCloses
  /\ AuditInProgress

-----------------------------------------------------------------------------
(* And what holds besides when the orders run alone and nothing fails. *)

Alone == Viewer = {} /\ MaxFaults = 0

Live == IF pc = "idle" THEN account ELSE state   \* the copy the next order sees

Auditing == pc \in {"audit_lessons", "audit_log"}

(* The copy in use accounts for every trade. *)
NothingIsLost ==
  /\ faults = 0
  /\ Live.applied = DOMAIN trades

(* An audit is of a sale, and its consensus of a buy of what was sold.      *)
AuditOfSale(c) ==
  /\ c.position \in DOMAIN trades /\ c.consensus >= c.position
  /\ c.trade \in DOMAIN trades
  /\ trades[c.trade].side = "sell" /\ trades[c.trade].ticker = c.ticker

(* An open position was opened by a trade in its token, is remembered with  *)
(* a consensus of its own, and any audit it has had was of a sale that left *)
(* more than dust of it.                                                    *)
OpenOnce(h, t) ==
  /\ h.position \in DOMAIN trades /\ trades[h.position].ticker = t
  /\ h.consensus >= h.position
  /\ \A i \in DOMAIN audits : audits[i].position = h.position => LeftOpen(audits[i].trade)
  /\ Auditing /\ closing.position = h.position => LeftOpen(closing.trade)

ClosesInv ==
  /\ \A t \in Ticker : Live.holdings[t].units > 0 => OpenOnce(Live.holdings[t], t)
  /\ \A i \in DOMAIN audits : AuditOfSale(audits[i])
  /\ AuditedOnce
  /\ Auditing =>
       /\ AuditOfSale(closing)
       /\ \A i \in DOMAIN audits :
            audits[i].position = closing.position => LeftOpen(audits[i].trade)
  /\ \A c \in DOMAIN trades : trades[c].flat =>
       \/ \E i \in DOMAIN audits : audits[i].trade = c
       \/ Auditing /\ closing.trade = c
=============================================================================
