-------------------------------- MODULE Fund --------------------------------
(***************************************************************************)
(* The paper-trading account of the Solana multi-agent fund (SMAF).        *)
(*                                                                         *)
(* A tick ends with execute_pm_orders: it loads account.json, applies the  *)
(* Portfolio Manager's orders to that copy one after the other, and saves  *)
(* the copy at the end.  Meanwhile every trade is appended to trades.jsonl *)
(* at once, and every full close is audited at once into lessons.md and    *)
(* closed_trades_audit.jsonl.  `runner.py mark` and `status`, which anyone *)
(* may call at any time, load the account too, fetch prices over HTTP, and *)
(* save what they loaded.                                                  *)
(*                                                                         *)
(* Each file operation is one step (AtomicWrite looks inside one); what a  *)
(* process does to its own copy between two of them happens with the       *)
(* first.  A process that dies loses its copy.                             *)
(*                                                                         *)
(* Amounts are integers; the orders enumerated are those whose units come  *)
(* out whole.  A stop, a take-profit, a peak or an entry consensus is      *)
(* represented by the buy it was set for, which is all the properties ask  *)
(* of it: trades are numbered by their place in trades.jsonl.              *)
(***************************************************************************)
EXTENDS Integers, Sequences, FiniteSets

CONSTANTS
  Ticker,      \* the tokens the fund may hold
  Viewer,      \* processes running mark, status or prepare
  Deposit,     \* INITIAL_DEPOSIT_USD
  FeePct,      \* DEFAULT_LP_FEE_PCT, in percent
  MinSlipPct,  \* MIN_SLIPPAGE_PCT, in percent
  MaxSlipPct,  \* MAX_REASONABLE_SLIPPAGE_PCT, in percent
  SlipCapPct,  \* the hard limit of execute_pm_orders, in percent
  DustUsd,     \* DUST_USD: a position worth less is flat
  CloseUnits,  \* the tolerance below which a sale counts as a full close
  Amount,      \* dollars the orders enumerated spend on a buy
  Lot,         \* units the orders enumerated sell
  Price,       \* prices enumerated
  Liquidity,   \* liquidities of a token's main pool
  MaxTrades,   \* bound: trades executed
  MaxFaults    \* bound: crashes, failed snapshots and failed audits

ASSUME FundAssumption ==
  /\ IsFiniteSet(Ticker)
  /\ Deposit \in Nat /\ DustUsd \in Nat \ {0} /\ CloseUnits \in Nat
  /\ FeePct \in Nat /\ MinSlipPct \in Nat /\ MaxSlipPct \in Nat /\ SlipCapPct \in Nat
  /\ FeePct + SlipCapPct <= 100
  /\ Amount \subseteq Nat \ {0} /\ Lot \subseteq Nat \ {0}
  /\ Price \subseteq Nat \ {0} /\ Liquidity \subseteq Nat
  /\ MaxTrades \in Nat /\ MaxFaults \in Nat

VARIABLES
  account,   \* account.json
  trades,    \* trades.jsonl
  audits,    \* closed_trades_audit.jsonl
  scored,    \* total_closed_trades_audited in the frontmatter of lessons.md
  triggers,  \* stop_triggers.jsonl
  unstopped, \* buys for which bugs.jsonl has "PM provided NO stop_loss"
  (* execute_pm_orders *)
  pc,        \* its next file operation
  state,     \* its copy of the account
  closing,   \* the row of the audit in progress
  (* mark_to_market_all *)
  marking,   \* the next step of each viewer
  view,      \* the copy each loaded
  faults     \* faults so far

fileVars == <<account, trades, audits, scored, triggers, unstopped>>
execVars == <<pc, state, closing>>
markVars == <<marking, view>>
vars == <<fileVars, execVars, markVars, faults>>

None == 0
Trade == 1 .. MaxTrades   \* places in trades.jsonl

Holding == [units : Nat, basis : Nat,
            stop : Nat, tp : Nat,       \* the position whose levels are set
            first : Nat,                \* first_buy_unix
            peak : Nat,                 \* peak_price_since_entry
            consensus : Nat,            \* entry_consensus
            position : Nat]             \* history: the buy that opened it from zero

Account == [cash : Int, cost : Nat, count : Nat, holdings : [Ticker -> Holding],
            applied : SUBSET Trade]     \* history: the trades it accounts for

Row == [ticker : Ticker, side : {"buy", "sell"}, cash : Int, cost : Nat, pnl : Int,
        swept : BOOLEAN, flat : BOOLEAN, position : Nat,
        residue : Nat]              \* history: the worth of what a sale leaves

Audit == [ticker : Ticker, position : Nat, consensus : Nat, trade : Nat]
NoAudit == [position |-> None]

Pc == {"idle", "orders", "audit_lessons", "audit_log", "stops"}

NoHolding == [units |-> 0, basis |-> 0, stop |-> None, tp |-> None, first |-> None,
              peak |-> None, consensus |-> None, position |-> None]

Opened == [cash |-> Deposit, cost |-> 0, count |-> 0,
           holdings |-> [t \in Ticker |-> NoHolding], applied |-> {}]

TypeOK ==
  /\ account \in Account
  /\ trades \in Seq(Row)
  /\ audits \in Seq(Audit)
  /\ scored \in Nat
  /\ triggers \subseteq [ticker : Ticker, level : Nat, position : Nat]
  /\ unstopped \subseteq Nat
  /\ pc \in Pc
  /\ state \in Account
  /\ closing \in Audit \cup {NoAudit}
  /\ pc \in {"audit_lessons", "audit_log"} => closing \in Audit
  /\ marking \in [Viewer -> {"idle", "fetch", "save"}]
  /\ view \in [Viewer -> Account]
  /\ faults \in Nat

Init ==
  /\ account = Opened
  /\ trades = << >>
  /\ audits = << >>
  /\ scored = 0
  /\ triggers = {}
  /\ unstopped = {}
  /\ pc = "idle"
  /\ state = Opened
  /\ closing = NoAudit
  /\ marking = [v \in Viewer |-> "idle"]
  /\ view = [v \in Viewer |-> Opened]
  /\ faults = 0

-----------------------------------------------------------------------------
(* The fee model. *)

Pct(usd, percent) == (usd * percent) \div 100

(* Slippage of a trade against a pool, linear in its share of the pool.     *)
SlippagePct(usd, liq) ==
  IF liq = 0 THEN MaxSlipPct
  ELSE LET share == (usd * 100) \div liq
       IN IF share < MinSlipPct THEN MinSlipPct ELSE share

(* fee_usd + slippage_usd *)
CostOf(usd, slip) == Pct(usd, FeePct) + Pct(usd, slip)

-----------------------------------------------------------------------------
(* Trades on a copy of the account. *)

Dust(units, price) == units * price < DustUsd

Number == Len(trades) + 1   \* of the trade about to be appended

(* Mutant: the costs of sales left out of the running total.                *)
BookedBuyCosts(a, t, cash, cost, holding) ==
  [a EXCEPT !.cash = @ + cash,
            !.cost = IF cash < 0 THEN @ + cost ELSE @,
            !.count = @ + 1,
            !.holdings = [@ EXCEPT ![t] = holding],
            !.applied = @ \cup {Number}]

Booked(a, t, cash, cost, holding) ==
  [a EXCEPT !.cash = @ + cash,
            !.cost = @ + cost,
            !.count = @ + 1,
            !.holdings = [@ EXCEPT ![t] = holding],
            !.applied = @ \cup {Number}]

(* Mutant: the history of a closed position carried into the next one.      *)
BoughtKeepingHistory(h, usd, units, price) ==
  [h EXCEPT !.units = @ + units,
            !.basis = @ + usd,
            !.first = IF @ = None THEN Number ELSE @,
            !.peak = IF @ = None THEN Number ELSE @,
            !.position = IF h.units = 0 THEN Number ELSE @]

(* Mutant: cost basis net of fees and slippage.                             *)
BoughtAtNet(h, usd, units, price) ==
  LET fresh == Dust(h.units, price)
  IN [h EXCEPT !.units = @ + units,
               !.basis = @ + units * price,
               !.first = IF fresh THEN Number ELSE @,
               !.peak = IF fresh THEN Number ELSE @,
               !.position = IF h.units = 0 THEN Number ELSE @]

(* A buy from flat starts the position's history afresh; an add keeps it.   *)
Bought(h, usd, units, price) ==
  LET fresh == Dust(h.units, price)
  IN [h EXCEPT !.units = @ + units,
               !.basis = @ + usd,
               !.first = IF fresh THEN Number ELSE @,
               !.peak = IF fresh THEN Number ELSE @,
               !.position = IF h.units = 0 THEN Number ELSE @]

(* Mutant: a level the order does not name is cleared.                      *)
WithExactLevels(h, stop, tp) ==
  IF h.units = 0 THEN h
  ELSE [h EXCEPT !.stop = IF stop THEN h.position ELSE None,
                 !.tp = IF tp THEN h.position ELSE None]

(* set_risk_levels: a level the order does not name stays as it is.         *)
WithLevels(h, stop, tp) ==
  IF h.units = 0 THEN h
  ELSE [h EXCEPT !.stop = IF stop THEN h.position ELSE @,
                 !.tp = IF tp THEN h.position ELSE @]

(* Mutant: the whole basis is released by a partial sale.                   *)
ReleasedAll(h, units) == h.basis

Released(h, units) == (h.basis * units) \div h.units

(* Cost basis is released in proportion; a residue of dust is swept and its *)
(* levels cleared.                                                          *)
Sold(h, units, price) ==
  LET rest == [h EXCEPT !.units = @ - units, !.basis = @ - Released(h, units)]
  IN IF 0 < rest.units * price /\ rest.units * price < DustUsd
     THEN [rest EXCEPT !.units = 0, !.basis = 0, !.stop = None, !.tp = None]
     ELSE rest

Swept(h, units, price) == Sold(h, units, price).units # h.units - units

-----------------------------------------------------------------------------
(* execute_pm_orders *)

Held(t) == state.holdings[t]

(* Malformed orders, orders above the slippage cap, buys beyond the cash    *)
(* and sales of nothing change nothing: the guards below leave them out.    *)
Load ==
  /\ pc = "idle"
  /\ pc' = "orders"
  /\ state' = account
  /\ UNCHANGED <<fileVars, closing, markVars, faults>>

(* The snapshot of the consensus may fail, and the holding keeps the one it *)
(* has: none, or that of an earlier buy.                                    *)
Buy(t, usd, price, slip, stop, tp) ==
  LET cost == CostOf(usd, slip)
      units == (usd - cost) \div price
      bought == Bought(Held(t), usd, units, price)
      levelled == IF stop THEN WithLevels(bought, stop, tp) ELSE bought
      taken == faults' = faults
  IN /\ pc = "orders"
     /\ Number <= MaxTrades
     /\ slip <= SlipCapPct
     /\ usd <= state.cash
     /\ units * price = usd - cost
     /\ \/ UNCHANGED faults
        \/ faults < MaxFaults /\ faults' = faults + 1
     /\ state' = Booked(state, t, -usd, cost,
                        IF taken THEN [levelled EXCEPT !.consensus = Number] ELSE levelled)
     /\ trades' = Append(trades,
          [ticker |-> t, side |-> "buy", cash |-> -usd, cost |-> cost, pnl |-> 0,
           swept |-> FALSE, flat |-> FALSE, position |-> bought.position, residue |-> 0])
     /\ unstopped' = IF stop THEN unstopped ELSE unstopped \cup {Number}
     /\ UNCHANGED <<account, audits, scored, triggers, pc, closing, markVars>>

(* Mutant: every sale is audited as a close.                                *)
AnySaleCloses(h, units, price) == h.consensus # None

(* Mutant: a close is a sale ordered to the last unit, dust or no dust.     *)
ClosesToTheUnit(h, units, price) == h.units = units /\ h.consensus # None

(* The sale closed a position whose entry consensus is known.               *)
Closes(h, units, price) ==
  Sold(h, units, price).units < CloseUnits /\ h.consensus # None

(* A sale beyond the holding sells the holding, and its fee and slippage    *)
(* are those of what is sold.                                               *)
Sell(t, asked, price, slip) ==
  LET h == Held(t)
      units == IF h.units < asked THEN h.units ELSE asked
      cost == CostOf(units * price, slip)
      net == units * price - cost
  IN /\ pc = "orders"
     /\ Number <= MaxTrades
     /\ slip <= SlipCapPct
     /\ units > 0
     /\ state' = Booked(state, t, net, cost, Sold(h, units, price))
     /\ trades' = Append(trades,
          [ticker |-> t, side |-> "sell", cash |-> net, cost |-> cost,
           pnl |-> net - Released(h, units), swept |-> Swept(h, units, price),
           flat |-> Sold(h, units, price).units < CloseUnits,
           position |-> h.position, residue |-> Sold(h, units, price).units * price])
     /\ IF Closes(h, units, price)
        THEN /\ pc' = "audit_lessons"
             /\ closing' = [ticker |-> t, position |-> h.position,
                            consensus |-> h.consensus, trade |-> Number]
        ELSE UNCHANGED <<pc, closing>>
     /\ UNCHANGED <<account, audits, scored, triggers, unstopped, markVars, faults>>

(* audit_close: the scoreboards of lessons.md, then the audit log. *)
AuditLessons ==
  /\ pc = "audit_lessons"
  /\ scored' = scored + 1
  /\ pc' = "audit_log"
  /\ UNCHANGED <<account, trades, audits, triggers, unstopped, state, closing,
                 markVars, faults>>

AuditLog ==
  /\ pc = "audit_log"
  /\ audits' = Append(audits, closing)
  /\ closing' = NoAudit
  /\ pc' = "orders"
  /\ UNCHANGED <<account, trades, scored, triggers, unstopped, state, markVars, faults>>

(* An exception in audit_close is logged and swallowed. *)
AuditFails ==
  /\ pc \in {"audit_lessons", "audit_log"}
  /\ faults < MaxFaults
  /\ faults' = faults + 1
  /\ closing' = NoAudit
  /\ pc' = "orders"
  /\ UNCHANGED <<fileVars, state, markVars>>

OrdersDone ==
  /\ pc = "orders"
  /\ pc' = "stops"
  /\ UNCHANGED <<fileVars, state, closing, markVars, faults>>

StopUpdate(t, stop, tp) ==
  /\ pc = "stops"
  /\ state' = [state EXCEPT !.holdings[t] = WithLevels(@, stop, tp)]
  /\ UNCHANGED <<fileVars, pc, closing, markVars, faults>>

Stop == pc' = "idle" /\ state' = Opened /\ closing' = NoAudit

(* The equity row that is appended afterwards is read by reports only.      *)
Save ==
  /\ pc = "stops"
  /\ account' = state
  /\ Stop
  /\ UNCHANGED <<trades, audits, scored, triggers, unstopped, markVars, faults>>

Crash ==
  /\ pc # "idle"
  /\ faults < MaxFaults
  /\ faults' = faults + 1
  /\ Stop
  /\ UNCHANGED <<fileVars, markVars>>

-----------------------------------------------------------------------------
(* mark_to_market_all *)

LoadForMark(v) ==
  /\ marking[v] = "idle"
  /\ marking' = [marking EXCEPT ![v] = "fetch"]
  /\ view' = [view EXCEPT ![v] = account]
  /\ UNCHANGED <<fileVars, execVars, faults>>

(* check_stop_triggers, on the tokens whose price arrived and whose holding *)
(* is more than dust: a price may be a new peak, and may breach a level     *)
(* that is set.                                                             *)
Visible(a, quote) ==
  {t \in Ticker : /\ quote[t] # None
                  /\ a.holdings[t].units > 0
                  /\ ~Dust(a.holdings[t].units, quote[t])}

WithPeaks(a, risen) ==
  [a EXCEPT !.holdings =
     [t \in Ticker |-> LET h == a.holdings[t]
                       IN IF t \in risen THEN [h EXCEPT !.peak = h.position] ELSE h]]

Breaches(a, open) ==
  {e \in [ticker : open, level : Trade, position : {a.holdings[t].position : t \in open}] :
     /\ e.position = a.holdings[e.ticker].position
     /\ e.level \in {a.holdings[e.ticker].stop, a.holdings[e.ticker].tp}}

Detect(v) ==
  /\ marking[v] = "fetch"
  /\ marking' = [marking EXCEPT ![v] = "save"]
  /\ \E quote \in [Ticker -> Price \cup {None}] :
       LET open == Visible(view[v], quote)
       IN \E risen \in SUBSET open, fired \in SUBSET Breaches(view[v], open) :
            /\ view' = [view EXCEPT ![v] = WithPeaks(view[v], risen)]
            /\ \A d, e \in fired : d.ticker = e.ticker => d = e
            /\ triggers' = triggers \cup fired
  /\ UNCHANGED <<account, trades, audits, scored, unstopped, execVars, faults>>

SaveMark(v) ==
  /\ marking[v] = "save"
  /\ marking' = [marking EXCEPT ![v] = "idle"]
  /\ account' = view[v]
  /\ view' = [view EXCEPT ![v] = Opened]
  /\ UNCHANGED <<trades, audits, scored, triggers, unstopped, execVars, faults>>

-----------------------------------------------------------------------------
Orders ==
  \E t \in Ticker, price \in Price, liq \in Liquidity :
    \/ \E usd \in Amount, stop, tp \in BOOLEAN :
         Buy(t, usd, price, SlippagePct(usd, liq), stop, tp)
    \/ \E asked \in Lot : Sell(t, asked, price, SlippagePct(asked * price, liq))

Execute ==
  \/ Load \/ Orders \/ AuditLessons \/ AuditLog \/ OrdersDone \/ Save
  \/ \E t \in Ticker, stop, tp \in BOOLEAN : StopUpdate(t, stop, tp)

Mark == \E v \in Viewer : LoadForMark(v) \/ Detect(v) \/ SaveMark(v)

Next == Execute \/ Mark \/ AuditFails \/ Crash

Spec == Init /\ [][Next]_vars
=============================================================================
