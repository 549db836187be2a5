---------------------------- MODULE FundProofs -----------------------------
(***************************************************************************)
(* What holds of the fund for any tokens, any number of viewers and any    *)
(* bound on trades and faults.                                             *)
(*                                                                         *)
(* The heart of the argument is Sound, a property of one holding in one    *)
(* copy of the account and of the journals.  The journals only grow, so a  *)
(* copy that was sound when it was made stays sound however late it is     *)
(* saved: nothing a slow viewer writes back is ever unsound.               *)
(***************************************************************************)
EXTENDS FundProps, SetLemmas, TLAPS

USE FundAssumption

(* Integer division of a natural number. *)
LEMMA DivBounds ==
  ASSUME NEW a \in Nat, NEW n \in Nat \ {0}
  PROVE  /\ a \div n \in Nat
         /\ n * (a \div n) <= a
         /\ a < n * (a \div n) + n
  OBVIOUS

(* A share of u parts in n of b is at most b, and less than b unless it is  *)
(* everything.                                                              *)
LEMMA ShareBounds ==
  ASSUME NEW b \in Nat, NEW u \in Nat, NEW n \in Nat \ {0}, u <= n
  PROVE  /\ (b * u) \div n \in Nat
         /\ (b * u) \div n <= b
         /\ u < n /\ b > 0 => (b * u) \div n < b
<1> DEFINE q == (b * u) \div n
<1>1. b * u \in Nat
  OBVIOUS
<1>2. q \in Nat /\ n * q <= b * u
  BY <1>1, DivBounds
<1>3. b * u <= b * n
  OBVIOUS
<1>4. q <= b
  BY <1>2, <1>3
<1>5. ASSUME u < n, b > 0 PROVE q < b
  <2>1. b * u < b * n
    BY <1>5
  <2>2. n * q < n * b
    BY <1>2, <2>1
  <2>3. QED
    BY <1>2, <2>2
<1>6. QED
  BY <1>2, <1>4, <1>5

-----------------------------------------------------------------------------
(* The fee model: what a trade costs is a part of what it moves. *)

LEMMA SlippageType ==
  ASSUME NEW usd \in Nat, NEW liq \in Nat
  PROVE  SlippagePct(usd, liq) \in Nat
<1>1. liq # 0 => (usd * 100) \div liq \in Nat
  BY DivBounds
<1>2. QED
  BY <1>1 DEF SlippagePct

LEMMA CostBounds ==
  ASSUME NEW usd \in Nat, NEW slip \in Nat, slip <= SlipCapPct
  PROVE  CostOf(usd, slip) \in Nat /\ CostOf(usd, slip) <= usd
<1>1. usd * FeePct \in Nat /\ usd * slip \in Nat
  OBVIOUS
<1>2. usd * FeePct + usd * slip = usd * (FeePct + slip)
  OBVIOUS
<1>3. usd * (FeePct + slip) <= usd * 100
  OBVIOUS
<1>4. QED
  BY <1>1, <1>2, <1>3 DEF CostOf, Pct

-----------------------------------------------------------------------------
(* Holdings. *)

LEMMA ReleasedType ==
  ASSUME NEW h \in Holding, NEW units \in Nat, 0 < units, units <= h.units
  PROVE  /\ Released(h, units) \in Nat /\ Released(h, units) <= h.basis
         /\ units < h.units /\ h.basis > 0 => Released(h, units) < h.basis
<1>1. h.basis \in Nat /\ h.units \in Nat \ {0}
  BY DEF Holding
<1>2. QED
  BY <1>1, ShareBounds DEF Released

(* What a sale may make of a holding. *)
SoldAs(k, h) ==
  /\ k \in Holding
  /\ k.position = h.position
  /\ k.units > 0 =>
       /\ k.peak = h.peak /\ k.first = h.first /\ k.stop = h.stop
       /\ h.basis > 0 => k.basis > 0

LEMMA SoldType ==
  ASSUME NEW h \in Holding, NEW units \in Nat, 0 < units, units <= h.units,
         NEW price \in Nat \ {0}
  PROVE  SoldAs(Sold(h, units, price), h)
<1>1. h.basis \in Nat /\ h.units \in Nat \ {0}
  BY DEF Holding
<1>2. /\ Released(h, units) \in Nat /\ Released(h, units) <= h.basis
      /\ units < h.units /\ h.basis > 0 => Released(h, units) < h.basis
  BY ReleasedType
<1> DEFINE rest == [h EXCEPT !.units = @ - units, !.basis = @ - Released(h, units)]
<1>3. /\ rest \in Holding
      /\ rest.units = h.units - units /\ rest.basis = h.basis - Released(h, units)
      /\ rest.position = h.position /\ rest.peak = h.peak /\ rest.first = h.first
      /\ rest.stop = h.stop
  <2>1. PICK u, b \in Nat : u = h.units - units /\ b = h.basis - Released(h, units)
    BY <1>1, <1>2
  <2>2. rest = [h EXCEPT !.units = u, !.basis = b]
    BY <2>1
  <2> HIDE DEF rest
  <2>3. rest \in Holding
    BY <2>2 DEF Holding
  <2>4. QED
    BY <2>1, <2>2 DEF Holding
<1>4. CASE 0 < rest.units * price /\ rest.units * price < DustUsd
  <2> DEFINE flat == [rest EXCEPT !.units = 0, !.basis = 0, !.stop = None, !.tp = None]
  <2>1. Sold(h, units, price) = flat
    BY <1>4 DEF Sold
  <2>2. flat \in Holding /\ flat.units = 0 /\ flat.position = h.position
    BY <1>3 DEF Holding, None
  <2>3. QED
    BY <2>1, <2>2 DEF SoldAs
<1>5. CASE ~(0 < rest.units * price /\ rest.units * price < DustUsd)
  <2>1. Sold(h, units, price) = rest
    BY <1>5 DEF Sold
  <2>2. rest.units > 0 /\ h.basis > 0 => rest.basis > 0
    BY <1>1, <1>2, <1>3
  <2>3. QED
    BY <1>3, <2>1, <2>2 DEF SoldAs
<1>6. QED
  BY <1>4, <1>5

(* What a sale leaves of the books of the holding.                          *)
BooksOfSale(k, h, units, price) ==
  /\ k.basis <= h.basis - Released(h, units)
  /\ ~Swept(h, units, price) => k.basis = h.basis - Released(h, units)
  /\ k.units > 0 => k.consensus = h.consensus
  /\ k.units > 0 => k.units * price >= DustUsd

LEMMA SoldBooks ==
  ASSUME NEW h \in Holding, NEW units \in Nat, 0 < units, units <= h.units,
         NEW price \in Price, NEW k, k = Sold(h, units, price)
  PROVE  BooksOfSale(k, h, units, price)
<1>1. h.basis \in Nat /\ h.units \in Nat \ {0} /\ price \in Nat \ {0}
  BY DEF Holding
<1>2. PICK u, b \in Nat : u = h.units - units /\ b = h.basis - Released(h, units)
  BY <1>1, ReleasedType
<1> DEFINE rest == [h EXCEPT !.units = u, !.basis = b]
           dust == 0 < u * price /\ u * price < DustUsd
<1>3. k = IF dust THEN [rest EXCEPT !.units = 0, !.basis = 0, !.stop = None, !.tp = None]
          ELSE rest
  BY <1>2 DEF Sold, Holding
<1>4. rest.units = u /\ rest.basis = b /\ rest.consensus = h.consensus
  BY DEF Holding
<1>5. CASE dust
  <2>1. k.units = 0 /\ k.basis = 0
    BY <1>3, <1>5 DEF Holding
  <2>2. u # 0
    BY <1>1, <1>5
  <2>3. Swept(h, units, price)
    BY <1>2, <2>1, <2>2 DEF Swept
  <2>4. QED
    BY <1>2, <2>1, <2>3 DEF BooksOfSale
<1>6. CASE ~dust
  <2>1. k = rest
    BY <1>3, <1>6
  <2>2. u > 0 => u * price >= DustUsd
    <3>1. PICK worth \in Nat : worth = u * price
      BY <1>2
    <3>2. u > 0 => worth > 0
      BY <1>1, <3>1
    <3>3. QED
      BY <1>6, <3>1, <3>2
  <2>3. QED
    BY <1>2, <1>4, <2>1, <2>2 DEF BooksOfSale
<1>7. QED
  BY <1>5, <1>6

LEMMA LevelsType ==
  ASSUME NEW h \in Holding, NEW stop \in BOOLEAN, NEW tp \in BOOLEAN
  PROVE  /\ WithLevels(h, stop, tp) \in Holding
         /\ WithLevels(h, stop, tp).units = h.units
         /\ WithLevels(h, stop, tp).basis = h.basis
         /\ WithLevels(h, stop, tp).peak = h.peak
         /\ WithLevels(h, stop, tp).first = h.first
         /\ WithLevels(h, stop, tp).position = h.position
         /\ h.units > 0 =>
              WithLevels(h, stop, tp).stop = IF stop THEN h.position ELSE h.stop
<1>1. CASE h.units = 0
  BY <1>1 DEF WithLevels, Holding
<1>2. CASE h.units # 0
  <2> DEFINE s == IF stop THEN h.position ELSE h.stop
             l == IF tp THEN h.position ELSE h.tp
  <2>1. s \in Nat /\ l \in Nat
    BY DEF Holding
  <2>2. WithLevels(h, stop, tp) = [h EXCEPT !.stop = s, !.tp = l]
    BY <1>2 DEF WithLevels
  <2>3. QED
    BY <2>1, <2>2 DEF Holding
<1>3. QED
  BY <1>1, <1>2

(* What a buy may make of a holding. *)
BoughtAs(b, h, usd, units) ==
  /\ b \in Holding
  /\ b.units = h.units + units /\ b.basis = h.basis + usd
  /\ b.stop = h.stop
  /\ b.position = IF h.units = 0 THEN Number ELSE h.position
  /\ \/ b.first = Number /\ b.peak = Number
     \/ h.units > 0 /\ b.first = h.first /\ b.peak = h.peak

LEMMA BoughtType ==
  ASSUME Number \in Nat, NEW h \in Holding, NEW usd \in Nat, NEW units \in Nat,
         NEW price \in Nat \ {0}, NEW bought, bought = Bought(h, usd, units, price)
  PROVE  BoughtAs(bought, h, usd, units)
<1> DEFINE fresh == Dust(h.units, price)
           f == IF fresh THEN Number ELSE h.first
           k == IF fresh THEN Number ELSE h.peak
           o == IF h.units = 0 THEN Number ELSE h.position
           b == [h EXCEPT !.units = h.units + units, !.basis = h.basis + usd,
                          !.first = f, !.peak = k, !.position = o]
<1>1. bought = b
  BY DEF Bought
<1>2. h.units = 0 => fresh
  BY DEF Dust
<1>3. f \in Nat /\ k \in Nat /\ o \in Nat /\ h.units + units \in Nat /\ h.basis + usd \in Nat
  BY DEF Holding
<1>4. /\ b \in Holding
      /\ b.units = h.units + units /\ b.basis = h.basis + usd
      /\ b.stop = h.stop /\ b.position = o /\ b.first = f /\ b.peak = k
  <2> HIDE DEF f, k, o
  <2> QED
    BY <1>3 DEF Holding
<1>5. \/ f = Number /\ k = Number
      \/ h.units > 0 /\ f = h.first /\ k = h.peak
  <2>1. h.units \in Nat
    BY DEF Holding
  <2>2. QED
    BY <1>2, <2>1
<1> HIDE DEF f, k, o, b, fresh
<1>6. QED
  BY <1>1, <1>4, <1>5 DEF o, BoughtAs

LEMMA HeldType ==
  ASSUME TypeOK, NEW t \in Ticker
  PROVE  Held(t) \in Holding
  BY DEF TypeOK, Account, Held

LEMMA BookedType ==
  ASSUME TypeOK, Number <= MaxTrades, NEW t \in Ticker, NEW cash \in Int,
         NEW cost \in Nat, NEW holding \in Holding
  PROVE  LET a == Booked(state, t, cash, cost, holding) IN
         /\ a \in Account
         /\ a.cash = state.cash + cash /\ a.cost = state.cost + cost
         /\ a.count = state.count + 1 /\ a.applied = state.applied \cup {Number}
         /\ a.holdings[t] = holding
         /\ \A s \in Ticker : s # t => a.holdings[s] = state.holdings[s]
<1>1. Number \in Trade /\ state \in Account
  BY DEF TypeOK, Number, Trade
<1>2. PICK c \in Int, k, n \in Nat, held \in [Ticker -> Holding], done \in SUBSET Trade :
        /\ c = state.cash + cash /\ k = state.cost + cost /\ n = state.count + 1
        /\ held = [state.holdings EXCEPT ![t] = holding]
        /\ done = state.applied \cup {Number}
  <2>1. [state.holdings EXCEPT ![t] = holding] \in [Ticker -> Holding]
    BY <1>1 DEF Account
  <2>2. state.applied \cup {Number} \in SUBSET Trade
    BY <1>1 DEF Account
  <2>3. /\ state.cash + cash \in Int /\ state.cost + cost \in Nat
        /\ state.count + 1 \in Nat
    BY <1>1 DEF Account
  <2>4. QED
    BY <2>1, <2>2, <2>3
<1>3. Booked(state, t, cash, cost, holding)
        = [state EXCEPT !.cash = c, !.cost = k, !.count = n, !.holdings = held, !.applied = done]
  BY <1>2 DEF Booked
<1>4. /\ Booked(state, t, cash, cost, holding) \in Account
      /\ Booked(state, t, cash, cost, holding).cash = c
      /\ Booked(state, t, cash, cost, holding).holdings = held
      /\ Booked(state, t, cash, cost, holding).cost = k
      /\ Booked(state, t, cash, cost, holding).count = n
      /\ Booked(state, t, cash, cost, holding).applied = done
  BY <1>1, <1>3 DEF Account
<1>5. held[t] = holding /\ \A s \in Ticker : s # t => held[s] = state.holdings[s]
  BY <1>1, <1>2 DEF Account
<1>6. QED
  BY <1>2, <1>4, <1>5

(* What booking a trade makes of a copy, as one fact to cite.               *)
BookedAs(b, a, t, cash, cost, holding) ==
  /\ b \in Account
  /\ b.cash = a.cash + cash /\ b.cost = a.cost + cost
  /\ b.count = a.count + 1 /\ b.applied = a.applied \cup {Number}
  /\ b.holdings[t] = holding
  /\ \A s \in Ticker : s # t => b.holdings[s] = a.holdings[s]

LEMMA BookedCopy ==
  ASSUME TypeOK, Number <= MaxTrades, NEW t \in Ticker, NEW cash \in Int,
         NEW cost \in Nat, NEW holding \in Holding, NEW b, NEW a,
         a = state, b = Booked(state, t, cash, cost, holding)
  PROVE  BookedAs(b, a, t, cash, cost, holding)
<1>1. BookedAs(Booked(state, t, cash, cost, holding), state, t, cash, cost, holding)
  BY BookedType DEF BookedAs
<1>2. QED
  BY <1>1

(* What a buy makes of the state and of the journal. *)
BuyEffect(t, usd, stop, holding, cost, row) ==
  /\ state' = Booked(state, t, -usd, cost, holding)
  /\ trades' = Append(trades, row) /\ row.ticker = t
  /\ row.cash = -usd /\ row.cost = cost /\ row.pnl = 0 /\ ~row.swept /\ ~row.flat
  /\ holding.basis > 0 /\ holding.basis = Held(t).basis + usd
  /\ faults' = faults => holding.consensus = Number
  /\ holding.position = IF Held(t).units = 0 THEN Number ELSE Held(t).position
  /\ \/ holding.first = Number /\ holding.peak = Number
     \/ /\ Held(t).units > 0
        /\ holding.first = Held(t).first /\ holding.peak = Held(t).peak
  /\ stop /\ holding.units > 0 => holding.stop = holding.position
  /\ ~stop => Number \in unstopped'

LEMMA BuyFacts ==
  ASSUME TypeOK, NEW t \in Ticker, NEW usd \in Nat \ {0}, NEW price \in Nat \ {0},
         NEW slip \in Nat, NEW stop \in BOOLEAN, NEW tp \in BOOLEAN,
         Buy(t, usd, price, slip, stop, tp)
  PROVE  \E holding \in Holding, cost \in Nat, row \in Row :
           BuyEffect(t, usd, stop, holding, cost, row)
<1>1. Held(t) \in Holding /\ Number \in Nat
  BY HeldType DEF TypeOK, Number
<1>2. slip <= SlipCapPct
  BY DEF Buy
<1>3. PICK cost \in Nat : cost = CostOf(usd, slip) /\ cost <= usd
  BY <1>2, CostBounds
<1>4. PICK units \in Nat : units = (usd - cost) \div price
  BY <1>3, DivBounds
<1>5. PICK bought \in Holding :
        /\ bought = Bought(Held(t), usd, units, price)
        /\ bought.basis = Held(t).basis + usd
        /\ bought.stop = Held(t).stop
        /\ bought.position = IF Held(t).units = 0 THEN Number ELSE Held(t).position
        /\ \/ bought.first = Number /\ bought.peak = Number
           \/ /\ Held(t).units > 0
              /\ bought.first = Held(t).first /\ bought.peak = Held(t).peak
  <2>1. PICK h \in Holding : h = Held(t)
    BY <1>1
  <2>2. PICK b : b = Bought(h, usd, units, price)
    OBVIOUS
  <2>3. /\ b \in Holding
        /\ b.basis = h.basis + usd /\ b.stop = h.stop
        /\ b.position = IF h.units = 0 THEN Number ELSE h.position
        /\ \/ b.first = Number /\ b.peak = Number
           \/ h.units > 0 /\ b.first = h.first /\ b.peak = h.peak
    <3>1. BoughtAs(b, h, usd, units)
      BY <1>1, <2>2, BoughtType
    <3>2. QED
      BY <3>1 DEF BoughtAs
  <2>4. QED
    BY <2>1, <2>2, <2>3
<1>6. PICK levelled \in Holding :
        /\ levelled = IF stop THEN WithLevels(bought, stop, tp) ELSE bought
        /\ levelled.basis = bought.basis /\ levelled.position = bought.position
        /\ levelled.first = bought.first /\ levelled.peak = bought.peak
        /\ stop /\ levelled.units > 0 => levelled.stop = levelled.position
  <2>1. CASE stop
    <3>1. PICK l : l = WithLevels(bought, stop, tp)
      OBVIOUS
    <3>2. /\ l \in Holding /\ l.units = bought.units /\ l.basis = bought.basis
          /\ l.position = bought.position /\ l.first = bought.first /\ l.peak = bought.peak
          /\ bought.units > 0 => l.stop = bought.position
      BY <2>1, <3>1, LevelsType
    <3>3. QED
      BY <2>1, <3>1, <3>2
  <2>2. CASE ~stop
    BY <2>2
  <2>3. QED
    BY <2>1, <2>2
<1>7. PICK holding \in Holding :
        /\ holding = IF faults' = faults THEN [levelled EXCEPT !.consensus = Number]
                     ELSE levelled
        /\ holding.basis = levelled.basis /\ holding.position = levelled.position
        /\ holding.first = levelled.first /\ holding.peak = levelled.peak
        /\ holding.stop = levelled.stop /\ holding.units = levelled.units
        /\ faults' = faults => holding.consensus = Number
  <2> DEFINE k == [levelled EXCEPT !.consensus = Number]
  <2>1. k \in Holding
    BY <1>1 DEF Holding
  <2>2. /\ k.basis = levelled.basis /\ k.position = levelled.position
        /\ k.first = levelled.first /\ k.peak = levelled.peak
        /\ k.stop = levelled.stop /\ k.units = levelled.units
        /\ k.consensus = Number
    BY DEF Holding
  <2> HIDE DEF k
  <2>4. CASE faults' = faults
    BY <2>1, <2>2, <2>4 DEF k
  <2>5. CASE faults' # faults
    BY <2>5
  <2>3. QED
    BY <2>4, <2>5
<1>8. PICK row \in Row :
        row = [ticker |-> t, side |-> "buy", cash |-> -usd, cost |-> cost, pnl |-> 0,
               swept |-> FALSE, flat |-> FALSE, position |-> bought.position, residue |-> 0]
  <2>1. bought.position \in Nat /\ -usd \in Int
    BY DEF Holding
  <2>2. [ticker |-> t, side |-> "buy", cash |-> -usd, cost |-> cost, pnl |-> 0,
         swept |-> FALSE, flat |-> FALSE, position |-> bought.position,
         residue |-> 0] \in Row
    BY <2>1 DEF Row
  <2>3. QED
    BY <2>2
<1>9. /\ state' = Booked(state, t, -usd, cost, holding)
      /\ trades' = Append(trades, row)
      /\ unstopped' = IF stop THEN unstopped ELSE unstopped \cup {Number}
  BY <1>3, <1>4, <1>5, <1>6, <1>7, <1>8 DEF Buy
<1>10. holding.basis > 0
  BY <1>1, <1>5, <1>6, <1>7 DEF Holding
<1>11. /\ row.ticker = t /\ row.cash = -usd /\ row.cost = cost /\ row.pnl = 0
       /\ ~row.swept /\ ~row.flat
  BY <1>8
<1>17. holding.basis = Held(t).basis + usd /\ (faults' = faults => holding.consensus = Number)
  BY <1>5, <1>6, <1>7
<1>12. holding.position = IF Held(t).units = 0 THEN Number ELSE Held(t).position
  BY <1>5, <1>6, <1>7
<1>13. \/ holding.first = Number /\ holding.peak = Number
       \/ /\ Held(t).units > 0
          /\ holding.first = Held(t).first /\ holding.peak = Held(t).peak
  BY <1>5, <1>6, <1>7
<1>14. stop /\ holding.units > 0 => holding.stop = holding.position
  BY <1>6, <1>7
<1>15. ~stop => Number \in unstopped'
  BY <1>9
<1>16. BuyEffect(t, usd, stop, holding, cost, row)
  BY <1>9, <1>10, <1>11, <1>12, <1>13, <1>14, <1>15, <1>17 DEF BuyEffect
<1>18. QED
  BY <1>16

(* What a sale makes of them. *)
SellEffect(t, holding, cost, net, row) ==
  /\ state' = Booked(state, t, net, cost, holding)
  /\ trades' = Append(trades, row)
  /\ unstopped' = unstopped
  /\ net >= 0
  /\ row.ticker = t /\ row.cash = net /\ row.cost = cost /\ row.side = "sell"
  /\ row.position = Held(t).position /\ (row.flat <=> holding.units < CloseUnits)
  /\ net + holding.basis <= Held(t).basis + row.pnl
  /\ ~row.swept => net + holding.basis = Held(t).basis + row.pnl
  /\ Held(t).units > 0
  /\ holding.position = Held(t).position
  /\ holding.units > 0 => row.residue >= DustUsd
  /\ holding.units > 0 =>
       /\ holding.consensus = Held(t).consensus
       /\ holding.peak = Held(t).peak /\ holding.first = Held(t).first
       /\ holding.stop = Held(t).stop
       /\ Held(t).basis > 0 => holding.basis > 0
  /\ \/ \E c \in Audit : /\ pc' = "audit_lessons" /\ closing' = c
                         /\ c.trade = Number /\ c.position = row.position /\ row.flat
                         /\ c.ticker = t /\ c.consensus = Held(t).consensus
     \/ UNCHANGED <<pc, closing>> /\ (row.flat => Held(t).consensus = None)

LEMMA SaleType ==
  ASSUME NEW t \in Ticker, NEW cash \in Int, NEW cost \in Nat, NEW pnl \in Int,
         NEW swept \in BOOLEAN, NEW flat \in BOOLEAN, NEW position \in Nat,
         NEW residue \in Nat
  PROVE  [ticker |-> t, side |-> "sell", cash |-> cash, cost |-> cost, pnl |-> pnl,
          swept |-> swept, flat |-> flat, position |-> position,
          residue |-> residue] \in Row
  BY DEF Row

LEMMA SellFacts ==
  ASSUME TypeOK, NEW t \in Ticker, NEW asked \in Nat \ {0}, NEW price \in Price,
         NEW slip \in Nat, Sell(t, asked, price, slip)
  PROVE  \E holding \in Holding, cost \in Nat, net \in Int, row \in Row :
           SellEffect(t, holding, cost, net, row)
<1>1. PICK h \in Holding : h = Held(t)
  BY HeldType
<1>2. PICK units \in Nat : /\ units = IF h.units < asked THEN h.units ELSE asked
                           /\ units <= h.units
  BY DEF Holding
<1>3. slip <= SlipCapPct /\ units > 0
  BY <1>1, <1>2 DEF Sell
<1>4. units * price \in Nat
  OBVIOUS
<1>5. PICK cost \in Nat : cost = CostOf(units * price, slip) /\ cost <= units * price
  BY <1>3, <1>4, CostBounds
<1>6. PICK net \in Int : net = units * price - cost /\ net >= 0
  BY <1>4, <1>5
<1>7. PICK holding \in Holding :
        /\ holding = Sold(h, units, price)
        /\ holding.position = h.position
        /\ holding.units > 0 =>
             /\ holding.peak = h.peak /\ holding.first = h.first /\ holding.stop = h.stop
             /\ h.basis > 0 => holding.basis > 0
             /\ holding.consensus = h.consensus
        /\ holding.basis <= h.basis - Released(h, units)
        /\ ~Swept(h, units, price) => holding.basis = h.basis - Released(h, units)
        /\ holding.units > 0 => holding.units * price >= DustUsd
  <2>1. PICK k : k = Sold(h, units, price)
    OBVIOUS
  <2>2. SoldAs(k, h)
    BY <1>2, <1>3, <2>1, SoldType
  <2>3. BooksOfSale(k, h, units, price)
    BY <1>2, <1>3, <2>1, SoldBooks
  <2>4. QED
    BY <2>1, <2>2, <2>3 DEF SoldAs, BooksOfSale
<1>8. PICK row \in Row :
        row = [ticker |-> t, side |-> "sell", cash |-> net, cost |-> cost,
               pnl |-> net - Released(h, units), swept |-> Swept(h, units, price),
               flat |-> holding.units < CloseUnits, position |-> h.position,
               residue |-> holding.units * price]
  <2>1. Released(h, units) \in Nat
    BY <1>2, <1>3, ReleasedType
  <2>2. h.position \in Nat /\ net - Released(h, units) \in Int
    BY <2>1 DEF Holding
  <2>3. Swept(h, units, price) \in BOOLEAN
    BY DEF Swept
  <2>4. (holding.units < CloseUnits) \in BOOLEAN /\ holding.units * price \in Nat
    BY DEF Holding
  <2>5. QED
    BY <2>2, <2>3, <2>4, SaleType, Zenon
<1>9. /\ state' = Booked(state, t, net, cost, holding)
      /\ trades' = Append(trades, row)
      /\ unstopped' = unstopped
      /\ IF Closes(h, units, price)
         THEN /\ pc' = "audit_lessons"
              /\ closing' = [ticker |-> t, position |-> h.position,
                             consensus |-> h.consensus, trade |-> Number]
         ELSE UNCHANGED <<pc, closing>>
  BY <1>1, <1>2, <1>5, <1>6, <1>7, <1>8 DEF Sell
<1>10. h.units > 0
  BY <1>2, <1>3 DEF Holding
<1>11. ASSUME Closes(h, units, price)
       PROVE  \E c \in Audit : /\ pc' = "audit_lessons" /\ closing' = c
                              /\ c.trade = Number /\ c.position = row.position /\ row.flat
                              /\ c.ticker = t /\ c.consensus = h.consensus
  <2>1. PICK c : c = [ticker |-> t, position |-> h.position,
                      consensus |-> h.consensus, trade |-> Number]
    OBVIOUS
  <2>2. c \in Audit
    BY <2>1 DEF Audit, Holding, TypeOK, Number
  <2>3. row.flat
    BY <1>7, <1>8, <1>11 DEF Closes
  <2>4. /\ c.trade = Number /\ c.position = row.position
        /\ c.ticker = t /\ c.consensus = h.consensus
    BY <1>8, <2>1
  <2>5. QED
    BY <1>9, <1>11, <2>1, <2>2, <2>3, <2>4
<1>12. ASSUME ~Closes(h, units, price)
       PROVE  UNCHANGED <<pc, closing>> /\ (row.flat => h.consensus = None)
  BY <1>7, <1>8, <1>9, <1>12 DEF Closes
<1>13. /\ row.ticker = t /\ row.cash = net /\ row.cost = cost /\ row.side = "sell"
       /\ row.position = h.position /\ (row.flat <=> holding.units < CloseUnits)
       /\ holding.units > 0 => row.residue >= DustUsd
  BY <1>7, <1>8
<1>14. /\ net + holding.basis <= h.basis + row.pnl
       /\ ~row.swept => net + holding.basis = h.basis + row.pnl
  <2>1. PICK r \in Nat : r = Released(h, units)
    BY <1>2, <1>3, ReleasedType
  <2>2. row.pnl = net - r /\ (row.swept <=> Swept(h, units, price))
    BY <1>8, <2>1
  <2>3. holding.basis \in Int /\ h.basis \in Int
    BY DEF Holding
  <2>4. QED
    BY <1>7, <2>1, <2>2, <2>3
<1>15. SellEffect(t, holding, cost, net, row)
  BY <1>1, <1>6, <1>7, <1>9, <1>10, <1>11, <1>12, <1>13, <1>14 DEF SellEffect
<1>16. QED
  BY <1>15

-----------------------------------------------------------------------------
(* Type correctness. *)

LEMMA OrderFacts ==
  ASSUME Orders
  PROVE  \E t \in Ticker, price \in Price, slip \in Nat :
           \/ \E usd \in Nat \ {0}, stop, tp \in BOOLEAN : Buy(t, usd, price, slip, stop, tp)
           \/ \E asked \in Nat \ {0} : Sell(t, asked, price, slip)
<1>1. PICK t \in Ticker, price \in Price, liq \in Liquidity :
        \/ \E usd \in Amount, stop, tp \in BOOLEAN :
             Buy(t, usd, price, SlippagePct(usd, liq), stop, tp)
        \/ \E asked \in Lot : Sell(t, asked, price, SlippagePct(asked * price, liq))
  BY DEF Orders
<1>2. CASE \E usd \in Amount, stop, tp \in BOOLEAN :
             Buy(t, usd, price, SlippagePct(usd, liq), stop, tp)
  <2>1. PICK usd \in Amount, stop \in BOOLEAN, tp \in BOOLEAN :
          Buy(t, usd, price, SlippagePct(usd, liq), stop, tp)
    BY <1>2
  <2>2. SlippagePct(usd, liq) \in Nat
    BY SlippageType
  <2>3. QED
    BY <2>1, <2>2
<1>3. CASE \E asked \in Lot : Sell(t, asked, price, SlippagePct(asked * price, liq))
  <2>1. PICK asked \in Lot : Sell(t, asked, price, SlippagePct(asked * price, liq))
    BY <1>3
  <2>2. asked * price \in Nat
    OBVIOUS
  <2>3. SlippagePct(asked * price, liq) \in Nat
    BY <2>2, SlippageType
  <2>4. QED
    BY <2>1, <2>3
<1>4. QED
  BY <1>1, <1>2, <1>3

LEMMA BuyType ==
  ASSUME TypeOK, NEW t \in Ticker, NEW usd \in Nat \ {0}, NEW price \in Nat \ {0},
         NEW slip \in Nat, NEW stop \in BOOLEAN, NEW tp \in BOOLEAN,
         Buy(t, usd, price, slip, stop, tp)
  PROVE  TypeOK'
<1>1. PICK holding \in Holding, cost \in Nat, row \in Row :
        BuyEffect(t, usd, stop, holding, cost, row)
  BY BuyFacts
<1>2. Number <= MaxTrades /\ -usd \in Int
  BY DEF Buy
<1>3. state' \in Account
  BY <1>1, <1>2, BookedType DEF BuyEffect
<1>4. trades' \in Seq(Row)
  BY <1>1 DEF TypeOK, BuyEffect
<1>5. unstopped' \subseteq Nat
  <2>1. unstopped' \subseteq unstopped \cup {Number}
    BY DEF Buy
  <2>2. Number \in Nat
    BY DEF TypeOK, Number
  <2>3. QED
    BY <2>1, <2>2 DEF TypeOK
<1>6. UNCHANGED <<account, audits, scored, triggers, pc, closing, marking, view>>
  BY DEF Buy, markVars
<1>8. faults' \in Nat
  <2>1. faults' = faults \/ faults' = faults + 1
    BY Zenon DEF Buy
  <2>2. faults \in Nat
    BY DEF TypeOK
  <2>3. QED
    BY <2>1, <2>2
<1>7. QED
  BY <1>3, <1>4, <1>5, <1>6, <1>8 DEF TypeOK

LEMMA SellType ==
  ASSUME TypeOK, NEW t \in Ticker, NEW asked \in Nat \ {0}, NEW price \in Price,
         NEW slip \in Nat, Sell(t, asked, price, slip)
  PROVE  TypeOK'
<1>1. PICK holding \in Holding, cost \in Nat, net \in Int, row \in Row :
        SellEffect(t, holding, cost, net, row)
  BY SellFacts
<1>2. Number <= MaxTrades
  BY DEF Sell
<1>3. state' \in Account
  BY <1>1, <1>2, BookedType DEF SellEffect
<1>4. trades' \in Seq(Row)
  BY <1>1 DEF TypeOK, SellEffect
<1>5. /\ pc' \in Pc
      /\ closing' \in Audit \cup {NoAudit}
      /\ pc' \in {"audit_lessons", "audit_log"} => closing' \in Audit
  <2>1. CASE UNCHANGED <<pc, closing>>
    BY <2>1 DEF TypeOK
  <2>2. CASE \E c \in Audit : pc' = "audit_lessons" /\ closing' = c
    BY <2>2 DEF Pc
  <2>3. QED
    BY <1>1, <2>1, <2>2 DEF SellEffect
<1>6. UNCHANGED <<account, audits, scored, triggers, unstopped, marking, view, faults>>
  BY DEF Sell, markVars
<1>7. QED
  BY <1>3, <1>4, <1>5, <1>6 DEF TypeOK

LevelledAs(b, a, t, stop, tp) ==
  /\ b \in Account /\ b.cash = a.cash
  /\ b.cost = a.cost /\ b.count = a.count /\ b.applied = a.applied
  /\ b.holdings[t] = WithLevels(a.holdings[t], stop, tp)
  /\ \A s \in Ticker : s # t => b.holdings[s] = a.holdings[s]

LEMMA LevelledType ==
  ASSUME NEW a \in Account, NEW t \in Ticker, NEW stop \in BOOLEAN, NEW tp \in BOOLEAN,
         NEW b, b = [a EXCEPT !.holdings[t] = WithLevels(@, stop, tp)]
  PROVE  LevelledAs(b, a, t, stop, tp)
<1>1. a.holdings \in [Ticker -> Holding] /\ a.holdings[t] \in Holding
  BY DEF Account
<1>2. PICK held \in [Ticker -> Holding] :
        held = [a.holdings EXCEPT ![t] = WithLevels(a.holdings[t], stop, tp)]
  BY <1>1, LevelsType
<1>3. b = [a EXCEPT !.holdings = held]
  BY <1>2
<1>4. /\ b \in Account /\ b.holdings = held /\ b.cash = a.cash
      /\ b.cost = a.cost /\ b.count = a.count /\ b.applied = a.applied
  BY <1>3 DEF Account
<1>5. QED
  BY <1>1, <1>2, <1>4 DEF LevelledAs

LEMMA OpenedType == Opened \in Account
<1>1. NoHolding \in Holding
  BY DEF NoHolding, Holding, None
<1>2. [t \in Ticker |-> NoHolding] \in [Ticker -> Holding]
  BY <1>1
<1>3. QED
  BY <1>2 DEF Opened, Account

(* A detection changes nothing of a copy but peaks, and those only of open  *)
(* positions, to a price seen since.                                        *)
PeaksRaised(held, a) ==
  \A t \in Ticker :
    \/ held[t] = a.holdings[t]
    \/ \E h \in Holding : h = a.holdings[t] /\ held[t] = [h EXCEPT !.peak = h.position]

DetectEffect(v) ==
  \E a \in Account, held \in [Ticker -> Holding] :
    /\ a = view[v]
    /\ view' = [view EXCEPT ![v] = [a EXCEPT !.holdings = held]]
    /\ PeaksRaised(held, a)

LEMMA PeaksType ==
  ASSUME NEW a \in Account, NEW risen
  PROVE  \E held \in [Ticker -> Holding] :
           WithPeaks(a, risen) = [a EXCEPT !.holdings = held] /\ PeaksRaised(held, a)
<1>1. PICK held : held = [t \in Ticker |->
                 IF t \in risen THEN [a.holdings[t] EXCEPT !.peak = a.holdings[t].position]
                 ELSE a.holdings[t]]
  OBVIOUS
<1>2. ASSUME NEW t \in Ticker
      PROVE  /\ held[t] \in Holding
             /\ \/ held[t] = a.holdings[t]
                \/ \E h \in Holding : h = a.holdings[t] /\ held[t] = [h EXCEPT !.peak = h.position]
  <2>1. PICK h \in Holding : h = a.holdings[t]
    BY DEF Account
  <2>2. [h EXCEPT !.peak = h.position] \in Holding
    BY DEF Holding
  <2>3. held[t] = IF t \in risen THEN [h EXCEPT !.peak = h.position] ELSE h
    BY <1>1, <2>1
  <2>4. QED
    BY <2>1, <2>2, <2>3
<1>3. held \in [Ticker -> Holding]
  <2>1. held = [t \in Ticker |-> held[t]]
    BY <1>1
  <2>2. \A t \in Ticker : held[t] \in Holding
    BY <1>2
  <2>3. QED
    BY <2>1, <2>2
<1>4. WithPeaks(a, risen) = [a EXCEPT !.holdings = held]
  BY <1>1 DEF WithPeaks
<1>5. PeaksRaised(held, a)
  BY <1>2 DEF PeaksRaised
<1>6. QED
  BY <1>3, <1>4, <1>5

LEMMA DetectFacts ==
  ASSUME TypeOK, NEW v \in Viewer, Detect(v)
  PROVE  DetectEffect(v)
<1>1. PICK a \in Account : a = view[v]
  BY DEF TypeOK
<1>2. PICK risen : view' = [view EXCEPT ![v] = WithPeaks(view[v], risen)]
  BY DEF Detect
<1>3. view' = [view EXCEPT ![v] = WithPeaks(a, risen)]
  BY <1>1, <1>2
<1>4. PICK held \in [Ticker -> Holding] :
        WithPeaks(a, risen) = [a EXCEPT !.holdings = held] /\ PeaksRaised(held, a)
  BY PeaksType
<1>5. view' = [view EXCEPT ![v] = [a EXCEPT !.holdings = held]]
  BY <1>3, <1>4
<1>6. QED
  BY <1>1, <1>4, <1>5 DEF DetectEffect

LEMMA DetectType ==
  ASSUME TypeOK, NEW v \in Viewer, Detect(v)
  PROVE  TypeOK'
<1>1. PICK a \in Account, held \in [Ticker -> Holding] :
        view' = [view EXCEPT ![v] = [a EXCEPT !.holdings = held]]
  BY DetectFacts DEF DetectEffect
<1>2. view' \in [Viewer -> Account]
  <2>1. [a EXCEPT !.holdings = held] \in Account
    BY DEF Account
  <2>2. QED
    BY <1>1, <2>1 DEF TypeOK
<1>3. triggers' \subseteq [ticker : Ticker, level : Nat, position : Nat]
  <2>1. PICK quote \in [Ticker -> Price \cup {None}] :
          \E fired \in SUBSET Breaches(view[v], Visible(view[v], quote)) :
            triggers' = triggers \cup fired
    BY DEF Detect
  <2>2. PICK b \in Account : b = view[v]
    BY DEF TypeOK
  <2>3. \A t \in Ticker : b.holdings[t].position \in Nat
    BY DEF Account, Holding
  <2>4. Breaches(b, Visible(b, quote)) \subseteq [ticker : Ticker, level : Nat, position : Nat]
    BY <2>3 DEF Breaches, Visible, Trade
  <2>5. QED
    BY <2>1, <2>2, <2>4 DEF TypeOK
<1>4. marking' \in [Viewer -> {"idle", "fetch", "save"}]
  BY DEF Detect, TypeOK
<1>5. UNCHANGED <<account, trades, audits, scored, unstopped, pc, state, closing, faults>>
  BY DEF Detect, execVars
<1>6. QED
  BY <1>2, <1>3, <1>4, <1>5 DEF TypeOK

LEMMA StopUpdateType ==
  ASSUME TypeOK, NEW t \in Ticker, NEW stop \in BOOLEAN, NEW tp \in BOOLEAN,
         StopUpdate(t, stop, tp)
  PROVE  TypeOK'
<1>1. state' = [state EXCEPT !.holdings[t] = WithLevels(@, stop, tp)]
  BY DEF StopUpdate
<1>2. PICK a \in Account : a = state
  BY DEF TypeOK
<1>3. PICK b : b = [a EXCEPT !.holdings[t] = WithLevels(@, stop, tp)]
  OBVIOUS
<1>4. b \in Account
  BY <1>3, LevelledType DEF LevelledAs
<1>5. state' \in Account
  BY <1>1, <1>2, <1>3, <1>4
<1>6. UNCHANGED <<fileVars, pc, closing, markVars, faults>>
  BY DEF StopUpdate
<1>7. QED
  BY <1>5, <1>6 DEF TypeOK, fileVars, markVars

LEMMA TypeInit ==
  ASSUME Init
  PROVE  TypeOK
<1>1. Opened \in Account
  BY OpenedType
<1>2. /\ account \in Account /\ state \in Account /\ view \in [Viewer -> Account]
  BY <1>1 DEF Init
<1>3. trades \in Seq(Row) /\ audits \in Seq(Audit)
  BY DEF Init
<1>4. QED
  BY <1>2, <1>3 DEF Init, TypeOK, Pc

LEMMA TypeNext ==
  ASSUME TypeOK, [Next]_vars
  PROVE  TypeOK'
<1>1. CASE Orders
  BY <1>1, OrderFacts, BuyType, SellType
<1>2. CASE Load
  BY <1>2 DEF Load, TypeOK, fileVars, markVars, Pc
<1>3. CASE AuditLessons
  BY <1>3 DEF AuditLessons, TypeOK, markVars, Pc
<1>4. CASE AuditLog
  BY <1>4 DEF AuditLog, TypeOK, markVars, Pc
<1>5. CASE AuditFails
  BY <1>5 DEF AuditFails, TypeOK, fileVars, markVars, Pc
<1>6. CASE OrdersDone
  BY <1>6 DEF OrdersDone, TypeOK, fileVars, markVars, Pc
<1>7. CASE \E t \in Ticker, stop, tp \in BOOLEAN : StopUpdate(t, stop, tp)
  BY <1>7, StopUpdateType
<1>8. CASE Save
  BY <1>8, OpenedType DEF Save, Stop, TypeOK, markVars, Pc
<1>9. CASE Crash
  BY <1>9, OpenedType DEF Crash, Stop, TypeOK, fileVars, markVars, Pc
<1>10. ASSUME NEW v \in Viewer, LoadForMark(v) PROVE TypeOK'
  BY <1>10 DEF LoadForMark, TypeOK, fileVars, execVars
<1>11. ASSUME NEW v \in Viewer, Detect(v) PROVE TypeOK'
  BY <1>11, DetectType
<1>12. ASSUME NEW v \in Viewer, SaveMark(v) PROVE TypeOK'
  BY <1>12, OpenedType DEF SaveMark, TypeOK, execVars
<1>13. CASE UNCHANGED vars
  BY <1>13 DEF vars, fileVars, execVars, markVars, TypeOK
<1>14. QED
  BY <1>1, <1>2, <1>3, <1>4, <1>5, <1>6, <1>7, <1>8, <1>9, <1>10, <1>11, <1>12, <1>13
     DEF Next, Execute, Mark

(* Amounts, holdings and journals keep their types: no order, however       *)
(* sized, makes units or cost basis negative (account.py, execute_trade).   *)
THEOREM FundTypes == Spec => []TypeOK
<1>1. Init => TypeOK
  BY TypeInit
<1>2. TypeOK /\ [Next]_vars => TypeOK'
  BY TypeNext
<1>3. QED
  BY <1>1, <1>2, PTL DEF Spec

-----------------------------------------------------------------------------
(* The journals only grow, and what is sound stays so. *)

Grows ==
  /\ Len(trades) <= Len(trades')
  /\ \A b \in DOMAIN trades : b \in DOMAIN trades' /\ trades'[b] = trades[b]
  /\ unstopped \subseteq unstopped'

LEMMA UnchangedGrows ==
  ASSUME TypeOK, UNCHANGED <<trades, unstopped>>
  PROVE  Grows
  BY DEF Grows, TypeOK

LEMMA AppendGrows ==
  ASSUME TypeOK, NEW row \in Row, trades' = Append(trades, row), unstopped \subseteq unstopped'
  PROVE  /\ Grows
         /\ Len(trades') = Number /\ Number \in DOMAIN trades' /\ trades'[Number] = row
  BY DEF Grows, TypeOK, Number

LEMMA SoundCarried ==
  ASSUME TypeOK, TypeOK', Grows, NEW h \in Holding, NEW t \in Ticker, Sound(h, t)
  PROVE  Sound(h, t)'
<1>1. h.position <= Len(trades')
  BY DEF Sound, Grows, TypeOK, Holding
<1>2. ASSUME h.units > 0, h.stop # h.position
      PROVE  \E b \in unstopped' :
               b >= h.position /\ b \in DOMAIN trades' /\ trades'[b].ticker = t
  <2>1. PICK b \in unstopped : b >= h.position /\ b \in DOMAIN trades /\ trades[b].ticker = t
    BY <1>2 DEF Sound
  <2>2. b \in unstopped' /\ b \in DOMAIN trades' /\ trades'[b].ticker = t
    BY <2>1 DEF Grows
  <2>3. QED
    BY <2>1, <2>2
<1>3. QED
  BY <1>1, <1>2 DEF Sound

LEMMA CopyCarried ==
  ASSUME TypeOK, TypeOK', Grows, NEW a \in Account, SoundCopy(a)
  PROVE  SoundCopy(a)'
<1>1. ASSUME NEW t \in Ticker PROVE Sound(a.holdings[t], t)'
  <2>1. PICK h \in Holding : h = a.holdings[t]
    BY DEF Account
  <2>2. Sound(h, t)'
    BY <2>1, SoundCarried DEF SoundCopy
  <2>3. QED
    BY <2>1, <2>2
<1>2. QED
  BY <1>1 DEF SoundCopy

LEMMA CopiesCarried ==
  ASSUME TypeOK, TypeOK', Grows, CopiesSound,
         \A a \in Copies' : a \in Copies \/ SoundCopy(a)'
  PROVE  CopiesSound'
<1>1. Copies \subseteq Account
  BY DEF Copies, TypeOK
<1>2. ASSUME NEW a \in Copies' PROVE SoundCopy(a)'
  BY <1>1, CopyCarried DEF CopiesSound
<1>3. QED
  BY <1>2 DEF CopiesSound

LEMMA OpenedSound ==
  ASSUME TypeOK
  PROVE  SoundCopy(Opened)
  BY DEF SoundCopy, Sound, Opened, NoHolding, None, TypeOK

(* A copy that differs from a sound one in one holding, itself sound.       *)
LEMMA OneHolding ==
  ASSUME TypeOK, TypeOK', Grows, NEW a \in Account, SoundCopy(a), NEW t \in Ticker,
         NEW b \in Account, b.cash >= 0, Sound(b.holdings[t], t)',
         \A s \in Ticker : s # t => b.holdings[s] = a.holdings[s]
  PROVE  SoundCopy(b)'
<1>1. SoundCopy(a)'
  BY CopyCarried
<1>2. ASSUME NEW s \in Ticker, s # t PROVE Sound(b.holdings[s], s)'
  BY <1>1, <1>2 DEF SoundCopy
<1>3. QED
  BY <1>2 DEF SoundCopy

-----------------------------------------------------------------------------
(* Each action keeps the copies sound. *)

LEMMA BuySound ==
  ASSUME TypeOK, TypeOK', CopiesSound, NEW t \in Ticker, NEW usd \in Nat \ {0},
         NEW price \in Nat \ {0}, NEW slip \in Nat, NEW stop \in BOOLEAN, NEW tp \in BOOLEAN,
         Buy(t, usd, price, slip, stop, tp)
  PROVE  Grows /\ CopiesSound'
<1>0. PICK holding \in Holding, cost \in Nat, row \in Row :
        BuyEffect(t, usd, stop, holding, cost, row)
  BY BuyFacts
<1>1.   /\ state' = Booked(state, t, -usd, cost, holding)
        /\ trades' = Append(trades, row) /\ row.ticker = t
        /\ holding.basis > 0
        /\ holding.position = IF Held(t).units = 0 THEN Number ELSE Held(t).position
        /\ \/ holding.first = Number /\ holding.peak = Number
           \/ /\ Held(t).units > 0
              /\ holding.first = Held(t).first /\ holding.peak = Held(t).peak
        /\ stop /\ holding.units > 0 => holding.stop = holding.position
        /\ ~stop => Number \in unstopped'
  BY <1>0 DEF BuyEffect
<1>2. /\ Number <= MaxTrades /\ Number \in Nat /\ usd <= state.cash /\ -usd \in Int
      /\ unstopped \subseteq unstopped'
      /\ UNCHANGED <<account, view>>
  <2>1. Number <= MaxTrades /\ usd <= state.cash /\ UNCHANGED <<account, view>>
    BY DEF Buy, markVars
  <2>2. unstopped \subseteq unstopped'
    BY DEF Buy
  <2>3. Number \in Nat /\ -usd \in Int
    BY DEF Number, TypeOK
  <2>4. QED
    BY <2>1, <2>2, <2>3
<1>3. /\ Grows
      /\ Len(trades') = Number /\ Number \in DOMAIN trades' /\ trades'[Number] = row
  BY <1>1, <1>2, AppendGrows
<1>4. PICK a \in Account : a = state
  BY DEF TypeOK
<1>5. PICK b \in Account :
        /\ b = state' /\ b.cash = a.cash - usd
        /\ b.holdings[t] = holding
        /\ \A s \in Ticker : s # t => b.holdings[s] = a.holdings[s]
  <2>1. PICK b : b = Booked(state, t, -usd, cost, holding)
    OBVIOUS
  <2>2. /\ b \in Account /\ b.cash = state.cash + (-usd) /\ b.holdings[t] = holding
        /\ \A s \in Ticker : s # t => b.holdings[s] = state.holdings[s]
    BY <1>2, <2>1, BookedType
  <2>3. b.cash = a.cash - usd
    BY <1>4, <2>2 DEF Account
  <2>4. QED
    BY <1>1, <1>4, <2>1, <2>2, <2>3
<1>6. PICK h \in Holding : h = Held(t) /\ h = a.holdings[t]
  BY <1>4, HeldType DEF Held
<1>7. SoundCopy(a) /\ Sound(h, t)
  BY <1>4, <1>6 DEF CopiesSound, Copies, SoundCopy
<1>8. Sound(holding, t)'
  <2>1. h.position <= Len(trades) /\ Len(trades) <= Number /\ h.position \in Nat /\ h.units \in Nat
    BY <1>7 DEF Sound, Number, TypeOK, Holding
  <2>2. holding.position <= Number /\ holding.position \in Nat
    BY <1>1, <1>2, <1>6, <2>1
  <2>3. holding.peak >= holding.position /\ holding.first >= holding.position
    <3>1. CASE h.units > 0
      BY <1>1, <1>6, <1>7, <2>2, <3>1 DEF Sound
    <3>2. CASE h.units = 0
      BY <1>1, <1>2, <1>6, <3>2
    <3>3. QED
      BY <2>1, <3>1, <3>2
  <2>4. ASSUME holding.units > 0, holding.stop # holding.position
        PROVE  \E n \in unstopped' :
                 n >= holding.position /\ n \in DOMAIN trades' /\ trades'[n].ticker = t
    BY <1>1, <1>2, <1>3, <2>2, <2>4
  <2>5. QED
    BY <1>1, <1>3, <2>2, <2>3, <2>4 DEF Sound
<1>9. SoundCopy(b)'
  <2>1. b.cash >= 0
    BY <1>2, <1>4, <1>5 DEF Account
  <2>2. QED
    BY <1>3, <1>5, <1>7, <1>8, <2>1, OneHolding
<1>10. \A c \in Copies' : c \in Copies \/ SoundCopy(c)'
  BY <1>2, <1>5, <1>9 DEF Copies
<1>11. QED
  BY <1>3, <1>10, CopiesCarried

LEMMA SellSound ==
  ASSUME TypeOK, TypeOK', CopiesSound, NEW t \in Ticker, NEW asked \in Nat \ {0},
         NEW price \in Price, NEW slip \in Nat, Sell(t, asked, price, slip)
  PROVE  Grows /\ CopiesSound'
<1>1. PICK holding \in Holding, cost \in Nat, net \in Int, row \in Row :
        SellEffect(t, holding, cost, net, row)
  BY SellFacts
<1>2. /\ Number <= MaxTrades /\ Number \in Nat /\ unstopped' = unstopped
      /\ UNCHANGED <<account, view>>
  BY DEF Sell, markVars, Number, TypeOK
<1>3. Grows
  BY <1>1, <1>2, AppendGrows DEF SellEffect
<1>4. PICK a \in Account : a = state
  BY DEF TypeOK
<1>5. PICK b \in Account :
        /\ b = state' /\ b.cash = a.cash + net
        /\ b.holdings[t] = holding
        /\ \A s \in Ticker : s # t => b.holdings[s] = a.holdings[s]
  <2>1. PICK b : b = Booked(state, t, net, cost, holding)
    OBVIOUS
  <2>2. /\ b \in Account /\ b.cash = state.cash + net /\ b.holdings[t] = holding
        /\ \A s \in Ticker : s # t => b.holdings[s] = state.holdings[s]
    BY <1>2, <2>1, BookedType
  <2>3. QED
    BY <1>1, <1>4, <2>1, <2>2 DEF SellEffect
<1>6. PICK h \in Holding : h = Held(t) /\ h = a.holdings[t]
  BY <1>4, HeldType DEF Held
<1>7. SoundCopy(a) /\ Sound(h, t)
  BY <1>4, <1>6 DEF CopiesSound, Copies, SoundCopy
<1>8. Sound(holding, t)'
  <2>1. Sound(h, t)'
    BY <1>3, <1>7, SoundCarried
  <2>2. QED
    BY <1>1, <1>6, <2>1 DEF Sound, SellEffect
<1>9. SoundCopy(b)'
  <2>1. b.cash >= 0
    <3>1. net >= 0
      BY <1>1 DEF SellEffect
    <3>2. a.cash \in Int /\ a.cash >= 0
      BY <1>7 DEF SoundCopy, Account
    <3>3. QED
      BY <1>5, <3>1, <3>2
  <2>2. QED
    BY <1>3, <1>5, <1>7, <1>8, <2>1, OneHolding
<1>10. \A c \in Copies' : c \in Copies \/ SoundCopy(c)'
  BY <1>2, <1>5, <1>9 DEF Copies
<1>11. QED
  BY <1>3, <1>10, CopiesCarried

LEMMA StopUpdateSound ==
  ASSUME TypeOK, TypeOK', CopiesSound, NEW t \in Ticker, NEW stop \in BOOLEAN,
         NEW tp \in BOOLEAN, StopUpdate(t, stop, tp)
  PROVE  Grows /\ CopiesSound'
<1>1. /\ state' = [state EXCEPT !.holdings[t] = WithLevels(@, stop, tp)]
      /\ UNCHANGED <<account, view, trades, unstopped>>
  BY DEF StopUpdate, fileVars, markVars
<1>2. Grows
  BY <1>1, UnchangedGrows
<1>3. PICK a \in Account : a = state
  BY DEF TypeOK
<1>4. PICK b : b = [a EXCEPT !.holdings[t] = WithLevels(@, stop, tp)]
  OBVIOUS
<1>5. /\ b \in Account /\ b.cash = a.cash
      /\ b.holdings[t] = WithLevels(a.holdings[t], stop, tp)
      /\ \A s \in Ticker : s # t => b.holdings[s] = a.holdings[s]
  <2>1. LevelledAs(b, a, t, stop, tp)
    BY <1>4, LevelledType
  <2>2. QED
    BY <2>1 DEF LevelledAs
<1>6. SoundCopy(a)
  BY <1>3 DEF CopiesSound, Copies
<1>7. PICK h \in Holding : h = a.holdings[t] /\ Sound(h, t)
  BY <1>6 DEF Account, SoundCopy
<1>8. Sound(b.holdings[t], t)'
  <2>1. Sound(h, t)'
    BY <1>2, <1>7, SoundCarried
  <2>2. PICK l : l = WithLevels(h, stop, tp)
    OBVIOUS
  <2>3. /\ l.units = h.units /\ l.basis = h.basis /\ l.peak = h.peak /\ l.first = h.first
        /\ l.position = h.position
        /\ h.units > 0 => l.stop = IF stop THEN h.position ELSE h.stop
    BY <2>2, LevelsType
  <2>4. Sound(l, t)'
    BY <2>1, <2>3 DEF Sound
  <2>5. QED
    BY <1>5, <1>7, <2>2, <2>4
<1>9. SoundCopy(b)'
  <2>1. b.cash >= 0
    BY <1>5, <1>6 DEF SoundCopy
  <2>2. QED
    BY <1>2, <1>5, <1>6, <1>8, <2>1, OneHolding
<1>10. \A c \in Copies' : c \in Copies \/ SoundCopy(c)'
  BY <1>1, <1>3, <1>4, <1>9 DEF Copies
<1>11. QED
  BY <1>2, <1>10, CopiesCarried

LEMMA DetectSound ==
  ASSUME TypeOK, TypeOK', CopiesSound, NEW v \in Viewer, Detect(v)
  PROVE  Grows /\ CopiesSound'
<1>1. UNCHANGED <<account, state, trades, unstopped>>
  BY DEF Detect, execVars
<1>2. Grows
  BY <1>1, UnchangedGrows
<1>3. PICK a \in Account, held \in [Ticker -> Holding] :
        /\ a = view[v]
        /\ view' = [view EXCEPT ![v] = [a EXCEPT !.holdings = held]]
        /\ PeaksRaised(held, a)
  BY DetectFacts DEF DetectEffect
<1>4. PICK b : b = [a EXCEPT !.holdings = held]
  OBVIOUS
<1>5. b.holdings = held /\ b.cash = a.cash
  BY <1>4 DEF Account
<1>6. SoundCopy(a)'
  <2>1. SoundCopy(a)
    BY <1>3 DEF CopiesSound, Copies
  <2>2. QED
    BY <1>2, <2>1, CopyCarried
<1>7. ASSUME NEW t \in Ticker PROVE Sound(held[t], t)'
  <2>1. Sound(a.holdings[t], t)'
    BY <1>6 DEF SoundCopy
  <2>2. CASE held[t] = a.holdings[t]
    BY <2>1, <2>2
  <2>3. ASSUME NEW h \in Holding, h = a.holdings[t], held[t] = [h EXCEPT !.peak = h.position]
        PROVE  Sound(held[t], t)'
    <3>1. PICK k : k = [h EXCEPT !.peak = h.position]
      OBVIOUS
    <3>2. /\ k.units = h.units /\ k.basis = h.basis /\ k.first = h.first /\ k.stop = h.stop
          /\ k.position = h.position /\ k.peak = h.position /\ h.position \in Nat
      BY <3>1 DEF Holding
    <3>3. Sound(h, t)'
      BY <2>1, <2>3
    <3>4. Sound(k, t)'
      BY <3>2, <3>3 DEF Sound
    <3>5. QED
      BY <2>3, <3>1, <3>4
  <2>4. QED
    BY <1>3, <2>2, <2>3 DEF PeaksRaised
<1>8. SoundCopy(b)'
  BY <1>5, <1>6, <1>7 DEF SoundCopy
<1>9. \A c \in Copies' : c \in Copies \/ SoundCopy(c)'
  BY <1>1, <1>3, <1>4, <1>8 DEF Copies, TypeOK
<1>10. QED
  BY <1>2, <1>9, CopiesCarried

LEMMA CopiesNext ==
  ASSUME TypeOK, TypeOK', CopiesSound, [Next]_vars
  PROVE  Grows /\ CopiesSound'
<1>1. ASSUME UNCHANGED <<trades, unstopped>>,
             \A a \in Copies' : a \in Copies \/ a = Opened
      PROVE  Grows /\ CopiesSound'
  <2>1. Grows
    BY <1>1, UnchangedGrows
  <2>2. SoundCopy(Opened)'
    BY OpenedType, OpenedSound, <2>1, CopyCarried
  <2>3. QED
    BY <1>1, <2>1, <2>2, CopiesCarried
<1>2. CASE Orders
  BY <1>2, OrderFacts, BuySound, SellSound
<1>3. CASE \E t \in Ticker, stop, tp \in BOOLEAN : StopUpdate(t, stop, tp)
  BY <1>3, StopUpdateSound
<1>4. ASSUME NEW v \in Viewer, Detect(v) PROVE Grows /\ CopiesSound'
  BY <1>4, DetectSound
<1>5. CASE Load
  BY <1>1, <1>5 DEF Load, Copies, fileVars, markVars
<1>6. CASE AuditLessons \/ AuditLog
  BY <1>1, <1>6 DEF AuditLessons, AuditLog, Copies, markVars
<1>7. CASE AuditFails \/ OrdersDone
  BY <1>1, <1>7 DEF AuditFails, OrdersDone, Copies, fileVars, markVars
<1>8. CASE Save
  BY <1>1, <1>8 DEF Save, Stop, Copies, markVars
<1>9. CASE Crash
  BY <1>1, <1>9 DEF Crash, Stop, Copies, fileVars, markVars
<1>10. ASSUME NEW v \in Viewer, LoadForMark(v) PROVE Grows /\ CopiesSound'
  BY <1>1, <1>10 DEF LoadForMark, Copies, fileVars, execVars, TypeOK
<1>11. ASSUME NEW v \in Viewer, SaveMark(v) PROVE Grows /\ CopiesSound'
  BY <1>1, <1>11 DEF SaveMark, Copies, execVars, TypeOK
<1>12. CASE UNCHANGED vars
  BY <1>1, <1>12 DEF vars, fileVars, execVars, markVars, Copies
<1>13. QED
  BY <1>2, <1>3, <1>4, <1>5, <1>6, <1>7, <1>8, <1>9, <1>10, <1>11, <1>12
     DEF Next, Execute, Mark

-----------------------------------------------------------------------------
(* The books.  A sum over trades that are in the journal is never disturbed *)
(* by later ones, so that what a copy owes to the journal it keeps however  *)
(* late it is saved; a trade adds one summand to each sum, and changes one  *)
(* summand of the basis.                                                    *)

LEMMA JournalType ==
  ASSUME TypeOK
  PROVE  /\ IsFiniteSet(DOMAIN trades) /\ DOMAIN trades = 1 .. Len(trades) /\ Len(trades) \in Nat
         /\ \A i \in DOMAIN trades :
              trades[i].cost \in Int /\ trades[i].cash \in Int /\ trades[i].pnl \in Int
<1>1. DOMAIN trades = 1 .. Len(trades) /\ Len(trades) \in Nat
  BY DEF TypeOK
<1>2. IsFiniteSet(1 .. Len(trades))
  BY <1>1, FS_Interval
<1>3. \A i \in DOMAIN trades : trades[i] \in Row
  BY DEF TypeOK
<1>4. QED
  BY <1>1, <1>2, <1>3 DEF Row

LEMMA SumsCarried ==
  ASSUME TypeOK, TypeOK', Grows, NEW S \in SUBSET DOMAIN trades
  PROVE  /\ CostOfAll(S)' = CostOfAll(S) /\ CostOfAll(S) \in Int
         /\ CashOfAll(S)' = CashOfAll(S) /\ CashOfAll(S) \in Int
         /\ PnlOfAll(S)' = PnlOfAll(S) /\ PnlOfAll(S) \in Int
<1>1. IsFiniteSet(S)
  BY JournalType, FS_Subset
<1>2. \A i \in S : i \in DOMAIN trades' /\ trades'[i] = trades[i]
  BY DEF Grows
<1>3. \A i \in S : trades[i].cost \in Int /\ trades[i].cash \in Int /\ trades[i].pnl \in Int
  BY JournalType
<1>4. CostOfAll(S)' = CostOfAll(S) /\ CostOfAll(S) \in Int
  <2> DEFINE g == [i \in DOMAIN trades |-> trades[i].cost]
             h == [i \in DOMAIN trades' |-> trades'[i].cost]
  <2>1. \A i \in S : g[i] = h[i] /\ g[i] \in Int
    BY <1>2, <1>3
  <2> HIDE DEF g, h
  <2>2. SumFunctionOnSet(g, S) = SumFunctionOnSet(h, S) /\ SumFunctionOnSet(g, S) \in Int
    BY <1>1, <2>1, SumAlike, SumIsInt
  <2>3. QED
    BY <2>2 DEF g, h, CostOfAll
<1>5. CashOfAll(S)' = CashOfAll(S) /\ CashOfAll(S) \in Int
  <2> DEFINE g == [i \in DOMAIN trades |-> trades[i].cash]
             h == [i \in DOMAIN trades' |-> trades'[i].cash]
  <2>1. \A i \in S : g[i] = h[i] /\ g[i] \in Int
    BY <1>2, <1>3
  <2> HIDE DEF g, h
  <2>2. SumFunctionOnSet(g, S) = SumFunctionOnSet(h, S) /\ SumFunctionOnSet(g, S) \in Int
    BY <1>1, <2>1, SumAlike, SumIsInt
  <2>3. QED
    BY <2>2 DEF g, h, CashOfAll
<1>6. PnlOfAll(S)' = PnlOfAll(S) /\ PnlOfAll(S) \in Int
  <2> DEFINE g == [i \in DOMAIN trades |-> trades[i].pnl]
             h == [i \in DOMAIN trades' |-> trades'[i].pnl]
  <2>1. \A i \in S : g[i] = h[i] /\ g[i] \in Int
    BY <1>2, <1>3
  <2> HIDE DEF g, h
  <2>2. SumFunctionOnSet(g, S) = SumFunctionOnSet(h, S) /\ SumFunctionOnSet(g, S) \in Int
    BY <1>1, <2>1, SumAlike, SumIsInt
  <2>3. QED
    BY <2>2 DEF g, h, PnlOfAll
<1>7. QED
  BY <1>4, <1>5, <1>6

LEMMA JournalCarried ==
  ASSUME TypeOK, TypeOK', Grows, NEW a \in Account, Journalled(a)
  PROVE  Journalled(a)'
<1>1. a.applied \in SUBSET DOMAIN trades
  BY DEF Journalled
<1>2. /\ CostOfAll(a.applied)' = CostOfAll(a.applied)
      /\ CashOfAll(a.applied)' = CashOfAll(a.applied)
      /\ PnlOfAll(a.applied)' = PnlOfAll(a.applied)
  BY <1>1, SumsCarried
<1>3. \A i \in a.applied : i \in DOMAIN trades' /\ trades'[i] = trades[i]
  BY <1>1 DEF Grows
<1>4. Basis(a)' = Basis(a)
  BY DEF Basis
<1>5. QED
  BY <1>1, <1>2, <1>3, <1>4 DEF Journalled

(* The three sums, with the trade just appended. *)
LEMMA SumsGrow ==
  ASSUME TypeOK, TypeOK', Grows, NEW S \in SUBSET DOMAIN trades, NEW row \in Row,
         trades' = Append(trades, row), NEW n, n = Number
  PROVE  /\ CostOfAll(S \cup {n})' = CostOfAll(S) + row.cost
         /\ CashOfAll(S \cup {n})' = CashOfAll(S) + row.cash
         /\ PnlOfAll(S \cup {n})' = PnlOfAll(S) + row.pnl
<1>1. IsFiniteSet(S) /\ Number \notin S
  BY JournalType, FS_Subset DEF Number
<1>2. Number \in DOMAIN trades' /\ trades'[Number] = row
  BY DEF TypeOK, Number
<1>3. row.cost \in Int /\ row.cash \in Int /\ row.pnl \in Int
  BY DEF Row
<1>4. \A i \in S : /\ i \in DOMAIN trades'
                   /\ trades'[i].cost \in Int /\ trades'[i].cash \in Int /\ trades'[i].pnl \in Int
  BY JournalType DEF Grows
<1>5. CostOfAll(S \cup {n})' = CostOfAll(S) + row.cost
  <2> DEFINE h == [i \in DOMAIN trades' |-> trades'[i].cost]
  <2>1. (\A i \in S : h[i] \in Int) /\ h[n] = row.cost
    BY <1>2, <1>4
  <2> HIDE DEF h
  <2>2. SumFunctionOnSet(h, S \cup {n}) = SumFunctionOnSet(h, S) + row.cost
    BY <1>1, <1>3, <2>1, SumWith
  <2>3. CostOfAll(S \cup {n})' = SumFunctionOnSet(h, S \cup {n}) /\ CostOfAll(S)' = SumFunctionOnSet(h, S)
    BY DEF CostOfAll, h
  <2>4. QED
    BY <2>2, <2>3, SumsCarried
<1>6. CashOfAll(S \cup {n})' = CashOfAll(S) + row.cash
  <2> DEFINE h == [i \in DOMAIN trades' |-> trades'[i].cash]
  <2>1. (\A i \in S : h[i] \in Int) /\ h[n] = row.cash
    BY <1>2, <1>4
  <2> HIDE DEF h
  <2>2. SumFunctionOnSet(h, S \cup {n}) = SumFunctionOnSet(h, S) + row.cash
    BY <1>1, <1>3, <2>1, SumWith
  <2>3. CashOfAll(S \cup {n})' = SumFunctionOnSet(h, S \cup {n}) /\ CashOfAll(S)' = SumFunctionOnSet(h, S)
    BY DEF CashOfAll, h
  <2>4. QED
    BY <2>2, <2>3, SumsCarried
<1>7. PnlOfAll(S \cup {n})' = PnlOfAll(S) + row.pnl
  <2> DEFINE h == [i \in DOMAIN trades' |-> trades'[i].pnl]
  <2>1. (\A i \in S : h[i] \in Int) /\ h[n] = row.pnl
    BY <1>2, <1>4
  <2> HIDE DEF h
  <2>2. SumFunctionOnSet(h, S \cup {n}) = SumFunctionOnSet(h, S) + row.pnl
    BY <1>1, <1>3, <2>1, SumWith
  <2>3. PnlOfAll(S \cup {n})' = SumFunctionOnSet(h, S \cup {n}) /\ PnlOfAll(S)' = SumFunctionOnSet(h, S)
    BY DEF PnlOfAll, h
  <2>4. QED
    BY <2>2, <2>3, SumsCarried
<1>8. QED
  BY <1>5, <1>6, <1>7

LEMMA BasisType == ASSUME NEW a \in Account PROVE Basis(a) \in Int
<1> DEFINE g == [t \in Ticker |-> a.holdings[t].basis]
<1>1. DOMAIN g = Ticker /\ \A t \in Ticker : g[t] \in Int
  BY DEF Account, Holding
<1> HIDE DEF g
<1>2. SumFunctionOnSet(g, Ticker) \in Int
  BY <1>1, SumIsInt
<1>3. QED
  BY <1>1, <1>2 DEF Basis, SumFunction, g

LEMMA BasisChanged ==
  ASSUME NEW a \in Account, NEW b \in Account, NEW t \in Ticker,
         \A s \in Ticker : s # t => b.holdings[s].basis = a.holdings[s].basis
  PROVE  Basis(b) = Basis(a) - a.holdings[t].basis + b.holdings[t].basis
<1> DEFINE g == [s \in Ticker |-> a.holdings[s].basis]
           h == [s \in Ticker |-> b.holdings[s].basis]
<1>1. /\ DOMAIN g = Ticker /\ DOMAIN h = Ticker
      /\ \A s \in Ticker : g[s] \in Int /\ h[s] \in Int
      /\ \A s \in Ticker \ {t} : h[s] = g[s]
  BY DEF Account, Holding
<1> HIDE DEF g, h
<1>2. SumFunctionOnSet(h, Ticker) = SumFunctionOnSet(g, Ticker) - g[t] + h[t]
  BY <1>1, SumChanged
<1>3. QED
  BY <1>1, <1>2 DEF Basis, SumFunction, g, h

(* b is a with the trade of row booked on the holding of t. *)
Adds(a, b, t, row) ==
  /\ trades' = Append(trades, row)
  /\ b.cash = a.cash + row.cash /\ b.cost = a.cost + row.cost /\ b.count = a.count + 1
  /\ b.applied = a.applied \cup {Number}
  /\ \A s \in Ticker : s # t => b.holdings[s] = a.holdings[s]
  /\ row.cash + b.holdings[t].basis <= a.holdings[t].basis + row.pnl
  /\ ~row.swept => row.cash + b.holdings[t].basis = a.holdings[t].basis + row.pnl

LEMMA AddsBooks ==
  ASSUME NEW a \in Account, NEW b \in Account, NEW t \in Ticker, NEW row \in Row,
         Adds(a, b, t, row), NEW e \in Int
  PROVE  /\ a.cash + Basis(a) <= Deposit + e => b.cash + Basis(b) <= Deposit + (e + row.pnl)
         /\ a.cash + Basis(a) = Deposit + e /\ ~row.swept
            => b.cash + Basis(b) = Deposit + (e + row.pnl)
<1>1. PICK k \in Int, n \in Int : k = Basis(a) /\ n = Basis(b)
  BY BasisType
<1>2. PICK old \in Int, new \in Int : old = a.holdings[t].basis /\ new = b.holdings[t].basis
  BY DEF Account, Holding
<1>3. \A s \in Ticker : s # t => b.holdings[s].basis = a.holdings[s].basis
  BY DEF Adds
<1>4. Basis(b) = Basis(a) - a.holdings[t].basis + b.holdings[t].basis
  BY <1>3, BasisChanged
<1>5. n = k - old + new
  BY <1>1, <1>2, <1>4
<1>6. PICK c \in Int, after \in Int : c = a.cash /\ after = b.cash
  BY DEF Account
<1>7. PICK cash \in Int, pnl \in Int : cash = row.cash /\ pnl = row.pnl
  BY DEF Row
<1>8. /\ after = c + cash /\ cash + new <= old + pnl
      /\ ~row.swept => cash + new = old + pnl
  BY <1>2, <1>6, <1>7 DEF Adds
<1>9. /\ c + k <= Deposit + e => after + n <= Deposit + (e + pnl)
      /\ c + k = Deposit + e /\ ~row.swept => after + n = Deposit + (e + pnl)
  BY <1>5, <1>8
<1>10. QED
  BY <1>1, <1>6, <1>7, <1>9

LEMMA TradeBooked ==
  ASSUME TypeOK, TypeOK', Grows, NEW a \in Account, Journalled(a), NEW t \in Ticker,
         NEW b \in Account, NEW row \in Row, Adds(a, b, t, row)
  PROVE  Journalled(b)'
<1>1. PICK S \in SUBSET DOMAIN trades : S = a.applied
  BY DEF Journalled
<1>2. PICK n \in Nat : n = Number
  BY DEF Number, TypeOK
<1>3. trades' = Append(trades, row)
  BY DEF Adds
<1>4. /\ CostOfAll(S \cup {n})' = CostOfAll(S) + row.cost
      /\ CashOfAll(S \cup {n})' = CashOfAll(S) + row.cash
      /\ PnlOfAll(S \cup {n})' = PnlOfAll(S) + row.pnl
  BY <1>2, <1>3, SumsGrow
<1>5. PICK costs \in Int, cash \in Int, e \in Int :
        costs = CostOfAll(S) /\ cash = CashOfAll(S) /\ e = PnlOfAll(S)
  BY SumsCarried
<1>6. /\ a.count = Cardinality(S) /\ a.cash = Deposit + cash /\ a.cost = costs
      /\ a.cash + Basis(a) <= Deposit + e
      /\ (\A i \in S : ~trades[i].swept) => a.cash + Basis(a) = Deposit + e
  BY <1>1, <1>5 DEF Journalled
<1>7. /\ n \in DOMAIN trades' /\ trades'[n] = row
      /\ \A i \in S : i \in DOMAIN trades' /\ trades'[i] = trades[i]
  BY <1>2, <1>3 DEF TypeOK, Number, Grows
<1>8. b.applied = S \cup {n} /\ b.applied \subseteq DOMAIN trades'
  BY <1>1, <1>2, <1>7 DEF Adds
<1>9. b.count = Cardinality(b.applied)
  <2>1. IsFiniteSet(S) /\ n \notin S
    BY <1>2, JournalType, FS_Subset DEF Number
  <2>2. Cardinality(S \cup {n}) = Cardinality(S) + 1
    BY <2>1, FS_AddElement
  <2>3. QED
    BY <1>6, <1>8, <2>2 DEF Adds
<1>10. b.cash = Deposit + CashOfAll(S \cup {n})' /\ b.cost = CostOfAll(S \cup {n})'
  <2>1. PICK c \in Int, k \in Int : c = row.cash /\ k = row.cost
    BY DEF Row
  <2>2. b.cash = a.cash + c /\ b.cost = a.cost + k
    BY <2>1 DEF Adds
  <2>3. (Deposit + cash) + c = Deposit + (cash + c)
    OBVIOUS
  <2>4. QED
    BY <1>4, <1>5, <1>6, <2>1, <2>2, <2>3
<1>11. b.cash + Basis(b) <= Deposit + PnlOfAll(S \cup {n})'
  BY <1>4, <1>5, <1>6, AddsBooks
<1>12. ASSUME \A i \in S \cup {n} : ~trades'[i].swept
       PROVE  b.cash + Basis(b) = Deposit + PnlOfAll(S \cup {n})'
  <2>1. ~row.swept /\ \A i \in S : ~trades[i].swept
    BY <1>7, <1>12
  <2>2. QED
    BY <1>4, <1>5, <1>6, <2>1, AddsBooks
<1>13. Basis(b)' = Basis(b)
  BY DEF Basis
<1>14. QED
  BY <1>8, <1>9, <1>10, <1>11, <1>12, <1>13 DEF Journalled

(* Two copies that differ neither in the trades they account for nor in any *)
(* basis.                                                                   *)
LEMMA SameBooks ==
  ASSUME NEW a \in Account, NEW b \in Account, Journalled(a)',
         b.cash = a.cash, b.cost = a.cost, b.count = a.count, b.applied = a.applied,
         \A t \in Ticker : b.holdings[t].basis = a.holdings[t].basis
  PROVE  Journalled(b)'
<1>1. Basis(b) = Basis(a)
  BY DEF Basis
<1>2. Basis(a)' = Basis(a) /\ Basis(b)' = Basis(b)
  BY DEF Basis
<1>3. QED
  BY <1>1, <1>2 DEF Journalled

LEMMA OpenedJournalled ==
  ASSUME TypeOK
  PROVE  Journalled(Opened)
<1>1. /\ Opened.applied = {} /\ Opened.cash = Deposit /\ Opened.cost = 0 /\ Opened.count = 0
      /\ \A t \in Ticker : Opened.holdings[t].basis = 0
  BY DEF Opened, NoHolding
<1>2. CashOfAll({}) = 0 /\ CostOfAll({}) = 0 /\ PnlOfAll({}) = 0
  BY SumOfNothing DEF CashOfAll, CostOfAll, PnlOfAll
<1>3. Basis(Opened) = 0
  <2> DEFINE g == [t \in Ticker |-> Opened.holdings[t].basis]
  <2>1. DOMAIN g = Ticker /\ \A t \in Ticker : g[t] = 0
    BY <1>1
  <2> HIDE DEF g
  <2>2. SumFunctionOnSet(g, Ticker) = 0
    BY <2>1, SumOfZeros
  <2>3. QED
    BY <2>1, <2>2 DEF Basis, SumFunction, g
<1>4. Cardinality({}) = 0
  BY FS_EmptySet
<1>5. QED
  BY <1>1, <1>2, <1>3, <1>4 DEF Journalled

LEMMA JournalsCarried ==
  ASSUME TypeOK, TypeOK', Grows, AccountIsJournalled,
         \A a \in Copies' : a \in Copies \/ Journalled(a)'
  PROVE  AccountIsJournalled'
<1>1. Copies \subseteq Account
  BY DEF Copies, TypeOK
<1>2. ASSUME NEW a \in Copies' PROVE Journalled(a)'
  BY <1>1, JournalCarried DEF AccountIsJournalled
<1>3. QED
  BY <1>2 DEF AccountIsJournalled

LEMMA BuyJournalled ==
  ASSUME TypeOK, TypeOK', Grows, AccountIsJournalled, NEW t \in Ticker,
         NEW usd \in Nat \ {0}, NEW price \in Nat \ {0}, NEW slip \in Nat,
         NEW stop \in BOOLEAN, NEW tp \in BOOLEAN, Buy(t, usd, price, slip, stop, tp)
  PROVE  AccountIsJournalled'
<1>1. PICK holding \in Holding, cost \in Nat, row \in Row :
        BuyEffect(t, usd, stop, holding, cost, row)
  BY BuyFacts
<1>2. Number <= MaxTrades /\ UNCHANGED <<account, view>>
  BY DEF Buy, markVars
<1>0. PICK cash \in Int : cash = -usd
  OBVIOUS
<1>3. PICK a \in Account : a = state
  BY DEF TypeOK
<1>4. PICK b : b = Booked(state, t, cash, cost, holding)
  OBVIOUS
<1>5. /\ b \in Account /\ b.cash = a.cash + cash /\ b.cost = a.cost + cost
      /\ b.count = a.count + 1 /\ b.applied = a.applied \cup {Number}
      /\ b.holdings[t] = holding /\ \A s \in Ticker : s # t => b.holdings[s] = a.holdings[s]
  <2>1. BookedAs(b, a, t, cash, cost, holding)
    BY <1>2, <1>3, <1>4, BookedCopy
  <2>2. QED
    BY <2>1 DEF BookedAs
<1>6. /\ trades' = Append(trades, row) /\ row.cash = cash /\ row.cost = cost /\ row.pnl = 0
      /\ holding.basis = a.holdings[t].basis + usd /\ state' = b
  BY <1>0, <1>1, <1>3, <1>4 DEF BuyEffect, Held
<1>7. PICK old \in Int : old = a.holdings[t].basis
  BY DEF Account, Holding
<1>8. row.cash + holding.basis = old /\ old + row.pnl = old
  <2>1. cash + (old + usd) = old /\ old + 0 = old
    BY <1>0
  <2>2. QED
    BY <1>6, <1>7, <2>1
<1>9. Adds(a, b, t, row)
  BY <1>5, <1>6, <1>7, <1>8 DEF Adds
<1>10. Journalled(b)'
  BY <1>3, <1>5, <1>9, TradeBooked DEF AccountIsJournalled, Copies
<1>11. \A c \in Copies' : c \in Copies \/ Journalled(c)'
  BY <1>2, <1>6, <1>10 DEF Copies
<1>12. QED
  BY <1>11, JournalsCarried

LEMMA SellJournalled ==
  ASSUME TypeOK, TypeOK', Grows, AccountIsJournalled, NEW t \in Ticker,
         NEW asked \in Nat \ {0}, NEW price \in Price, NEW slip \in Nat,
         Sell(t, asked, price, slip)
  PROVE  AccountIsJournalled'
<1>1. PICK holding \in Holding, cost \in Nat, net \in Int, row \in Row :
        SellEffect(t, holding, cost, net, row)
  BY SellFacts
<1>2. Number <= MaxTrades /\ UNCHANGED <<account, view>>
  BY DEF Sell, markVars
<1>3. PICK a \in Account : a = state
  BY DEF TypeOK
<1>4. PICK b : b = Booked(state, t, net, cost, holding)
  OBVIOUS
<1>5. /\ b \in Account /\ b.cash = a.cash + net /\ b.cost = a.cost + cost
      /\ b.count = a.count + 1 /\ b.applied = a.applied \cup {Number}
      /\ b.holdings[t] = holding /\ \A s \in Ticker : s # t => b.holdings[s] = a.holdings[s]
  <2>1. BookedAs(b, a, t, net, cost, holding)
    BY <1>2, <1>3, <1>4, BookedCopy
  <2>2. QED
    BY <2>1 DEF BookedAs
<1>6. /\ trades' = Append(trades, row) /\ row.cash = net /\ row.cost = cost
      /\ net + holding.basis <= a.holdings[t].basis + row.pnl
      /\ ~row.swept => net + holding.basis = a.holdings[t].basis + row.pnl
      /\ state' = b
  BY <1>1, <1>3, <1>4 DEF SellEffect, Held
<1>7. Adds(a, b, t, row)
  BY <1>5, <1>6 DEF Adds
<1>8. Journalled(b)'
  BY <1>3, <1>5, <1>7, TradeBooked DEF AccountIsJournalled, Copies
<1>9. \A c \in Copies' : c \in Copies \/ Journalled(c)'
  BY <1>2, <1>6, <1>8 DEF Copies
<1>10. QED
  BY <1>9, JournalsCarried

LEMMA StopUpdateJournalled ==
  ASSUME TypeOK, TypeOK', Grows, AccountIsJournalled, NEW t \in Ticker,
         NEW stop \in BOOLEAN, NEW tp \in BOOLEAN, StopUpdate(t, stop, tp)
  PROVE  AccountIsJournalled'
<1>1. /\ state' = [state EXCEPT !.holdings[t] = WithLevels(@, stop, tp)]
      /\ UNCHANGED <<account, view>>
  BY DEF StopUpdate, fileVars, markVars
<1>2. PICK a \in Account : a = state
  BY DEF TypeOK
<1>3. PICK b : b = [a EXCEPT !.holdings[t] = WithLevels(@, stop, tp)]
  OBVIOUS
<1>4. LevelledAs(b, a, t, stop, tp)
  BY <1>3, LevelledType
<1>5. b.holdings[t].basis = a.holdings[t].basis
  <2>1. a.holdings[t] \in Holding
    BY DEF Account
  <2>2. QED
    BY <1>4, <2>1, LevelsType DEF LevelledAs
<1>6. /\ b \in Account /\ b.cash = a.cash /\ b.cost = a.cost /\ b.count = a.count
      /\ b.applied = a.applied
      /\ \A s \in Ticker : b.holdings[s].basis = a.holdings[s].basis
  BY <1>4, <1>5 DEF LevelledAs
<1>7. Journalled(a)'
  BY <1>2, JournalCarried DEF AccountIsJournalled, Copies
<1>8. Journalled(b)'
  BY <1>6, <1>7, SameBooks
<1>9. \A c \in Copies' : c \in Copies \/ Journalled(c)'
  BY <1>1, <1>2, <1>3, <1>8 DEF Copies
<1>10. QED
  BY <1>9, JournalsCarried

LEMMA DetectJournalled ==
  ASSUME TypeOK, TypeOK', Grows, AccountIsJournalled, NEW v \in Viewer, Detect(v)
  PROVE  AccountIsJournalled'
<1>1. UNCHANGED <<account, state>>
  BY DEF Detect, execVars
<1>2. PICK a \in Account, held \in [Ticker -> Holding] :
        /\ a = view[v]
        /\ view' = [view EXCEPT ![v] = [a EXCEPT !.holdings = held]]
        /\ PeaksRaised(held, a)
  BY DetectFacts DEF DetectEffect
<1>3. PICK b : b = [a EXCEPT !.holdings = held]
  OBVIOUS
<1>4. /\ b \in Account /\ b.holdings = held /\ b.cash = a.cash /\ b.cost = a.cost
      /\ b.count = a.count /\ b.applied = a.applied
  BY <1>3 DEF Account
<1>5. ASSUME NEW t \in Ticker PROVE b.holdings[t].basis = a.holdings[t].basis
  BY <1>2, <1>4 DEF PeaksRaised, Holding
<1>6. Journalled(a)'
  BY <1>2, JournalCarried DEF AccountIsJournalled, Copies
<1>7. Journalled(b)'
  BY <1>4, <1>5, <1>6, SameBooks
<1>8. \A c \in Copies' : c \in Copies \/ Journalled(c)'
  BY <1>1, <1>2, <1>3, <1>7 DEF Copies, TypeOK
<1>9. QED
  BY <1>8, JournalsCarried

LEMMA JournalNext ==
  ASSUME TypeOK, TypeOK', Grows, AccountIsJournalled, [Next]_vars
  PROVE  AccountIsJournalled'
<1>1. ASSUME \A a \in Copies' : a \in Copies \/ a = Opened
      PROVE  AccountIsJournalled'
  <2>1. Journalled(Opened)'
    BY OpenedType, OpenedJournalled, JournalCarried
  <2>2. QED
    BY <1>1, <2>1, JournalsCarried
<1>2. CASE Orders
  BY <1>2, OrderFacts, BuyJournalled, SellJournalled
<1>3. CASE \E t \in Ticker, stop, tp \in BOOLEAN : StopUpdate(t, stop, tp)
  BY <1>3, StopUpdateJournalled
<1>4. ASSUME NEW v \in Viewer, Detect(v) PROVE AccountIsJournalled'
  BY <1>4, DetectJournalled
<1>5. CASE Load
  BY <1>1, <1>5 DEF Load, Copies, fileVars, markVars
<1>6. CASE AuditLessons \/ AuditLog
  BY <1>1, <1>6 DEF AuditLessons, AuditLog, Copies, markVars
<1>7. CASE AuditFails \/ OrdersDone
  BY <1>1, <1>7 DEF AuditFails, OrdersDone, Copies, fileVars, markVars
<1>8. CASE Save
  BY <1>1, <1>8 DEF Save, Stop, Copies, markVars
<1>9. CASE Crash
  BY <1>1, <1>9 DEF Crash, Stop, Copies, fileVars, markVars
<1>10. ASSUME NEW v \in Viewer, LoadForMark(v) PROVE AccountIsJournalled'
  BY <1>1, <1>10 DEF LoadForMark, Copies, fileVars, execVars, TypeOK
<1>11. ASSUME NEW v \in Viewer, SaveMark(v) PROVE AccountIsJournalled'
  BY <1>1, <1>11 DEF SaveMark, Copies, execVars, TypeOK
<1>12. CASE UNCHANGED vars
  BY <1>1, <1>12 DEF vars, fileVars, execVars, markVars, Copies
<1>13. QED
  BY <1>2, <1>3, <1>4, <1>5, <1>6, <1>7, <1>8, <1>9, <1>10, <1>11, <1>12
     DEF Next, Execute, Mark

-----------------------------------------------------------------------------
(* The audit log. *)

AuditInv == AuditsAreCloses /\ AuditInProgress

(* Rows keep standing for closes while the log itself does not change.      *)
LEMMA ClosesCarried ==
  ASSUME TypeOK, Grows, AuditsAreCloses, audits' = audits, scored' \in Nat, scored <= scored'
  PROVE  AuditsAreCloses'
<1>1. ASSUME NEW i \in DOMAIN audits
      PROVE  LET c == audits[i].trade IN
             /\ c \in DOMAIN trades' /\ trades'[c].flat
             /\ trades'[c].position = audits[i].position
             /\ \A j \in DOMAIN audits : audits[j].trade = c => j = i
  BY DEF AuditsAreCloses, Grows
<1>2. scored' >= Len(audits)
  BY DEF AuditsAreCloses, TypeOK
<1>3. QED
  BY <1>1, <1>2 DEF AuditsAreCloses

(* A step that neither trades nor audits, and leaves the audit in progress  *)
(* as it is or drops it.                                                    *)
LEMMA AuditStutter ==
  ASSUME TypeOK, AuditInv, UNCHANGED <<trades, audits, scored>>,
         UNCHANGED <<pc, closing>> \/ pc' \in {"idle", "orders", "stops"}
  PROVE  AuditInv'
<1>1. AuditsAreCloses'
  BY DEF AuditInv, AuditsAreCloses
<1>2. AuditInProgress'
  <2>1. CASE UNCHANGED <<pc, closing>>
    BY <2>1 DEF AuditInv, AuditInProgress
  <2>2. CASE pc' \in {"idle", "orders", "stops"}
    BY <2>2 DEF AuditInProgress
  <2>3. QED
    BY <2>1, <2>2
<1>3. QED
  BY <1>1, <1>2 DEF AuditInv

LEMMA BuyAudit ==
  ASSUME TypeOK, AuditInv, Grows, NEW t \in Ticker, NEW usd \in Nat \ {0},
         NEW price \in Nat \ {0}, NEW slip \in Nat, NEW stop \in BOOLEAN, NEW tp \in BOOLEAN,
         Buy(t, usd, price, slip, stop, tp)
  PROVE  AuditInv'
<1>1. pc' = "orders" /\ audits' = audits /\ scored' = scored
  BY DEF Buy
<1>2. AuditsAreCloses'
  BY <1>1, ClosesCarried DEF AuditInv, TypeOK
<1>3. AuditInProgress'
  BY <1>1 DEF AuditInProgress
<1>4. QED
  BY <1>2, <1>3 DEF AuditInv

LEMMA SellAudit ==
  ASSUME TypeOK, AuditInv, Grows, NEW t \in Ticker, NEW asked \in Nat \ {0},
         NEW price \in Price, NEW slip \in Nat, Sell(t, asked, price, slip)
  PROVE  AuditInv'
<1>1. pc = "orders" /\ audits' = audits /\ scored' = scored
  BY DEF Sell
<1>2. AuditsAreCloses'
  BY <1>1, ClosesCarried DEF AuditInv, TypeOK
<1>3. PICK holding \in Holding, cost \in Nat, net \in Int, row \in Row :
        SellEffect(t, holding, cost, net, row)
  BY SellFacts
<1>4. Len(trades') = Number /\ Number > 0 /\ trades'[Number] = row
  BY <1>3, AppendGrows DEF SellEffect, Number, TypeOK
<1>5. AuditInProgress'
  <2>1. CASE UNCHANGED <<pc, closing>>
    BY <1>1, <2>1 DEF AuditInProgress
  <2>2. CASE \E c \in Audit : /\ pc' = "audit_lessons" /\ closing' = c
                               /\ c.trade = Number /\ c.position = row.position /\ row.flat
    <3>1. PICK c \in Audit : /\ pc' = "audit_lessons" /\ closing' = c
                             /\ c.trade = Number /\ c.position = row.position /\ row.flat
      BY <2>2
    <3>2. \A i \in DOMAIN audits : audits[i].trade < Number
      BY DEF AuditInv, AuditsAreCloses, TypeOK, Number
    <3>3. QED
      BY <1>1, <1>4, <3>1, <3>2 DEF AuditInProgress
  <2>3. QED
    BY <1>3, <2>1, <2>2 DEF SellEffect
<1>6. QED
  BY <1>2, <1>5 DEF AuditInv

LEMMA LessonsAudit ==
  ASSUME TypeOK, AuditInv, Grows, AuditLessons
  PROVE  AuditInv'
<1>1. /\ UNCHANGED <<trades, audits, closing>> /\ scored' = scored + 1
      /\ pc = "audit_lessons" /\ pc' = "audit_log"
  BY DEF AuditLessons
<1>2. AuditsAreCloses'
  BY <1>1, ClosesCarried DEF AuditInv, TypeOK
<1>3. AuditInProgress'
  <2>1. scored + 1 > Len(audits)
    BY DEF AuditInv, AuditsAreCloses, TypeOK
  <2>2. QED
    BY <1>1, <2>1 DEF AuditInv, AuditInProgress
<1>4. QED
  BY <1>2, <1>3 DEF AuditInv

LEMMA LogAudit ==
  ASSUME TypeOK, AuditInv, AuditLog
  PROVE  AuditInv'
<1>1. /\ UNCHANGED <<trades, scored>> /\ audits' = Append(audits, closing)
      /\ pc = "audit_log" /\ pc' = "orders"
  BY DEF AuditLog
<1>2. PICK c \in Audit : c = closing
  BY <1>1 DEF TypeOK
<1>3. /\ Len(audits') = Len(audits) + 1
      /\ DOMAIN audits' = DOMAIN audits \cup {Len(audits) + 1}
      /\ audits'[Len(audits) + 1] = c
      /\ \A i \in DOMAIN audits : audits'[i] = audits[i] /\ i # Len(audits) + 1
  BY <1>1, <1>2 DEF TypeOK
<1>4. /\ c.trade \in DOMAIN trades /\ trades[c.trade].flat
      /\ trades[c.trade].position = c.position
      /\ \A i \in DOMAIN audits : audits[i].trade # c.trade
      /\ scored >= Len(audits) + 1
  <2>1. /\ c.trade = Len(trades) /\ c.trade > 0 /\ trades[c.trade].flat
        /\ trades[c.trade].position = c.position
        /\ \A i \in DOMAIN audits : audits[i].trade < c.trade
        /\ scored > Len(audits)
    BY <1>1, <1>2 DEF AuditInv, AuditInProgress
  <2>2. QED
    BY <2>1 DEF TypeOK, Audit
<1>5. ASSUME NEW i \in DOMAIN audits'
      PROVE  LET k == audits'[i].trade IN
             /\ k \in DOMAIN trades /\ trades[k].flat /\ trades[k].position = audits'[i].position
             /\ \A j \in DOMAIN audits' : audits'[j].trade = k => j = i
  <2>1. CASE i \in DOMAIN audits
    BY <1>3, <1>4, <2>1 DEF AuditInv, AuditsAreCloses
  <2>2. CASE i = Len(audits) + 1
    BY <1>3, <1>4, <2>2
  <2>3. QED
    BY <1>3, <2>1, <2>2
<1>6. AuditsAreCloses'
  BY <1>1, <1>3, <1>4, <1>5 DEF AuditsAreCloses
<1>7. AuditInProgress'
  BY <1>1 DEF AuditInProgress
<1>8. QED
  BY <1>6, <1>7 DEF AuditInv

LEMMA AuditNext ==
  ASSUME TypeOK, TypeOK', AuditInv, Grows, [Next]_vars
  PROVE  AuditInv'
<1>1. CASE Orders
  BY <1>1, OrderFacts, BuyAudit, SellAudit
<1>2. CASE AuditLessons
  BY <1>2, LessonsAudit
<1>3. CASE AuditLog
  BY <1>3, LogAudit
<1>4. CASE Load \/ OrdersDone \/ AuditFails
  BY <1>4, AuditStutter DEF Load, OrdersDone, AuditFails, fileVars
<1>5. CASE Save \/ Crash
  BY <1>5, AuditStutter DEF Save, Crash, Stop, fileVars
<1>6. CASE \E t \in Ticker, stop, tp \in BOOLEAN : StopUpdate(t, stop, tp)
  BY <1>6, AuditStutter DEF StopUpdate, fileVars
<1>7. CASE Mark
  BY <1>7, AuditStutter DEF Mark, LoadForMark, Detect, SaveMark, fileVars, execVars
<1>8. CASE UNCHANGED vars
  BY <1>8, AuditStutter DEF vars, fileVars, execVars
<1>9. QED
  BY <1>1, <1>2, <1>3, <1>4, <1>5, <1>6, <1>7, <1>8 DEF Next, Execute

-----------------------------------------------------------------------------
(* The inductive invariant, and what follows from it. *)

LEMMA FundInit ==
  ASSUME Init
  PROVE  FundInv
<1>1. TypeOK
  BY TypeInit
<1>2. Copies \subseteq {Opened}
  BY DEF Init, Copies
<1>3. CopiesSound
  BY <1>1, <1>2, OpenedSound DEF CopiesSound
<1>6. AccountIsJournalled
  BY <1>1, <1>2, OpenedJournalled DEF AccountIsJournalled
<1>4. AuditsAreCloses /\ AuditInProgress
  BY DEF Init, AuditsAreCloses, AuditInProgress
<1>5. QED
  BY <1>1, <1>3, <1>4, <1>6 DEF FundInv

LEMMA FundNext ==
  ASSUME FundInv, [Next]_vars
  PROVE  FundInv'
<1>1. TypeOK'
  BY TypeNext DEF FundInv
<1>2. Grows /\ CopiesSound'
  BY <1>1, CopiesNext DEF FundInv
<1>3. AuditInv'
  BY <1>1, <1>2, AuditNext DEF FundInv, AuditInv
<1>4. AccountIsJournalled'
  BY <1>1, <1>2, JournalNext DEF FundInv
<1>5. QED
  BY <1>1, <1>2, <1>3, <1>4 DEF FundInv, AuditInv

(* The strengthening the theorems below follow from: every copy of the      *)
(* account is sound and journalled, and an audit in progress is of the last *)
(* trade.                                                                   *)
THEOREM FundInvariant == Spec => []FundInv
<1>1. Init => FundInv
  BY FundInit
<1>2. FundInv /\ [Next]_vars => FundInv'
  BY FundNext
<1>3. QED
  BY <1>1, <1>2, PTL DEF Spec

(* healthcheck.py I1 and I2: no order takes the cash below zero, whatever   *)
(* copy it is applied to and whichever copy is saved last, and no partial   *)
(* sale releases the whole cost of what is left.                            *)
THEOREM FundSolvent == Spec => []Solvent
<1>1. FundInv => Solvent
  BY DEF FundInv, CopiesSound, SoundCopy, Sound, Solvent
<1>2. QED
  BY <1>1, FundInvariant, PTL

(* execute_trade: an open position never carries the peak or the age of an  *)
(* earlier position of the same token, whichever copy is saved last.        *)
THEOREM FundHistoryIsOwn == Spec => []HistoryIsOwn
<1>1. FundInv => HistoryIsOwn
  BY DEF FundInv, CopiesSound, SoundCopy, Sound, HistoryIsOwn
<1>2. QED
  BY <1>1, FundInvariant, PTL

(* execute_pm_orders: an open position without a stop of its own has a row  *)
(* in the bug log.                                                          *)
THEOREM FundUnprotectedIsReported == Spec => []UnprotectedIsReported
<1>1. FundInv => UnprotectedIsReported
  BY DEF FundInv, CopiesSound, SoundCopy, Sound, UnprotectedIsReported
<1>2. QED
  BY <1>1, FundInvariant, PTL

(* Every copy of the account is, in cash, costs and number of trades,       *)
(* exactly what some of the journalled trades make of the deposit, and its  *)
(* cash and basis together never exceed the deposit and the realised        *)
(* profits: no crash, no viewer and no order of saves makes money.          *)
THEOREM FundAccountIsJournalled == Spec => []AccountIsJournalled
<1>1. FundInv => AccountIsJournalled
  BY DEF FundInv
<1>2. QED
  BY <1>1, FundInvariant, PTL

(* audit_close: a row of the log stands for a close in the journal, a close *)
(* has one row at most, and the scoreboards never lag the log.              *)
THEOREM FundAuditsAreCloses == Spec => []AuditsAreCloses
<1>1. FundInv => AuditsAreCloses
  BY DEF FundInv
<1>2. QED
  BY <1>1, FundInvariant, PTL
-----------------------------------------------------------------------------
(* The orders alone, and without faults. *)

LEMMA AloneFacts ==
  ASSUME Alone, NothingIsLost
  PROVE  ~Mark /\ ~AuditFails /\ ~Crash
  BY DEF Alone, NothingIsLost, Mark, AuditFails, Crash

LEMMA LostInit ==
  ASSUME Init
  PROVE  NothingIsLost
  BY DEF Init, NothingIsLost, Live, Opened

LEMMA LostNext ==
  ASSUME Alone, TypeOK, NothingIsLost, [Next]_vars
  PROVE  NothingIsLost'
<1>1. CASE Orders
  <2>1. PICK t \in Ticker, cash \in Int, cost \in Nat, holding \in Holding, row \in Row :
          /\ state' = Booked(state, t, cash, cost, holding)
          /\ trades' = Append(trades, row) /\ Number <= MaxTrades
          /\ pc = "orders" /\ pc' # "idle" /\ faults' = faults
    <3>1. PICK t \in Ticker, price \in Price, slip \in Nat :
            \/ \E usd \in Nat \ {0}, stop, tp \in BOOLEAN : Buy(t, usd, price, slip, stop, tp)
            \/ \E asked \in Nat \ {0} : Sell(t, asked, price, slip)
      BY <1>1, OrderFacts
    <3>2. ASSUME NEW usd \in Nat \ {0}, NEW stop \in BOOLEAN, NEW tp \in BOOLEAN,
                 Buy(t, usd, price, slip, stop, tp)
          PROVE  \E cash \in Int, cost \in Nat, holding \in Holding, row \in Row :
                   /\ state' = Booked(state, t, cash, cost, holding)
                   /\ trades' = Append(trades, row) /\ Number <= MaxTrades
                   /\ pc = "orders" /\ pc' # "idle" /\ faults' = faults
      <4>1. PICK holding \in Holding, cost \in Nat, row \in Row :
              BuyEffect(t, usd, stop, holding, cost, row)
        BY <3>2, BuyFacts
      <4>2. PICK cash \in Int : cash = -usd
        OBVIOUS
      <4>3. /\ Number <= MaxTrades /\ pc = "orders" /\ pc' = "orders" /\ faults' = faults
        BY <3>2 DEF Buy, Alone, NothingIsLost
      <4>4. QED
        BY <4>1, <4>2, <4>3 DEF BuyEffect
    <3>3. ASSUME NEW asked \in Nat \ {0}, Sell(t, asked, price, slip)
          PROVE  \E cash \in Int, cost \in Nat, holding \in Holding, row \in Row :
                   /\ state' = Booked(state, t, cash, cost, holding)
                   /\ trades' = Append(trades, row) /\ Number <= MaxTrades
                   /\ pc = "orders" /\ pc' # "idle" /\ faults' = faults
      <4>1. PICK holding \in Holding, cost \in Nat, net \in Int, row \in Row :
              SellEffect(t, holding, cost, net, row)
        BY <3>3, SellFacts
      <4>2. Number <= MaxTrades /\ pc = "orders" /\ pc' # "idle" /\ faults' = faults
        BY <3>3, Zenon DEF Sell
      <4>3. QED
        BY <4>1, <4>2 DEF SellEffect
    <3>4. QED
      BY <3>1, <3>2, <3>3
  <2>2. state'.applied = state.applied \cup {Number}
    BY <2>1, BookedType
  <2>3. DOMAIN trades' = DOMAIN trades \cup {Number}
    BY <2>1 DEF TypeOK, Number
  <2>4. QED
    BY <2>1, <2>2, <2>3 DEF NothingIsLost, Live
<1>2. CASE Load
  BY <1>2 DEF Load, NothingIsLost, Live, fileVars
<1>3. CASE AuditLessons \/ AuditLog
  BY <1>3 DEF AuditLessons, AuditLog, NothingIsLost, Live
<1>4. CASE OrdersDone
  BY <1>4 DEF OrdersDone, NothingIsLost, Live, fileVars
<1>5. CASE Save
  BY <1>5 DEF Save, Stop, NothingIsLost, Live
<1>6. CASE \E t \in Ticker, stop, tp \in BOOLEAN : StopUpdate(t, stop, tp)
  <2>1. PICK t \in Ticker, stop \in BOOLEAN, tp \in BOOLEAN : StopUpdate(t, stop, tp)
    BY <1>6
  <2>2. PICK a \in Account : a = state
    BY DEF TypeOK
  <2>3. PICK b : b = [a EXCEPT !.holdings[t] = WithLevels(@, stop, tp)]
    OBVIOUS
  <2>4. b.applied = a.applied
    BY <2>3, LevelledType DEF LevelledAs
  <2>5. /\ state' = b /\ pc = "stops" /\ pc' = "stops" /\ UNCHANGED <<account, trades, faults>>
    BY <2>1, <2>2, <2>3 DEF StopUpdate, fileVars
  <2>6. QED
    BY <2>2, <2>4, <2>5 DEF NothingIsLost, Live
<1>7. CASE UNCHANGED vars
  BY <1>7 DEF vars, fileVars, execVars, NothingIsLost, Live
<1>8. QED
  BY <1>1, <1>2, <1>3, <1>4, <1>5, <1>6, <1>7, AloneFacts DEF Next, Execute

(* healthcheck.py I5: the orders alone and without faults, every cost of a  *)
(* journalled trade is in the running total of the account between ticks.   *)
THEOREM FundLedgerBalances == ASSUME Alone PROVE Spec => []LedgerBalances
<1>1. Init => NothingIsLost
  BY LostInit
<1>2. FundInv /\ NothingIsLost /\ [Next]_vars => NothingIsLost'
  BY LostNext DEF FundInv
<1>3. FundInv /\ NothingIsLost => LedgerBalances
  BY DEF FundInv, AccountIsJournalled, Copies, Journalled, NothingIsLost, Live, LedgerBalances
<1>4. QED
  BY <1>1, <1>2, <1>3, FundInvariant, PTL DEF Spec
LEMMA AuditCarried ==
  ASSUME Grows, NEW c, AuditOfSale(c)
  PROVE  AuditOfSale(c)'
  BY DEF AuditOfSale, Grows

(* Audits are of sales of the journal, which do not change.                 *)
LEMMA LeftOpenCarried ==
  ASSUME Grows, ClosesInv, audits' = audits
  PROVE  \A i \in DOMAIN audits : LeftOpen(audits[i].trade) => LeftOpen(audits[i].trade)'
  BY DEF ClosesInv, AuditOfSale, LeftOpen, Grows

LEMMA OnceCarried ==
  ASSUME TypeOK, Grows, ClosesInv, audits' = audits
  PROVE  AuditedOnce'
<1>1. DOMAIN audits = 1 .. Len(audits) /\ Len(audits) \in Nat
  BY DEF TypeOK
<1>2. ASSUME NEW j \in DOMAIN audits, NEW i \in 1 .. j - 1,
             audits[i].position = audits[j].position
      PROVE  LeftOpen(audits[i].trade)'
  <2>1. i \in DOMAIN audits
    BY <1>1
  <2>2. QED
    BY <1>2, <2>1, LeftOpenCarried DEF ClosesInv, AuditedOnce
<1>3. QED
  BY <1>2 DEF AuditedOnce

LEMMA OpenCarried ==
  ASSUME Grows, ClosesInv, NEW h, NEW t, OpenOnce(h, t), audits' = audits, ~Auditing'
  PROVE  OpenOnce(h, t)'
  BY LeftOpenCarried DEF OpenOnce, Grows

(* A step that neither trades nor audits, and leaves of the copy in use     *)
(* every open position as it was.                                           *)
LEMMA ClosesStutter ==
  ASSUME TypeOK, ClosesInv, UNCHANGED <<trades, audits>>, Auditing' <=> Auditing,
         Auditing => closing' = closing, NEW a, a = Live, NEW b, b = Live',
         \A t \in Ticker :
           /\ b.holdings[t].units = a.holdings[t].units
           /\ b.holdings[t].position = a.holdings[t].position
           /\ b.holdings[t].consensus = a.holdings[t].consensus
  PROVE  ClosesInv'
<1>1. ASSUME NEW t \in Ticker, b.holdings[t].units > 0
      PROVE  OpenOnce(b.holdings[t], t)'
  <2>1. OpenOnce(a.holdings[t], t)
    BY <1>1 DEF ClosesInv
  <2>2. QED
    BY <2>1 DEF OpenOnce, LeftOpen
<1>3. \A t \in Ticker : Live'.holdings[t].units > 0 => OpenOnce(Live.holdings[t], t)'
  BY <1>1 DEF OpenOnce, LeftOpen
<1>4. \A i \in DOMAIN audits' : AuditOfSale(audits[i])'
  BY DEF ClosesInv, AuditOfSale
<1>5. Auditing' => AuditOfSale(closing)'
  BY DEF ClosesInv, AuditOfSale
<1>6. QED
  BY <1>3, <1>4, <1>5 DEF ClosesInv, AuditedOnce, LeftOpen

LEMMA BuyCloses ==
  ASSUME Alone, TypeOK, TypeOK', NothingIsLost, ClosesInv, NEW t \in Ticker,
         NEW usd \in Nat \ {0}, NEW price \in Nat \ {0}, NEW slip \in Nat,
         NEW stop \in BOOLEAN, NEW tp \in BOOLEAN, Buy(t, usd, price, slip, stop, tp)
  PROVE  ClosesInv'
<1>1. PICK holding \in Holding, cost \in Nat, row \in Row :
        BuyEffect(t, usd, stop, holding, cost, row)
  BY BuyFacts
<1>2. /\ Number <= MaxTrades /\ pc = "orders" /\ pc' = "orders" /\ audits' = audits
      /\ unstopped \subseteq unstopped' /\ -usd \in Int /\ faults' = faults
  BY DEF Buy, Alone, NothingIsLost
<1>3. /\ Grows /\ Len(trades') = Number /\ Number \in DOMAIN trades' /\ trades'[Number] = row
  BY <1>1, <1>2, AppendGrows DEF BuyEffect
<1>4. ~Auditing /\ ~Auditing' /\ Live = state /\ Live' = state'
  BY <1>2 DEF Auditing, Live
<1>5. PICK h \in Holding : h = Held(t)
  BY HeldType
<1>6. /\ state'.holdings[t] = holding
      /\ \A s \in Ticker : s # t => state'.holdings[s] = state.holdings[s]
  <2>1. PICK b : b = Booked(state, t, -usd, cost, holding)
    OBVIOUS
  <2>2. /\ b \in Account /\ b.holdings[t] = holding
        /\ \A s \in Ticker : s # t => b.holdings[s] = state.holdings[s]
    BY <1>2, <2>1, BookedType
  <2>3. QED
    BY <1>1, <2>1, <2>2 DEF BuyEffect
<1>7. /\ row.ticker = t /\ ~row.flat /\ holding.consensus = Number
      /\ holding.position = IF h.units = 0 THEN Number ELSE h.position
  BY <1>1, <1>2, <1>5 DEF BuyEffect
<1>8. /\ DOMAIN trades' = DOMAIN trades \cup {Number}
      /\ Number \notin DOMAIN trades /\ \A c \in DOMAIN trades : Number >= c
  BY <1>1 DEF TypeOK, Number, BuyEffect
<1>9. OpenOnce(holding, t)'
  <2>1. CASE h.units = 0
    <3>1. \A i \in DOMAIN audits : audits[i].position # Number
      BY <1>8 DEF ClosesInv, AuditOfSale
    <3>2. Number \in Nat
      BY DEF Number, TypeOK
    <3>3. QED
      BY <1>2, <1>3, <1>4, <1>7, <2>1, <3>1, <3>2 DEF OpenOnce
  <2>2. CASE h.units # 0
    <3>1. h.units > 0
      BY <2>2 DEF Holding
    <3>2. OpenOnce(h, t)
      BY <1>4, <1>5, <3>1 DEF ClosesInv, Held
    <3>3. Number >= h.position
      BY <1>8, <3>2 DEF OpenOnce
    <3>4. QED
      BY <1>2, <1>3, <1>4, <1>7, <2>2, <3>2, <3>3, LeftOpenCarried DEF OpenOnce, Grows
  <2>3. QED
    BY <2>1, <2>2
<1>10. ASSUME NEW s \in Ticker, s # t, NEW k, k = state.holdings[s], k.units > 0
       PROVE  OpenOnce(k, s)'
  <2>1. OpenOnce(k, s)
    BY <1>4, <1>10 DEF ClosesInv
  <2>2. QED
    BY <1>2, <1>3, <1>4, <2>1, OpenCarried
<1>11. ASSUME NEW u \in Ticker, NEW k, k = state'.holdings[u], k.units > 0
       PROVE  OpenOnce(k, u)'
  BY <1>6, <1>9, <1>10, <1>11
<1>12. \A c \in DOMAIN trades' : trades'[c].flat => \E i \in DOMAIN audits : audits[i].trade = c
  BY <1>3, <1>4, <1>7, <1>8 DEF ClosesInv, Grows
<1>13. \A i \in DOMAIN audits : AuditOfSale(audits[i])'
  BY <1>2, <1>3, AuditCarried DEF ClosesInv
<1>14. QED
  BY <1>2, <1>3, <1>4, <1>11, <1>12, <1>13, OnceCarried DEF ClosesInv

LEMMA SellCloses ==
  ASSUME TypeOK, TypeOK', ClosesInv, NEW t \in Ticker,
         NEW asked \in Nat \ {0}, NEW price \in Price, NEW slip \in Nat,
         Sell(t, asked, price, slip)
  PROVE  ClosesInv'
<1>1. PICK holding \in Holding, cost \in Nat, net \in Int, row \in Row :
        SellEffect(t, holding, cost, net, row)
  BY SellFacts
<1>2. Number <= MaxTrades /\ pc = "orders" /\ audits' = audits /\ unstopped' = unstopped
  BY Zenon DEF Sell
<1>3. /\ Grows /\ Len(trades') = Number /\ Number \in DOMAIN trades' /\ trades'[Number] = row
  BY <1>1, <1>2, AppendGrows DEF SellEffect
<1>4. ~Auditing /\ Live = state
  BY <1>2 DEF Auditing, Live
<1>5. PICK h \in Holding : h = Held(t)
  BY HeldType
<1>6. /\ state'.holdings[t] = holding
      /\ \A s \in Ticker : s # t => state'.holdings[s] = state.holdings[s]
  <2>1. PICK b : b = Booked(state, t, net, cost, holding)
    OBVIOUS
  <2>2. /\ b \in Account /\ b.holdings[t] = holding
        /\ \A s \in Ticker : s # t => b.holdings[s] = state.holdings[s]
    BY <1>2, <2>1, BookedType
  <2>3. QED
    BY <1>1, <2>1, <2>2 DEF SellEffect
<1>7. /\ h.units > 0 /\ holding.position = h.position
      /\ holding.units > 0 => holding.consensus = h.consensus
      /\ holding.units > 0 => row.residue >= DustUsd
      /\ row.ticker = t /\ row.side = "sell" /\ row.position = h.position
  BY <1>1, <1>5 DEF SellEffect
<1>8. DOMAIN trades' = DOMAIN trades \cup {Number}
  BY <1>1 DEF TypeOK, Number, SellEffect
<1>9. OpenOnce(h, t)
  BY <1>4, <1>5, <1>7 DEF ClosesInv, Held
<1>10. h.consensus # None
  <2>1. h.position \in 1 .. Len(trades) /\ h.consensus >= h.position
    BY <1>9 DEF OpenOnce, TypeOK
  <2>2. h.consensus \in Nat /\ Len(trades) \in Nat
    BY DEF Holding, TypeOK
  <2>3. QED
    BY <2>1, <2>2 DEF None
<1>11. \A i \in DOMAIN audits : AuditOfSale(audits[i])'
  BY <1>2, <1>3, AuditCarried DEF ClosesInv
<1>12. ASSUME NEW s \in Ticker, s # t, state.holdings[s].units > 0
       PROVE  /\ OpenOnce(state.holdings[s], s)
              /\ state.holdings[s].position # h.position
  <2>1. OpenOnce(state.holdings[s], s)
    BY <1>4, <1>12 DEF ClosesInv
  <2>2. QED
    BY <1>9, <1>12, <2>1 DEF OpenOnce
<1>13. CASE UNCHANGED <<pc, closing>> /\ (row.flat => h.consensus = None)
  <2>1. ~row.flat
    BY <1>10, <1>13
  <2>2. ~Auditing' /\ Live' = state'
    BY <1>2, <1>13 DEF Auditing, Live
  <2>3. ASSUME holding.units > 0 PROVE OpenOnce(holding, t)'
    <3>1. OpenOnce(h, t)'
      BY <1>2, <1>3, <1>9, <2>2, OpenCarried
    <3>2. QED
      BY <1>7, <2>3, <3>1 DEF OpenOnce
  <2>4. ASSUME NEW s \in Ticker, s # t, NEW k, k = state.holdings[s], k.units > 0
        PROVE  OpenOnce(k, s)'
    BY <1>2, <1>3, <1>12, <2>2, <2>4, OpenCarried
  <2>5. ASSUME NEW u \in Ticker, NEW k, k = state'.holdings[u], k.units > 0
        PROVE  OpenOnce(k, u)'
    BY <1>6, <2>3, <2>4, <2>5
  <2>6. \A c \in DOMAIN trades' : trades'[c].flat => \E i \in DOMAIN audits : audits[i].trade = c
    BY <1>3, <1>4, <1>8, <2>1 DEF ClosesInv, Grows
  <2>7. QED
    BY <1>2, <1>3, <1>11, <2>2, <2>5, <2>6, OnceCarried DEF ClosesInv
<1>14. ASSUME NEW c \in Audit, pc' = "audit_lessons", closing' = c,
              c.trade = Number, c.position = row.position, row.flat,
              c.ticker = t, c.consensus = h.consensus
       PROVE  ClosesInv'
  <2>1. Auditing' /\ Live' = state'
    BY <1>14 DEF Auditing, Live
  <2>2. ASSUME holding.units > 0 PROVE OpenOnce(holding, t)'
    <3>1. LeftOpen(c.trade)'
      BY <1>3, <1>7, <1>14, <2>2 DEF LeftOpen
    <3>2. /\ \A i \in DOMAIN audits' :
               audits'[i].position = h.position => LeftOpen(audits[i].trade)'
          /\ h.position \in DOMAIN trades' /\ trades'[h.position].ticker = t
      BY <1>2, <1>3, <1>9, LeftOpenCarried DEF OpenOnce, Grows
    <3>3. holding.consensus >= holding.position /\ holding.position = h.position
      BY <1>7, <1>9, <2>2 DEF OpenOnce
    <3>4. QED
      BY <1>2, <1>14, <3>1, <3>2, <3>3 DEF OpenOnce
  <2>3. ASSUME NEW s \in Ticker, s # t, NEW k, k = state.holdings[s], k.units > 0
        PROVE  OpenOnce(k, s)'
    <3>1. OpenOnce(k, s) /\ k.position # closing'.position
      BY <1>7, <1>12, <1>14, <2>3
    <3>2. QED
      BY <1>2, <1>3, <3>1, LeftOpenCarried DEF OpenOnce, Grows
  <2>4. ASSUME NEW u \in Ticker, NEW k, k = state'.holdings[u], k.units > 0
        PROVE  OpenOnce(k, u)'
    BY <1>6, <2>2, <2>3, <2>4
  <2>5. AuditOfSale(closing)'
    BY <1>3, <1>7, <1>9, <1>14 DEF AuditOfSale, OpenOnce, Grows
  <2>6. \A i \in DOMAIN audits :
          audits[i].position = closing'.position => LeftOpen(audits[i].trade)'
    BY <1>2, <1>3, <1>7, <1>9, <1>14, LeftOpenCarried DEF OpenOnce
  <2>7. \A d \in DOMAIN trades' : trades'[d].flat =>
          \/ \E i \in DOMAIN audits : audits[i].trade = d
          \/ closing'.trade = d
    BY <1>3, <1>4, <1>8, <1>14 DEF ClosesInv, Grows
  <2>8. QED
    BY <1>2, <1>3, <1>11, <2>1, <2>4, <2>5, <2>6, <2>7, OnceCarried DEF ClosesInv
<1>15. QED
  BY <1>1, <1>5, <1>13, <1>14 DEF SellEffect

LEMMA LogCloses ==
  ASSUME TypeOK, ClosesInv, AuditLog
  PROVE  ClosesInv'
<1>1. /\ UNCHANGED <<trades, state>> /\ audits' = Append(audits, closing)
      /\ pc = "audit_log" /\ pc' = "orders"
  BY DEF AuditLog
<1>2. PICK c \in Audit : c = closing
  BY <1>1 DEF TypeOK
<1>3. Auditing /\ ~Auditing' /\ Live = state /\ Live' = state
  BY <1>1 DEF Auditing, Live
<1>4. PICK n \in Nat : n = Len(audits)
  BY DEF TypeOK
<1>5. /\ DOMAIN audits' = DOMAIN audits \cup {n + 1}
      /\ audits'[n + 1] = c
      /\ \A i \in DOMAIN audits : audits'[i] = audits[i] /\ i # n + 1
  BY <1>1, <1>2, <1>4 DEF TypeOK
<1>6. ASSUME NEW d, AuditOfSale(d) PROVE AuditOfSale(d)'
  BY <1>1, <1>6 DEF AuditOfSale
<1>7. /\ AuditOfSale(c)
      /\ \A k \in DOMAIN audits : audits[k].position = c.position => LeftOpen(audits[k].trade)
  BY <1>2, <1>3 DEF ClosesInv
<1>11. ASSUME NEW i \in DOMAIN audits', NEW d, d = audits'[i]
       PROVE  AuditOfSale(d)'
  <2>1. CASE i \in DOMAIN audits
    BY <1>5, <1>6, <1>11, <2>1 DEF ClosesInv
  <2>2. CASE i = n + 1
    BY <1>5, <1>6, <1>7, <1>11, <2>2
  <2>3. QED
    BY <1>5, <2>1, <2>2
<1>12. AuditedOnce'
  <2>1. ASSUME NEW j \in 1 .. n + 1, NEW i \in 1 .. j - 1,
               audits'[i].position = audits'[j].position
        PROVE  LeftOpen(audits[i].trade)
    <3>1. DOMAIN audits = 1 .. n /\ i \in DOMAIN audits /\ audits'[i] = audits[i]
      BY <1>4, <1>5 DEF TypeOK
    <3>2. CASE j \in DOMAIN audits
      BY <1>5, <2>1, <3>1, <3>2 DEF ClosesInv, AuditedOnce
    <3>3. CASE j = n + 1
      BY <1>5, <1>7, <2>1, <3>1, <3>3
    <3>4. QED
      BY <3>1, <3>2, <3>3
  <2>2. DOMAIN audits' = 1 .. n + 1 /\ \A i \in 1 .. n : audits'[i] = audits[i]
    BY <1>4, <1>5 DEF TypeOK
  <2>3. ASSUME NEW j \in 1 .. n + 1, NEW i \in 1 .. j - 1,
               audits'[i].position = audits'[j].position
        PROVE  trades'[audits'[i].trade].residue >= DustUsd
    BY <1>1, <2>1, <2>2, <2>3 DEF LeftOpen
  <2>4. QED
    BY <2>2, <2>3 DEF AuditedOnce, LeftOpen
<1>8. ASSUME NEW t \in Ticker, NEW k, k = state.holdings[t], k.units > 0
      PROVE  OpenOnce(k, t)'
  <2>1. OpenOnce(k, t)
    BY <1>3, <1>8 DEF ClosesInv
  <2>2. QED
    BY <1>1, <1>2, <1>3, <1>5, <2>1 DEF OpenOnce, LeftOpen
<1>9. \A d \in DOMAIN trades : trades[d].flat => \E i \in DOMAIN audits' : audits'[i].trade = d
  BY <1>2, <1>3, <1>5 DEF ClosesInv
<1>10. QED
  BY <1>1, <1>3, <1>8, <1>9, <1>11, <1>12 DEF ClosesInv

LEMMA StopUpdateCloses ==
  ASSUME TypeOK, ClosesInv, NEW t \in Ticker, NEW stop \in BOOLEAN, NEW tp \in BOOLEAN,
         StopUpdate(t, stop, tp)
  PROVE  ClosesInv'
<1>1. PICK a \in Account : a = state
  BY DEF TypeOK
<1>2. PICK b : b = [a EXCEPT !.holdings[t] = WithLevels(@, stop, tp)]
  OBVIOUS
<1>3. /\ state' = b /\ pc = "stops" /\ pc' = "stops" /\ UNCHANGED <<account, trades, audits>>
  BY <1>1, <1>2 DEF StopUpdate, fileVars
<1>4. a = Live /\ b = Live' /\ ~Auditing /\ ~Auditing'
  BY <1>1, <1>3 DEF Live, Auditing
<1>5. LevelledAs(b, a, t, stop, tp)
  BY <1>2, LevelledType
<1>6. PICK h \in Holding : h = a.holdings[t]
  BY DEF Account
<1>7. WithLevels(h, stop, tp).consensus = h.consensus
  BY DEF WithLevels, Holding
<1>10. h \in Holding => /\ WithLevels(h, stop, tp).units = h.units
                        /\ WithLevels(h, stop, tp).position = h.position
  BY LevelsType
<1>8. ASSUME NEW s \in Ticker
      PROVE  /\ b.holdings[s].units = a.holdings[s].units
             /\ b.holdings[s].position = a.holdings[s].position
             /\ b.holdings[s].consensus = a.holdings[s].consensus
  <2>1. CASE s = t
    BY <1>5, <1>6, <1>7, <1>10, <2>1 DEF LevelledAs
  <2>2. CASE s # t
    BY <1>5, <2>2 DEF LevelledAs
  <2>3. QED
    BY <2>1, <2>2
<1>9. QED
  BY <1>3, <1>4, <1>8, ClosesStutter

LEMMA ClosesNext ==
  ASSUME Alone, TypeOK, TypeOK', NothingIsLost, ClosesInv, [Next]_vars
  PROVE  ClosesInv'
<1>1. ASSUME UNCHANGED <<trades, audits>>, Auditing' <=> Auditing,
             Auditing => closing' = closing, Live' = Live
      PROVE  ClosesInv'
  <2>1. PICK a : a = Live
    OBVIOUS
  <2>2. QED
    BY <1>1, <2>1, ClosesStutter
<1>2. CASE Orders
  BY <1>2, OrderFacts, BuyCloses, SellCloses
<1>3. CASE Load
  BY <1>1, <1>3 DEF Load, Live, Auditing, fileVars
<1>4. CASE AuditLessons
  BY <1>1, <1>4 DEF AuditLessons, Live, Auditing
<1>5. CASE AuditLog
  BY <1>5, LogCloses
<1>6. CASE OrdersDone
  BY <1>1, <1>6 DEF OrdersDone, Live, Auditing, fileVars
<1>7. CASE Save
  BY <1>1, <1>7 DEF Save, Stop, Live, Auditing
<1>8. CASE \E t \in Ticker, stop, tp \in BOOLEAN : StopUpdate(t, stop, tp)
  BY <1>8, StopUpdateCloses
<1>9. CASE UNCHANGED vars
  BY <1>1, <1>9 DEF vars, fileVars, execVars, Live, Auditing
<1>10. QED
  BY <1>2, <1>3, <1>4, <1>5, <1>6, <1>7, <1>8, <1>9, AloneFacts DEF Next, Execute

LEMMA ClosesInit ==
  ASSUME Init
  PROVE  ClosesInv
<1>1. Live.holdings = [t \in Ticker |-> NoHolding] /\ NoHolding.units = 0
  BY DEF Init, Live, Opened, NoHolding
<1>2. ~Auditing /\ DOMAIN audits = {} /\ DOMAIN trades = {}
  BY DEF Init, Auditing
<1>3. QED
  BY <1>1, <1>2 DEF ClosesInv, AuditedOnce

(* The rows of the audit log for a token and its closes in the journal are  *)
(* as many: to a row belongs the close it is of.                            *)
LEMMA AuditedAsClosed ==
  ASSUME TypeOK, AuditsAreCloses, ClosesInv, ~Auditing, NEW t \in Ticker
  PROVE  Cardinality(Audited(t)) = Cardinality(Closures(t))
<1> DEFINE f == [i \in Audited(t) |-> audits[i].trade]
<1>1. IsFiniteSet(Audited(t))
  <2>1. DOMAIN audits = 1 .. Len(audits) /\ Len(audits) \in Nat
    BY DEF TypeOK
  <2>2. IsFiniteSet(DOMAIN audits)
    BY <2>1, FS_Interval
  <2>3. Audited(t) \subseteq DOMAIN audits
    BY DEF Audited
  <2>4. QED
    BY <2>2, <2>3, FS_Subset
<1>2. ASSUME NEW i \in Audited(t) PROVE audits[i].trade \in Closures(t)
  BY DEF Audited, Closures, Sales, AuditsAreCloses, ClosesInv, AuditOfSale
<1>3. \A i, j \in Audited(t) : f[i] = f[j] => i = j
  BY DEF Audited, AuditsAreCloses
<1>4. ASSUME NEW c \in Closures(t) PROVE \E i \in Audited(t) : f[i] = c
  <2>1. c \in DOMAIN trades /\ trades[c].flat /\ trades[c].ticker = t
    BY DEF Closures, Sales
  <2>2. PICK i \in DOMAIN audits : audits[i].trade = c
    BY <2>1 DEF ClosesInv
  <2>3. audits[i].ticker = t
    BY <2>1, <2>2 DEF ClosesInv, AuditOfSale
  <2>4. QED
    BY <2>2, <2>3 DEF Audited
<1>5. f \in Bijection(Audited(t), Closures(t))
  <2>1. f \in [Audited(t) -> Closures(t)]
    BY <1>2
  <2>2. QED
    BY <1>3, <1>4, <2>1 DEF Bijection, Injection, Surjection, IsInjective
<1>6. ExistsBijection(Audited(t), Closures(t))
  BY <1>5 DEF ExistsBijection
<1>7. QED
  BY <1>1, <1>6, FS_Bijection

(* audit_close (runner.py:194-217): the orders alone and without faults,    *)
(* whatever the prices, every close has one audit, with a consensus of the  *)
(* position it closed, and no audit of the position follows unless the sale *)
(* left more of it than dust.                                               *)
THEOREM FundClosesAreAudited == ASSUME Alone PROVE Spec => []ClosesAreAudited
<1>1. Init => NothingIsLost /\ ClosesInv
  BY LostInit, ClosesInit
<1>2. FundInv /\ FundInv' /\ NothingIsLost /\ ClosesInv /\ [Next]_vars
        => NothingIsLost' /\ ClosesInv'
  BY LostNext, ClosesNext DEF FundInv
<1>3. FundInv /\ ClosesInv => ClosesAreAudited
  <2> SUFFICES ASSUME FundInv, ClosesInv PROVE ClosesAreAudited
    OBVIOUS
  <2>1. ASSUME pc = "idle", NEW t \in Ticker
        PROVE  Cardinality(Audited(t)) = Cardinality(Closures(t))
    BY <2>1, AuditedAsClosed DEF FundInv, Auditing
  <2>2. \A t \in Ticker : \A i \in Audited(t) : audits[i].consensus >= audits[i].position
    BY DEF ClosesInv, AuditOfSale, Audited
  <2>3. QED
    BY <2>1, <2>2 DEF ClosesAreAudited, ClosesInv
<1>4. QED
  BY <1>1, <1>2, <1>3, FundInvariant, PTL DEF Spec
=============================================================================
