------------------------------- MODULE Backtest -------------------------------
(***************************************************************************)
(* One backtest: a bankroll in equal slots walks the entries and exits of  *)
(* the tokens of a basket in the order of their times.                     *)
(*                                                                         *)
(* The code sorts a list of events that was filled from a Python set, so   *)
(* that events of one time and kind come in any order: the next event is   *)
(* any of the first.                                                       *)
(***************************************************************************)
EXTENDS Graduations, Costs, Functions

CONSTANTS
  SlotCount,    \* slot_count
  Bankroll,     \* initial_bankroll
  EntryOffset,  \* ENTRY_OFFSET_SECS
  StopPct       \* stop_loss_threshold, in percent

ASSUME BacktestAssumption ==
  SlotCount \in Nat \ {0} /\ Bankroll \in Nat /\ EntryOffset \in 0 .. Day - 1 /\ StopPct \in Nat

VARIABLES
  rows,       \* the frame the backtest reads
  stop,       \* whether stop_loss_threshold is given
  pending,    \* events still to come
  bankroll,   \* SOL that is idle
  free,       \* slots that are free
  open,       \* open positions, by mint
  positions,  \* completed round trips
  curve       \* the equity curve

backtestVars == <<rows, stop, pending, bankroll, free, open, positions, curve>>

HasEntryLiquidity(r) == r.base > 0 /\ r.quote > 0

EntryTime(r) == r.time + EntryOffset

(* The first day that closes with less SOL in the pool than the stop, where *)
(* the pool is known on that day.                                           *)
Stops(r) ==
  {i \in 1 .. Days : /\ r.snaps[i].base # NaN /\ r.snaps[i].quote # NaN
                     /\ 100 * r.snaps[i].quote < StopPct * r.quote}

(* Mutant: the worst day instead of the first.                              *)
ExitEventWorst(r, stopped) ==
  IF stopped /\ Stops(r) # {}
  THEN LET i == CHOOSE d \in Stops(r) : \A e \in Stops(r) : d >= e
       IN [time |-> r.time + i * Day, base |-> r.snaps[i].base, quote |-> r.snaps[i].quote]
  ELSE [time |-> r.checked, base |-> r.outcome.base, quote |-> r.outcome.quote]

ExitEvent(r, stopped) ==
  IF stopped /\ Stops(r) # {}
  THEN LET i == Min(Stops(r))
       IN [time |-> r.time + i * Day, base |-> r.snaps[i].base, quote |-> r.snaps[i].quote]
  ELSE [time |-> r.checked, base |-> r.outcome.base, quote |-> r.outcome.quote]

(* Mutant: the exit is left where it is.                                    *)
ExitTimeAsIs(r, stopped) == ExitEvent(r, stopped).time

(* A horizon that is not after the entry is put one second after it.        *)
ExitTime(r, stopped) ==
  IF ExitEvent(r, stopped).time <= EntryTime(r) THEN EntryTime(r) + 1
  ELSE ExitEvent(r, stopped).time

Events(frame, basket, stopped) ==
  LET traded == {r \in Range(frame) : r.mint \in basket /\ HasEntryLiquidity(r)}
  IN {[time |-> EntryTime(r), kind |-> 1, mint |-> r.mint] : r \in traded} \cup
     {[time |-> ExitTime(r, stopped), kind |-> 0, mint |-> r.mint] : r \in traded}

(* Mutant: exits and entries of one time in any order.                      *)
BeforeByTime(e, f) == e.time <= f.time

(* Exits (0) come before the entries (1) of the same time.                  *)
Before(e, f) == e.time < f.time \/ (e.time = f.time /\ e.kind <= f.kind)

First == {e \in pending : \A f \in pending : Before(e, f)}

(* Idle SOL, and what the open positions cost.                              *)
Equity(idle, held) == idle + SumFunction([m \in DOMAIN held |-> held[m].sol])

Idle ==
  /\ rows = << >> /\ stop = FALSE /\ pending = {} /\ bankroll = Bankroll /\ free = SlotCount
  /\ open = << >> /\ positions = << >> /\ curve = << >>

Begin(frame, basket, stopped) ==
  /\ rows' = frame /\ stop' = stopped
  /\ pending' = Events(frame, basket, stopped)
  /\ bankroll' = Bankroll /\ free' = SlotCount
  /\ open' = [m \in {} |-> 0] /\ positions' = << >> /\ curve' = <<Bankroll>>

Slice == IF free = 0 THEN 0 ELSE bankroll \div free

Bought(e) ==
  LET r == Row(rows, e.mint)
      position == [time |-> e.time, sol |-> Slice, tokens |-> EntryFill(Slice, r.base, r.quote)]
  IN [m \in DOMAIN open \cup {e.mint} |-> IF m = e.mint THEN position ELSE open[m]]

Enter(e) ==
  /\ e \in First /\ e.kind = 1 /\ Slice > 0
  /\ open' = Bought(e)
  /\ bankroll' = bankroll - Slice /\ free' = free - 1
  /\ curve' = Append(curve, Equity(bankroll', open'))
  /\ pending' = pending \ {e}
  /\ UNCHANGED <<rows, stop, positions>>

(* No slot is free, or nothing is left to put into it.                      *)
Skip(e) ==
  /\ e \in First /\ e.kind = 1 /\ Slice = 0
  /\ pending' = pending \ {e}
  /\ UNCHANGED <<rows, stop, bankroll, free, open, positions, curve>>

Proceeds(mint) ==
  LET x == ExitEvent(Row(rows, mint), stop) IN ExitFill(open[mint].tokens, x.base, x.quote)

Close(e) ==
  /\ e \in First /\ e.kind = 0 /\ e.mint \in DOMAIN open
  /\ bankroll' = bankroll + Proceeds(e.mint) /\ free' = free + 1
  /\ open' = [m \in DOMAIN open \ {e.mint} |-> open[m]]
  /\ positions' = Append(positions, [mint |-> e.mint, entry |-> open[e.mint].time, exit |-> e.time,
                                     in |-> open[e.mint].sol, out |-> Proceeds(e.mint)])
  /\ curve' = Append(curve, Equity(bankroll', open'))
  /\ pending' = pending \ {e}
  /\ UNCHANGED <<rows, stop>>

(* The token never entered.                                                 *)
Miss(e) ==
  /\ e \in First /\ e.kind = 0 /\ e.mint \notin DOMAIN open
  /\ pending' = pending \ {e}
  /\ UNCHANGED <<rows, stop, bankroll, free, open, positions, curve>>
=============================================================================
