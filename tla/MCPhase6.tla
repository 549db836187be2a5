------------------------------- MODULE MCPhase6 -------------------------------
EXTENDS Phase6Props

CONSTANTS a, b

MCStopBounds == <<8, 12>>
MCPenaltyBounds == 0 :> <<0, 20>> @@ 15 :> <<10, 40>> @@ 40 :> <<30, 75>>
MCPenaltyDefault == 0 :> 0 @@ 15 :> 25 @@ 40 :> 50

Q(feed, price, decision, score) ==
  [feed |-> feed, price |-> price, decision |-> decision, consensus |-> score, optimism |-> score]
Only(q) == [s \in Symbol |-> q]

Still == Only(Q(100, 100, "reject", 0))
Wrong == {[s \in Symbol |-> Q((f * p) \div 1000, p, "reject", 35)] :
            f \in {0, 1, 400, 1000, 500000}, p \in {1000, 1200}}
Decided(d) == [s \in Symbol |-> Q(120, 120, d, 30)]
Fallen(d) == [s \in Symbol |-> Q(100, 100, d, 30)]
Apart == [s \in Symbol |-> IF s = a THEN Q(120, 120, "reject", 0) ELSE Q(100, 100, "reject", 0)]

NoAnswers == {[new |-> << >>, about |-> << >>]}
Proposed(id) == <<[id |-> id, support |-> 3]>>
Said(kind, support, suggestion) == [kind |-> kind, support |-> support, suggestion |-> suggestion]
Judgements ==
  {[new |-> Proposed(Unnamed), about |-> << >>],
   [new |-> Proposed(<<1, 0>>), about |-> <<Said("confirming", 3, "none")>>]} \cup
  {[new |-> << >>, about |-> js] :
     js \in {<<Said("disconfirming", NoCount, "none"), Said("disconfirming", NoCount, "none")>>,
             <<Said("confirming", 3, "none")>>, <<Said("confirming", NoCount, "candidate")>>,
             <<Said("confirming", 4, "validated")>>}}

Quiet == [universe |-> {a}, answers |-> {}, given |-> {NoTick}, outcomes |-> {}, closes |-> 0, runs |-> 0]
Quoted(qs, n) == [quotes |-> qs, ticks |-> n] @@ Quiet

MCWorld == [
  (* wrong pools, near and far, and failed fetches, from the first quote on *)
  feed |-> Quoted(<<Wrong, Wrong, Wrong, {Only(Q(1000, 1000, "reject", 0)), Only(Q(1200, 1200, "reject", 0))}>>, 4),
  (* ticks in which nothing moves, the one quote looked at again and again *)
  still |-> Quoted(<<{Still}>>, 8),
  (* entries, exits, trims and holds, carried out or refused *)
  trading |-> Quoted([i \in 1 .. 4 |->
                IF i % 2 = 1 THEN {Decided("reject"), Decided("buy"), Decided("sell")}
                ELSE {Fallen("reject"), Fallen("approve"), Fallen("hold"), Fallen("trim")}], 4),
  (* two symbols, recorded one after the other *)
  two |-> [Quoted(<<{Apart}, {Only(Q(100, 100, "reject", 0))}, {Apart}>>, 3)
             EXCEPT !.universe = {a, b}, !.answers = NoAnswers, !.runs = 2],
  (* the Reflector judges its rules *)
  judging |-> [Quoted(<<{Still}, {Only(Q(120, 120, "reject", 0))}>>, 4)
                 EXCEPT !.answers = Judgements, !.runs = 3],
  (* one answer, filed by whoever comes *)
  filing |-> [Quoted(<<{Still}>>, 4)
                EXCEPT !.answers = {[new |-> Proposed(Unnamed), about |-> << >>]},
                       !.given = {NoTick, 2}, !.runs = 4],
  (* closes *)
  closing |-> [Quoted(<<{Still}>>, 1) EXCEPT !.answers = NoAnswers, !.closes = 4,
     !.outcomes = {[stopped |-> TRUE, pct |-> -8, spread |-> 40, volatile |-> TRUE],
                   [stopped |-> TRUE, pct |-> 3, spread |-> 39, volatile |-> TRUE],
                   [stopped |-> FALSE, pct |-> 12, spread |-> 5, volatile |-> TRUE],
                   [stopped |-> FALSE, pct |-> -1, spread |-> 70, volatile |-> FALSE]}]]

ASSUME WorldsAreAsExpected == UniverseIsNeverEmpty
==============================================================================
