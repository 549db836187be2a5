---------------------------- MODULE MCWalkforward ----------------------------
EXTENDS WalkforwardProps

MCTrueGraduations == 0 :> 1 @@ 1 :> 2 @@ 2 :> 5 @@ 3 :> 2

G(mint, time, outcome) ==
  [mint |-> mint, time |-> time, base |-> 1000, quote |-> 100, launches |-> 2, curve |-> 40,
   outcome |-> [base |-> outcome[1], quote |-> outcome[2]],
   checked |-> IF outcome = <<0, 0>> THEN time ELSE time + Days * Day]

Abandoned == <<0, 0>>
Rises == <<250, 400>>
Flat == <<1000, 101>>
Drained == <<100, 45>>   \* the price rises while the pool empties
Falls == <<3000, 30>>

Past == <<G("c", 15, Rises), G("a", 3, Falls), G("b", 14, Flat)>>
Dropped == <<[G("spam", 25, Rises) EXCEPT !.launches = 99],
             [G("thin", 26, Rises) EXCEPT !.quote = 10],
             [G("null", 26, Rises) EXCEPT !.quote = NaN]>>

Snap(mint, i, base, quote) == [mint |-> mint, index |-> i, base |-> base, quote |-> quote]

MCWorld == [
  (* three tokens for two slots; one enters as another leaves *)
  slots |->
    {[graduations |-> <<[G("z", tz, oz) EXCEPT !.curve = NaN]>> \o Past
                        \o <<G("y", 24, oy), [G("x", 24, ox) EXCEPT !.launches = 0]>> \o Dropped,
      snapshots |-> snaps] :
       ox \in {Abandoned, Flat, Falls}, oy \in {Abandoned, Rises, Drained},
       oz \in {Abandoned, Rises}, tz \in {24, 27, 30},
       snaps \in {{},
                  {Snap("y", 1, 2000, 50), Snap("y", 2, 2500, 40), Snap("x", 2, 2500, 49)},
                  {Snap("y", 1, 2000, 45), Snap("y", 2, 3000, 30), Snap("z", 1, 500, 200)}}},
  (* two months that are tested *)
  folds |->
    {[graduations |-> Past \o <<G("y", 24, oy), G("x", 25, ox), G("w", 36, ow), G("v", 37, ov)>>,
      snapshots |-> snaps] :
       ox \in {Rises, Falls}, oy \in {Abandoned, Rises},
       ow \in {Abandoned, Rises}, ov \in {Rises, Falls},
       snaps \in {{}, {Snap("v", 1, 1200, 49), Snap("v", 2, 2000, 45), Snap("x", 1, 1200, 49)}}},
  (* a month with too few rows, and too few months *)
  thin |->
    {[graduations |-> Past \o <<G("y", 24, Rises), G("w", 36, Rises), G("v", 37, Rises)>>,
      snapshots |-> {}],
     [graduations |-> Past, snapshots |-> {}]}]
=============================================================================
