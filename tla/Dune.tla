-------------------------------- MODULE Dune --------------------------------
(***************************************************************************)
(* What Dune answers to the queries of the bootstrap, at a time.           *)
(*                                                                         *)
(* Time is in half-days; that of a trade, a balance and a revoke counts    *)
(* from the graduation of the token: trades before it were on the curve.   *)
(***************************************************************************)
EXTENDS Integers, FiniteSets

CONSTANTS
  Token,
  T0,       \* when each graduated
  Creator,
  Trades,   \* <<time, quote reserve>> of each trade of a token
  Holdings, \* <<owner, from, until>>: when an owner's balance of a token is positive
  Minted,   \* the tokens whose creation Dune has decoded
  Revokes   \* when the mint authority of a token was given up

ASSUME DuneAssumption ==
  /\ IsFiniteSet(Token)
  /\ T0 \in [Token -> Nat]
  /\ \A t, u \in Token : T0[t] = T0[u] => t = u
  /\ \A t \in Token : IsFiniteSet(Trades[t]) /\ Trades[t] \subseteq Int \X Nat
  /\ \A t \in Token : \A x, y \in Trades[t] : x[1] = y[1] => x = y
  /\ \A t \in Token : IsFiniteSet(Holdings[t])
  /\ \A t \in Token : \A h \in Holdings[t] : h[2] \in Int /\ h[3] \in Int
  /\ Minted \subseteq Token
  /\ \A t \in Token : Revokes[t] \subseteq Int

Seen(t, from, to, when) ==
  {x \in Trades[t] : from <= x[1] /\ x[1] <= to /\ T0[t] + x[1] <= when}

(* The latest trade of a window, of each token that has one.                *)
LastQuotes(S, from, to, when) ==
  UNION {{<<t, x[2]>> : x \in {y \in Seen(t, from, to, when) :
                                 \A z \in Seen(t, from, to, when) : z[1] <= y[1]}} : t \in S}

(* Mutant: a token is settled when its outcome window opens.                *)
SettleCutoffEarly(when) == 2 * ((when - 24) \div 2)

(* The cutoff is a date: whole days only.                                   *)
SettleCutoff(when) == 2 * ((when - 32) \div 2)

Graduations(when) == {<<t, T0[t]>> : t \in {u \in Token : T0[u] < SettleCutoff(when)}}

Outcomes(S, when) == LastQuotes(S, 24, 32, when)
Liquidity(S, when) == LastQuotes(S, 0, 1, when)
Snapshots(S, day, when) == LastQuotes(S, 2 * day, 2 * day + 2, when)

(* The slot of the last trade on the curve.                                 *)
BondingCurve(S) ==
  UNION {{<<t, T0[t] + x[1]>> : x \in {y \in Trades[t] : /\ y[1] < 0
                                                        /\ \A z \in Trades[t] :
                                                             z[1] < 0 => z[1] <= y[1]}} : t \in S}

(* Whether there still is a mint authority, as of the query: no bound is    *)
(* put on the time of the revoke.                                           *)
IsRevoked(t, when) == \E r \in Revokes[t] : T0[t] + r <= when
Flag(t, when) == IF IsRevoked(t, when) THEN 0 ELSE 1
ContractFlags(S, when) == {<<t, Flag(t, when)>> : t \in S \cap Minted}

PriorLaunches(t) == Cardinality({u \in Token : Creator[u] = Creator[t] /\ T0[u] < T0[t]})
Deployers(S) == {<<t, PriorLaunches(t)>> : t \in S}

(* The owners with a balance at a time; one row per token that has any.     *)
Held(t, at) ==
  Cardinality({h[1] : h \in {g \in Holdings[t] : /\ T0[t] + g[2] <= at
                                                /\ at < T0[t] + g[3]}})
Holders(S, at) == {<<t, Held(t, at)>> : t \in {u \in S : Held(u, at) > 0}}
=============================================================================
