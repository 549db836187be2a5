-------------------------------- MODULE Costs --------------------------------
(***************************************************************************)
(* What a swap against a pool fetches: a fee is taken off what goes in and *)
(* the rest moves along x * y = k.  Amounts are whole units, and what comes *)
(* out is rounded down.                                                    *)
(***************************************************************************)
EXTENDS Integers

CONSTANT FeePct   \* dex_fee_rate, in percent

ASSUME FeeAssumption == FeePct \in 0 .. 99

(* What comes out of the side of depth `out` for x on the side of depth     *)
(* `into`; nothing comes out of an empty pool.                              *)
Swapped(x, into, out) ==
  IF x <= 0 \/ into <= 0 \/ out <= 0 THEN 0
  ELSE (out * x * (100 - FeePct)) \div (100 * into + x * (100 - FeePct))

EntryFill(sol, base, quote) == Swapped(sol, quote, base)
ExitFill(tokens, base, quote) == Swapped(tokens, base, quote)
=============================================================================
