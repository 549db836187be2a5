------------------------------- MODULE MCFund -------------------------------
(***************************************************************************)
(* The fund on small instances.  A ten-dollar buy costs two dollars in the *)
(* deep pool and three in the shallow one.                                 *)
(***************************************************************************)
EXTENDS FundProps, TLC

TickerSymmetry == Permutations(Ticker)
=============================================================================
