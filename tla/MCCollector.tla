---------------------------- MODULE MCCollector ----------------------------
(***************************************************************************)
(* The collector on small instances: two processes and one token, and one  *)
(* process with two tokens, a longer time and a scan out of date.          *)
(***************************************************************************)
EXTENDS CollectorProps, TLC

(* Tokens are interchangeable: used by the run that checks only invariants. *)
TokenSymmetry == Permutations(Mint)
=============================================================================
