--------------------------- MODULE MCPredictions ---------------------------
EXTENDS PredictionProps, TLC

CONSTANTS a, b, p1, p2, w1, m1, m2, m3, t1

MCOwner == p1 :> a @@ p2 :> b @@ w1 :> a
MCKind == p1 :> "standard" @@ p2 :> "curve_stage"
MCReading == {<<1, 1>>, <<2, 1>>}

(* Every mint bought, or a mixture, or what a run that failed leaves.       *)
MCOutput ==
  {[m \in Mint |-> "BUY HIGH"],
   m1 :> "BUY MEDIUM" @@ m2 :> "WATCH" @@ m3 :> "SKIP"}
============================================================================
