------------------------------- MODULE MCEtl -------------------------------
EXTENDS EtlProps

CONSTANTS x, y, z, u, alice, bob

MCT0 == x :> 10 @@ y :> 12 @@ z :> 70 @@ u :> 78
MCMonth == x :> 1 @@ y :> 1 @@ z :> 2 @@ u :> 2
MCCreator == x :> alice @@ y :> bob @@ z :> bob @@ u :> alice
MCMintRank == x :> 1 @@ y :> 4 @@ z :> 2 @@ u :> 3
MCPoolRank == x :> 1 @@ y :> 2 @@ z :> 3 @@ u :> 4
MCHashRank == x :> 2 @@ y :> 3 @@ z :> 4 @@ u :> 1

(* Tokens that live on, die in their outcome window, have no first day, and *)
(* whose outcome is decided late.                                           *)
MCTrades ==
  x :> {<<-1, 1>>, <<0, 9>>, <<2, 8>>, <<5, 6>>, <<25, 7>>, <<33, 1>>} @@
  y :> {<<-3, 1>>, <<-1, 2>>, <<1, 4>>, <<3, 3>>, <<24, 9>>, <<31, 2>>} @@
  z :> {<<-1, 1>>, <<3, 6>>, <<30, 6>>} @@
  u :> {<<-2, 1>>, <<0, 5>>, <<4, 4>>, <<24, 9>>, <<30, 1>>}

(* Owners that come and go, before and after the twelfth hour of the token  *)
(* and of the older ones that share its batch.                              *)
MCHoldings ==
  x :> {<<alice, -1, 3>>, <<bob, 0, 9>>, <<alice, 20, 99>>} @@
  y :> {<<bob, -2, 1>>, <<alice, 2, 5>>} @@
  z :> {<<alice, -70, 60>>} @@
  u :> {<<bob, -70, -60>>, <<alice, -1, 99>>}

(* Given up at creation, late, after the first query, never.                *)
MCRevokes == x :> {-2} @@ y :> {15} @@ z :> {36} @@ u :> {35, 36}

MCBatchSize ==
  "outcome" :> 2 @@ "liquidity" :> 1 @@ "bonding_curve" :> 2 @@ "contract_flags" :> 3
    @@ "deployer" :> 3 @@ "holders" :> 2 @@ "snapshot" :> 2
============================================================================
