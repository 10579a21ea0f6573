--------------------------- MODULE MCGatewayQuota ---------------------------
(***************************************************************************)
(* GatewayQuota instantiated for TLC.                                      *)
(***************************************************************************)
EXTENDS GatewayQuota, TLC

CONSTANTS h1, h2, q1, q2

TwoHandlers == {h1, h2}
TwoRequests == {q1, q2}

QuotaSymmetry == Permutations(TwoHandlers) \cup Permutations(TwoRequests)
=============================================================================
