------------------------ MODULE MCApprovalExecution ------------------------
(***************************************************************************)
(* ApprovalExecution instantiated for TLC.                                 *)
(***************************************************************************)
EXTENDS ApprovalExecution, TLC

CONSTANTS w1, w2, c1, c2

TwoWorkers == {w1, w2}
OneCaller == {c1}

WorkerSymmetry == Permutations(Workers)

\* Bound: of a crash, an expired lease, a fault and an expired context, two
\* happen, beside a retry.
TwoTroubles == crashes + stalls + faults + expiries <= 2
=============================================================================
