--------------------------- MODULE MCRecurringJob ---------------------------
(***************************************************************************)
(* RecurringJob instantiated for TLC.                                      *)
(***************************************************************************)
EXTENDS RecurringJob, TLC

CONSTANTS k1, k2, k3, c1, c2

ThreeRows == {k1, k2, k3}
TwoCallers == {c1, c2}
=============================================================================
