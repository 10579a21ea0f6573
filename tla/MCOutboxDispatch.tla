-------------------------- MODULE MCOutboxDispatch --------------------------
(***************************************************************************)
(* OutboxDispatch instantiated for TLC: c1 is a start-up, c2 a tenant that *)
(* asks for a retry.                                                       *)
(***************************************************************************)
EXTENDS OutboxDispatch, TLC

CONSTANTS k1, k2, c1, c2

TwoRows == {k1, k2}
Both == {c1, c2}
Tenant == {c2}
TwoEvents == {1, 2}
First == {1}

\* Bound: a failing call or a lost run, not both.
OneFault == errors + losses <= 1
=============================================================================
