-------------------------- MODULE MCMemoryDispatch --------------------------
(***************************************************************************)
(* MemoryDispatch instantiated for TLC.                                    *)
(***************************************************************************)
EXTENDS MemoryDispatch, TLC

CONSTANTS o1, d1, d2, k1, k2, c1, c2

\* Bound: a session that outgrows its scans is not combined with a fault.
OutgrowsCalmly == readable \/ faults = 0
=============================================================================
