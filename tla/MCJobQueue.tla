----------------------------- MODULE MCJobQueue -----------------------------
(***************************************************************************)
(* JobQueue instantiated for TLC.                                          *)
(***************************************************************************)
EXTENDS JobQueue, TLC

CONSTANTS j1, j2, r1, r2

OneJob == {j1}
TwoJobs == {j1, j2}
TwoRunners == {r1, r2}

\* Jobs and runners are interchangeable.  Used by the safety run only.
Symmetry == Permutations(TwoJobs) \cup Permutations(TwoRunners)
=============================================================================
