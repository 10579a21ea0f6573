----------------------- MODULE MCKnowledgeCompilation -----------------------
(***************************************************************************)
(* KnowledgeCompilation instantiated for TLC.                              *)
(***************************************************************************)
EXTENDS KnowledgeCompilation, TLC

CONSTANTS Operator, Withdrawal

\* Bound: beside the first run, the scan and a fault, one of three things
\* happens: an operator's pass, an operator's cancel, or, without a fault, a
\* second run that replaces the first.
OneMoreActor ==
    LET pass == \E w \in Calls : worker[w].pc # "off"
        withdrawal == \E c \in Cancels : cancel[c].pc # "todo"
        more == {r \in Runs \ {1} : trigger[r].pc # "todo"}
    IN  /\ pass => ~withdrawal /\ more = {}
        /\ withdrawal => more = {}
        /\ \A r \in more : trigger[r].of # NoRun /\ faults = 0
=============================================================================
