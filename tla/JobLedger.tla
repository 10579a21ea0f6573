------------------------------ MODULE JobLedger ------------------------------
(***************************************************************************)
(* What the job queue promises its producers and workers: a ledger of      *)
(* jobs, each executed by at most one goroutine at a time.  An execution   *)
(* ends by writing its outcome and one more attempt, or is lost with its   *)
(* process or with its outcome write, and only a lost execution's row is   *)
(* taken back.  JobQueue implements this as long as no lease expires under *)
(* a live execution.                                                       *)
(***************************************************************************)
EXTENDS Integers

CONSTANTS Jobs, MaxRetry

VARIABLES status,    \* the row's status
          attempts,  \* the row's attempts
          busy       \* the jobs some goroutine holds

ledger == <<status, attempts, busy>>

With(js, s) == [j \in Jobs |-> IF j \in js THEN s ELSE status[j]]
All(s) == {j \in Jobs : status[j] = s}

LedgerInit ==
    /\ status = [j \in Jobs |-> "absent"]
    /\ attempts = [j \in Jobs |-> 0]
    /\ busy = {}

Enqueue(j) ==
    /\ status[j] = "absent"
    /\ status' = [status EXCEPT ![j] = "queued"]
    /\ UNCHANGED <<attempts, busy>>

Cancel(js) ==
    /\ js \subseteq All("queued")
    /\ status' = With(js, "canceled")
    /\ UNCHANGED <<attempts, busy>>

Reset(j) ==
    /\ status[j] = "failed"
    /\ status' = [status EXCEPT ![j] = "queued"]
    /\ attempts' = [attempts EXCEPT ![j] = 0]
    /\ UNCHANGED busy

Purge(j) ==
    /\ status[j] \in {"succeeded", "failed", "canceled"}
    /\ j \notin busy
    /\ status' = [status EXCEPT ![j] = "absent"]
    /\ attempts' = [attempts EXCEPT ![j] = 0]
    /\ UNCHANGED busy

Claim(js) ==
    /\ js \subseteq All("queued")
    /\ js \cap busy = {}
    /\ status' = With(js, "running")
    /\ busy' = busy \cup js
    /\ UNCHANGED attempts

Finish(j) ==
    /\ j \in busy
    /\ status[j] = "running"
    /\ attempts' = [attempts EXCEPT ![j] = @ + 1]
    /\ \E s \in {"succeeded", "failed", "queued"} :
          /\ s = "queued" => attempts[j] + 1 < MaxRetry
          /\ status' = [status EXCEPT ![j] = s]
    /\ busy' = busy \ {j}

Lose(js) ==
    /\ js \subseteq busy
    /\ busy' = busy \ js
    /\ UNCHANGED <<status, attempts>>

TakeBack(js) ==
    /\ js \subseteq All("running") \ busy
    /\ status' = With(js, "queued")
    /\ UNCHANGED <<attempts, busy>>

LedgerNext ==
    \/ \E j \in Jobs : Enqueue(j) \/ Reset(j) \/ Purge(j) \/ Finish(j)
    \/ \E js \in SUBSET Jobs : Cancel(js) \/ Claim(js) \/ Lose(js) \/ TakeBack(js)

LedgerSpec == LedgerInit /\ [][LedgerNext]_ledger
=============================================================================
