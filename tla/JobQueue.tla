------------------------------ MODULE JobQueue ------------------------------
(***************************************************************************)
(* The durable job queue: the rgx_job table (internal/repository/job.go)   *)
(* and the runners that consume it (internal/service/worker.go).  Several  *)
(* processes share one database; each runs one Runner, whose poll loop     *)
(* claims rows, whose goroutines execute and settle them, and whose        *)
(* requeue loop takes back the rows of runners that stopped heartbeating.  *)
(*                                                                         *)
(* A row is one job key.  Clock values are abstracted to the comparisons   *)
(* the code makes with them: due[j] is "run_after <= now" and fresh[j] is  *)
(* "last_heartbeat >= now - HeartbeatTimeout".  Every database statement   *)
(* is one step; the SELECT and the guarded UPDATEs of ClaimJobs are two,   *)
(* because READ COMMITTED lets other transactions commit between them.     *)
(* The row locks taken by the UPDATEs make the UPDATEs and the commit one  *)
(* step.  Payloads, results, metrics and log lines are left out.           *)
(***************************************************************************)
EXTENDS Integers, FiniteSets, FiniteSetsExt

CONSTANTS Jobs,         \* the unique job keys
          Runners,      \* one Runner per process
          MaxRetry,     \* Job.MaxRetry
          BatchSize,    \* WorkerConfig.BatchSize, the limit of ClaimJobs
          MaxCrashes,   \* bound: process crashes
          MaxStalls,    \* bound: leases that expire under a live execution
          MaxDbFaults,  \* bound: database statements that fail
          MaxResets,    \* bound: ResetFailedJobByKey per job
          MaxPurges     \* bound: rows deleted by retention

ASSUME MaxRetryAssumption == MaxRetry \in Nat \ {0}
ASSUME BoundsAssumption ==
    /\ BatchSize \in Nat \ {0}
    /\ {MaxCrashes, MaxStalls, MaxDbFaults, MaxResets, MaxPurges} \subseteq Nat

VARIABLES status,    \* status[j]: the row's status, "absent" before EnqueueJob
          attempts,  \* attempts[j]: the row's attempts column
          due,       \* due[j]: run_after has passed
          fresh,     \* fresh[j]: last_heartbeat is within HeartbeatTimeout
          selected,  \* selected[r]: the ids ClaimJobs' SELECT returned to r
          execs,     \* the claims held in memory by live runners
          up,        \* the runners whose process is running
          claims,    \* history: claims[j], how often j has been claimed
          requeues,  \* history: requeues[j], how often j was taken back
          resets,    \* history: resets[j], how often j was re-armed
          crashes, stalls, dbFaults, purges   \* how often each has happened

vars == <<status, attempts, due, fresh, selected, execs, up,
          claims, requeues, resets, crashes, stalls, dbFaults, purges>>

row    == <<status, attempts, due>>
faults == <<crashes, stalls, dbFaults, purges>>

Status == {"absent", "queued", "running", "succeeded", "failed", "canceled"}
Active == {"queued", "running"}
Settled == {"succeeded", "failed", "canceled"}

\* The in-memory copy of a claimed row: its attempts at the claim, which claim
\* of the row it is, and whether its goroutine has been started.
Exec == [runner : Runners, job : Jobs, claim : Nat, attempts : Nat,
         phase : {"claimed", "running"}]

Queued == {j \in Jobs : status[j] = "queued"}
ExecsOf(j) == {e \in execs : e.job = j}

Init ==
    /\ status = [j \in Jobs |-> "absent"]
    /\ attempts = [j \in Jobs |-> 0]
    /\ due = [j \in Jobs |-> FALSE]
    /\ fresh = [j \in Jobs |-> FALSE]
    /\ selected = [r \in Runners |-> {}]
    /\ execs = {}
    /\ up = Runners
    /\ claims = [j \in Jobs |-> 0]
    /\ requeues = [j \in Jobs |-> 0]
    /\ resets = [j \in Jobs |-> 0]
    /\ crashes = 0 /\ stalls = 0 /\ dbFaults = 0 /\ purges = 0

-----------------------------------------------------------------------------
(***************************************************************************)
(* Producers.  A second EnqueueJob with an existing key inserts nothing.   *)
(***************************************************************************)
EnqueueJob(j) ==
    /\ status[j] = "absent"
    /\ status' = [status EXCEPT ![j] = "queued"]
    /\ \E d \in BOOLEAN : due' = [due EXCEPT ![j] = d]
    /\ UNCHANGED <<attempts, fresh, selected, execs, up, claims, requeues,
                   resets, faults>>

\* The clock reaches run_after.
RunAfterPasses(j) ==
    /\ status[j] = "queued"
    /\ ~due[j]
    /\ due' = [due EXCEPT ![j] = TRUE]
    /\ UNCHANGED <<status, attempts, fresh, selected, execs, up, claims,
                   requeues, resets, faults>>

\* The candidates are read first and updated under "status = queued"; the
\* candidates that match the payload filter are any set of rows.
CancelQueuedJobsWithPayload(js) ==
    /\ js # {}
    /\ js \subseteq Queued
    /\ status' = [j \in Jobs |-> IF j \in js THEN "canceled" ELSE status[j]]
    /\ UNCHANGED <<attempts, due, fresh, selected, execs, up, claims,
                   requeues, resets, faults>>

ResetFailedJobByKey(j) ==
    /\ status[j] = "failed"
    /\ resets[j] < MaxResets
    /\ status' = [status EXCEPT ![j] = "queued"]
    /\ attempts' = [attempts EXCEPT ![j] = 0]
    /\ due' = [due EXCEPT ![j] = TRUE]
    /\ resets' = [resets EXCEPT ![j] = @ + 1]
    /\ UNCHANGED <<fresh, selected, execs, up, claims, requeues, faults>>

\* Retention deletes a settled row, so that its key can be used again.  The
\* TTL is counted in days: no runner still refers to a row that old.
PurgeTerminalJobsBefore(j) ==
    /\ status[j] \in Settled
    /\ ExecsOf(j) = {}
    /\ \A r \in Runners : j \notin selected[r]
    /\ purges < MaxPurges
    /\ purges' = purges + 1
    /\ status' = [status EXCEPT ![j] = "absent"]
    /\ attempts' = [attempts EXCEPT ![j] = 0]
    /\ due' = [due EXCEPT ![j] = FALSE]
    /\ claims' = [claims EXCEPT ![j] = 0]
    /\ requeues' = [requeues EXCEPT ![j] = 0]
    /\ resets' = [resets EXCEPT ![j] = 0]
    /\ UNCHANGED <<fresh, selected, execs, up, crashes, stalls, dbFaults>>

-----------------------------------------------------------------------------
(***************************************************************************)
(* The poll loop.  ClaimJobs selects due ids, then updates each one under  *)
(* "status = queued" and returns the rows it updated.                      *)
(***************************************************************************)
ClaimSelect(r) ==
    LET dueJobs == {j \in Queued : due[j]} IN
    /\ r \in up
    /\ selected[r] = {}
    /\ \A e \in execs : e.runner = r => e.phase # "claimed"
    /\ dueJobs # {}
    /\ \E ids \in SUBSET dueJobs :
          /\ Cardinality(ids) = (IF Cardinality(dueJobs) < BatchSize
                                 THEN Cardinality(dueJobs) ELSE BatchSize)
          /\ selected' = [selected EXCEPT ![r] = ids]
    /\ UNCHANGED <<row, fresh, execs, up, claims, requeues, resets, faults>>

NewExec(r, j) == [runner |-> r, job |-> j, claim |-> claims[j] + 1,
                  attempts |-> attempts[j], phase |-> "claimed"]

\* Seeded fault: the UPDATE of ClaimJobs also takes rows that are running.
ClaimAdmits_NoGuard(j) == status[j] \in Active

\* The row guard of ClaimJobs' UPDATE.
ClaimAdmits(j) == status[j] = "queued"

ClaimUpdate(r) ==
    LET got == {j \in selected[r] : ClaimAdmits(j)} IN
    /\ r \in up
    /\ selected[r] # {}
    /\ status' = [j \in Jobs |-> IF j \in got THEN "running" ELSE status[j]]
    /\ fresh' = [j \in Jobs |-> j \in got \/ fresh[j]]
    /\ claims' = [j \in Jobs |-> IF j \in got THEN claims[j] + 1 ELSE claims[j]]
    /\ execs' = execs \cup {NewExec(r, j) : j \in got}
    /\ selected' = [selected EXCEPT ![r] = {}]
    /\ UNCHANGED <<attempts, due, up, requeues, resets, faults>>

\* The transaction fails; pollOnce logs it and waits for the next tick.
ClaimAborts(r) ==
    /\ r \in up
    /\ selected[r] # {}
    /\ dbFaults < MaxDbFaults
    /\ selected' = [selected EXCEPT ![r] = {}]
    /\ dbFaults' = dbFaults + 1
    /\ UNCHANGED <<row, fresh, execs, up, claims, requeues, resets,
                   crashes, stalls, purges>>

-----------------------------------------------------------------------------
\* Seeded fault: outcome writes are guarded by the id only.
OutcomeAdmits_IdOnly(j) == TRUE

(***************************************************************************)
(* Writes of a claim's outcome.  Each is guarded by id and by the status   *)
(* "running"; nothing ties it to the claim that the writer holds.          *)
(***************************************************************************)
OutcomeAdmits(j) == status[j] = "running"

WriteOutcome(j, newStatus, newAttempts, newDue) ==
    IF OutcomeAdmits(j)
    THEN /\ status' = [status EXCEPT ![j] = newStatus]
         /\ attempts' = [attempts EXCEPT ![j] = newAttempts]
         /\ due' = [due EXCEPT ![j] = newDue]
    ELSE UNCHANGED row

\* Seeded fault: RetryJob leaves the attempts column alone.
RetryJob_SameAttempts(j, n) == WriteOutcome(j, "queued", attempts[j], FALSE)

CompleteJob(j, n) == WriteOutcome(j, "succeeded", n, due[j])
RetryJob(j, n)    == WriteOutcome(j, "queued", n, FALSE)
FailJob(j, n)     == WriteOutcome(j, "failed", n, due[j])

\* pollOnce finds the tenant active and a worker for the kind: the goroutine
\* and its heartbeat loop start.
Dispatch(e) ==
    /\ e \in execs
    /\ e.phase = "claimed"
    /\ execs' = (execs \ {e}) \cup {[e EXCEPT !.phase = "running"]}
    /\ UNCHANGED <<row, fresh, selected, up, claims, requeues, resets, faults>>

\* The tenant is disabled, missing or cannot be read, or no worker is
\* registered for the kind: the job fails whatever retries it has left.
DispatchRefused(e) ==
    /\ e \in execs
    /\ e.phase = "claimed"
    /\ FailJob(e.job, e.attempts + 1)
    /\ execs' = execs \ {e}
    /\ UNCHANGED <<fresh, selected, up, claims, requeues, resets, faults>>

\* settle: the worker's Run returned, with or without an error.
SettleSuccess(e) ==
    /\ e \in execs
    /\ e.phase = "running"
    /\ CompleteJob(e.job, e.attempts + 1)
    /\ execs' = execs \ {e}
    /\ UNCHANGED <<fresh, selected, up, claims, requeues, resets, faults>>

\* Seeded fault: off by one in the retry limit.
RetriesLeft_OffByOne(n) == n <= MaxRetry

RetriesLeft(n) == n < MaxRetry

SettleError(e) ==
    /\ e \in execs
    /\ e.phase = "running"
    /\ IF RetriesLeft(e.attempts + 1)
       THEN RetryJob(e.job, e.attempts + 1)
       ELSE FailJob(e.job, e.attempts + 1)
    /\ execs' = execs \ {e}
    /\ UNCHANGED <<fresh, selected, up, claims, requeues, resets, faults>>

\* The outcome write fails; it is logged and the goroutine ends all the same.
OutcomeLost(e) ==
    /\ e \in execs
    /\ dbFaults < MaxDbFaults
    /\ execs' = execs \ {e}
    /\ dbFaults' = dbFaults + 1
    /\ UNCHANGED <<row, fresh, selected, up, claims, requeues, resets,
                   crashes, stalls, purges>>

-----------------------------------------------------------------------------
(***************************************************************************)
(* The lease.                                                              *)
(***************************************************************************)
HeartbeatJob(e) ==
    /\ e \in execs
    /\ e.phase = "running"
    /\ status[e.job] = "running"
    /\ ~fresh[e.job]
    /\ fresh' = [fresh EXCEPT ![e.job] = TRUE]
    /\ UNCHANGED <<row, selected, execs, up, claims, requeues, resets, faults>>

\* HeartbeatTimeout passes.  With a live execution of the job it takes a
\* stalled process or failing heartbeat writes, which are only logged.
LeaseExpires(j) ==
    /\ status[j] = "running"
    /\ fresh[j]
    /\ fresh' = [fresh EXCEPT ![j] = FALSE]
    /\ IF ExecsOf(j) = {}
       THEN UNCHANGED stalls
       ELSE stalls < MaxStalls /\ stalls' = stalls + 1
    /\ UNCHANGED <<row, selected, execs, up, claims, requeues, resets,
                   crashes, dbFaults, purges>>

\* Seeded fault: the heartbeat comparison is reversed.
Stale_Reversed == {j \in Jobs : status[j] = "running" /\ fresh[j]}

\* The rows RequeueStaleJobs takes back.
Stale == {j \in Jobs : status[j] = "running" /\ ~fresh[j]}

RequeueStaleJobs(r) ==
    /\ r \in up
    /\ Stale # {}
    /\ status' = [j \in Jobs |-> IF j \in Stale THEN "queued" ELSE status[j]]
    /\ due' = [j \in Jobs |-> j \in Stale \/ due[j]]
    /\ requeues' = [j \in Jobs |-> IF j \in Stale THEN requeues[j] + 1
                                                  ELSE requeues[j]]
    /\ UNCHANGED <<attempts, fresh, selected, execs, up, claims, resets, faults>>

-----------------------------------------------------------------------------
(***************************************************************************)
(* A process dies with everything it holds in memory, and starts again.    *)
(***************************************************************************)
Crash(r) ==
    /\ r \in up
    /\ crashes < MaxCrashes
    /\ up' = up \ {r}
    /\ selected' = [selected EXCEPT ![r] = {}]
    /\ execs' = {e \in execs : e.runner # r}
    /\ crashes' = crashes + 1
    /\ UNCHANGED <<row, fresh, claims, requeues, resets, stalls, dbFaults, purges>>

Start(r) ==
    /\ r \notin up
    /\ up' = up \cup {r}
    /\ UNCHANGED <<row, fresh, selected, execs, claims, requeues, resets, faults>>

-----------------------------------------------------------------------------
Next ==
    \/ \E j \in Jobs : \/ EnqueueJob(j)
                       \/ RunAfterPasses(j)
                       \/ ResetFailedJobByKey(j)
                       \/ PurgeTerminalJobsBefore(j)
                       \/ LeaseExpires(j)
    \/ \E js \in SUBSET Jobs : CancelQueuedJobsWithPayload(js)
    \/ \E r \in Runners : \/ ClaimSelect(r)
                          \/ ClaimUpdate(r)
                          \/ ClaimAborts(r)
                          \/ RequeueStaleJobs(r)
                          \/ Crash(r)
                          \/ Start(r)
    \/ \E e \in execs : \/ Dispatch(e)
                        \/ DispatchRefused(e)
                        \/ SettleSuccess(e)
                        \/ SettleError(e)
                        \/ OutcomeLost(e)
                        \/ HeartbeatJob(e)

Spec == Init /\ [][Next]_vars

\* pollOnce's loop reaches every claimed row, and a goroutine's Run returns,
\* at the latest when its JobTimeout context ends.
Dispatches(r) == \E e \in execs : e.runner = r /\ (Dispatch(e) \/ DispatchRefused(e))
Settles(r, j) == \E e \in ExecsOf(j) : e.runner = r /\ (SettleSuccess(e) \/ SettleError(e))

(***************************************************************************)
(* Fairness.  The tickers of pollLoop and requeueLoop keep firing, clocks  *)
(* advance, Run returns within JobTimeout and a supervisor restarts the    *)
(* process.  Nothing forces a producer, a canceller or an operator to act. *)
(***************************************************************************)
Fairness ==
    /\ \A j \in Jobs : /\ WF_vars(RunAfterPasses(j))
                       /\ WF_vars(ExecsOf(j) = {} /\ LeaseExpires(j))
    /\ \A r \in Runners : /\ WF_vars(ClaimSelect(r))
                          /\ WF_vars(ClaimUpdate(r))
                          /\ WF_vars(RequeueStaleJobs(r))
                          /\ WF_vars(Start(r))
                          /\ WF_vars(Dispatches(r))
                          /\ \A j \in Jobs : WF_vars(Settles(r, j))

FairSpec == Spec /\ Fairness

-----------------------------------------------------------------------------
TypeOK ==
    /\ status \in [Jobs -> Status]
    /\ attempts \in [Jobs -> 0..MaxRetry]
    /\ due \in [Jobs -> BOOLEAN]
    /\ fresh \in [Jobs -> BOOLEAN]
    /\ selected \in [Runners -> SUBSET Jobs]
    /\ execs \subseteq Exec
    /\ up \subseteq Runners
    /\ claims \in [Jobs -> Nat]
    /\ requeues \in [Jobs -> Nat]
    /\ resets \in [Jobs -> Nat]
    /\ crashes \in 0..MaxCrashes
    /\ stalls \in 0..MaxStalls
    /\ dbFaults \in 0..MaxDbFaults
    /\ purges \in 0..MaxPurges

(***************************************************************************)
(* A row that can still be executed has an attempt left, and so has every  *)
(* claim in memory: neither overlapping executions nor stale outcome       *)
(* writes let a job run past MaxRetry failures (settle, RetryJob, FailJob).*)
(***************************************************************************)
AttemptsLeft ==
    /\ \A j \in Jobs : status[j] \in Active => attempts[j] < MaxRetry
    /\ \A e \in execs : e.attempts < MaxRetry

(***************************************************************************)
(* As long as no lease has expired under a live execution, every claim a   *)
(* runner holds is the row's latest claim and the row is still running: a  *)
(* job is never executed by two goroutines, whatever crashes, failing      *)
(* writes, cancels, resets and racing polls happen.                        *)
(***************************************************************************)
ClaimsAreExclusive ==
    stalls = 0 =>
        /\ \A e \in execs : status[e.job] = "running" /\ e.claim = claims[e.job]
        /\ \A e, f \in execs : e.job = f.job => e = f

(***************************************************************************)
(* How often a job can be claimed.  Each requeue, and each reset, opens at *)
(* most one more series of MaxRetry claims, even when the executions of    *)
(* several series overlap and overwrite each other's attempts.             *)
(***************************************************************************)
ClaimBudget ==
    \A j \in Jobs : claims[j] <= MaxRetry * (1 + requeues[j] + resets[j])

(***************************************************************************)
(* A settled row stays settled: a late outcome write, a late claim or a    *)
(* requeue never revives it.  Only ResetFailedJobByKey re-arms a failed    *)
(* row, with all its attempts; only retention removes a row.               *)
(***************************************************************************)
SettledIsFinal ==
    [][\A j \in Jobs : status[j] \in Settled =>
          \/ status'[j] = status[j] /\ attempts'[j] = attempts[j]
          \/ status'[j] = "absent"
          \/ status[j] = "failed" /\ status'[j] = "queued" /\ attempts'[j] = 0]_vars

(***************************************************************************)
(* Every enqueued job is eventually settled, although runners crash while  *)
(* they hold it, leases expire and outcome writes get lost.                *)
(***************************************************************************)
JobsSettle ==
    \A j \in Jobs : status[j] \in Active ~> status[j] \in Settled

(***************************************************************************)
(* With no lease expiring under a live execution, the queue implements the *)
(* ledger of single executions.                                            *)
(***************************************************************************)
Ledger == INSTANCE JobLedger WITH busy <- {e.job : e \in execs}

ImplementsLedger == Ledger!LedgerSpec
=============================================================================
