-------------------------- MODULE ApprovalExecution --------------------------
(***************************************************************************)
(* The execution of one approved request (service/approval_executor.go,    *)
(* approval_action.go, acting_context.go): every attempt has an acting     *)
(* context, claimed together with the operation row that records the       *)
(* outcome, and an execution job that is keyed by the approval.  A worker  *)
(* claims the context, moves the approval to executing, calls the executor *)
(* and then writes the operation, the approval and the context one after   *)
(* the other; a later run of the job reconciles what an earlier one left.  *)
(*                                                                         *)
(* Approvals do not share jobs, contexts or operations, so one is enough.  *)
(* The job queue is reduced to what JobQueue provides: a job is claimed by *)
(* one worker, taken back when that worker is gone or its lease ran out,   *)
(* and settled only while it is running.  Its row stays: data retention,   *)
(* off by default, is the only thing that would delete it.                 *)
(***************************************************************************)
EXTENDS Naturals, Sequences

CONSTANTS Workers,     \* workers that run execution jobs
          Callers,     \* requests and maintenance passes that enqueue the job
          MaxRetry,    \* the job's retry limit
          MaxAttempts, \* bound: acting contexts of the approval
          MaxRetries,  \* bound: requests to retry a failed execution
          MaxCrashes,  \* bound: workers and calls that die with their process
          MaxStalls,   \* bound: leases that run out under a live worker
          MaxFaults,   \* bound: database errors and refusals
          MaxExpiries  \* bound: acting contexts that expire unclaimed

ASSUME ExecutionAssumption ==
    /\ {MaxRetry, MaxAttempts} \subseteq Nat \ {0}
    /\ {MaxRetries, MaxCrashes, MaxStalls, MaxFaults, MaxExpiries} \subseteq Nat

VARIABLES approval,  \* status of the approval
          context,   \* context[n]: acting context of attempt n
          operation, \* operation[n]: operation of attempt n
          job,       \* the execution job: status, attempts, attempt in the payload
          run,       \* run[w]: the Run that worker w is in
          call,      \* call[c]: the enqueueApprovalExecution that c is in
          effects,   \* effects[n]: times attempt n took effect in the executor
          retries, crashes, stalls, faults, expiries  \* how often each has happened

durable == <<approval, context, operation, job>>
counters == <<retries, crashes, stalls, faults, expiries>>
vars == <<durable, run, call, effects, counters>>

Attempts == 1..MaxAttempts

ApprovalStatus == {"pending_approval", "approved", "executing", "completed",
                   "execution_failed"}
ContextStatus == {"NONE", "ACTIVE", "CLAIMED", "CONSUMED", "FAILED", "EXPIRED"}
OperationStatus == {"NONE", "RUNNING", "COMPLETED", "FAILED", "UNKNOWN"}
JobStatus == {"absent", "queued", "running", "succeeded", "failed"}

\* live: the context's expiry, once claimed its claim's, lies ahead.
Context == [status : ContextStatus, live : BOOLEAN]
\* fresh: updated within approvalOperationPendingWindow.
Operation == [status : OperationStatus, fresh : BOOLEAN]
Job == [status : JobStatus, attempts : 0..MaxRetry, attempt : 0..MaxAttempts]

\* What a Run has read and decided: the attempts of its job, the approval's
\* status, the attempt of the payload and the one it executes, the outcome, the
\* writes still to do, whether it goes on when one of them fails, and whether
\* it will return an error.
Run == [pc : {"idle", "approval", "context", "prepare", "claim", "stale", "reconcile",
              "transition", "check", "execute", "write"},
        tries : 0..MaxRetry, approval : ApprovalStatus,
        given : 0..MaxAttempts, attempt : 0..MaxAttempts,
        outcome : OperationStatus, writes : Seq({"operation", "approval", "context"}),
        lax : BOOLEAN, error : BOOLEAN]

Idle == [pc |-> "idle", tries |-> 0, approval |-> "pending_approval", given |-> 0,
         attempt |-> 0, outcome |-> "NONE", writes |-> <<>>, lax |-> FALSE, error |-> FALSE]

Init ==
    /\ approval = "pending_approval"
    /\ context = [n \in Attempts |-> [status |-> "NONE", live |-> TRUE]]
    /\ operation = [n \in Attempts |-> [status |-> "NONE", fresh |-> TRUE]]
    /\ job = [status |-> "absent", attempts |-> 0, attempt |-> 0]
    /\ run = [w \in Workers |-> Idle]
    /\ call = [c \in Callers |-> [pc |-> "idle", attempt |-> 0]]
    /\ effects = [n \in Attempts |-> 0]
    /\ retries = 0 /\ crashes = 0 /\ stalls = 0 /\ faults = 0 /\ expiries = 0

-----------------------------------------------------------------------------
(***************************************************************************)
(* prepareActingContext: the context of the latest attempt if it can still *)
(* be claimed, otherwise a new attempt; a claimed one is an error.         *)
(***************************************************************************)
Used == {n \in Attempts : context[n].status # "NONE"}
Latest(S) == CHOOSE n \in S \cup {0} : \A m \in S : m <= n
Last == Latest(Used)

Reusable == Last > 0 /\ context[Last].status = "ACTIVE" /\ context[Last].live

\* Seeded fault: the attempt number is advanced twice.
Prepared_Skips == IF Reusable THEN Last ELSE Last + 2

Prepared == IF Reusable THEN Last ELSE Last + 1

PrepareFails == Last > 0 /\ context[Last].status = "CLAIMED"

Prepare ==
    /\ ~PrepareFails
    /\ Prepared \in Attempts
    /\ context' =
          [n \in Attempts |->
              CASE Reusable -> context[n]
                [] ~Reusable /\ n = Prepared -> [status |-> "ACTIVE", live |-> TRUE]
                [] ~Reusable /\ n = Last /\ context[n].status = "ACTIVE"
                       -> [context[n] EXCEPT !.status = "EXPIRED"]
                [] OTHER -> context[n]]

\* A new attempt is refused after the old context was closed: the requester is
\* disabled, or the fingerprint of the action has changed.
PrepareRefused ==
    /\ ~PrepareFails
    /\ ~Reusable
    /\ faults < MaxFaults
    /\ faults' = faults + 1
    /\ context' = [n \in Attempts |->
                      IF n = Last /\ context[n].status = "ACTIVE"
                      THEN [context[n] EXCEPT !.status = "EXPIRED"]
                      ELSE context[n]]

-----------------------------------------------------------------------------
(***************************************************************************)
(* enqueueApprovalExecution and its callers.                               *)
(***************************************************************************)
Begins(c) ==
    /\ call[c].pc = "idle"
    /\ call' = [call EXCEPT ![c] = [pc |-> "count", attempt |-> 0]]

\* The last decision approves the request.
DecideApproval(c) ==
    /\ approval = "pending_approval"
    /\ approval' = "approved"
    /\ Begins(c)
    /\ UNCHANGED <<context, operation, job, run, effects, counters>>

RetryApprovalExecution(c) ==
    /\ approval = "execution_failed"
    /\ retries < MaxRetries
    /\ approval' = "approved"
    /\ Begins(c)
    /\ retries' = retries + 1
    /\ UNCHANGED <<context, operation, job, run, effects, crashes, stalls, faults,
                   expiries>>

\* ListApprovedApprovals.
Listed == approval = "approved"

RunApprovalMaintenance(c) ==
    /\ Listed
    /\ Begins(c)
    /\ UNCHANGED <<durable, run, effects, counters>>

CountActive(c) ==
    /\ call[c].pc = "count"
    /\ call' = [call EXCEPT ![c].pc = IF job.status \in {"queued", "running"}
                                      THEN "idle" ELSE "prepare"]
    /\ UNCHANGED <<durable, run, effects, counters>>

CallPrepares(c) ==
    /\ call[c].pc = "prepare"
    /\ Prepare
    /\ call' = [call EXCEPT ![c] = [pc |-> "insert", attempt |-> Prepared]]
    /\ UNCHANGED <<approval, operation, job, run, effects, counters>>

CallRefused(c) ==
    /\ call[c].pc = "prepare"
    /\ \/ PrepareFails /\ UNCHANGED <<context, faults>>
       \/ PrepareRefused
    /\ call' = [call EXCEPT ![c].pc = "idle"]
    /\ UNCHANGED <<approval, operation, job, run, effects, retries, crashes, stalls,
                   expiries>>

\* Enqueue a new row, or reset the row of that key if it has failed.
CallEnqueues(c) ==
    /\ call[c].pc = "insert"
    /\ job' = IF job.status \in {"absent", "failed"}
              THEN [status |-> "queued", attempts |-> 0, attempt |-> call[c].attempt]
              ELSE job
    /\ call' = [call EXCEPT ![c].pc = "idle"]
    /\ UNCHANGED <<approval, context, operation, run, effects, counters>>

\* The call dies, or one of its statements fails.
CallCrashes(c) ==
    /\ call[c].pc # "idle"
    /\ crashes < MaxCrashes
    /\ crashes' = crashes + 1
    /\ call' = [call EXCEPT ![c].pc = "idle"]
    /\ UNCHANGED <<durable, run, effects, retries, stalls, faults, expiries>>

-----------------------------------------------------------------------------
(***************************************************************************)
(* approvalExecuteWorker.Run.  Returns(w, err) leaves the rest to the      *)
(* queue; Plan lists the writes that end a run, in their order.            *)
(***************************************************************************)
Goes(w, pc) == run' = [run EXCEPT ![w].pc = pc]

Plan(w, outcome, writes, error) ==
    run' = [run EXCEPT ![w].pc = "write", ![w].outcome = outcome,
                       ![w].writes = writes, ![w].error = error]

\* The same where the code ignores errors of the operation and the context.
LaxPlan(w, writes, error) ==
    run' = [run EXCEPT ![w].pc = "write", ![w].outcome = "FAILED",
                       ![w].writes = writes, ![w].lax = TRUE, ![w].error = error]

Returns(w, error) == Plan(w, run[w].outcome, <<>>, error)

StartRun(w) ==
    /\ run[w].pc = "idle"
    /\ job.status = "queued"
    /\ job' = [job EXCEPT !.status = "running"]
    /\ run' = [run EXCEPT ![w] = [Idle EXCEPT !.pc = "approval", !.tries = job.attempts,
                              !.given = job.attempt, !.attempt = job.attempt]]
    /\ UNCHANGED <<approval, context, operation, call, effects, counters>>

ReadApproval(w) ==
    /\ run[w].pc = "approval"
    /\ run' = [run EXCEPT ![w].pc = "context", ![w].approval = approval]
    /\ UNCHANGED <<durable, call, effects, counters>>

\* The status of the context decides what the Run does
\* (resolveApprovalExecution).
ReadContext(w) ==
    LET n == run[w].given
        ctx == context[n]
        op == operation[n]
        unresolved == /\ Last > 0
                      /\ \E m \in Attempts :
                            /\ operation[m].status \in {"RUNNING", "UNKNOWN"}
                            /\ \A k \in Attempts : k > m => operation[k].status = "NONE"
        reconciled == run' = [run EXCEPT ![w].pc = "reconcile", ![w].outcome = op.status]
    IN /\ run[w].pc = "context"
       /\ \/ ctx.status = "ACTIVE" /\ Goes(w, "claim")
          \/ /\ ctx.status = "EXPIRED"
             /\ IF unresolved THEN Returns(w, TRUE) ELSE Goes(w, "prepare")
          \/ /\ ctx.status = "FAILED"
             /\ IF op.status = "FAILED" /\ run[w].approval = "approved"
                THEN Goes(w, "prepare") ELSE reconciled
          \/ /\ ctx.status = "CLAIMED"
             /\ \/ op.status \in {"COMPLETED", "FAILED"} /\ reconciled
                \/ /\ op.status \in {"RUNNING", "UNKNOWN"}
                   /\ CASE ctx.live -> Returns(w, TRUE)
                        [] ~ctx.live /\ op.status = "UNKNOWN" -> reconciled
                        [] ~ctx.live /\ op.status = "RUNNING" /\ op.fresh -> Returns(w, TRUE)
                        [] OTHER -> Goes(w, "stale")
          \/ ctx.status = "CONSUMED" /\ reconciled
       /\ UNCHANGED <<durable, call, effects, counters>>

\* A new attempt for a context that expired or failed.  The run goes on to
\* close the context of its payload, not the new one.
RunPrepares(w) ==
    /\ run[w].pc = "prepare"
    /\ \/ /\ Prepare
          /\ run' = [run EXCEPT ![w].pc = "claim", ![w].attempt = Prepared]
          /\ UNCHANGED faults
       \/ /\ PrepareFails
          /\ Returns(w, TRUE)
          /\ UNCHANGED <<context, faults>>
       \/ /\ PrepareRefused
          /\ Returns(w, TRUE)
    /\ UNCHANGED <<approval, operation, job, call, effects, retries, crashes, stalls,
                   expiries>>

\* Seeded fault: a claimed context can be claimed again.
Claimable_Claimed(n) == context[n].status \in {"ACTIVE", "CLAIMED"}

\* The guard of ClaimActingContextForOperation.
Claimable(n) == context[n].status = "ACTIVE" /\ context[n].live

ClaimActingContextForOperation(w) ==
    LET n == run[w].attempt
    IN /\ run[w].pc = "claim"
       /\ IF Claimable(n)
          THEN /\ context' = [context EXCEPT ![n] = [status |-> "CLAIMED", live |-> TRUE]]
               /\ operation' = [operation EXCEPT ![n] = [status |-> "RUNNING", fresh |-> TRUE]]
               /\ Goes(w, "transition")
          ELSE Returns(w, TRUE) /\ UNCHANGED <<context, operation>>
       /\ UNCHANGED <<approval, job, call, effects, counters>>

\* TransitionApproval from approved to executing.  A run that lost that race
\* returns without an error and leaves the claim behind; one that read some
\* other status closes its operation.
TransitionApproval(w) ==
    /\ run[w].pc = "transition"
    /\ \/ /\ run[w].approval = "approved" /\ approval = "approved"
          /\ approval' = "executing"
          /\ Goes(w, "check")
       \/ /\ run[w].approval = "approved" /\ approval # "approved"
          /\ Returns(w, FALSE)
          /\ UNCHANGED approval
       \/ /\ run[w].approval = "executing"
          /\ Goes(w, "check")
          /\ UNCHANGED approval
       \/ /\ run[w].approval \notin {"approved", "executing"}
          /\ LaxPlan(w, <<"operation", "context">>, FALSE)
          /\ UNCHANGED approval
    /\ UNCHANGED <<context, operation, job, call, effects, counters>>

FailureWrites == <<"operation", "context", "approval">>

\* Seeded fault: the approval is completed before its operation.
SuccessWrites_ApprovalFirst == <<"approval", "operation", "context">>

SuccessWrites == <<"operation", "approval", "context">>

\* The executor is registered, healthy and accepts the request, or not.
Check(w) ==
    /\ run[w].pc = "check"
    /\ Goes(w, "execute") \/ LaxPlan(w, FailureWrites, TRUE)
    /\ UNCHANGED <<durable, call, effects, counters>>

\* An executor that fails may have taken effect before: a call that timed out,
\* or a step that failed after the one RAGFlow has carried out.
Execute(w) ==
    /\ run[w].pc = "execute"
    /\ \/ /\ effects' = [effects EXCEPT ![run[w].attempt] = @ + 1]
          /\ \/ Plan(w, "COMPLETED", SuccessWrites, FALSE)
             \/ Plan(w, "FAILED", FailureWrites, TRUE)
       \/ /\ Plan(w, "FAILED", FailureWrites, TRUE)
          /\ UNCHANGED effects
    /\ UNCHANGED <<durable, call, counters>>

MarkStaleApprovalOperationUnknown(w) ==
    LET op == operation[run[w].given]
    IN /\ run[w].pc = "stale"
       /\ operation' = IF op.status = "RUNNING" /\ ~op.fresh
                       THEN [operation EXCEPT ![run[w].given] =
                                [status |-> "UNKNOWN", fresh |-> TRUE]]
                       ELSE operation
       /\ run' = [run EXCEPT ![w].pc = "reconcile", ![w].outcome = "UNKNOWN"]
       /\ UNCHANGED <<approval, context, job, call, effects, counters>>

\* Seeded fault: an unknown outcome passes for a success.
Implied_Unknown(outcome) ==
    IF outcome \in {"COMPLETED", "UNKNOWN"} THEN "completed" ELSE "execution_failed"

Implied(outcome) == IF outcome = "COMPLETED" THEN "completed" ELSE "execution_failed"

\* reconcileApprovalOperation: finish what the operation says, unless the
\* approval was neither executing nor settled accordingly.
Reconcile(w) ==
    LET seen == run[w].approval
        outcome == run[w].outcome
    IN /\ run[w].pc = "reconcile"
       /\ CASE outcome = "RUNNING" -> Returns(w, TRUE)
            [] outcome # "RUNNING" /\ seen = "executing"
                  -> Plan(w, outcome, <<"approval", "context">>, FALSE)
            [] outcome # "RUNNING" /\ seen = Implied(outcome)
                  -> Plan(w, outcome, <<"context">>, FALSE)
            [] OTHER -> Returns(w, TRUE)
       /\ UNCHANGED <<durable, call, effects, counters>>

-----------------------------------------------------------------------------
(***************************************************************************)
(* The writes that end a run, each a guarded update of one row.            *)
(***************************************************************************)
Writing(w, what) ==
    /\ run[w].pc = "write"
    /\ run[w].writes # <<>>
    /\ Head(run[w].writes) = what

Wrote(w) == run' = [run EXCEPT ![w].writes = Tail(@)]

\* Seeded fault: the operation is completed whatever its status.
Completable_Any(op) == TRUE

\* The guard of CompleteApprovalOperation.
Completable(op) == op.status = "RUNNING"

CompleteApprovalOperation(w) ==
    LET n == run[w].attempt
    IN /\ Writing(w, "operation")
       /\ operation' = IF Completable(operation[n])
                       THEN [operation EXCEPT ![n] = [status |-> run[w].outcome, fresh |-> TRUE]]
                       ELSE operation
       /\ Wrote(w)
       /\ UNCHANGED <<approval, context, job, call, effects, counters>>

CompleteActingContext(w) ==
    LET n == run[w].given
    IN /\ Writing(w, "context")
       /\ context' = IF context[n].status = "CLAIMED"
                     THEN [context EXCEPT ![n].status =
                              IF run[w].outcome = "COMPLETED" THEN "CONSUMED" ELSE "FAILED"]
                     ELSE context
       /\ Wrote(w)
       /\ UNCHANGED <<approval, operation, job, call, effects, counters>>

\* SettleApprovalExecution fails unless the approval is executing.
SettleApprovalExecution(w) ==
    /\ Writing(w, "approval")
    /\ \/ /\ approval = "executing"
          /\ approval' = Implied(run[w].outcome)
          /\ Wrote(w)
       \/ /\ approval # "executing"
          /\ Returns(w, TRUE)
          /\ UNCHANGED approval
    /\ UNCHANGED <<context, operation, job, call, effects, counters>>

\* The runner settles the job, if it is still running.
SettleJob(w) ==
    LET tried == run[w].tries + 1
        after == CASE ~run[w].error -> "succeeded"
                   [] run[w].error /\ tried < MaxRetry -> "queued"
                   [] OTHER -> "failed"
    IN /\ run[w].pc = "write" /\ run[w].writes = <<>>
       /\ job' = IF job.status = "running"
                 THEN [job EXCEPT !.status = after, !.attempts = tried]
                 ELSE job
       /\ run' = [run EXCEPT ![w] = Idle]
       /\ UNCHANGED <<approval, context, operation, call, effects, counters>>

-----------------------------------------------------------------------------
(***************************************************************************)
(* Faults and the clock.                                                   *)
(***************************************************************************)
\* A statement of the Run fails, or the payload no longer agrees with the
\* approval and its requester: it returns the error.  After a failed transition
\* it closes the operation and the context first.
DatabaseFault(w) ==
    /\ faults < MaxFaults
    /\ faults' = faults + 1
    /\ \/ /\ run[w].pc = "transition"
          /\ LaxPlan(w, <<"operation", "context">>, TRUE)
       \/ /\ run[w].pc \in {"approval", "context", "prepare", "claim", "stale"}
          /\ Returns(w, TRUE)
       \/ /\ run[w].pc = "write" /\ run[w].writes # <<>>
          /\ IF run[w].lax /\ Head(run[w].writes) # "approval"
             THEN Wrote(w) ELSE Returns(w, TRUE)
    /\ UNCHANGED <<durable, call, effects, retries, crashes, stalls, expiries>>

WorkerCrashes(w) ==
    /\ run[w].pc # "idle"
    /\ crashes < MaxCrashes
    /\ crashes' = crashes + 1
    /\ run' = [run EXCEPT ![w] = Idle]
    /\ UNCHANGED <<durable, call, effects, retries, stalls, faults, expiries>>

Abandoned == \A w \in Workers : run[w].pc = "idle"

RequeueStaleJob ==
    /\ job.status = "running"
    /\ \/ Abandoned /\ stalls' = stalls
       \/ ~Abandoned /\ stalls < MaxStalls /\ stalls' = stalls + 1
    /\ job' = [job EXCEPT !.status = "queued"]
    /\ UNCHANGED <<approval, context, operation, run, call, effects,
                   retries, crashes, faults, expiries>>

\* The acting context runs out unclaimed, or its claim runs out.
ContextRunsOut(n) ==
    /\ context[n].live
    /\ \/ context[n].status = "CLAIMED" /\ UNCHANGED expiries
       \/ /\ context[n].status = "ACTIVE" /\ expiries < MaxExpiries
          /\ expiries' = expiries + 1
    /\ context' = [context EXCEPT ![n].live = FALSE]
    /\ UNCHANGED <<approval, operation, job, run, call, effects,
                   retries, crashes, stalls, faults>>

\* approvalOperationPendingWindow passes, well after the claim ran out.
WindowPasses(n) ==
    /\ operation[n].status = "RUNNING" /\ operation[n].fresh
    /\ ~context[n].live
    /\ operation' = [operation EXCEPT ![n].fresh = FALSE]
    /\ UNCHANGED <<approval, context, job, run, call, effects, counters>>

WorkerStep(w) ==
    \/ StartRun(w) \/ ReadApproval(w) \/ ReadContext(w) \/ RunPrepares(w)
    \/ ClaimActingContextForOperation(w) \/ TransitionApproval(w)
    \/ Check(w) \/ Execute(w)
    \/ MarkStaleApprovalOperationUnknown(w) \/ Reconcile(w)
    \/ CompleteApprovalOperation(w) \/ CompleteActingContext(w)
    \/ SettleApprovalExecution(w) \/ SettleJob(w)

CallStep(c) == CountActive(c) \/ CallPrepares(c) \/ CallRefused(c) \/ CallEnqueues(c)

Next ==
    \/ \E w \in Workers : WorkerStep(w) \/ DatabaseFault(w) \/ WorkerCrashes(w)
    \/ \E c \in Callers : \/ DecideApproval(c) \/ RetryApprovalExecution(c)
                          \/ RunApprovalMaintenance(c) \/ CallStep(c) \/ CallCrashes(c)
    \/ RequeueStaleJob
    \/ \E n \in Attempts : ContextRunsOut(n) \/ WindowPasses(n)

Spec == Init /\ [][Next]_vars

(***************************************************************************)
(* Fairness: workers and calls that have begun go on, abandoned jobs are   *)
(* taken back, time passes, and maintenance keeps its schedule.  Nothing   *)
(* obliges anybody to approve or to ask for a retry.                       *)
(***************************************************************************)
FairSpec ==
    /\ Spec
    /\ \A w \in Workers : WF_vars(WorkerStep(w))
    /\ \A c \in Callers : WF_vars(CallStep(c))
    /\ WF_vars(\E c \in Callers : RunApprovalMaintenance(c))
    /\ WF_vars(RequeueStaleJob /\ Abandoned)
    /\ \A n \in Attempts : WF_vars(WindowPasses(n)) /\ WF_vars(ContextRunsOut(n))

-----------------------------------------------------------------------------
\* The types, and that attempts are used in order.
ExecutionTypeOK ==
    /\ approval \in ApprovalStatus
    /\ context \in [Attempts -> Context]
    /\ operation \in [Attempts -> Operation]
    /\ job \in Job
    /\ run \in [Workers -> Run]
    /\ call \in [Callers -> [pc : {"idle", "count", "prepare", "insert"}, attempt : 0..MaxAttempts]]
    /\ effects \in [Attempts -> Nat]
    /\ Used = 1..Last
    /\ \A n \in Attempts : operation[n].status = "NONE" <=>
                           context[n].status \in {"NONE", "ACTIVE", "EXPIRED"}

(***************************************************************************)
(* Only one worker can hold an attempt: whatever the queue does with the   *)
(* job, crashes and expired leases included, an attempt takes effect at    *)
(* most once.                                                              *)
(***************************************************************************)
EffectOncePerAttempt == \A n \in Attempts : effects[n] <= 1

(***************************************************************************)
(* No success is reported that did not happen, whichever run reports it:   *)
(* a completed operation took effect, and an approval is completed only if *)
(* an attempt took effect whose operation says so or was marked unknown    *)
(* while its worker was slow.  The opposite is not promised: a failed      *)
(* operation may have taken effect.                                        *)
(***************************************************************************)
OutcomesAreTrue ==
    /\ \A n \in Attempts : operation[n].status = "COMPLETED" => effects[n] = 1
    /\ approval = "completed" =>
          \E n \in Attempts : effects[n] = 1 /\ operation[n].status \in {"COMPLETED", "UNKNOWN"}

Recorded == \E n \in Attempts : operation[n].status = "COMPLETED"

(***************************************************************************)
(* As long as no lease ran out under a live worker, a run whose payload    *)
(* names the latest attempt settles the approval as the ledger says,       *)
(* however the writes of earlier runs were cut short: as completed on the  *)
(* evidence of a completed operation only, and a recorded success is never *)
(* settled as a failure.                                                   *)
(***************************************************************************)
LatestIsReported ==
    [][approval' # approval /\ approval' \in {"completed", "execution_failed"}
          /\ stalls = 0 /\ job.attempt = Last
       => (approval' = "completed" <=> Recorded)]_vars

(***************************************************************************)
(* A settled operation is never rewritten: a late worker cannot turn an    *)
(* unknown outcome into a result, nor a reconciler a result into unknown.  *)
(***************************************************************************)
SettledOperationsStay ==
    [][\A n \in Attempts : operation[n].status \in {"COMPLETED", "FAILED", "UNKNOWN"} =>
                               operation'[n].status = operation[n].status]_vars

(***************************************************************************)
(* "ResetFailedJobByKey re-arms the single failed job for a retryable      *)
(* approval" (repository/job.go:63): an approval whose failed execution is *)
(* retried is executed and settled again in the end.                       *)
(***************************************************************************)
RetriedGetsSettled ==
    approval = "approved" /\ retries > 0 ~> approval \in {"completed", "execution_failed"}
=============================================================================
