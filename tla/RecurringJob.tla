---------------------------- MODULE RecurringJob ----------------------------
(***************************************************************************)
(* A self-rescheduling job kind on top of the job ledger: outbox dispatch, *)
(* alert delivery compensation, retention, audit anchoring, version        *)
(* publish reconciliation, connector retention and memory compensation all *)
(* follow this pattern.  A schedule call counts the kind's active jobs,    *)
(* leaving out the job that is finishing, and enqueues the next one if     *)
(* there is none; counting and enqueuing are two statements.  Process      *)
(* start-up and some API requests call it too.  Retention and audit        *)
(* anchoring obey a policy of the configuration that can switch them off.  *)
(*                                                                         *)
(* Keys carry a timestamp, so that a new row never meets an old key.  Rows *)
(* are recycled once retention has purged them.                            *)
(***************************************************************************)
EXTENDS JobLedger, FiniteSets

CONSTANTS Callers,       \* start-ups and API requests that schedule the kind
          ReArmOnError,  \* the worker reschedules although its body failed
          Optional,      \* the kind has a policy that can switch it off
          MaxErrors,     \* bound: refused jobs, failing bodies and schedule calls
          MaxLosses      \* bound: executions lost by crashes or failed writes

ASSUME RecurringAssumption ==
    /\ ReArmOnError \in BOOLEAN /\ Optional \in BOOLEAN
    /\ {MaxErrors, MaxLosses} \subseteq Nat
    /\ MaxRetry \in Nat \ {0}

VARIABLES phase,    \* phase[j]: where the Run of job j is
          failed,   \* failed[j]: the error that Run will return, or not
          rearmed,  \* rearmed[j]: this Run of j has passed its schedule call
          call,     \* call[c]: where the schedule call of c is
          enabled,  \* what the policy says; TRUE for a kind without one
          errors, losses,  \* how often each has happened
          overlap   \* history: since a run last began alone, another began beside it

recurringVars == <<status, attempts, busy, phase, failed, rearmed, call,
                   enabled, errors, losses, overlap>>

run == <<phase, failed, rearmed>>

ActiveJobs == {j \in Jobs : status[j] \in {"queued", "running"}}

\* A job that still has to decide about its successor.
Pending == {j \in ActiveJobs : ~rearmed[j]}

Init ==
    /\ LedgerInit
    /\ phase = [j \in Jobs |-> "idle"]
    /\ failed = [j \in Jobs |-> FALSE]
    /\ rearmed = [j \in Jobs |-> FALSE]
    /\ call = [c \in Callers |-> "idle"]
    /\ errors = 0 /\ losses = 0
    /\ enabled = TRUE
    /\ overlap = FALSE

-----------------------------------------------------------------------------
(***************************************************************************)
(* A restart with another configuration, and Schedule called with no job   *)
(* to leave out, which does nothing for a kind that is switched off.       *)
(***************************************************************************)
SetPolicy ==
    /\ Optional
    /\ enabled' = ~enabled
    /\ UNCHANGED <<ledger, run, call, errors, losses, overlap>>

CallerCounts(c) ==
    /\ call[c] = "idle"
    /\ call' = [call EXCEPT ![c] = IF enabled /\ ActiveJobs = {}
                                   THEN "none active" ELSE "done"]
    /\ UNCHANGED <<ledger, run, enabled, errors, losses, overlap>>

CallerEnqueues(c) ==
    /\ call[c] = "none active"
    /\ call' = [call EXCEPT ![c] = "done"]
    /\ \E j \in Jobs : Enqueue(j)
    /\ UNCHANGED <<run, enabled, errors, losses, overlap>>

-----------------------------------------------------------------------------
(***************************************************************************)
(* The worker's Run for job j: the body, then Schedule leaving out j.      *)
(***************************************************************************)
StartRun(j) ==
    /\ Claim({j})
    /\ phase' = [phase EXCEPT ![j] = "body"]
    /\ failed' = [failed EXCEPT ![j] = FALSE]
    /\ rearmed' = [rearmed EXCEPT ![j] = FALSE]
    /\ overlap' = (busy # {})
    /\ UNCHANGED <<call, enabled, errors, losses>>

\* The claimed job is failed before its body begins, whatever retries it has
\* left: its tenant cannot be read or is disabled, or no worker is registered.
DispatchRefused(j) ==
    /\ phase[j] = "body"
    /\ errors < MaxErrors
    /\ errors' = errors + 1
    /\ Finish(j)
    /\ status'[j] = "failed"
    /\ phase' = [phase EXCEPT ![j] = "idle"]
    /\ UNCHANGED <<failed, rearmed, call, enabled, losses, overlap>>

\* The body of a kind that is switched off does nothing and is not followed
\* by a schedule call.
BodySucceeds(j) ==
    /\ phase[j] = "body"
    /\ phase' = [phase EXCEPT ![j] = IF enabled THEN "count" ELSE "off"]
    /\ UNCHANGED <<ledger, failed, rearmed, call, enabled, errors, losses, overlap>>

\* Most workers return at once; the memory compensation worker reschedules
\* first and returns the error afterwards.
BodyFails(j) ==
    /\ phase[j] = "body"
    /\ errors < MaxErrors
    /\ errors' = errors + 1
    /\ failed' = [failed EXCEPT ![j] = TRUE]
    /\ phase' = [phase EXCEPT ![j] = IF ReArmOnError THEN "count" ELSE "return"]
    /\ UNCHANGED <<ledger, rearmed, call, enabled, losses, overlap>>

\* Seeded fault: the finishing job is counted as well.
Others_Self(j) == ActiveJobs

\* Seeded fault: the count is not consulted.
Others_None(j) == {}

\* CountActiveJobsExcept with the finishing job's id.
Others(j) == ActiveJobs \ {j}

RunCounts(j) ==
    /\ phase[j] = "count"
    /\ phase' = [phase EXCEPT ![j] = IF Others(j) = {} THEN "enqueue" ELSE "return"]
    /\ rearmed' = [rearmed EXCEPT ![j] = Others(j) # {}]
    /\ UNCHANGED <<ledger, failed, call, enabled, errors, losses, overlap>>

RunEnqueues(j) ==
    /\ phase[j] = "enqueue"
    /\ \E k \in Jobs : Enqueue(k)
    /\ phase' = [phase EXCEPT ![j] = "return"]
    /\ rearmed' = [rearmed EXCEPT ![j] = TRUE]
    /\ UNCHANGED <<failed, call, enabled, errors, losses, overlap>>

\* The count or the insert fails: Run returns that error.
RunScheduleFails(j) ==
    /\ phase[j] \in {"count", "enqueue"}
    /\ errors < MaxErrors
    /\ errors' = errors + 1
    /\ failed' = [failed EXCEPT ![j] = TRUE]
    /\ phase' = [phase EXCEPT ![j] = "return"]
    /\ UNCHANGED <<ledger, rearmed, call, enabled, losses, overlap>>

Outcome(j) == IF ~failed[j] THEN "succeeded"
              ELSE IF attempts[j] + 1 < MaxRetry THEN "queued" ELSE "failed"

RunReturns(j) ==
    /\ phase[j] \in {"return", "off"}
    /\ Finish(j)
    /\ status'[j] = Outcome(j)
    /\ phase' = [phase EXCEPT ![j] = "idle"]
    /\ rearmed' = [rearmed EXCEPT ![j] = FALSE]
    /\ UNCHANGED <<failed, call, enabled, errors, losses, overlap>>

-----------------------------------------------------------------------------
(***************************************************************************)
(* What the queue does with a lost execution, and retention.               *)
(***************************************************************************)
LoseRun(j) ==
    /\ losses < MaxLosses
    /\ j \in busy
    /\ Lose({j})
    /\ losses' = losses + 1
    /\ phase' = [phase EXCEPT ![j] = "idle"]
    /\ rearmed' = [rearmed EXCEPT ![j] = FALSE]
    /\ UNCHANGED <<failed, call, enabled, errors, overlap>>

\* Seeded fault: taking a job back counts as an attempt.
Recover_Counts(j) ==
    /\ status[j] = "running"
    /\ j \notin busy
    /\ status' = [status EXCEPT ![j] = "queued"]
    /\ attempts' = [attempts EXCEPT ![j] = @ + 1]
    /\ UNCHANGED <<busy, run, call, enabled, errors, losses, overlap>>

Recover(j) ==
    /\ status[j] = "running"
    /\ TakeBack({j})
    /\ UNCHANGED <<run, call, enabled, errors, losses, overlap>>

PurgeRow(j) ==
    /\ Purge(j)
    /\ UNCHANGED <<run, call, enabled, errors, losses, overlap>>

Next ==
    \/ SetPolicy
    \/ \E c \in Callers : CallerCounts(c) \/ CallerEnqueues(c)
    \/ \E j \in Jobs : \/ StartRun(j) \/ DispatchRefused(j)
                       \/ BodySucceeds(j) \/ BodyFails(j)
                       \/ RunCounts(j) \/ RunEnqueues(j) \/ RunScheduleFails(j)
                       \/ RunReturns(j)
                       \/ LoseRun(j) \/ Recover(j) \/ PurgeRow(j)

Spec == Init /\ [][Next]_recurringVars

(***************************************************************************)
(* Fairness: what JobQueue provides under its own fairness, namely that a  *)
(* queued job is claimed, its Run goes on and lost rows are taken back.    *)
(* Callers finish a schedule call they have begun.                         *)
(***************************************************************************)
Progress(j) == \/ StartRun(j) \/ BodySucceeds(j) \/ RunCounts(j)
               \/ RunEnqueues(j) \/ RunReturns(j) \/ Recover(j)

FairSpec ==
    /\ Spec
    /\ \A j \in Jobs : WF_recurringVars(Progress(j)) /\ WF_recurringVars(PurgeRow(j))
    /\ \A c \in Callers : WF_recurringVars(CallerEnqueues(c))

-----------------------------------------------------------------------------
RecurringTypeOK ==
    /\ status \in [Jobs -> {"absent", "queued", "running", "succeeded", "failed"}]
    /\ attempts \in [Jobs -> 0..MaxRetry]
    /\ \A j \in ActiveJobs : attempts[j] < MaxRetry
    /\ phase \in [Jobs -> {"idle", "body", "count", "enqueue", "return", "off"}]
    /\ busy = {j \in Jobs : phase[j] # "idle"}
    /\ failed \in [Jobs -> BOOLEAN]
    /\ rearmed \in [Jobs -> BOOLEAN]
    /\ call \in [Callers -> {"idle", "none active", "done"}]
    /\ errors \in 0..MaxErrors
    /\ losses \in 0..MaxLosses
    /\ enabled \in BOOLEAN /\ overlap \in BOOLEAN

\* The ways in which the end of the run of job j may leave no active job.
EndsChain(j) ==
    \/ phase[j] = "body" /\ status'[j] = "failed"
    \/ failed[j] /\ attempts'[j] = MaxRetry
    \/ phase[j] = "off"
    \/ overlap

(***************************************************************************)
(* How a chain of runs can end: the step that leaves the kind without an   *)
(* active job is the refusal of its last job at dispatch, the return of an *)
(* error by a job that has no retry left, the return of a run that found   *)
(* the kind switched off, or the return of a run beside which another has  *)
(* run, each of the two taking the other for its successor.  Nothing else  *)
(* ends it: not a crash as such, not an error with a retry left, not a     *)
(* duplicate that racing schedule calls or a lost outcome have left.       *)
(***************************************************************************)
ChainAlive ==
    [][ActiveJobs # {} /\ ActiveJobs' = {} => \E j \in ActiveJobs : EndsChain(j)]_recurringVars

(***************************************************************************)
(* Jobs that racing schedule calls or lost outcomes have duplicated do not *)
(* multiply: they die out until at most one is left that will decide about *)
(* a successor.                                                            *)
(***************************************************************************)
DuplicatesDieOut == <>[](Cardinality(Pending) <= 1)
=============================================================================
