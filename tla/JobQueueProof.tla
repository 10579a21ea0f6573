---------------------------- MODULE JobQueueProof ----------------------------
(***************************************************************************)
(* Proofs about JobQueue, for any sets of jobs and runners and any bounds. *)
(***************************************************************************)
EXTENDS JobQueue, FiniteSetTheorems, TLAPS

(***************************************************************************)
(* TypeOK needs AttemptsLeft to be inductive: settle writes e.attempts + 1 *)
(* into the row, and only the bound on the claim's snapshot keeps that     *)
(* within MaxRetry.  AttemptsLeft needs NewRows: EnqueueJob inserts a row  *)
(* with no attempts.                                                       *)
(***************************************************************************)
NewRows == \A j \in Jobs : status[j] = "absent" => attempts[j] = 0

TypeInv == TypeOK /\ AttemptsLeft /\ NewRows

(***************************************************************************)
(* ClaimsAreExclusive needs to know that a live execution's lease has not  *)
(* expired: otherwise RequeueStaleJobs could take its row back.            *)
(***************************************************************************)
LeaseHeld == stalls = 0 => \A e \in execs : fresh[e.job]

ExclusiveInv == ClaimsAreExclusive /\ LeaseHeld

-----------------------------------------------------------------------------
\* A write of an outcome by a claim with a legal snapshot keeps the row legal.
LEMMA OutcomeTyped ==
    ASSUME TypeInv, NEW j \in Jobs, NEW s \in {"succeeded", "failed", "queued"},
           NEW n \in 0..MaxRetry, NEW d \in BOOLEAN,
           s = "queued" => n < MaxRetry,
           WriteOutcome(j, s, n, d)
    PROVE  /\ status' \in [Jobs -> Status]
           /\ attempts' \in [Jobs -> 0..MaxRetry]
           /\ due' \in [Jobs -> BOOLEAN]
           /\ \A k \in Jobs : status'[k] \in Active => attempts'[k] < MaxRetry
           /\ NewRows'
BY DEF TypeInv, TypeOK, AttemptsLeft, NewRows, WriteOutcome, OutcomeAdmits, row, Status, Active

\* The three outcome writes of a held claim, as WriteOutcome with its
\* arguments: every one writes the snapshot plus one.
LEMMA OutcomesTyped ==
    ASSUME TypeInv, NEW e \in execs,
           \/ CompleteJob(e.job, e.attempts + 1)
           \/ FailJob(e.job, e.attempts + 1)
           \/ RetriesLeft(e.attempts + 1) /\ RetryJob(e.job, e.attempts + 1)
    PROVE  /\ status' \in [Jobs -> Status]
           /\ attempts' \in [Jobs -> 0..MaxRetry]
           /\ due' \in [Jobs -> BOOLEAN]
           /\ \A k \in Jobs : status'[k] \in Active => attempts'[k] < MaxRetry
           /\ NewRows'
<1>1. /\ e.job \in Jobs /\ e.attempts + 1 \in 0..MaxRetry
      /\ due[e.job] \in BOOLEAN
  BY MaxRetryAssumption DEF TypeInv, TypeOK, AttemptsLeft, NewRows, Exec
<1>2. CASE CompleteJob(e.job, e.attempts + 1)
  <2>1. WriteOutcome(e.job, "succeeded", e.attempts + 1, due[e.job])
    BY <1>2 DEF CompleteJob
  <2>. QED  BY <1>1, <2>1, OutcomeTyped
<1>3. CASE FailJob(e.job, e.attempts + 1)
  <2>1. WriteOutcome(e.job, "failed", e.attempts + 1, due[e.job])
    BY <1>3 DEF FailJob
  <2>. QED  BY <1>1, <2>1, OutcomeTyped
<1>4. CASE RetriesLeft(e.attempts + 1) /\ RetryJob(e.job, e.attempts + 1)
  <2>1. WriteOutcome(e.job, "queued", e.attempts + 1, FALSE)
    BY <1>4, Zenon DEF RetryJob
  <2>2. e.attempts + 1 < MaxRetry
    BY <1>4 DEF RetriesLeft
  <2>. QED  BY <1>1, <2>1, <2>2, OutcomeTyped, Zenon
<1>. QED  BY <1>2, <1>3, <1>4

\* TypeInv holds initially and every step keeps it.
LEMMA TypeInvInit == Init => TypeInv
BY MaxRetryAssumption, BoundsAssumption
   DEF Init, TypeInv, TypeOK, AttemptsLeft, NewRows, Status, Active

LEMMA TypeInvNext == TypeInv /\ [Next]_vars => TypeInv'
<1>. SUFFICES ASSUME TypeInv, [Next]_vars PROVE TypeInv'
  OBVIOUS
<1>. USE MaxRetryAssumption, BoundsAssumption
<1>1. ASSUME NEW j \in Jobs, EnqueueJob(j) PROVE TypeInv'
  BY <1>1 DEF TypeInv, TypeOK, AttemptsLeft, NewRows, EnqueueJob, faults, Status, Active
<1>2. ASSUME NEW j \in Jobs, RunAfterPasses(j) PROVE TypeInv'
  BY <1>2 DEF TypeInv, TypeOK, AttemptsLeft, NewRows, RunAfterPasses, faults
<1>3. ASSUME NEW j \in Jobs, ResetFailedJobByKey(j) PROVE TypeInv'
  BY <1>3 DEF TypeInv, TypeOK, AttemptsLeft, NewRows, ResetFailedJobByKey, faults, Status, Active
<1>4. ASSUME NEW j \in Jobs, PurgeTerminalJobsBefore(j) PROVE TypeInv'
  BY <1>4 DEF TypeInv, TypeOK, AttemptsLeft, NewRows, PurgeTerminalJobsBefore, Status, Active
<1>5. ASSUME NEW j \in Jobs, LeaseExpires(j) PROVE TypeInv'
  BY <1>5 DEF TypeInv, TypeOK, AttemptsLeft, NewRows, LeaseExpires, row
<1>6. ASSUME NEW js \in SUBSET Jobs, CancelQueuedJobsWithPayload(js) PROVE TypeInv'
  BY <1>6 DEF TypeInv, TypeOK, AttemptsLeft, NewRows, CancelQueuedJobsWithPayload,
              Queued, faults, Status, Active
<1>7. ASSUME NEW r \in Runners, ClaimSelect(r) PROVE TypeInv'
  BY <1>7 DEF TypeInv, TypeOK, AttemptsLeft, NewRows, ClaimSelect, Queued, row, faults
<1>8. ASSUME NEW r \in Runners, ClaimUpdate(r) PROVE TypeInv'
  <2>1. \A j \in Jobs : ClaimAdmits(j) =>
           NewExec(r, j) \in Exec /\ NewExec(r, j).attempts < MaxRetry
    BY DEF TypeInv, TypeOK, AttemptsLeft, NewRows, ClaimAdmits, NewExec, Exec, Active
  <2>2. execs' \subseteq Exec /\ \A e \in execs' : e.attempts < MaxRetry
    BY <1>8, <2>1 DEF TypeInv, TypeOK, AttemptsLeft, NewRows, ClaimUpdate
  <2>3. /\ status' \in [Jobs -> Status]
        /\ \A j \in Jobs : status'[j] # status[j] =>
              status[j] = "queued" /\ status'[j] = "running"
    BY <1>8 DEF TypeInv, TypeOK, ClaimUpdate, ClaimAdmits, Status
  <2>4. /\ fresh' \in [Jobs -> BOOLEAN]
        /\ claims' \in [Jobs -> Nat]
        /\ selected' \in [Runners -> SUBSET Jobs]
    BY <1>8 DEF TypeInv, TypeOK, ClaimUpdate
  <2>5. AttemptsLeft' /\ NewRows'
    BY <1>8, <2>2, <2>3 DEF TypeInv, TypeOK, AttemptsLeft, NewRows, ClaimUpdate, Active
  <2>. QED
    BY <1>8, <2>2, <2>3, <2>4, <2>5 DEF TypeInv, TypeOK, ClaimUpdate, faults
<1>9. ASSUME NEW r \in Runners, ClaimAborts(r) PROVE TypeInv'
  BY <1>9 DEF TypeInv, TypeOK, AttemptsLeft, NewRows, ClaimAborts, row
<1>10. ASSUME NEW r \in Runners, RequeueStaleJobs(r) PROVE TypeInv'
  <2>1. /\ status' \in [Jobs -> Status]
        /\ \A j \in Jobs : status'[j] # status[j] =>
              status[j] = "running" /\ status'[j] = "queued"
    BY <1>10 DEF TypeInv, TypeOK, RequeueStaleJobs, Stale, Status
  <2>2. due' \in [Jobs -> BOOLEAN] /\ requeues' \in [Jobs -> Nat]
    BY <1>10 DEF TypeInv, TypeOK, RequeueStaleJobs
  <2>3. AttemptsLeft' /\ NewRows'
    BY <1>10, <2>1 DEF TypeInv, TypeOK, AttemptsLeft, NewRows, RequeueStaleJobs, Active
  <2>. QED
    BY <1>10, <2>1, <2>2, <2>3 DEF TypeInv, TypeOK, RequeueStaleJobs, faults
<1>11. ASSUME NEW r \in Runners, Crash(r) PROVE TypeInv'
  BY <1>11 DEF TypeInv, TypeOK, AttemptsLeft, NewRows, Crash, row
<1>12. ASSUME NEW r \in Runners, Start(r) PROVE TypeInv'
  BY <1>12 DEF TypeInv, TypeOK, AttemptsLeft, NewRows, Start, row, faults
<1>13. ASSUME NEW e \in execs, Dispatch(e) PROVE TypeInv'
  <2>1. e \in Exec /\ e.attempts < MaxRetry
    BY DEF TypeInv, TypeOK, AttemptsLeft, NewRows
  <2>2. /\ [e EXCEPT !.phase = "running"] \in Exec
        /\ [e EXCEPT !.phase = "running"].attempts < MaxRetry
    BY <2>1 DEF Exec
  <2>. QED
    BY <1>13, <2>2, Zenon DEF TypeInv, TypeOK, AttemptsLeft, NewRows, Dispatch, row, faults
<1>14. ASSUME NEW e \in execs, DispatchRefused(e) PROVE TypeInv'
  BY <1>14, OutcomesTyped DEF TypeInv, TypeOK, AttemptsLeft, NewRows, DispatchRefused, faults
<1>15. ASSUME NEW e \in execs, SettleSuccess(e) PROVE TypeInv'
  BY <1>15, OutcomesTyped DEF TypeInv, TypeOK, AttemptsLeft, NewRows, SettleSuccess, faults
<1>16. ASSUME NEW e \in execs, SettleError(e) PROVE TypeInv'
  BY <1>16, OutcomesTyped DEF TypeInv, TypeOK, AttemptsLeft, NewRows, SettleError, faults
<1>17. ASSUME NEW e \in execs, OutcomeLost(e) PROVE TypeInv'
  BY <1>17 DEF TypeInv, TypeOK, AttemptsLeft, NewRows, OutcomeLost, row
<1>18. ASSUME NEW e \in execs, HeartbeatJob(e) PROVE TypeInv'
  BY <1>18 DEF TypeInv, TypeOK, AttemptsLeft, NewRows, HeartbeatJob, row, faults, Exec
<1>19. CASE UNCHANGED vars
  BY <1>19 DEF TypeInv, TypeOK, AttemptsLeft, NewRows, vars
<1>. QED
  BY <1>1, <1>2, <1>3, <1>4, <1>5, <1>6, <1>7, <1>8, <1>9, <1>10, <1>11, <1>12,
     <1>13, <1>14, <1>15, <1>16, <1>17, <1>18, <1>19 DEF Next

(***************************************************************************)
(* Type correctness of the queue.                                          *)
(***************************************************************************)
THEOREM TypeCorrect == Spec => []TypeOK
<1>1. TypeInv => TypeOK
  BY DEF TypeInv
<1>. QED  BY <1>1, TypeInvInit, TypeInvNext, PTL DEF Spec

(***************************************************************************)
(* No job is queued, running or held by a runner once its attempts are     *)
(* used up, for every number of runners, crashes, stalls and lost writes.  *)
(***************************************************************************)
THEOREM AttemptsAreBounded == Spec => []AttemptsLeft
<1>1. TypeInv => AttemptsLeft
  BY DEF TypeInv
<1>. QED  BY <1>1, TypeInvInit, TypeInvNext, PTL DEF Spec

-----------------------------------------------------------------------------
\* What ends a claim's hold on the row: the claim leaves memory, and the row
\* is the only one written.
Ends(e) == /\ execs' = execs \ {e}
           /\ \A j \in Jobs : j # e.job => status'[j] = status[j]
           /\ UNCHANGED <<fresh, claims, stalls>>

LEMMA OutcomesEnd ==
    ASSUME TypeInv, NEW e \in execs,
           DispatchRefused(e) \/ SettleSuccess(e) \/ SettleError(e) \/ OutcomeLost(e)
    PROVE  Ends(e)
<1>1. e.job \in Jobs
  BY DEF TypeInv, TypeOK, Exec
<1>2. CASE OutcomeLost(e)
  BY <1>2 DEF OutcomeLost, Ends, row
<1>3. CASE DispatchRefused(e)
  BY <1>1, <1>3 DEF DispatchRefused, FailJob, WriteOutcome, Ends, row, faults, TypeInv, TypeOK
<1>4. CASE SettleSuccess(e)
  BY <1>1, <1>4 DEF SettleSuccess, CompleteJob, WriteOutcome, Ends, row, faults, TypeInv, TypeOK
<1>5. CASE SettleError(e)
  <2>1. CASE RetriesLeft(e.attempts + 1)
    BY <1>1, <1>5, <2>1 DEF SettleError, RetryJob, WriteOutcome, Ends, row, faults, TypeInv, TypeOK
  <2>2. CASE ~RetriesLeft(e.attempts + 1)
    BY <1>1, <1>5, <2>2 DEF SettleError, FailJob, WriteOutcome, Ends, row, faults, TypeInv, TypeOK
  <2>. QED  BY <2>1, <2>2
<1>. QED  BY <1>2, <1>3, <1>4, <1>5

\* Without stalls, an end leaves the other claims, which are of other jobs,
\* as they were.
LEMMA EndsKeepExclusive ==
    ASSUME TypeInv, ExclusiveInv, NEW e \in execs, Ends(e)
    PROVE  ExclusiveInv'
BY DEF TypeInv, TypeOK, ExclusiveInv, ClaimsAreExclusive, LeaseHeld, Ends, Exec

\* A step that leaves the claims in memory and the running rows alone.
Apart == /\ execs' \subseteq execs
         /\ \A j \in Jobs : status[j] = "running" /\ ExecsOf(j) # {} =>
                /\ status'[j] = status[j]
                /\ claims'[j] = claims[j]
                /\ fresh[j] => fresh'[j]
         /\ stalls' = 0 => stalls = 0

LEMMA ApartKeepsExclusive ==
    ASSUME TypeInv, ExclusiveInv, Apart
    PROVE  ExclusiveInv'
<1>. SUFFICES ASSUME stalls' = 0
              PROVE  /\ \A e \in execs' : status'[e.job] = "running" /\ e.claim = claims'[e.job]
                     /\ \A e, f \in execs' : e.job = f.job => e = f
                     /\ \A e \in execs' : fresh'[e.job]
  BY DEF ExclusiveInv, ClaimsAreExclusive, LeaseHeld
<1>1. \A e \in execs : e.job \in Jobs /\ ExecsOf(e.job) # {}
  BY DEF TypeInv, TypeOK, Exec, ExecsOf
<1>. QED
  BY <1>1 DEF ExclusiveInv, ClaimsAreExclusive, LeaseHeld, Apart

LEMMA ExclusiveInit == Init => ExclusiveInv
BY DEF Init, ExclusiveInv, ClaimsAreExclusive, LeaseHeld

LEMMA ExclusiveNext == TypeInv /\ ExclusiveInv /\ [Next]_vars => ExclusiveInv'
<1>. SUFFICES ASSUME TypeInv, ExclusiveInv, [Next]_vars PROVE ExclusiveInv'
  OBVIOUS
<1>1. ASSUME NEW j \in Jobs, EnqueueJob(j) PROVE Apart
  BY <1>1 DEF EnqueueJob, Apart, faults, TypeInv, TypeOK
<1>2. ASSUME NEW j \in Jobs, RunAfterPasses(j) PROVE Apart
  BY <1>2 DEF RunAfterPasses, Apart, faults
<1>3. ASSUME NEW j \in Jobs, ResetFailedJobByKey(j) PROVE Apart
  BY <1>3 DEF ResetFailedJobByKey, Apart, faults, TypeInv, TypeOK
<1>4. ASSUME NEW j \in Jobs, PurgeTerminalJobsBefore(j) PROVE Apart
  BY <1>4 DEF PurgeTerminalJobsBefore, Apart, TypeInv, TypeOK, Settled
<1>5. ASSUME NEW j \in Jobs, LeaseExpires(j) PROVE ExclusiveInv'
  <2>1. CASE ExecsOf(j) = {}
    BY <1>5, <2>1, ApartKeepsExclusive DEF LeaseExpires, Apart, row, TypeInv, TypeOK
  <2>2. CASE ExecsOf(j) # {}
    <3>1. stalls' # 0
      BY <1>5, <2>2, BoundsAssumption DEF LeaseExpires, TypeInv, TypeOK
    <3>. QED
      BY <3>1 DEF ExclusiveInv, ClaimsAreExclusive, LeaseHeld
  <2>. QED  BY <2>1, <2>2
<1>6. ASSUME NEW js \in SUBSET Jobs, CancelQueuedJobsWithPayload(js) PROVE Apart
  BY <1>6 DEF CancelQueuedJobsWithPayload, Queued, Apart, faults, TypeInv, TypeOK
<1>7. ASSUME NEW r \in Runners, ClaimSelect(r) \/ ClaimAborts(r) \/ Start(r) \/ Crash(r)
      PROVE Apart
  BY <1>7 DEF ClaimSelect, ClaimAborts, Start, Crash, Apart, row, faults
<1>8. ASSUME NEW r \in Runners, ClaimUpdate(r) PROVE ExclusiveInv'
  <2>. SUFFICES ASSUME stalls = 0
                PROVE  /\ \A e \in execs' : status'[e.job] = "running" /\ e.claim = claims'[e.job]
                       /\ \A e, f \in execs' : e.job = f.job => e = f
                       /\ \A e \in execs' : fresh'[e.job]
    BY <1>8 DEF ExclusiveInv, ClaimsAreExclusive, LeaseHeld, ClaimUpdate, faults
  <2>. DEFINE got == {j \in selected[r] : ClaimAdmits(j)}
  <2>1. got \subseteq Jobs /\ \A j \in got : status[j] = "queued"
    BY DEF ClaimAdmits, TypeInv, TypeOK
  <2>2. execs' = execs \cup {NewExec(r, j) : j \in got}
    BY <1>8 DEF ClaimUpdate
  <2>3. \A e \in execs : e.job \in Jobs /\ e.job \notin got
    BY <2>1 DEF ExclusiveInv, ClaimsAreExclusive, TypeInv, TypeOK, Exec
  <2>4. \A j \in Jobs :
           /\ j \in got => status'[j] = "running" /\ fresh'[j] /\ claims'[j] = claims[j] + 1
           /\ j \notin got => status'[j] = status[j] /\ fresh'[j] = fresh[j] /\ claims'[j] = claims[j]
    BY <1>8, Zenon DEF ClaimUpdate, TypeInv, TypeOK
  <2>5. \A j \in got : NewExec(r, j).job = j /\ NewExec(r, j).claim = claims[j] + 1
    BY Zenon DEF NewExec
  <2>. HIDE DEF got
  <2>6. \A e \in execs' : \/ e \in execs /\ e.job \in Jobs \ got
                          \/ e.job \in got /\ e = NewExec(r, e.job)
    BY <2>2, <2>3, <2>5
  <2>7. \A e \in execs : status[e.job] = "running" /\ e.claim = claims[e.job] /\ fresh[e.job]
    BY DEF ExclusiveInv, ClaimsAreExclusive, LeaseHeld
  <2>8. \A e, f \in execs' : e.job = f.job => e = f
    BY <2>6 DEF ExclusiveInv, ClaimsAreExclusive
  <2>9. \A e \in execs' : status'[e.job] = "running" /\ e.claim = claims'[e.job] /\ fresh'[e.job]
    BY <2>1, <2>4, <2>5, <2>6, <2>7
  <2>. QED  BY <2>8, <2>9
<1>9. ASSUME NEW r \in Runners, RequeueStaleJobs(r) PROVE ExclusiveInv'
  <2>1. stalls = 0 => \A e \in execs : e.job \in Jobs \ Stale
    BY DEF ExclusiveInv, LeaseHeld, Stale, TypeInv, TypeOK, Exec
  <2>2. \A j \in Jobs \ Stale : status'[j] = status[j]
    BY <1>9 DEF RequeueStaleJobs
  <2>. QED
    BY <1>9, <2>1, <2>2 DEF ExclusiveInv, ClaimsAreExclusive, LeaseHeld, RequeueStaleJobs, faults
<1>10. ASSUME NEW e \in execs, Dispatch(e) PROVE ExclusiveInv'
  <2>. DEFINE d == [e EXCEPT !.phase = "running"]
  <2>1. d.job = e.job /\ d.claim = e.claim
    BY DEF TypeInv, TypeOK, Exec
  <2>2. \A f \in execs' : f = d \/ (f \in execs /\ f # e)
    BY <1>10 DEF Dispatch
  <2>. HIDE DEF d
  <2>3. UNCHANGED <<status, claims, fresh, stalls>>
    BY <1>10 DEF Dispatch, row, faults
  <2>. QED
    BY <2>1, <2>2, <2>3 DEF ExclusiveInv, ClaimsAreExclusive, LeaseHeld
<1>11. ASSUME NEW e \in execs,
              DispatchRefused(e) \/ SettleSuccess(e) \/ SettleError(e) \/ OutcomeLost(e)
       PROVE ExclusiveInv'
  BY <1>11, OutcomesEnd, EndsKeepExclusive
<1>12. ASSUME NEW e \in execs, HeartbeatJob(e) PROVE Apart
  BY <1>12 DEF HeartbeatJob, Apart, row, faults, TypeInv, TypeOK
<1>13. ASSUME UNCHANGED vars PROVE Apart
  BY <1>13 DEF vars, Apart
<1>. QED
  BY <1>1, <1>2, <1>3, <1>4, <1>5, <1>6, <1>7, <1>8, <1>9, <1>10, <1>11, <1>12, <1>13,
     ApartKeepsExclusive DEF Next

(***************************************************************************)
(* Claims are exclusive until a lease expires under a live execution.      *)
(***************************************************************************)
THEOREM ClaimsExclusive == Spec => []ClaimsAreExclusive
<1>1. ExclusiveInv => ClaimsAreExclusive
  BY DEF ExclusiveInv
<1>. QED
  BY <1>1, TypeInvInit, TypeInvNext, ExclusiveInit, ExclusiveNext, PTL DEF Spec

-----------------------------------------------------------------------------
(***************************************************************************)
(* A settled row is changed only by a reset of a failed row and by         *)
(* retention: every other write is guarded by the status it expects.       *)
(***************************************************************************)
SettledRowKept(j) ==
    \/ status'[j] = status[j] /\ attempts'[j] = attempts[j]
    \/ status'[j] = "absent"
    \/ status[j] = "failed" /\ status'[j] = "queued" /\ attempts'[j] = 0

LEMMA OutcomesKeepSettled ==
    ASSUME TypeInv, NEW k \in Jobs, NEW s, NEW n, NEW d, WriteOutcome(k, s, n, d),
           NEW j \in Jobs, status[j] \in Settled
    PROVE  status'[j] = status[j] /\ attempts'[j] = attempts[j]
BY DEF WriteOutcome, OutcomeAdmits, row, TypeInv, TypeOK, Settled

LEMMA StepsKeepSettled ==
    ASSUME TypeInv, Next, NEW j \in Jobs, status[j] \in Settled
    PROVE  SettledRowKept(j)
<1>1. ASSUME NEW k \in Jobs, EnqueueJob(k) \/ RunAfterPasses(k) \/ LeaseExpires(k)
      PROVE  SettledRowKept(j)
  BY <1>1 DEF EnqueueJob, RunAfterPasses, LeaseExpires, row, SettledRowKept, Settled, TypeInv, TypeOK
<1>2. ASSUME NEW k \in Jobs, ResetFailedJobByKey(k) \/ PurgeTerminalJobsBefore(k)
      PROVE  SettledRowKept(j)
  BY <1>2 DEF ResetFailedJobByKey, PurgeTerminalJobsBefore, SettledRowKept, TypeInv, TypeOK
<1>3. ASSUME NEW js \in SUBSET Jobs, CancelQueuedJobsWithPayload(js)
      PROVE  SettledRowKept(j)
  BY <1>3 DEF CancelQueuedJobsWithPayload, Queued, SettledRowKept, Settled, TypeInv, TypeOK
<1>4. ASSUME NEW r \in Runners, ClaimUpdate(r)
      PROVE  SettledRowKept(j)
  BY <1>4 DEF ClaimUpdate, ClaimAdmits, SettledRowKept, Settled, TypeInv, TypeOK
<1>5. ASSUME NEW r \in Runners, RequeueStaleJobs(r)
      PROVE  SettledRowKept(j)
  BY <1>5 DEF RequeueStaleJobs, Stale, SettledRowKept, Settled, TypeInv, TypeOK
<1>6. ASSUME NEW r \in Runners, ClaimSelect(r) \/ ClaimAborts(r) \/ Crash(r) \/ Start(r)
      PROVE  SettledRowKept(j)
  BY <1>6 DEF ClaimSelect, ClaimAborts, Crash, Start, row, SettledRowKept
<1>7. ASSUME NEW e \in execs, Dispatch(e) \/ OutcomeLost(e) \/ HeartbeatJob(e)
      PROVE  SettledRowKept(j)
  BY <1>7 DEF Dispatch, OutcomeLost, HeartbeatJob, row, SettledRowKept
<1>8. ASSUME NEW e \in execs, DispatchRefused(e) \/ SettleSuccess(e) \/ SettleError(e)
      PROVE  SettledRowKept(j)
  <2>1. e.job \in Jobs
    BY DEF TypeInv, TypeOK, Exec
  <2>2. \E s, n, d : WriteOutcome(e.job, s, n, d)
    BY <1>8, Zenon DEF DispatchRefused, SettleSuccess, SettleError, CompleteJob, RetryJob, FailJob
  <2>. QED
    BY <2>1, <2>2, OutcomesKeepSettled, Zenon DEF SettledRowKept
<1>. QED
  BY <1>1, <1>2, <1>3, <1>4, <1>5, <1>6, <1>7, <1>8 DEF Next

(***************************************************************************)
(* No interleaving of stale outcome writes, claims and requeues revives a  *)
(* settled job.                                                            *)
(***************************************************************************)
THEOREM SettledStays == Spec => SettledIsFinal
<1>1. TypeInv /\ [Next]_vars =>
        [\A j \in Jobs : status[j] \in Settled =>
          \/ status'[j] = status[j] /\ attempts'[j] = attempts[j]
          \/ status'[j] = "absent"
          \/ status[j] = "failed" /\ status'[j] = "queued" /\ attempts'[j] = 0]_vars
  BY StepsKeepSettled DEF SettledRowKept
<1>. QED
  BY <1>1, TypeInvInit, TypeInvNext, PTL DEF Spec, SettledIsFinal

-----------------------------------------------------------------------------
(***************************************************************************)
(* ClaimBudget.  A claim is one place of a series: the row was queued with *)
(* some attempts, and the claims that follow by retries have one attempt   *)
(* more each.  Slots(j) is the set of places that are still open: those of *)
(* the series the queued row belongs to, written with 0, and those after   *)
(* every claim in memory, written with the claim's number.  Executions of  *)
(* one job may overlap, so there may be several series with open places; a *)
(* claim takes one place, a retry hands its series back to the row, and    *)
(* only a new row, a requeue or a reset opens a series, of at most         *)
(* MaxRetry places.                                                        *)
(***************************************************************************)
Slots(j) ==
    {p \in (0..claims[j]) \X (0..(MaxRetry - 1)) :
        \/ p[1] = 0 /\ status[j] = "queued" /\ attempts[j] <= p[2]
        \/ \E e \in ExecsOf(j) : p[1] = e.claim /\ e.attempts < p[2]}

Budgeted(j) ==
    claims[j] + Cardinality(Slots(j)) <= MaxRetry * (1 + requeues[j] + resets[j])

\* The number of a claim identifies it among the claims of its row, and a row
\* that does not exist has not been claimed.
ClaimIds ==
    /\ \A e \in execs : e.claim \in 1..claims[e.job]
    /\ \A e, f \in execs : e.job = f.job /\ e.claim = f.claim => e = f
    /\ \A j \in Jobs : status[j] = "absent" => claims[j] = 0

LEMMA ClaimIdsInit == Init => ClaimIds
BY DEF Init, ClaimIds

LEMMA ClaimIdsNext == TypeInv /\ ClaimIds /\ [Next]_vars => ClaimIds'
<1>. SUFFICES ASSUME TypeInv, ClaimIds, [Next]_vars PROVE ClaimIds'
  OBVIOUS
<1>1. ASSUME execs' \subseteq execs, claims' = claims,
             \A j \in Jobs : status'[j] = "absent" => status[j] = "absent"
      PROVE  ClaimIds'
  BY <1>1 DEF ClaimIds
<1>2. ASSUME NEW j \in Jobs, EnqueueJob(j) \/ RunAfterPasses(j) \/ LeaseExpires(j)
                             \/ ResetFailedJobByKey(j)
      PROVE  ClaimIds'
  BY <1>1, <1>2 DEF EnqueueJob, RunAfterPasses, LeaseExpires, ResetFailedJobByKey, row, TypeInv, TypeOK
<1>3. ASSUME NEW j \in Jobs, PurgeTerminalJobsBefore(j) PROVE ClaimIds'
  <2>1. \A e \in execs : e.job \in Jobs /\ e.job # j
    BY <1>3 DEF PurgeTerminalJobsBefore, ExecsOf, TypeInv, TypeOK, Exec
  <2>2. /\ execs' = execs
        /\ \A k \in Jobs : IF k = j THEN claims'[k] = 0
                           ELSE claims'[k] = claims[k] /\ status'[k] = status[k]
    BY <1>3 DEF PurgeTerminalJobsBefore, TypeInv, TypeOK
  <2>. QED  BY <2>1, <2>2 DEF ClaimIds
<1>4. ASSUME NEW js \in SUBSET Jobs, CancelQueuedJobsWithPayload(js) PROVE ClaimIds'
  BY <1>1, <1>4 DEF CancelQueuedJobsWithPayload
<1>5. ASSUME NEW r \in Runners, ClaimSelect(r) \/ ClaimAborts(r) \/ Crash(r) \/ Start(r)
      PROVE  ClaimIds'
  BY <1>1, <1>5 DEF ClaimSelect, ClaimAborts, Crash, Start, row
<1>6. ASSUME NEW r \in Runners, RequeueStaleJobs(r) PROVE ClaimIds'
  BY <1>1, <1>6 DEF RequeueStaleJobs
<1>7. ASSUME NEW r \in Runners, ClaimUpdate(r) PROVE ClaimIds'
  <2>. DEFINE got == {j \in selected[r] : ClaimAdmits(j)}
  <2>1. got \subseteq Jobs /\ execs' = execs \cup {NewExec(r, j) : j \in got}
    BY <1>7 DEF ClaimUpdate, TypeInv, TypeOK
  <2>2. \A j \in Jobs :
           /\ claims[j] \in Nat
           /\ j \in got => status'[j] = "running" /\ claims'[j] = claims[j] + 1
           /\ j \notin got => status'[j] = status[j] /\ claims'[j] = claims[j]
    BY <1>7 DEF ClaimUpdate, TypeInv, TypeOK
  <2>. HIDE DEF got
  <2>3. \A j \in got : NewExec(r, j).job = j /\ NewExec(r, j).claim = claims[j] + 1
    BY DEF NewExec
  <2>4. \A e \in execs : e.job \in Jobs /\ e.claim \in 1..claims[e.job]
    BY DEF ClaimIds, TypeInv, TypeOK, Exec
  <2>5. \A e \in execs' : \/ e \in execs
                          \/ e.job \in got /\ e = NewExec(r, e.job) /\ e.claim = claims[e.job] + 1
    BY <2>1, <2>3
  <2>6. \A e \in execs' : e.claim \in 1..claims'[e.job]
    BY <2>1, <2>2, <2>4, <2>5
  <2>7. ASSUME NEW e \in execs', NEW f \in execs', e.job = f.job, e.claim = f.claim
        PROVE  e = f
    BY <2>1, <2>2, <2>4, <2>5, <2>7 DEF ClaimIds
  <2>8. \A j \in Jobs : status'[j] = "absent" => claims'[j] = 0
    BY <2>2 DEF ClaimIds
  <2>. QED  BY <2>6, <2>7, <2>8 DEF ClaimIds
<1>8. ASSUME NEW e \in execs, Dispatch(e) PROVE ClaimIds'
  <2>. DEFINE d == [e EXCEPT !.phase = "running"]
  <2>1. d.job = e.job /\ d.claim = e.claim
    BY DEF TypeInv, TypeOK, Exec
  <2>2. \A f \in execs' : f = d \/ (f \in execs /\ f # e)
    BY <1>8 DEF Dispatch
  <2>. HIDE DEF d
  <2>3. UNCHANGED <<status, claims>>
    BY <1>8 DEF Dispatch, row
  <2>. QED  BY <2>1, <2>2, <2>3 DEF ClaimIds
<1>9. ASSUME NEW e \in execs, HeartbeatJob(e) \/ OutcomeLost(e) PROVE ClaimIds'
  BY <1>1, <1>9 DEF HeartbeatJob, OutcomeLost, row
<1>10. ASSUME NEW e \in execs, DispatchRefused(e) \/ SettleSuccess(e) \/ SettleError(e)
       PROVE  ClaimIds'
  <2>1. execs' = execs \ {e} /\ claims' = claims
    BY <1>10 DEF DispatchRefused, SettleSuccess, SettleError
  <2>2. \A j \in Jobs : status'[j] = "absent" => status[j] = "absent"
    BY <1>10 DEF DispatchRefused, SettleSuccess, SettleError, CompleteJob, RetryJob, FailJob,
       WriteOutcome, row, TypeInv, TypeOK
  <2>. QED  BY <1>1, <2>1, <2>2
<1>11. CASE UNCHANGED vars
  BY <1>1, <1>11 DEF vars
<1>. QED
  BY <1>2, <1>3, <1>4, <1>5, <1>6, <1>7, <1>8, <1>9, <1>10, <1>11 DEF Next

\* Pairs that are renamed from a to b are not counted more often than before.
LEMMA RenamedCount ==
    ASSUME NEW S, NEW T, IsFiniteSet(T), NEW a, NEW b,
           \A p \in S : p = <<p[1], p[2]>>,
           \A p \in S : p[1] # a => p \in T /\ p[1] # b,
           \A p \in S : p[1] = a => <<b, p[2]>> \in T
    PROVE  Cardinality(S) <= Cardinality(T) /\ Cardinality(S) \in Nat
<1>. DEFINE f == [p \in S |-> IF p[1] = a THEN <<b, p[2]>> ELSE p]
<1>1. f \in [S -> T]
  OBVIOUS
<1>2. ASSUME NEW p \in S, NEW q \in S, f[p] = f[q] PROVE p = q
  <2>1. CASE p[1] = a /\ q[1] = a
    <3>1. <<b, p[2]>> = <<b, q[2]>>
      BY <1>2, <2>1
    <3>. QED  BY <2>1, <3>1
  <2>2. CASE p[1] # a /\ q[1] # a
    BY <1>2, <2>2
  <2>3. CASE p[1] = a /\ q[1] # a
    BY <1>2, <2>3
  <2>4. CASE p[1] # a /\ q[1] = a
    BY <1>2, <2>4
  <2>. QED  BY <2>1, <2>2, <2>3, <2>4
<1>3. f \in Injection(S, T)
  BY <1>1, <1>2 DEF Injection, IsInjective
<1>. HIDE DEF f
<1>4. Cardinality(S) <= Cardinality(T) /\ IsFiniteSet(S)
  BY <1>3, FS_Injection
<1>. QED  BY <1>4, FS_CardinalityType

LEMMA SlotsFinite ==
    ASSUME TypeInv, NEW j \in Jobs
    PROVE  /\ IsFiniteSet(Slots(j))
           /\ Cardinality(Slots(j)) \in Nat
<1>1. claims[j] \in Nat /\ MaxRetry \in Nat
  BY MaxRetryAssumption DEF TypeInv, TypeOK
<1>2. IsFiniteSet(0..claims[j]) /\ IsFiniteSet(0..(MaxRetry - 1))
  BY <1>1, FS_Interval
<1>3. IsFiniteSet((0..claims[j]) \X (0..(MaxRetry - 1)))
  BY <1>2, FS_Product, Zenon
<1>4. Slots(j) \in SUBSET ((0..claims[j]) \X (0..(MaxRetry - 1)))
  BY DEF Slots
<1>5. IsFiniteSet(Slots(j))
  BY <1>3, <1>4, FS_Subset
<1>. QED  BY <1>5, FS_CardinalityType

\* A new series has MaxRetry places.
LEMMA NewSeries ==
    /\ IsFiniteSet({0} \X (0..(MaxRetry - 1)))
    /\ Cardinality({0} \X (0..(MaxRetry - 1))) = MaxRetry
<1>1. IsFiniteSet({0}) /\ Cardinality({0}) = 1
  BY FS_Singleton
<1>2. IsFiniteSet(0..(MaxRetry - 1)) /\ Cardinality(0..(MaxRetry - 1)) = MaxRetry
  BY MaxRetryAssumption, FS_Interval
<1>. QED  BY <1>1, <1>2, MaxRetryAssumption, FS_Product

\* A step that opens no place and claims nothing keeps the row in its budget.
LEMMA FewerSlots ==
    ASSUME TypeInv, NEW j \in Jobs, Budgeted(j), claims'[j] = claims[j],
           requeues'[j] = requeues[j], resets'[j] = resets[j],
           Cardinality(Slots(j)') \in Nat,
           Cardinality(Slots(j)') <= Cardinality(Slots(j))
    PROVE  Budgeted(j)'
<1>. DEFINE budget == MaxRetry * (1 + requeues[j] + resets[j])
<1>1. budget \in Nat /\ claims[j] \in Nat
  BY MaxRetryAssumption DEF TypeInv, TypeOK
<1>2. MaxRetry * (1 + requeues'[j] + resets'[j]) = budget
  BY Zenon
<1>3. claims[j] + Cardinality(Slots(j)) <= budget
  BY Zenon DEF Budgeted
<1>. HIDE DEF budget
<1>4. Cardinality(Slots(j)) \in Nat
  BY SlotsFinite
<1>5. claims[j] + Cardinality(Slots(j)') <= budget
  BY <1>1, <1>3, <1>4
<1>. QED  BY <1>2, <1>5 DEF Budgeted

\* Nothing happens to the series of j: a claim that is still in memory was
\* there before, and the row is not queued anew.
Idle(j) ==
    /\ claims'[j] = claims[j] /\ requeues'[j] = requeues[j] /\ resets'[j] = resets[j]
    /\ status'[j] = "queued" => status[j] = "queued" /\ attempts'[j] = attempts[j]
    /\ \A e \in ExecsOf(j)' : \E f \in ExecsOf(j) : f.claim = e.claim /\ f.attempts = e.attempts

LEMMA IdleKeepsBudget ==
    ASSUME TypeInv, TypeInv', NEW j \in Jobs, Budgeted(j), Idle(j)
    PROVE  Budgeted(j)'
<1>1. Slots(j)' \in SUBSET Slots(j)
  BY DEF Slots, Idle
<1>2. Cardinality(Slots(j)') <= Cardinality(Slots(j))
  BY <1>1, SlotsFinite, FS_Subset
<1>3. Cardinality(Slots(j)') \in Nat
  <2>1. IsFiniteSet(Slots(j)')
    BY <1>1, SlotsFinite, FS_Subset
  <2>. QED  BY <2>1, FS_CardinalityType
<1>4. claims'[j] = claims[j] /\ requeues'[j] = requeues[j] /\ resets'[j] = resets[j]
  BY DEF Idle
<1>. QED  BY <1>2, <1>3, <1>4, FewerSlots, Zenon

\* The row is queued anew, by a requeue or a reset.
Opens(j) ==
    /\ claims'[j] = claims[j]
    /\ requeues'[j] + resets'[j] = requeues[j] + resets[j] + 1
    /\ ExecsOf(j)' = ExecsOf(j)

LEMMA OpensKeepsBudget ==
    ASSUME TypeInv, TypeInv', NEW j \in Jobs, Budgeted(j), Opens(j)
    PROVE  Budgeted(j)'
<1>. DEFINE New == {0} \X (0..(MaxRetry - 1))
<1>. USE MaxRetryAssumption
<1>1. IsFiniteSet(New) /\ Cardinality(New) = MaxRetry
  BY NewSeries
<1>2. Slots(j)' \in SUBSET (Slots(j) \cup New)
  BY DEF Slots, Opens
<1>. HIDE DEF New
<1>3. /\ IsFiniteSet(Slots(j) \cup New)
      /\ Cardinality(Slots(j) \cup New)
           = Cardinality(Slots(j)) + Cardinality(New) - Cardinality(Slots(j) \cap New)
  BY <1>1, SlotsFinite, FS_Union
<1>4. Cardinality(Slots(j) \cap New) \in Nat
  <2>1. IsFiniteSet(Slots(j) \cap New)
    BY SlotsFinite, FS_Intersection
  <2>. QED  BY <2>1, FS_CardinalityType
<1>5. /\ Cardinality(Slots(j)') <= Cardinality(Slots(j) \cup New)
      /\ IsFiniteSet(Slots(j)')
  BY <1>2, <1>3, FS_Subset
<1>6. Cardinality(Slots(j)') \in Nat /\ Cardinality(Slots(j)) \in Nat
  BY <1>5, SlotsFinite, FS_CardinalityType
<1>7. Cardinality(Slots(j)') <= Cardinality(Slots(j)) + MaxRetry
  BY <1>1, <1>3, <1>4, <1>5, <1>6
<1>8. \A x, y \in Nat : MaxRetry * (1 + x + y + 1) = MaxRetry * (1 + x + y) + MaxRetry
  OBVIOUS
<1>9. /\ claims[j] \in Nat /\ requeues[j] \in Nat /\ resets[j] \in Nat
      /\ requeues'[j] \in Nat /\ resets'[j] \in Nat
  BY DEF TypeInv, TypeOK
<1>10. MaxRetry * (1 + requeues'[j] + resets'[j])
         = MaxRetry * (1 + requeues[j] + resets[j]) + MaxRetry
  <2>0. requeues'[j] + resets'[j] = requeues[j] + resets[j] + 1
    BY DEF Opens
  <2>1. 1 + requeues'[j] + resets'[j] = 1 + requeues[j] + resets[j] + 1
    BY ONLY <1>9, <2>0
  <2>2. MaxRetry * (1 + requeues[j] + resets[j] + 1)
          = MaxRetry * (1 + requeues[j] + resets[j]) + MaxRetry
    BY <1>8, <1>9, Zenon
  <2>. QED  BY ONLY <2>1, <2>2, Zenon
<1>11. MaxRetry * (1 + requeues[j] + resets[j]) \in Nat
  BY <1>9
<1>. QED  BY <1>6, <1>7, <1>9, <1>10, <1>11 DEF Budgeted, Opens

\* A row that has not been claimed has no claim in memory: its places are
\* those of one series.
LEMMA FirstSeries ==
    ASSUME NEW S \in SUBSET ({0} \X (0..(MaxRetry - 1))), NEW x \in Nat, NEW y \in Nat
    PROVE  0 + Cardinality(S) <= MaxRetry * (1 + x + y)
<1>1. Cardinality(S) <= MaxRetry /\ IsFiniteSet(S)
  BY NewSeries, FS_Subset
<1>2. Cardinality(S) \in Nat
  BY <1>1, FS_CardinalityType
<1>3. MaxRetry * (1 + x + y) = MaxRetry + MaxRetry * x + MaxRetry * y
  BY MaxRetryAssumption
<1>4. MaxRetry * x \in Nat /\ MaxRetry * y \in Nat
  BY MaxRetryAssumption
<1>. QED  BY <1>1, <1>2, <1>3, <1>4, MaxRetryAssumption

\* The open places of a queued row, and those after a claim.
LEMMA RowSlot ==
    ASSUME NEW j, claims[j] \in Nat, status[j] = "queued",
           NEW k \in 0..(MaxRetry - 1), attempts[j] <= k
    PROVE  <<0, k>> \in Slots(j)
BY DEF Slots

LEMMA ClaimSlot ==
    ASSUME NEW j, claims[j] \in Nat, NEW e \in ExecsOf(j), e.claim \in 1..claims[j],
           NEW k \in 0..(MaxRetry - 1), e.attempts < k
    PROVE  <<e.claim, k>> \in Slots(j)
BY DEF Slots

\* A claim takes the row's place and continues its series.
LEMMA ClaimKeepsBudget ==
    ASSUME TypeInv, TypeInv', ClaimIds, NEW j \in Jobs, Budgeted(j),
           status[j] = "queued", status'[j] = "running", claims'[j] = claims[j] + 1,
           requeues'[j] = requeues[j], resets'[j] = resets[j],
           \A e \in ExecsOf(j)' : \/ e \in ExecsOf(j)
                                  \/ e.claim = claims[j] + 1 /\ e.attempts = attempts[j]
    PROVE  Budgeted(j)'
<1>. DEFINE place == <<0, attempts[j]>>
            T == Slots(j) \ {place}
<1>1. /\ claims[j] \in Nat /\ attempts[j] \in 0..(MaxRetry - 1)
      /\ \A e \in ExecsOf(j) : e.claim \in 1..claims[j]
  BY MaxRetryAssumption DEF TypeInv, TypeOK, AttemptsLeft, Active, ClaimIds, ExecsOf
<1>2. place \in Slots(j)
  <2>1. attempts[j] <= attempts[j]
    BY ONLY <1>1, MaxRetryAssumption
  <2>. QED  BY <1>1, <2>1, RowSlot, Zenon
<1>3. IsFiniteSet(T) /\ Cardinality(T) = Cardinality(Slots(j)) - 1
  BY <1>2, SlotsFinite, FS_RemoveElement
<1>4. ASSUME NEW p \in Slots(j)'
      PROVE  /\ p = <<p[1], p[2]>> /\ p[2] \in 0..(MaxRetry - 1)
             /\ p[1] # claims[j] + 1 => p \in T /\ p[1] # 0
             /\ p[1] = claims[j] + 1 => <<0, p[2]>> \in T
  <2>1. /\ p = <<p[1], p[2]>> /\ p[1] \in 0..claims'[j] /\ p[2] \in 0..(MaxRetry - 1)
        /\ \E e \in ExecsOf(j)' : p[1] = e.claim /\ e.attempts < p[2]
    BY <1>4 DEF Slots
  <2>2. PICK e \in ExecsOf(j)' : p[1] = e.claim /\ e.attempts < p[2]
    BY <2>1
  <2>3. CASE e \in ExecsOf(j)
    <3>1. p[1] \in 1..claims[j]
      BY <1>1, <2>2, <2>3
    <3>2. p \in Slots(j)
      BY <2>1, <2>2, <2>3, <3>1 DEF Slots
    <3>3. p # place
      BY <2>1, <3>1
    <3>. QED  BY <1>1, <2>1, <3>1, <3>2, <3>3
  <2>4. CASE e.claim = claims[j] + 1 /\ e.attempts = attempts[j]
    <3>0. attempts[j] <= p[2]
      BY <1>1, <2>1, <2>2, <2>4
    <3>1. <<0, p[2]>> \in Slots(j)
      BY <1>1, <2>1, <3>0, RowSlot
    <3>2. <<0, p[2]>> # place
      BY <1>1, <2>1, <2>2, <2>4
    <3>. QED  BY <2>1, <2>2, <2>4, <3>1, <3>2
  <2>. QED  BY <2>3, <2>4
<1>. HIDE DEF T
<1>5. Cardinality(Slots(j)') <= Cardinality(T) /\ Cardinality(Slots(j)') \in Nat
  <2>. DEFINE S == Slots(j)'
  <2>1. /\ \A p \in S : p = <<p[1], p[2]>>
        /\ \A p \in S : p[1] # claims[j] + 1 => p \in T /\ p[1] # 0
        /\ \A p \in S : p[1] = claims[j] + 1 => <<0, p[2]>> \in T
    BY <1>4, Zenon
  <2>. HIDE DEF S
  <2>2. Cardinality(S) <= Cardinality(T) /\ Cardinality(S) \in Nat
    BY ONLY <1>3, <2>1, RenamedCount, Zenon
  <2>. QED  BY <2>2 DEF S
<1>6. Cardinality(Slots(j)) \in Nat
  BY SlotsFinite
<1>7. MaxRetry * (1 + requeues[j] + resets[j]) \in Nat
  BY MaxRetryAssumption DEF TypeInv, TypeOK
<1>. QED  BY <1>1, <1>3, <1>5, <1>6, <1>7 DEF Budgeted

\* A retry hands the places after the claim back to the row.
LEMMA RetryKeepsBudget ==
    ASSUME TypeInv, TypeInv', ClaimIds, NEW e \in execs, Budgeted(e.job),
           execs' = execs \ {e}, attempts'[e.job] = e.attempts + 1,
           claims'[e.job] = claims[e.job], requeues'[e.job] = requeues[e.job],
           resets'[e.job] = resets[e.job]
    PROVE  Budgeted(e.job)'
<1>. DEFINE j == e.job
<1>1. /\ j \in Jobs /\ e \in ExecsOf(j) /\ e.attempts \in Nat /\ claims[j] \in Nat
      /\ \A f \in ExecsOf(j) : f.claim \in 1..claims[j]
      /\ \A f \in ExecsOf(j) : f.claim = e.claim => f = e
  BY DEF TypeInv, TypeOK, ClaimIds, ExecsOf, Exec
<1>2. \A f \in ExecsOf(j)' : f \in ExecsOf(j) /\ f # e
  BY DEF ExecsOf
<1>. HIDE DEF j
<1>3. claims'[j] = claims[j] /\ attempts'[j] = e.attempts + 1
  BY DEF j
<1>4. ASSUME NEW p \in Slots(j)'
      PROVE  /\ p = <<p[1], p[2]>>
             /\ p[1] # 0 => p \in Slots(j) /\ p[1] # e.claim
             /\ p[1] = 0 => <<e.claim, p[2]>> \in Slots(j)
  <2>1. /\ p = <<p[1], p[2]>> /\ p[1] \in 0..claims[j] /\ p[2] \in 0..(MaxRetry - 1)
        /\ \/ p[1] = 0 /\ e.attempts + 1 <= p[2]
           \/ \E f \in ExecsOf(j)' : p[1] = f.claim /\ f.attempts < p[2]
    <3>1. /\ p = <<p[1], p[2]>> /\ p[1] \in 0..claims'[j] /\ p[2] \in 0..(MaxRetry - 1)
          /\ \/ p[1] = 0 /\ attempts'[j] <= p[2]
             \/ \E f \in ExecsOf(j)' : p[1] = f.claim /\ f.attempts < p[2]
      BY <1>4 DEF Slots
    <3>. QED  BY <1>3, <3>1, Zenon
  <2>2. CASE p[1] = 0
    <3>1. e.attempts + 1 <= p[2]
      BY <1>1, <1>2, <2>1, <2>2
    <3>2. e.attempts < p[2]
      BY <1>1, <2>1, <3>1
    <3>. QED  BY <1>1, <2>1, <2>2, <3>2, ClaimSlot
  <2>3. CASE p[1] # 0
    <3>1. PICK f \in ExecsOf(j)' : p[1] = f.claim /\ f.attempts < p[2]
      BY <2>1, <2>3
    <3>2. f \in ExecsOf(j) /\ f # e
      BY <1>2, Zenon
    <3>. QED  BY <1>1, <2>1, <2>3, <3>1, <3>2, Zenon DEF Slots
  <2>. QED  BY <2>2, <2>3
<1>5. /\ Cardinality(Slots(j)') <= Cardinality(Slots(j))
      /\ Cardinality(Slots(j)') \in Nat
  <2>. DEFINE S == Slots(j)'
             T == Slots(j)
  <2>0. IsFiniteSet(T)
    BY <1>1, SlotsFinite
  <2>1. /\ \A p \in S : p = <<p[1], p[2]>>
        /\ \A p \in S : p[1] # 0 => p \in T /\ p[1] # e.claim
        /\ \A p \in S : p[1] = 0 => <<e.claim, p[2]>> \in T
    BY <1>4, Zenon
  <2>. HIDE DEF S, T
  <2>2. Cardinality(S) <= Cardinality(T) /\ Cardinality(S) \in Nat
    BY ONLY <2>0, <2>1, RenamedCount, Zenon
  <2>. QED  BY <2>2 DEF S, T
<1>7. /\ Budgeted(j)
      /\ claims'[j] = claims[j] /\ requeues'[j] = requeues[j] /\ resets'[j] = resets[j]
  BY DEF j
<1>8. Budgeted(j)'
  BY <1>1, <1>5, <1>7, FewerSlots, Zenon
<1>. QED  BY <1>8, Zenon DEF j

\* Every step keeps every row within its budget.
BudgetInv == ClaimIds /\ \A j \in Jobs : Budgeted(j)

LEMMA BudgetInit == Init => BudgetInv
<1>. SUFFICES ASSUME Init PROVE BudgetInv
  OBVIOUS
<1>1. TypeInv /\ ClaimIds
  BY TypeInvInit, ClaimIdsInit
<1>2. ASSUME NEW j \in Jobs PROVE Budgeted(j)
  <2>1. claims[j] = 0 /\ requeues[j] \in Nat /\ resets[j] \in Nat /\ execs = {}
    BY DEF Init
  <2>2. Slots(j) \in SUBSET ({0} \X (0..(MaxRetry - 1)))
    BY <2>1 DEF Slots
  <2>. QED  BY <2>1, <2>2, FirstSeries DEF Budgeted
<1>. QED  BY <1>1, <1>2 DEF BudgetInv

LEMMA BudgetNext == TypeInv /\ BudgetInv /\ [Next]_vars => BudgetInv'
<1>. SUFFICES ASSUME TypeInv, BudgetInv, [Next]_vars PROVE BudgetInv'
  OBVIOUS
<1>0. TypeInv' /\ ClaimIds /\ ClaimIds' /\ \A j \in Jobs : Budgeted(j)
  BY TypeInvNext, ClaimIdsNext DEF BudgetInv
<1>. SUFFICES ASSUME NEW j \in Jobs PROVE Budgeted(j)'
  BY <1>0 DEF BudgetInv
<1>a. ASSUME claims'[j] = 0 PROVE Budgeted(j)'
  <2>1. requeues'[j] \in Nat /\ resets'[j] \in Nat
    BY <1>0 DEF TypeInv, TypeOK
  <2>2. Slots(j)' \in SUBSET ({0} \X (0..(MaxRetry - 1)))
    BY <1>a DEF Slots
  <2>. QED  BY <1>a, <2>1, <2>2, FirstSeries DEF Budgeted
<1>1. ASSUME NEW k \in Jobs, EnqueueJob(k) PROVE Budgeted(j)'
  <2>1. CASE j = k
    <3>1. claims'[j] = 0
      BY <1>0, <1>1, <2>1, Zenon DEF EnqueueJob, ClaimIds
    <3>. QED  BY <3>1, <1>a
  <2>2. CASE j # k
    <3>1. Idle(j)
      BY <1>1, <2>2 DEF EnqueueJob, Idle, ExecsOf, TypeInv, TypeOK
    <3>. QED  BY <1>0, <3>1, IdleKeepsBudget
  <2>. QED  BY <2>1, <2>2
<1>2. ASSUME NEW k \in Jobs, PurgeTerminalJobsBefore(k) PROVE Budgeted(j)'
  <2>1. CASE j = k
    <3>1. claims'[j] = 0
      BY <1>2, <2>1 DEF PurgeTerminalJobsBefore, TypeInv, TypeOK
    <3>. QED  BY <3>1, <1>a
  <2>2. CASE j # k
    <3>1. Idle(j)
      BY <1>2, <2>2 DEF PurgeTerminalJobsBefore, Idle, ExecsOf, TypeInv, TypeOK
    <3>. QED  BY <1>0, <3>1, IdleKeepsBudget
  <2>. QED  BY <2>1, <2>2
<1>3. ASSUME NEW k \in Jobs, ResetFailedJobByKey(k) PROVE Budgeted(j)'
  <2>1. CASE j = k
    <3>1. Opens(j)
      BY <1>3, <2>1 DEF ResetFailedJobByKey, Opens, ExecsOf, TypeInv, TypeOK
    <3>. QED  BY <1>0, <3>1, OpensKeepsBudget
  <2>2. CASE j # k
    <3>1. Idle(j)
      BY <1>3, <2>2 DEF ResetFailedJobByKey, Idle, ExecsOf, TypeInv, TypeOK
    <3>. QED  BY <1>0, <3>1, IdleKeepsBudget
  <2>. QED  BY <2>1, <2>2
<1>4. ASSUME NEW r \in Runners, RequeueStaleJobs(r) PROVE Budgeted(j)'
  <2>1. CASE j \in Stale
    <3>1. Opens(j)
      BY <1>4, <2>1 DEF RequeueStaleJobs, Opens, ExecsOf, TypeInv, TypeOK
    <3>. QED  BY <1>0, <3>1, OpensKeepsBudget
  <2>2. CASE j \notin Stale
    <3>1. Idle(j)
      BY <1>4, <2>2 DEF RequeueStaleJobs, Idle, ExecsOf, TypeInv, TypeOK
    <3>. QED  BY <1>0, <3>1, IdleKeepsBudget
  <2>. QED  BY <2>1, <2>2
<1>5. ASSUME NEW r \in Runners, ClaimUpdate(r) PROVE Budgeted(j)'
  <2>. DEFINE got == {k \in selected[r] : ClaimAdmits(k)}
  <2>1. /\ execs' = execs \cup {NewExec(r, k) : k \in got}
        /\ requeues' = requeues /\ resets' = resets /\ attempts' = attempts
        /\ j \in got => status[j] = "queued" /\ status'[j] = "running" /\ claims'[j] = claims[j] + 1
        /\ j \notin got => status'[j] = status[j] /\ claims'[j] = claims[j]
    BY <1>5 DEF ClaimUpdate, ClaimAdmits
  <2>. HIDE DEF got
  <2>2. \A k \in got : NewExec(r, k).job = k
    BY DEF NewExec
  <2>3. \A e \in ExecsOf(j)' : e \in ExecsOf(j) \/ (j \in got /\ e = NewExec(r, j))
    BY <2>1, <2>2 DEF ExecsOf
  <2>4. NewExec(r, j).claim = claims[j] + 1 /\ NewExec(r, j).attempts = attempts[j]
    BY DEF NewExec
  <2>5. CASE j \in got
    <3>1. \A e \in ExecsOf(j)' : \/ e \in ExecsOf(j)
                                 \/ e.claim = claims[j] + 1 /\ e.attempts = attempts[j]
      BY <2>3, <2>4
    <3>. QED  BY <1>0, <2>1, <2>5, <3>1, ClaimKeepsBudget, Zenon
  <2>6. CASE j \notin got
    <3>1. Idle(j)
      BY <2>1, <2>3, <2>6 DEF Idle
    <3>. QED  BY <1>0, <3>1, IdleKeepsBudget
  <2>. QED  BY <2>5, <2>6
<1>6. ASSUME NEW e \in execs, Dispatch(e) PROVE Idle(j)
  <2>. DEFINE d == [e EXCEPT !.phase = "running"]
  <2>1. d.job = e.job /\ d.claim = e.claim /\ d.attempts = e.attempts
    BY DEF TypeInv, TypeOK, Exec
  <2>2. \A f \in execs' : f = d \/ f \in execs
    BY <1>6 DEF Dispatch
  <2>. HIDE DEF d
  <2>. QED  BY <1>6, <2>1, <2>2 DEF Dispatch, Idle, ExecsOf, row
<1>7. ASSUME NEW e \in execs, DispatchRefused(e) \/ SettleSuccess(e) \/ SettleError(e)
      PROVE  Budgeted(j)'
  <2>1. /\ execs' = execs \ {e} /\ claims' = claims /\ requeues' = requeues /\ resets' = resets
    BY <1>7 DEF DispatchRefused, SettleSuccess, SettleError
  <2>2. \A f \in ExecsOf(j)' : f \in ExecsOf(j)
    BY <2>1 DEF ExecsOf
  <2>3. \/ status'[j] = status[j] /\ attempts'[j] = attempts[j]
        \/ j = e.job /\ attempts'[j] = e.attempts + 1
    <3>1. \E s, d : WriteOutcome(e.job, s, e.attempts + 1, d)
      BY <1>7, Zenon DEF DispatchRefused, SettleSuccess, SettleError, CompleteJob, RetryJob, FailJob
    <3>2. PICK s, d : WriteOutcome(e.job, s, e.attempts + 1, d)
      BY <3>1
    <3>. QED  BY <3>2 DEF WriteOutcome, row, TypeInv, TypeOK
  <2>4. CASE status'[j] = status[j] /\ attempts'[j] = attempts[j]
    <3>1. Idle(j)
      BY <2>1, <2>2, <2>4, Zenon DEF Idle
    <3>. QED  BY <1>0, <3>1, IdleKeepsBudget
  <2>5. CASE j = e.job /\ attempts'[j] = e.attempts + 1
    BY <1>0, <2>1, <2>5, RetryKeepsBudget
  <2>. QED  BY <2>3, <2>4, <2>5
<1>8. ASSUME NEW k \in Jobs, RunAfterPasses(k) \/ LeaseExpires(k) PROVE Idle(j)
  BY <1>8 DEF RunAfterPasses, LeaseExpires, Idle, ExecsOf, row
<1>9. ASSUME NEW js \in SUBSET Jobs, CancelQueuedJobsWithPayload(js) PROVE Idle(j)
  BY <1>9 DEF CancelQueuedJobsWithPayload, Idle, ExecsOf
<1>10. ASSUME NEW r \in Runners, ClaimSelect(r) \/ ClaimAborts(r) \/ Crash(r) \/ Start(r)
       PROVE  Idle(j)
  BY <1>10, Zenon DEF ClaimSelect, ClaimAborts, Crash, Start, Idle, ExecsOf, row
<1>11. ASSUME NEW e \in execs, HeartbeatJob(e) \/ OutcomeLost(e) PROVE Idle(j)
  BY <1>11, Zenon DEF HeartbeatJob, OutcomeLost, Idle, ExecsOf, row
<1>12. ASSUME UNCHANGED vars PROVE Idle(j)
  BY <1>12, Zenon DEF vars, Idle, ExecsOf
<1>13. Idle(j) => Budgeted(j)'
  BY <1>0, IdleKeepsBudget
<1>. QED
  BY <1>1, <1>2, <1>3, <1>4, <1>5, <1>6, <1>7, <1>8, <1>9, <1>10, <1>11, <1>12, <1>13 DEF Next

(***************************************************************************)
(* A job is claimed at most MaxRetry times per series: every requeue by    *)
(* RequeueStaleJobs and every reset opens one more, whatever executions    *)
(* overlap and whatever stale attempts they write.                         *)
(***************************************************************************)
THEOREM ClaimsStayWithinBudget == Spec => []ClaimBudget
<1>1. ASSUME TypeInv, BudgetInv PROVE ClaimBudget
  <2>. SUFFICES ASSUME NEW j \in Jobs
                PROVE  claims[j] <= MaxRetry * (1 + requeues[j] + resets[j])
    BY DEF ClaimBudget
  <2>1. Budgeted(j) /\ Cardinality(Slots(j)) \in Nat
    BY <1>1, SlotsFinite DEF BudgetInv
  <2>2. claims[j] \in Nat /\ MaxRetry * (1 + requeues[j] + resets[j]) \in Nat
    BY <1>1, MaxRetryAssumption DEF TypeInv, TypeOK
  <2>. QED  BY <2>1, <2>2 DEF Budgeted
<1>. QED
  BY <1>1, TypeInvInit, TypeInvNext, BudgetInit, BudgetNext, PTL DEF Spec

-----------------------------------------------------------------------------
(***************************************************************************)
(* Refinement.  Busy is the value the refinement mapping gives to the      *)
(* ledger's busy.  Without stalls every claim in memory is the only one of *)
(* its row, so that an end removes exactly one job from Busy and a requeue *)
(* only touches rows outside it.                                           *)
(***************************************************************************)
Busy == {e.job : e \in execs}

LEMMA NoStalls == ASSUME MaxStalls = 0, TypeInv PROVE stalls = 0
BY DEF TypeInv, TypeOK

LEMMA BusyRuns ==
    ASSUME MaxStalls = 0, TypeInv, ExclusiveInv
    PROVE  /\ Busy \subseteq Jobs
           /\ \A j \in Busy : status[j] = "running" /\ fresh[j]
BY NoStalls DEF Busy, ExclusiveInv, ClaimsAreExclusive, LeaseHeld, TypeInv, TypeOK, Exec

LEMMA EndsBusy ==
    ASSUME MaxStalls = 0, TypeInv, ExclusiveInv, NEW e \in execs, execs' = execs \ {e}
    PROVE  Busy' = Busy \ {e.job}
BY NoStalls DEF Busy, ExclusiveInv, ClaimsAreExclusive

\* The row's attempts and the claim's snapshot agree as long as the claim is
\* the only one: no one else has written the row since.
SnapshotsAgree == stalls = 0 => \A e \in execs : e.attempts = attempts[e.job]

LEMMA SnapshotsInit == Init => SnapshotsAgree
BY DEF Init, SnapshotsAgree

LEMMA SnapshotsNext == TypeInv /\ ExclusiveInv /\ SnapshotsAgree /\ [Next]_vars => SnapshotsAgree'
<1>. SUFFICES ASSUME TypeInv, ExclusiveInv, SnapshotsAgree, [Next]_vars, stalls' = 0,
                     NEW e \in execs'
              PROVE  e.attempts = attempts'[e.job]
  BY DEF SnapshotsAgree
<1>0. stalls = 0
  <2>1. CASE UNCHANGED vars
    BY <2>1 DEF vars
  <2>2. CASE Next
    <3>1. ASSUME NEW j \in Jobs, LeaseExpires(j) PROVE stalls = 0
      BY <3>1, BoundsAssumption DEF LeaseExpires, TypeInv, TypeOK
    <3>2. ASSUME ~\E j \in Jobs : LeaseExpires(j) PROVE stalls' = stalls
      BY <2>2, <3>2, Zenon DEF Next, EnqueueJob, RunAfterPasses, ResetFailedJobByKey,
         PurgeTerminalJobsBefore, CancelQueuedJobsWithPayload, ClaimSelect, ClaimUpdate,
         ClaimAborts, RequeueStaleJobs, Crash, Start, Dispatch, DispatchRefused,
         SettleSuccess, SettleError, OutcomeLost, HeartbeatJob, faults
    <3>. QED  BY <3>1, <3>2
  <2>. QED  BY <2>1, <2>2
<1>1. \A f \in execs : /\ f.job \in Jobs /\ f.attempts = attempts[f.job]
                       /\ status[f.job] = "running"
  BY <1>0 DEF SnapshotsAgree, ExclusiveInv, ClaimsAreExclusive, TypeInv, TypeOK, Exec
<1>2. ASSUME NEW j \in Jobs, EnqueueJob(j) \/ RunAfterPasses(j) \/ LeaseExpires(j)
                             \/ ResetFailedJobByKey(j) \/ PurgeTerminalJobsBefore(j)
      PROVE  e.attempts = attempts'[e.job]
  BY <1>1, <1>2, Zenon DEF EnqueueJob, RunAfterPasses, LeaseExpires, ResetFailedJobByKey,
     PurgeTerminalJobsBefore, row, Settled, TypeInv, TypeOK
<1>3. ASSUME NEW js \in SUBSET Jobs, CancelQueuedJobsWithPayload(js)
      PROVE  e.attempts = attempts'[e.job]
  BY <1>1, <1>3 DEF CancelQueuedJobsWithPayload
<1>4. ASSUME NEW r \in Runners, ClaimSelect(r) \/ ClaimAborts(r) \/ RequeueStaleJobs(r)
                                \/ Crash(r) \/ Start(r)
      PROVE  e.attempts = attempts'[e.job]
  BY <1>1, <1>4, Zenon DEF ClaimSelect, ClaimAborts, RequeueStaleJobs, Crash, Start, row
<1>5. ASSUME NEW r \in Runners, ClaimUpdate(r)
      PROVE  e.attempts = attempts'[e.job]
  <2>1. e \in execs \/ \E j \in Jobs : e = NewExec(r, j)
    BY <1>5 DEF ClaimUpdate, TypeInv, TypeOK
  <2>2. \A j \in Jobs : NewExec(r, j).attempts = attempts[NewExec(r, j).job]
    BY Zenon DEF NewExec
  <2>. QED  BY <1>1, <1>5, <2>1, <2>2 DEF ClaimUpdate
<1>6. ASSUME NEW f \in execs, Dispatch(f)
      PROVE  e.attempts = attempts'[e.job]
  <2>1. /\ [f EXCEPT !.phase = "running"].job = f.job
        /\ [f EXCEPT !.phase = "running"].attempts = f.attempts
    BY DEF TypeInv, TypeOK, Exec
  <2>. QED  BY <1>1, <1>6, <2>1, Zenon DEF Dispatch, row
<1>7. ASSUME NEW f \in execs, OutcomeLost(f) \/ HeartbeatJob(f)
      PROVE  e.attempts = attempts'[e.job]
  BY <1>1, <1>7 DEF OutcomeLost, HeartbeatJob, row
<1>8. ASSUME NEW f \in execs, DispatchRefused(f) \/ SettleSuccess(f) \/ SettleError(f)
      PROVE  e.attempts = attempts'[e.job]
  <2>1. e \in execs /\ e # f
    BY <1>8 DEF DispatchRefused, SettleSuccess, SettleError
  <2>2. e.job # f.job
    BY <1>0, <2>1 DEF ExclusiveInv, ClaimsAreExclusive
  <2>3. \E s, n, d : WriteOutcome(f.job, s, n, d)
    BY <1>8, Zenon DEF DispatchRefused, SettleSuccess, SettleError, CompleteJob, RetryJob, FailJob
  <2>4. attempts'[e.job] = attempts[e.job]
    BY <1>1, <2>1, <2>2, <2>3 DEF WriteOutcome, row, TypeInv, TypeOK
  <2>. QED  BY <1>1, <2>1, <2>4
<1>9. CASE UNCHANGED vars
  BY <1>1, <1>9, Zenon DEF vars
<1>. QED
  BY <1>2, <1>3, <1>4, <1>5, <1>6, <1>7, <1>8, <1>9, Zenon DEF Next

\* An outcome write of a held claim is the ledger's Finish.
LEMMA OutcomeFinishes ==
    ASSUME MaxStalls = 0, TypeInv, ExclusiveInv, SnapshotsAgree, NEW e \in execs,
           NEW s \in {"succeeded", "failed", "queued"}, NEW d,
           s = "queued" => e.attempts + 1 < MaxRetry,
           WriteOutcome(e.job, s, e.attempts + 1, d), execs' = execs \ {e}
    PROVE  Ledger!Finish(e.job)
<1>1. e.job \in Jobs /\ e.job \in Busy /\ status[e.job] = "running"
      /\ e.attempts = attempts[e.job]
  BY NoStalls DEF Busy, SnapshotsAgree, ExclusiveInv, ClaimsAreExclusive, TypeInv, TypeOK, Exec
<1>2. /\ status' = [status EXCEPT ![e.job] = s]
      /\ attempts' = [attempts EXCEPT ![e.job] = @ + 1]
  BY <1>1 DEF WriteOutcome, OutcomeAdmits, TypeInv, TypeOK
<1>. QED
  BY <1>1, <1>2, EndsBusy, Zenon DEF Ledger!Finish, Busy

LEMMA StepsRefine ==
    ASSUME MaxStalls = 0, TypeInv, ExclusiveInv, SnapshotsAgree, [Next]_vars
    PROVE  [Ledger!LedgerNext]_(Ledger!ledger)
<1>1. ASSUME NEW j \in Jobs, EnqueueJob(j) PROVE Ledger!Enqueue(j)
  BY <1>1, Zenon DEF EnqueueJob, Ledger!Enqueue
<1>2. ASSUME NEW j \in Jobs, ResetFailedJobByKey(j) PROVE Ledger!Reset(j)
  BY <1>2 DEF ResetFailedJobByKey, Ledger!Reset
<1>3. ASSUME NEW j \in Jobs, PurgeTerminalJobsBefore(j) PROVE Ledger!Purge(j)
  BY <1>3 DEF PurgeTerminalJobsBefore, Settled, ExecsOf, Ledger!Purge
<1>4. ASSUME NEW j \in Jobs, RunAfterPasses(j) \/ LeaseExpires(j) PROVE UNCHANGED Ledger!ledger
  BY <1>4 DEF RunAfterPasses, LeaseExpires, row, Ledger!ledger
<1>5. ASSUME NEW js \in SUBSET Jobs, CancelQueuedJobsWithPayload(js) PROVE Ledger!Cancel(js)
  BY <1>5 DEF CancelQueuedJobsWithPayload, Queued, Ledger!Cancel, Ledger!All, Ledger!With
<1>6. ASSUME NEW r \in Runners, ClaimSelect(r) \/ ClaimAborts(r) \/ Start(r)
      PROVE  UNCHANGED Ledger!ledger
  BY <1>6 DEF ClaimSelect, ClaimAborts, Start, row, Ledger!ledger
<1>7. ASSUME NEW r \in Runners, ClaimUpdate(r)
      PROVE  \E js \in SUBSET Jobs : Ledger!Claim(js)
  <2>. DEFINE got == {j \in selected[r] : ClaimAdmits(j)}
  <2>1. got \subseteq Jobs /\ \A j \in got : status[j] = "queued"
    BY DEF ClaimAdmits, TypeInv, TypeOK
  <2>2. got \cap Busy = {}
    BY <2>1, BusyRuns
  <2>3. /\ status' = [j \in Jobs |-> IF j \in got THEN "running" ELSE status[j]]
        /\ execs' = execs \cup {NewExec(r, j) : j \in got}
        /\ attempts' = attempts
    BY <1>7, Zenon DEF ClaimUpdate
  <2>4. \A j \in got : NewExec(r, j).job = j
    BY DEF NewExec
  <2>. HIDE DEF got
  <2>5. Busy' = Busy \cup got
    BY <2>3, <2>4 DEF Busy
  <2>6. Ledger!Claim(got)
    BY <2>1, <2>2, <2>3, <2>5 DEF Ledger!Claim, Ledger!All, Ledger!With, Busy
  <2>. QED  BY <2>1, <2>6, Zenon DEF Ledger!Claim, Ledger!All, Ledger!With
<1>8. ASSUME NEW r \in Runners, RequeueStaleJobs(r)
      PROVE  \E js \in SUBSET Jobs : Ledger!TakeBack(js)
  <2>1. Stale \subseteq Jobs /\ Stale \cap Busy = {} /\ \A j \in Stale : status[j] = "running"
    BY BusyRuns DEF Stale
  <2>2. Ledger!TakeBack(Stale)
    BY <1>8, <2>1, Zenon DEF RequeueStaleJobs, Ledger!TakeBack, Ledger!All, Ledger!With, Busy
  <2>. QED  BY <2>1, <2>2
<1>9. ASSUME NEW r \in Runners, Crash(r)
      PROVE  \E js \in SUBSET Jobs : Ledger!Lose(js)
  <2>. DEFINE js == Busy \ Busy'
  <2>1. js \in SUBSET Jobs /\ js \subseteq Busy
    BY BusyRuns
  <2>2. Busy' = Busy \ js
    BY <1>9 DEF Crash, Busy
  <2>. HIDE DEF js
  <2>3. Ledger!Lose(js)
    BY <1>9, <2>1, <2>2 DEF Crash, row, Busy, Ledger!Lose
  <2>. QED  BY <2>1, <2>3, Zenon DEF Ledger!Lose
<1>10. ASSUME NEW e \in execs, Dispatch(e) PROVE UNCHANGED Ledger!ledger
  <2>1. [e EXCEPT !.phase = "running"].job = e.job
    BY DEF TypeInv, TypeOK, Exec
  <2>2. Busy' = Busy
    BY <1>10, <2>1, Zenon DEF Dispatch, Busy
  <2>. QED  BY <1>10, <2>2 DEF Dispatch, row, Busy, Ledger!ledger
<1>11. ASSUME NEW e \in execs, HeartbeatJob(e) PROVE UNCHANGED Ledger!ledger
  BY <1>11 DEF HeartbeatJob, row, Ledger!ledger
<1>12. ASSUME NEW e \in execs, OutcomeLost(e)
       PROVE  \E js \in SUBSET Jobs : Ledger!Lose(js)
  <2>1. {e.job} \in SUBSET Jobs /\ e.job \in Busy
    BY DEF Busy, TypeInv, TypeOK, Exec
  <2>2. Ledger!Lose({e.job})
    BY <1>12, <2>1, EndsBusy DEF OutcomeLost, row, Busy, Ledger!Lose
  <2>. QED  BY <2>1, <2>2
<1>13. ASSUME NEW e \in execs, DispatchRefused(e) \/ SettleSuccess(e) \/ SettleError(e)
       PROVE  e.job \in Jobs /\ Ledger!Finish(e.job)
  <2>0. e.job \in Jobs
    BY DEF TypeInv, TypeOK, Exec
  <2>1. execs' = execs \ {e}
    BY <1>13 DEF DispatchRefused, SettleSuccess, SettleError
  <2>2. \E s \in {"succeeded", "failed", "queued"} : \E d :
           /\ s = "queued" => e.attempts + 1 < MaxRetry
           /\ WriteOutcome(e.job, s, e.attempts + 1, d)
    <3>1. CASE DispatchRefused(e)
      BY <3>1 DEF DispatchRefused, FailJob
    <3>2. CASE SettleSuccess(e)
      BY <3>2 DEF SettleSuccess, CompleteJob
    <3>3. CASE SettleError(e)
      BY <3>3, Zenon DEF SettleError, FailJob, RetryJob, RetriesLeft
    <3>. QED  BY <1>13, <3>1, <3>2, <3>3
  <2>. QED  BY <2>0, <2>1, <2>2, OutcomeFinishes
<1>14. CASE UNCHANGED vars
  BY <1>14 DEF vars, Ledger!ledger
<1>. QED
  BY <1>1, <1>2, <1>3, <1>4, <1>5, <1>6, <1>7, <1>8, <1>9, <1>10, <1>11, <1>12, <1>13, <1>14, Zenon
     DEF Next, Ledger!LedgerNext

(***************************************************************************)
(* A deployment in which no lease expires under a live execution           *)
(* implements the ledger of single executions, whatever else goes wrong.   *)
(***************************************************************************)
THEOREM QueueImplementsLedger ==
    ASSUME MaxStalls = 0
    PROVE  Spec => ImplementsLedger
<1>1. Init => Ledger!LedgerInit
  BY DEF Init, Ledger!LedgerInit
<1>2. TypeInv /\ ExclusiveInv /\ SnapshotsAgree /\ [Next]_vars
        => [Ledger!LedgerNext]_(Ledger!ledger)
  BY StepsRefine
<1>. QED
  BY <1>1, <1>2, TypeInvInit, TypeInvNext, ExclusiveInit, ExclusiveNext,
     SnapshotsInit, SnapshotsNext, PTL DEF Spec, ImplementsLedger, Ledger!LedgerSpec
=============================================================================
