------------------------ MODULE KnowledgeCompilation ------------------------
(***************************************************************************)
(* Knowledge compilation (service/knowledge_compilation.go, _dispatch.go,  *)
(* _recovery.go, _artifact.go).  A run is accepted with a budget           *)
(* reservation and a snapshot of its source; passes of                     *)
(* ProcessCompilationRuns, by the scan job or by an operator's call,       *)
(* dispatch it to RAGFlow once and then reconcile it with what RAGFlow     *)
(* reports; an unknown run is given up as absent after two no-match probes *)
(* and an approval, and may then be replaced.                              *)
(*                                                                         *)
(* One dataset and one kind, so the unique index on active runs leaves a   *)
(* pass at most one run (the limit of 20 runs a pass lists is not met).  A *)
(* pass reads the row, probes RAGFlow, and then makes the writes its probe *)
(* led to, one transaction at a time: the plan of a pass is the sequence   *)
(* of the writes still to come.                                            *)
(***************************************************************************)
EXTENDS Integers, Sequences, FiniteSets

CONSTANTS Runs,       \* compilation runs, numbered as their calls begin
          Scanner,    \* the worker that runs the scan job
          Calls,      \* calls by operators that make a pass as well
          Cancels,    \* calls by operators that cancel a run
          NoRun,      \* not a run
          MaxFaults   \* bound: edits of the source, crashes, failed calls and writes, stalls

ASSUME CompilationAssumption ==
    /\ Runs \subseteq Nat /\ NoRun \notin Runs
    /\ Scanner \notin Calls
    /\ MaxFaults \in Nat

VARIABLES run,          \* run[r]: the row of r
          reservation,  \* reservation[r]: the status of its budget reservation
          ready,        \* the runs with an artifact projection in the ready state
          source,       \* the version of the source documents
          upstream,     \* RAGFlow's compilation of the dataset
          scan,         \* the scan job of the tenant
          worker,       \* worker[w]: where pass w is
          trigger,      \* trigger[r]: the call that creates r
          cancel,       \* cancel[c]: where call c is
          approval,     \* approval[r]: the approval to give r up
          ingests,      \* history: calls of IngestDocuments for r
          seen,         \* history: no-match probes recorded in a row, up to 2; 3 from the
                        \* moment the recovery went by an outdated copy of the row
          faults

Workers == {Scanner} \union Calls

history == <<ingests, seen>>
vars == <<run, reservation, ready, source, upstream, scan, worker, trigger,
          cancel, approval, history, faults>>

Active == {"accepted", "dispatched", "unknown"}
Ended == {"failed", "reconciled", "cancelled"}
RunStates == Active \union Ended \union {"none", "confirmed"}

\* "open" stands for the recovery states that no decision rests on.
Recovery == {"open", "needs_approval", "absent", "replacement_pending", "replacement"}

\* count: recovery_no_match_count, up to the 2 that the code asks for; changed:
\* the source consistency is "changed"; sent: dispatched_at is set; of: the run
\* that r replaces.
Row == [state : RunStates, recovery : Recovery, count : 0..2, changed : BOOLEAN,
        manifest : 0..MaxFaults, sent : BOOLEAN, of : Runs \union {NoRun}]
NoRow == [state |-> "none", recovery |-> "open", count |-> 0, changed |-> FALSE,
          manifest |-> 0, sent |-> FALSE, of |-> NoRun]

\* The writes of a pass: a state to store ("drift" is the failed state with the
\* source marked changed), the verdict of a recovery probe, or another step.
Stores == {"dispatched", "unknown", "confirmed", "failed", "drift"}
Verdicts == {"no_match", "matched"}
Steps == Stores \union Verdicts
           \union {"mark", "ingest", "meter", "stale", "verify", "project"}

\* A pass keeps of the row what it goes by: the state and the count it read.
Off == [pc |-> "off", run |-> NoRun, state |-> "none", count |-> 0, plan |-> << >>]

Init ==
    /\ run = [r \in Runs |-> NoRow]
    /\ reservation = [r \in Runs |-> "none"]
    /\ ready = {}
    /\ source = 0
    /\ \E compiled \in BOOLEAN :
          upstream = [state |-> "idle", queue |-> {}, done |-> {},
                      terminal |-> compiled, artifacts |-> compiled]
    /\ scan = "none"
    /\ worker = [w \in Workers |-> Off]
    /\ trigger = [r \in Runs |-> [pc |-> "todo", manifest |-> 0, of |-> NoRun]]
    /\ cancel = [c \in Cancels |-> [pc |-> "todo", run |-> NoRun]]
    /\ approval = [r \in Runs |-> "none"]
    /\ ingests = [r \in Runs |-> 0]
    /\ seen = [r \in Runs |-> 0]
    /\ faults = 0

Fault ==
    /\ faults < MaxFaults
    /\ faults' = faults + 1

ActiveRuns == {r \in Runs : run[r].state \in Active}

\* ReleaseEnhancementQuota.  "withdrawn" tells apart a release by a call whose
\* update of the row had failed or had changed nothing.
ReleasedBy(r, won) ==
    [reservation EXCEPT ![r] = IF @ # "pending" THEN @
                               ELSE IF won THEN "released" ELSE "withdrawn"]

Saw(r, n) == [seen EXCEPT ![r] = IF @ = 3 THEN 3 ELSE n]
Outdated(r) == Saw(r, 3)

-----------------------------------------------------------------------------
(***************************************************************************)
(* The scan job.                                                           *)
(***************************************************************************)
\* ScheduleCompilationReconcile arms a scan unless the tenant has a job.  A
\* job that has looked for active runs for the last time still counts.
Scheduled == IF scan = "none" THEN "queued" ELSE scan

-----------------------------------------------------------------------------
(***************************************************************************)
(* Triggering and cancelling.                                              *)
(***************************************************************************)
\* executeCompilationRecoveryCreate: the approval is granted and the run given up.
Replaceable(of) == approval[of] = "replace" /\ run[of].state = "reconciled"

\* TriggerCompilationRun finds no active run and takes the manifest of the
\* documents; a replacement takes the manifest of the run it replaces.
TriggerReads(r, of) ==
    /\ trigger[r].pc = "todo"
    /\ \A q \in Runs : q < r => trigger[q].pc # "todo"
    /\ ActiveRuns = {}
    /\ of # NoRun => of # r /\ Replaceable(of)
    /\ trigger' = [trigger EXCEPT ![r] =
            [pc |-> "create", of |-> of,
             manifest |-> IF of = NoRun THEN source ELSE run[of].manifest]]
    /\ UNCHANGED <<run, reservation, ready, source, upstream, scan, worker,
                   cancel, approval, history, faults>>

\* Seeded fault: the run is created without a reservation.
Reserved_Not(r) == reservation

\* ReserveEnhancementQuota.
Reserved(r) == [reservation EXCEPT ![r] = "pending"]

\* One transaction reserves the budget, creates the run and moves the source of
\* a replacement; the unique index refuses a second active run.
CreateCompilationRun(r) ==
    LET t == trigger[r]
        ok == ActiveRuns = {} /\ (t.of # NoRun => run[t.of].state = "reconciled")
    IN  /\ t.pc = "create"
        /\ run' = IF ~ ok THEN run
                  ELSE [q \in Runs |->
                        IF q = r THEN [NoRow EXCEPT !.state = "accepted",
                                                    !.manifest = t.manifest, !.of = t.of]
                        ELSE IF q = t.of THEN [run[q] EXCEPT !.recovery = "replacement"]
                        ELSE run[q]]
        /\ reservation' = IF ok THEN Reserved(r) ELSE reservation
        /\ trigger' = [trigger EXCEPT ![r].pc = IF ok THEN "schedule" ELSE "done"]
        /\ UNCHANGED <<ready, source, upstream, scan, worker, cancel, approval,
                       history, faults>>

TriggerSchedules(r) ==
    /\ trigger[r].pc = "schedule"
    /\ scan' = Scheduled
    /\ trigger' = [trigger EXCEPT ![r].pc = "done"]
    /\ UNCHANGED <<run, reservation, ready, source, upstream, worker, cancel,
                   approval, ingests, seen, faults>>

\* The process dies between the commit of the run and the scan.
TriggerDies(r) ==
    /\ trigger[r].pc = "schedule"
    /\ Fault
    /\ trigger' = [trigger EXCEPT ![r].pc = "done"]
    /\ UNCHANGED <<run, reservation, ready, source, upstream, scan, worker, cancel,
                   approval, history>>

\* cancelRunAfterSchedulingFailure cancels a run whose scan cannot be armed, if
\* it is still accepted.  Its update may fail as well, and that error is
\* discarded; the reservation is released in any case.
CancelRunAfterSchedulingFailure(r) ==
    /\ trigger[r].pc = "schedule"
    /\ Fault
    /\ \E won \in {FALSE, run[r].state = "accepted"} :
          /\ run' = [run EXCEPT ![r].state = IF won THEN "cancelled" ELSE @]
          /\ reservation' = ReleasedBy(r, won)
    /\ trigger' = [trigger EXCEPT ![r].pc = "done"]
    /\ UNCHANGED <<ready, source, upstream, scan, worker, cancel, approval,
                   ingests, seen>>

\* CancelCompilationRun reads the row and goes on for an accepted run ...
CancelReads(c) ==
    /\ cancel[c].pc = "todo"
    /\ \E r \in Runs : /\ run[r].state = "accepted"
                       /\ cancel' = [cancel EXCEPT ![c] = [pc |-> "write", run |-> r]]
    /\ UNCHANGED <<run, reservation, ready, source, upstream, scan, worker,
                   trigger, approval, history, faults>>

\* Seeded fault: the update that cancels names the dispatched state as well.
Cancellable_Dispatched(state) == state \in {"accepted", "dispatched"}

Cancellable(state) == state = "accepted"

\* ... cancels it if it still is one, and releases the reservation even if it
\* is not.
CancelCompilationRun(c) ==
    LET r == cancel[c].run
    IN  /\ cancel[c].pc = "write"
        /\ run' = [run EXCEPT ![r].state = IF Cancellable(@) THEN "cancelled" ELSE @]
        /\ reservation' = ReleasedBy(r, Cancellable(run[r].state))
        /\ cancel' = [cancel EXCEPT ![c] = [pc |-> "done", run |-> NoRun]]
        /\ UNCHANGED <<ready, source, upstream, scan, worker, trigger, approval,
                       ingests, seen, faults>>

-----------------------------------------------------------------------------
(***************************************************************************)
(* A pass of ProcessCompilationRuns: the row it works on, what it finds in *)
(* RAGFlow, and the writes that follow.                                    *)
(***************************************************************************)
\* The worker of the scan job, or an operator's call, begins a pass with the
\* active run it finds.
PassStarts(w) ==
    /\ worker[w].pc = "off"
    /\ w = Scanner => scan = "queued"
    /\ scan' = IF w = Scanner THEN "running" ELSE scan
    /\ IF ActiveRuns = {}
       THEN worker' = [worker EXCEPT ![w].pc = "recheck"]
       ELSE \E r \in ActiveRuns :
              worker' = [worker EXCEPT ![w] = [Off EXCEPT !.pc = "probe", !.run = r,
                                               !.state = run[r].state, !.count = run[r].count]]
    /\ UNCHANGED <<run, reservation, ready, source, upstream, trigger, cancel,
                   approval, history, faults>>

\* The job is refused, or the runs cannot be listed: the job has one attempt, and
\* arms no successor.
ScanIsRefused ==
    /\ worker[Scanner].pc = "off" /\ scan = "queued"
    /\ Fault
    /\ scan' = "none"
    /\ UNCHANGED <<run, reservation, ready, source, upstream, worker, trigger,
                   cancel, approval, history>>

Drifted(r) == source # run[r].manifest
Done(r) == r \in upstream.done
Drift == <<"stale", "drift">>

\* dispatchCompilationRun: the manifest must be the accepted one.
DispatchPlan(r) ==
    IF Drifted(r) THEN <<"failed">> ELSE <<"mark", "ingest", "meter">>

\* While RAGFlow is at work: checkCompilationSourceDuringExecution stores what
\* it finds, and the state is stored after it in any case.
RunningPlan(r, state) == (IF Drifted(r) THEN Drift ELSE << >>) \o <<state>>

\* reconcileCompilationRun of a dispatched run.
DispatchedPlan(r) ==
    CASE upstream.state = "running" -> RunningPlan(r, "dispatched")
      [] upstream.state = "completed" \/ upstream.terminal -> <<"verify">>
      [] OTHER -> <<IF Done(r) THEN "dispatched" ELSE "unknown">>

\* reconcileUnknownCompilationRun.
UnknownPlan(r) ==
    CASE upstream.state = "running" -> <<"matched">> \o RunningPlan(r, "dispatched")
      [] upstream.state # "running" /\ Drifted(r) -> Drift
      [] upstream.state = "idle" /\ ~ Drifted(r) /\ Done(r) /\ ~ upstream.terminal ->
             <<"matched", "dispatched">>
      [] OTHER -> IF (upstream.state = "completed" \/ Done(r)) /\ upstream.artifacts
                  THEN <<"matched", "verify">>
                  ELSE <<"no_match", "unknown">>

ProbePlan(r, state) ==
    CASE state = "accepted" -> DispatchPlan(r)
      [] state = "dispatched" -> DispatchedPlan(r)
      [] state = "unknown" -> UnknownPlan(r)

\* What a pass plans when the link of the dataset cannot be read or is gone, a
\* call to RAGFlow fails, the pipeline contract or the parse readiness is
\* refused, the source cannot be listed while RAGFlow is at work, or RAGFlow has
\* not moved for a day.
ProbeFaultPlans(r, state) ==
    LET running == IF upstream.state = "running"
                   THEN {RunningPlan(r, "unknown"), <<"unknown", "dispatched">>} ELSE {}
    IN  {<< >>, <<"failed">>} \union
        CASE state = "accepted" -> {<<"unknown">>}
          [] state = "dispatched" ->
                {<<"unknown">>} \union running
                \union (IF upstream.state = "idle" /\ Done(r) THEN {<<"dispatched">>} ELSE {})
          [] state = "unknown" ->
                {<<"matched", "unknown">>} \union {<<"matched">> \o p : p \in running}

Needs(plan, step) == \E i \in 1..Len(plan) : plan[i] = step

\* The pass is to make the writes of `plan`, and forgets what they do not need;
\* after the last one it looks again for active runs.
GoesOn(w, plan) ==
    worker' = [worker EXCEPT ![w] =
        IF plan = << >> THEN [Off EXCEPT !.pc = "recheck"]
        ELSE [@ EXCEPT !.pc = "write", !.plan = plan,
                       !.state = IF Needs(plan, "verify") THEN worker[w].state ELSE "none",
                       !.count = IF Needs(plan, "no_match") THEN worker[w].count ELSE 0]]

Probe(w) ==
    /\ worker[w].pc = "probe"
    /\ \/ /\ GoesOn(w, ProbePlan(worker[w].run, worker[w].state))
          /\ UNCHANGED faults
       \/ /\ Fault
          /\ \E plan \in ProbeFaultPlans(worker[w].run, worker[w].state) : GoesOn(w, plan)
    /\ UNCHANGED <<run, reservation, ready, source, upstream, scan, trigger,
                   cancel, approval, history>>

\* The next write of w is one of these.
IsNext(w, steps) == /\ worker[w].pc = "write"
                    /\ Head(worker[w].plan) \in steps

\* Seeded fault: any run is marked dispatched, whatever its state.
Markable_Any(state) == state # "none"

Markable(state) == state = "accepted"

\* The guarded update that lets one pass call RAGFlow.
MarkDispatched(w) ==
    LET r == worker[w].run
    IN  /\ IsNext(w, {"mark"})
        /\ run' = IF Markable(run[r].state)
                  THEN [run EXCEPT ![r] = [@ EXCEPT !.state = "dispatched", !.sent = TRUE]]
                  ELSE run
        /\ GoesOn(w, IF Markable(run[r].state) THEN Tail(worker[w].plan) ELSE << >>)
        /\ UNCHANGED <<reservation, ready, source, upstream, scan, trigger, cancel,
                       approval, history, faults>>

\* The update fails: the run is stored as unknown.
MarkFails(w) ==
    /\ IsNext(w, {"mark"})
    /\ Fault
    /\ GoesOn(w, <<"unknown">>)
    /\ UNCHANGED <<run, reservation, ready, source, upstream, scan, trigger,
                   cancel, approval, history>>

\* IngestDocuments: the call succeeds, or it fails and RAGFlow has or has not
\* taken it.
IngestDocuments(w) ==
    LET r == worker[w].run
        taken == [upstream EXCEPT !.queue = @ \union {r}]
    IN  /\ IsNext(w, {"ingest"})
        /\ ingests' = [ingests EXCEPT ![r] = @ + 1]
        /\ \/ /\ upstream' = taken
              /\ GoesOn(w, Tail(worker[w].plan))
              /\ UNCHANGED faults
           \/ /\ Fault
              /\ upstream' \in {upstream, taken}
              /\ GoesOn(w, <<"unknown">>)
        /\ UNCHANGED <<run, reservation, ready, source, scan, trigger, cancel,
                       approval, seen>>

\* recordCompilationCostMetric.
RecordCostMetric(w) ==
    /\ IsNext(w, {"meter"})
    /\ reservation' = [reservation EXCEPT ![worker[w].run] =
                          IF @ = "pending" THEN "finalized" ELSE @]
    /\ GoesOn(w, Tail(worker[w].plan))
    /\ UNCHANGED <<run, ready, source, upstream, scan, trigger, cancel, approval,
                   history, faults>>

\* Seeded fault: a run that was given up or cancelled is stored over as well.
Storable_Ended(state) == state # "none"

Storable(state) == state \in Active \union {"confirmed"}

\* Seeded fault: a run that becomes unknown gives its reservation back as well.
GivesBack_Unknown(state) == state \in {"failed", "unknown"}

GivesBack(state) == state = "failed"

\* storeCompilationAudit.  The index refuses to make a confirmed run active
\* again beside another, and the pass ends; a row that is not storable is left
\* and the pass goes on; a failed run's reservation is released.
StoreCompilationAudit(w) ==
    LET r == worker[w].run
        to == IF Head(worker[w].plan) = "drift" THEN "failed" ELSE Head(worker[w].plan)
        rest == Tail(worker[w].plan)
        changed == run[r].changed \/ Head(worker[w].plan) = "drift"
        refused == to \in Active /\ ActiveRuns \ {r} # {}
    IN  /\ IsNext(w, Stores)
        /\ IF ~ Storable(run[r].state) \/ refused
           THEN /\ GoesOn(w, IF Storable(run[r].state) THEN << >> ELSE rest)
                /\ UNCHANGED <<run, reservation, seen>>
           ELSE /\ run' = [run EXCEPT ![r] =
                        [@ EXCEPT !.changed = changed, !.state = to]]
                /\ reservation' = IF GivesBack(to) THEN ReleasedBy(r, TRUE) ELSE reservation
                /\ GoesOn(w, rest)
                /\ seen' = IF to # "dispatched" THEN seen
                           ELSE IF run[r].count > 0 THEN Outdated(r) ELSE Saw(r, 0)
        /\ UNCHANGED <<ready, source, upstream, scan, trigger, cancel, approval,
                       ingests, faults>>

\* Seeded fault: one no-match probe is enough.
HasConsistentNoMatch_One(count) == count >= 1

HasConsistentNoMatch(count) == count = 2

\* The count goes on from the copy that the pass read, or starts again when
\* the first no-match is older than the observation window.
NextCount(count, verdict) ==
    IF verdict = "no_match" THEN {1, IF count = 0 THEN 1 ELSE 2} ELSE {0}

\* saveCompilationRecoveryEvidence.
SaveRecoveryEvidence(w) ==
    LET r == worker[w].run
        verdict == Head(worker[w].plan)
    IN  /\ IsNext(w, Verdicts)
        /\ IF run[r].state # "unknown" THEN UNCHANGED <<run, seen>>
           ELSE \E n \in NextCount(worker[w].count, verdict) :
                  /\ run' = [run EXCEPT ![r] =
                        [@ EXCEPT !.count = n,
                                  !.recovery = IF HasConsistentNoMatch(n)
                                               THEN "needs_approval" ELSE "open"]]
                  /\ seen' = CASE verdict = "matched" -> Saw(r, 0)
                               [] verdict = "no_match" /\ worker[w].count = run[r].count ->
                                      Saw(r, IF seen[r] = 0 THEN 1 ELSE 2)
                               [] OTHER -> Outdated(r)
        /\ GoesOn(w, Tail(worker[w].plan))
        /\ UNCHANGED <<reservation, ready, source, upstream, scan, trigger, cancel,
                       approval, ingests, faults>>

MarkArtifactsStale(w) ==
    /\ IsNext(w, {"stale"})
    /\ ready' = ready \ {worker[w].run}
    /\ GoesOn(w, Tail(worker[w].plan))
    /\ UNCHANGED <<run, reservation, source, upstream, scan, trigger, cancel, approval,
                   history, faults>>

\* verifyCompilationPostRunSource, the first step of completeCompilationRun: it
\* stores what it finds and completeCompilationRun goes on in any case.
VerifyPostRunSource(w) ==
    /\ IsNext(w, {"verify"})
    /\ \/ /\ GoesOn(w, (IF Drifted(worker[w].run) THEN Drift ELSE <<worker[w].state>>)
                       \o <<"project">>)
          /\ UNCHANGED faults
       \/ /\ Fault
          /\ GoesOn(w, <<"unknown", "project">>)
    /\ UNCHANGED <<run, reservation, ready, source, upstream, scan, trigger,
                   cancel, approval, history>>

\* The rest of completeCompilationRun: of the artifacts RAGFlow lists for the
\* dataset, those of the run's documents (documentIDsIntersect) become
\* projections of the run, which is confirmed if there are any and all are
\* bound to it.  A call may fail after some of them were projected.
ProjectArtifacts(w) ==
    LET r == worker[w].run
    IN  /\ IsNext(w, {"project"})
        /\ \E own \in {FALSE, upstream.artifacts} :
              LET projected == IF own THEN ready \union {r} ELSE ready
              IN  \/ /\ ready' = projected
                     /\ GoesOn(w, <<IF own THEN "confirmed" ELSE "unknown">>)
                     /\ UNCHANGED faults
                  \/ /\ Fault
                     /\ ready' \in {projected, ready \ {r}}
                     /\ GoesOn(w, <<"unknown">>)
        /\ UNCHANGED <<run, reservation, source, upstream, scan, trigger, cancel,
                       approval, history>>

\* A write fails, its audit entry included, and the rest of the plan is left.
WriteFails(w) ==
    /\ IsNext(w, Steps \ {"mark"})
    /\ Fault
    /\ GoesOn(w, << >>)
    /\ UNCHANGED <<run, reservation, ready, source, upstream, scan, trigger,
                   cancel, approval, history>>

\* The scanner is free for the next job; an operator's call is over.
PassEnds(w) ==
    worker' = [worker EXCEPT ![w] = [Off EXCEPT !.pc = IF w = Scanner THEN "off" ELSE "done"]]

\* A job does not count itself among the scans that are there.
NextScan(w) == IF w = Scanner THEN "queued" ELSE Scheduled

\* A scan is armed while active runs remain.
RecheckActive(w) ==
    /\ worker[w].pc = "recheck"
    /\ IF ActiveRuns = {}
       THEN /\ IF w = Scanner THEN worker' = [worker EXCEPT ![w].pc = "finish"] ELSE PassEnds(w)
            /\ UNCHANGED scan
       ELSE /\ PassEnds(w)
            /\ scan' = NextScan(w)
    /\ UNCHANGED <<run, reservation, ready, source, upstream, trigger, cancel,
                   approval, ingests, seen, faults>>

\* The job is done.
ScanFinishes ==
    /\ worker[Scanner].pc = "finish"
    /\ worker' = [worker EXCEPT ![Scanner] = Off]
    /\ scan' = "none"
    /\ UNCHANGED <<run, reservation, ready, source, upstream, trigger, cancel,
                   approval, history, faults>>

\* The next scan cannot be armed, which is logged.
RescheduleFails(w) ==
    /\ worker[w].pc = "recheck"
    /\ ActiveRuns # {}
    /\ Fault
    /\ PassEnds(w)
    /\ scan' = IF w = Scanner THEN "none" ELSE scan
    /\ UNCHANGED <<run, reservation, ready, source, upstream, trigger, cancel,
                   approval, ingests, seen>>

\* The process dies during a pass; its job is queued again when its lease is
\* found to have run out.
PassDies(w) ==
    /\ worker[w].pc \notin {"off", "done"}
    /\ Fault
    /\ PassEnds(w)
    /\ scan' = IF w = Scanner THEN "queued" ELSE scan
    /\ UNCHANGED <<run, reservation, ready, source, upstream, trigger, cancel,
                   approval, history>>

-----------------------------------------------------------------------------
(***************************************************************************)
(* Giving a run up, and replacing it, by approval.                         *)
(***************************************************************************)
\* validateCompilationRecoveryRequest, at the request and at the execution.
Absent(row) == /\ row.state = "unknown" /\ row.recovery = "needs_approval"
               /\ HasConsistentNoMatch(row.count)

\* RequestCompilationRecoveryApproval finds two no-match probes ...
ConfirmIsRequested(r) ==
    /\ approval[r] = "none"
    /\ Absent(run[r])
    /\ approval' = [approval EXCEPT ![r] = "submitted"]
    /\ UNCHANGED <<run, reservation, ready, source, upstream, scan, worker,
                   trigger, cancel, history, faults>>

\* ... and, once the approval is submitted, sets the recovery state of a run
\* that is still unknown.
ConfirmIsRecorded(r) ==
    /\ approval[r] = "submitted"
    /\ run' = [run EXCEPT ![r].recovery =
                  IF run[r].state = "unknown" THEN "needs_approval" ELSE @]
    /\ approval' = [approval EXCEPT ![r] = "approved"]
    /\ UNCHANGED <<reservation, ready, source, upstream, scan, worker, trigger,
                   cancel, history, faults>>

\* executeCompilationRecoveryConfirm reads the row again ...
ConfirmReads(r) ==
    /\ approval[r] = "approved"
    /\ Absent(run[r])
    /\ approval' = [approval EXCEPT ![r] = "confirm"]
    /\ UNCHANGED <<run, reservation, ready, source, upstream, scan, worker,
                   trigger, cancel, history, faults>>

\* ... and gives it up if it is still unknown, whatever its evidence is now.
\* The reservation is released even if it is not.
ConfirmDownstreamAbsent(r) ==
    /\ approval[r] = "confirm"
    /\ IF run[r].state = "unknown"
       THEN /\ run' = [run EXCEPT ![r] = [@ EXCEPT !.state = "reconciled", !.recovery = "absent"]]
            /\ seen' = IF HasConsistentNoMatch(run[r].count) THEN seen ELSE Outdated(r)
       ELSE UNCHANGED <<run, seen>>
    /\ reservation' = ReleasedBy(r, run[r].state = "unknown")
    /\ approval' = [approval EXCEPT ![r] = "done"]
    /\ UNCHANGED <<ready, source, upstream, scan, worker, trigger, cancel,
                   ingests, faults>>

\* RequestCompilationRecoveryApproval of a replacement, for a run that was
\* given up.
ReplacementIsApproved(r) ==
    /\ approval[r] = "done"
    /\ run[r].state = "reconciled"
    /\ run' = [run EXCEPT ![r].recovery = "replacement_pending"]
    /\ approval' = [approval EXCEPT ![r] = "replace"]
    /\ UNCHANGED <<reservation, ready, source, upstream, scan, worker, trigger,
                   cancel, history, faults>>

-----------------------------------------------------------------------------
(***************************************************************************)
(* RAGFlow and the documents.                                              *)
(***************************************************************************)
UpstreamStarts ==
    /\ upstream.queue # {}
    /\ upstream' = [upstream EXCEPT !.state = "running", !.queue = {}, !.terminal = FALSE]
    /\ UNCHANGED <<run, reservation, ready, source, scan, worker, trigger, cancel,
                   approval, history, faults>>

\* The compilation ends, with or without artifacts, and with all the documents
\* parsed or with one that has failed for good.
UpstreamCompletes ==
    /\ upstream.state = "running"
    /\ \E found, parsed \in BOOLEAN :
          upstream' = [upstream EXCEPT !.state = "completed", !.terminal = parsed,
                                       !.artifacts = found,
                                       !.done = {r \in Runs : run[r].sent}]
    /\ UNCHANGED <<run, reservation, ready, source, scan, worker, trigger, cancel,
                   approval, history, faults>>

UpstreamIdles ==
    /\ upstream.state = "completed"
    /\ upstream' = [upstream EXCEPT !.state = "idle"]
    /\ UNCHANGED <<run, reservation, ready, source, scan, worker, trigger, cancel,
                   approval, history, faults>>

EditSource ==
    /\ Fault
    /\ source' = source + 1
    /\ UNCHANGED <<run, reservation, ready, upstream, scan, worker, trigger, cancel,
                   approval, history>>

-----------------------------------------------------------------------------
Trigger(r) == \/ \E of \in Runs \union {NoRun} : TriggerReads(r, of)
              \/ CreateCompilationRun(r) \/ TriggerSchedules(r) \/ TriggerDies(r)
              \/ CancelRunAfterSchedulingFailure(r)
Recover(r) == \/ ConfirmIsRequested(r) \/ ConfirmIsRecorded(r) \/ ConfirmReads(r)
              \/ ConfirmDownstreamAbsent(r) \/ ReplacementIsApproved(r)
Write(w) == \/ MarkDispatched(w) \/ IngestDocuments(w) \/ RecordCostMetric(w)
            \/ StoreCompilationAudit(w) \/ SaveRecoveryEvidence(w)
            \/ MarkArtifactsStale(w) \/ VerifyPostRunSource(w) \/ ProjectArtifacts(w)
PassSteps(w) == Probe(w) \/ Write(w) \/ RecheckActive(w)

Next ==
    \/ \E r \in Runs : Trigger(r) \/ Recover(r)
    \/ \E c \in Cancels : CancelReads(c) \/ CancelCompilationRun(c)
    \/ \E w \in Workers : \/ PassStarts(w) \/ PassSteps(w) \/ MarkFails(w) \/ WriteFails(w)
                          \/ RescheduleFails(w) \/ PassDies(w)
    \/ ScanFinishes \/ ScanIsRefused
    \/ UpstreamStarts \/ UpstreamCompletes \/ UpstreamIdles \/ EditSource

Spec == Init /\ [][Next]_vars

-----------------------------------------------------------------------------
(***************************************************************************)
(* Types; a run exists exactly with its reservation, RAGFlow has completed *)
(* none that was not marked dispatched (TransitionCompilationRun before    *)
(* IngestDocuments), and a pass holds a run from its probe to its writes.  *)
(***************************************************************************)
CompilationTypeOK ==
    /\ run \in [Runs -> Row]
    /\ reservation \in [Runs -> {"none", "pending", "released", "withdrawn", "finalized"}]
    /\ \A r \in Runs : run[r].state = "none" <=> reservation[r] = "none"
    /\ ready \subseteq Runs
    /\ source \in 0..MaxFaults
    /\ upstream.done \subseteq {r \in Runs : run[r].sent}
    /\ \A w \in Workers : worker[w].pc \in {"probe", "write"} <=> worker[w].run # NoRun
    /\ \A w \in Workers : worker[w].plan \in Seq(Steps)
    /\ cancel \in [Cancels -> [pc : {"todo", "write", "done"}, run : Runs \union {NoRun}]]
    /\ seen \in [Runs -> 0..3]
    /\ faults \in 0..MaxFaults

(***************************************************************************)
(* RAGFlow is asked to ingest a run's documents once at most, however many *)
(* passes work on the row and however they fail (the guarded update in     *)
(* dispatchCompilationRun; "external ingestion must be called once").      *)
(***************************************************************************)
IngestedOnce == \A r \in Runs : ingests[r] <= 1

(***************************************************************************)
(* A cancelled run has not reached RAGFlow and never will: the cancel and  *)
(* the dispatch cannot both win the accepted state.                        *)
(***************************************************************************)
CancelledIsNeverIngested ==
    \A r \in Runs : run[r].state = "cancelled" => ingests[r] = 0

(***************************************************************************)
(* A run is given up as absent downstream only after two no-match probes   *)
(* on end, with no sight of RAGFlow at work in between - unless a pass or  *)
(* the approval wrote from a copy of the row that another pass had made    *)
(* outdated (saveCompilationRecoveryEvidence counts on from its copy).     *)
(***************************************************************************)
AbsenceSeenTwice ==
    \A r \in Runs : run[r].state = "reconciled" => seen[r] \in {2, 3}

(***************************************************************************)
(* A reservation that was given back by the call that ended its run        *)
(* belongs to a run that failed, was cancelled or was given up, for good:  *)
(* no slow pass makes the run active or confirmed once its budget is free. *)
(* The code also gives back the reservation of a run it did not end, and   *)
(* those are not meant here (withdrawn): CancelCompilationRun and the      *)
(* recovery release it when they lose the race for the row, and the        *)
(* failure path of a trigger discards the error of its cancelling update.  *)
(***************************************************************************)
ReleasedHasEnded ==
    \A r \in Runs : reservation[r] = "released" => run[r].state \in Ended

(***************************************************************************)
(* A replacement exists only for a run that was given up, and the two are  *)
(* never active together: a slow pass cannot bring the old run back to     *)
(* life beside its replacement.                                            *)
(***************************************************************************)
ReplacementStandsAlone ==
    \A r \in Runs : run[r].of # NoRun
        => run[run[r].of].state = "reconciled" /\ run[run[r].of].recovery # "absent"

(***************************************************************************)
(* A run that failed, was cancelled or was given up stays so, whatever a   *)
(* slow pass still has to write (storeCompilationAudit's list of states).  *)
(***************************************************************************)
EndedStaysEnded ==
    [][\A r \in Runs : run[r].state \in Ended => run'[r].state = run[r].state]_vars

(***************************************************************************)
(* "drifted source must not create artifacts": a run that failed because   *)
(* its source changed has no projection that counts as ready.              *)
(***************************************************************************)
DriftMakesNothingReady ==
    \A r \in Runs : run[r].state = "failed" /\ run[r].changed
        => r \notin ready
=============================================================================
