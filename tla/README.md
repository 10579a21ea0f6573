# A TLA+ verification of RAGFlow-X

RAGFlow-X is a Go control plane and API gateway in front of RAGFlow. Its state
lives in PostgreSQL (READ COMMITTED) or SQLite; several server processes may
share it. What is hard about it happens between statements: work is claimed,
executed outside any transaction and settled later, by goroutines that crash,
stall, race and are retried. This directory models that layer.

## Inventory

| part | state | operations | what makes it hard |
|---|---|---|---|
| durable job queue (`repository/job.go`, `service/worker.go`) | `rgx_job` rows, claims in memory | enqueue, claim, heartbeat, settle, requeue, cancel, reset, purge | claims race; leases expire under live workers; outcomes carry no fence; crashes |
| recurring kinds (retention, audit anchor, alert compensation, version reconciler, connector retention, memory compensation, outbox dispatch) | the active jobs of a kind | schedule: count, then enqueue | the two statements race; errors before re-arming; a run beside its successor |
| transactional outbox (`service/outbox.go`) | `rgx_outbox_event` rows, impact records | create, claim, publish, put off, ask for a retry | claims expire under slow dispatchers; poison events |
| approval execution (`service/approval_executor.go`) | approval, acting contexts, operations, the execution job | decide, prepare, claim, execute, settle, reconcile, retry, maintain | an external effect between durable writes; reconciliation of unknown outcomes |
| approval decisions, policy cache | steps, policies | decide, delegate, cancel, expire | quorum and expiry races |
| gateway quota, idempotency, metering | reservations, counters, keys | reserve, finalize, release, reap | late finalize after reap, retries |
| memory operations (`service/memory_*.go`, `repository/memory_policy.go`) | policy, operations, outbox events, messages in RAGFlow | consent, create, tombstone, admit, mark, send, finish, recover, compensate | unknown external outcome; consent withdrawn while a write waits; messages known only by a hash |
| knowledge compilation (`service/knowledge_compilation*.go`) | run rows, reservations, artifact projections, the reconcile job | trigger, cancel, dispatch, probe, recover, replace | one external compilation per dataset without an id of its own; passes that overlap and write from copies |
| document versions, assistant releases, resource sync, connectors, evaluation | run and version rows | publish, dispatch, reconcile, activate, roll back | external effects, recovery |
| audit hash chain, setting revisions | chains, revisions | append, anchor, apply, roll back | concurrent appends, partial application |
| auth, RBAC, tenants, administration, IM channels, tools, provider, handlers, migrations | mostly request-scoped | | data transformation and I/O |

`PROJECT.json` lists each part with its sources and whether it is modelled, and
each hazard with the line at which it bites.

## Modules

* `JobLedger` is the promise of the job table: a job is absent, queued, running
  or settled, at most one execution holds it, and an execution that is lost is
  taken back.
* `JobQueue` is the queue as written. `ClaimJobs` is two steps (the SELECT and
  the guarded UPDATE); `runClaim` and `settle` are separate steps with the
  snapshot of the row that was claimed; `RequeueStaleJobs` looks at heartbeats
  only. `fresh[j]` stands for "heartbeat within HeartbeatTimeout", `due[j]` for
  "run_after has passed". `claims`, `requeues` and `resets` are history.
* `JobQueueProof` holds the theorems about `JobQueue`.
* `RecurringJob` extends the ledger by the schedule calls of a recurring kind.
  `ReArmOnError` tells the memory compensation worker, which re-arms before it
  returns its error, from the others; `Optional` tells retention and audit
  anchoring, which a policy can switch off, from the others. A claimed job may
  be refused before its body begins (its tenant cannot be read or is disabled,
  or no worker is registered), and then fails at once.
* `OutboxDispatch` composes `RecurringJob` with the rows of the outbox: the
  body of the recurring job is `ProcessOutboxEvents`. `OutboxDispatchProof`
  holds the theorems about both modules.
* `ApprovalExecution` is the execution of one approved request, with the job
  queue reduced to what `JobQueue` provides. An executor succeeds, fails, or
  takes effect and then fails, and a context may be refused (the requester is
  disabled, the fingerprint changed). `prepareActingContext` reads, expires and
  creates in one step. `ApprovalExecutionSteps` states
  its inductive invariant and proves it for the steps that only read or move a
  run on; `ApprovalExecutionProof` does the rest and holds the theorems.
* `GatewayQuota` is the quota gate of the gateway: the ledgers of a key and of
  a bucket, reservations by request id, and handlers that reserve, settle and
  sweep. The transactions that settle and sweep are two steps, because they
  read and then write without a guard; the reservation itself is one guarded
  UPDATE. A stream the provider refuses leaves its reservations to the sweep,
  as `WriteStreamCompletion` does. The model has the token columns only. The
  request columns do not move like them: a key without a request quota reserves
  no request in a bucket and still takes one off `pending_requests` when it
  settles. `GatewayQuotaProof` holds the theorems.
* `MemoryDispatch` is a write to a user's memory and its withdrawal. `policy`,
  `op` and `event` are the rows; `message` is what RAGFlow holds. A dispatcher
  goes through `AdmitMemoryDispatchOperation` (`AdmitReads`, then `AdmitWrites`
  or `AdmitBlocks`), `MarkMemoryDispatched`, the one call of `AddMemoryMessage`,
  the search for the message it made and `FinishMemoryDispatchOperation`; a
  dispatcher that finds a dispatched operation only records it as unknown
  (`RecoverDispatched`). A compensator claims a tombstoned operation, finds a
  message by its hash, deletes it and completes the operation under its claim.
  A call that times out may have been taken, and a message that was taken may
  not be listed yet (`queued`). `readable` says whether a scan still reads the
  whole session: once it has outgrown the ten pages of a scan, or holds a
  message that cannot be parsed, every scan without a match is incomplete.
  `MemoryDispatchProof` holds the theorems,
  except for the one that counts messages, which is in `MemoryBalanceProof`.
* `KnowledgeCompilation` is the life of compilation runs over one dataset:
  `TriggerCompilationRun` (reads, creates with a reservation, arms the scan),
  `CancelCompilationRun`, the pass of `ProcessCompilationRuns` and the calls of
  operators that reconcile one run, approved recoveries and replacements. A
  pass reads a row, probes RAGFlow and then carries out a plan: the writes that
  its branch of the code makes, in their order, one step each, from the copy of
  the row it has read. RAGFlow (`upstream`) compiles a dataset without saying
  for whom, which is why the code reasons from status and absence. A trigger
  may die before it arms the scan, a scan job may be refused, and the failure
  path of a trigger gives the reservation back although its cancelling update
  failed.
  `KnowledgeCompilationProof` holds the theorems.
* `MCJobQueue`, `MCRecurringJob`, `MCOutboxDispatch`, `MCApprovalExecution`,
  `MCGatewayQuota`, `MCMemoryDispatch` and `MCKnowledgeCompilation` give the
  constants small values.

Data is abstracted to what the properties tell apart: payloads are the attempt
they name, timestamps are "passed" or "not yet", the executors of approvals are
one step. Definitions named `..._...` with the
comment "Seeded fault" are variants that a plausible bug would produce; no
specification uses them.

## Runs

| run | checks | shows |
|---|---|---|
| `JobQueueSettle` | `TypeOK`, `AttemptsLeft`, `ClaimBudget`, `SettledIsFinal`, `JobsSettle` | attempts never run past the limit, claims are bounded, settled rows stay settled and every job is settled in the end, with crashes, stalls and lost writes |
| `JobQueueBatch` | `ClaimsAreExclusive`, `ImplementsLedger` | racing batches; the queue implements the ledger while leases are kept |
| `RecurringChain` | `RecurringTypeOK`, `ChainAlive`, `DuplicatesDieOut` | a chain ends only by a refused job, exhausted retries, a kind that is switched off or overlapping runs; duplicates do not multiply |
| `Outbox` | `OutboxTypeOK`, `ImpactOnce`, `PublishedIsFrozen`, `EventsGetPublished` | impact records once per event, published rows untouched, and well-formed events published beside a malformed one while the chain lives |
| `ApprovalSafety` | `ExecutionTypeOK`, `EffectOncePerAttempt`, `OutcomesAreTrue`, `LatestIsReported`, `SettledOperationsStay` | at most one effect per attempt, no success reported that did not happen, outcomes never rewritten; a run of the latest attempt settles the approval as the operations say |
| `GatewayQuotaBudget` | `QuotaTypeOK`, `PendingCovers`, `BudgetKept`, `ChargedOnce` | token reservations stay covered, within the budget and charged once, except after the two things described below |
| `MemoryWithdrawal` | `MemoryTypeOK`, `SentOnce`, `RevocationHolds`, `ClosedTogether`, `NothingLeftBehind`, `OperationSettles`, `TombstoneHonoured` | a write is sent at most once and not after its consent was withdrawn; a tombstoned one is deleted again while its session can be read to the end; every operation settles |
| `CompilationSafety` | `CompilationTypeOK`, `IngestedOnce`, `CancelledIsNeverIngested`, `AbsenceSeenTwice`, `ReleasedHasEnded`, `ReplacementStandsAlone`, `EndedStaysEnded` | one ingestion per run although the scan, an operator's pass or cancellation, a recovery and a fault interleave; what has ended stays so, and a replacement never runs beside the run it replaces |

Runs that refute what the repository says of the code (see "findings" in
`PROJECT.json` for the quotations):

| run | property | what happens |
|---|---|---|
| `ApprovalRetry` | `RetriedGetsSettled` | the job of a failed execution is run again, finds the approval settled and succeeds; a retry then cannot re-arm it, and the approval stays approved |
| `GatewayQuotaOverlap` | `ReconciledOnce` | two handlers of one request id finalize at the same time and charge it twice |
| `GatewayQuotaSweep` | `BalancesAreNotDrained` | the sweep of a bucket gives back an estimate that was never reserved |
| `CompilationDrift` | `DriftMakesNothingReady` | a run that failed because its source drifted has its artifacts projected as ready |

The quota invariants exempt a ledger after one of two events, which the model
records: `torn`, a settlement or sweep that overtook another one between its
read and its unguarded write (possible at READ COMMITTED, not with SQLite), and
`misread`, a sweep of a bucket that met a reservation which was not applied.
`GatewayQuotaOverlap` and `GatewayQuotaSweep` show what each of them leads to;
that nothing else unbalances a ledger is what `GatewayQuotaBudget` shows.

Other properties exempt a history in the same way, and say that nothing else
breaks them:

* `RevocationHolds`: `stale`, a consent call that saved the whole policy row
  over another call it had not read. `revoked` collects the operations that no
  admission had begun to look at; one whose admission is under way may still go
  out.
* `NothingLeftBehind`: `early`, an operation whose compensation scan found
  nothing because its write was still under way, and `collided`, two runs that
  chose the same one of several equal messages.
* `AbsenceSeenTwice`: `seen = 3`, a recovery that went by an outdated copy of
  the row.
* `ReleasedHasEnded`: a reservation that is `withdrawn`, given back by a call
  whose update of the row had failed or had changed nothing.
* `TombstoneHonoured`: a session that no scan can read to the end. Its
  operations stay pending; `NothingLeftBehind` says that they are not taken for
  absent.
* `ChainAlive` and `EventsGetPublished`: a chain ends with a job that is refused
  or out of retries, with a kind that is switched off, or with runs that
  overlap. Pending events then wait for the next schedule call.

Each of these exemptions is a hazard in `PROJECT.json`, at its line.

Bounds. Two runners or workers are what a race needs; the retry limit is 2, so
that "retry" and "exhausted" both happen; each kind of fault (crash, expired
lease, failed write, purge, expiry) happens at most once or twice per run,
which covers each fault at every point and some pairs. `RecurringChain` sets
both `ReArmOnError` and `Optional`, a combination no single kind has, to cover
every branch at once; the kinds that return an error without re-arming are
covered by `Outbox` and by the proof. `ApprovalSafety` has one caller, two
workers, a retry, and two of a crash, an expired lease, a fault and an expired
context (`TwoTroubles`); `ApprovalRetry` needs a retry and no fault.
`GatewayQuotaBudget` has
two handlers, two request ids and three calls, so that a retry and another
request can overlap; the key's limit of 2 and the bucket's of 1, with an
estimate of 1 and an actual of 2, let either gate refuse. `Outbox` has two
events, of which the first is malformed, two callers, and a failing call or a
lost run (`OneFault`). `MemoryWithdrawal`
has one operation, two dispatchers, two compensators, two consent calls and one
fault, so that a lost or slow run of either kind meets its successor, and
consent is withdrawn and given again; a session that outgrows its scans is not
combined with the fault (`OutgrowsCalmly`). The safety properties were also
checked with two operations of equal content. `CompilationSafety` has a first
run, the scan and one fault, which may also be an edit of the source. Beside
them it has one more actor (`OneMoreActor`): an operator's pass, an operator's
cancellation, or, without a fault, a second run that replaces the first. None of
the steps these constraints cut off is under fairness, so the liveness
properties are not weakened, and the theorems have no such bounds.
Runs are numbered: a later one is triggered after an earlier one.
`CHECK_DEADLOCK FALSE` everywhere: once all work is settled and the bounds are
used up the system rests.

Fairness. The tickers of the poll and requeue loops keep firing, `Run` ends
within `JobTimeout`, a dead process is restarted, and clocks advance. For
approvals, of which only the refuted `RetriedGetsSettled` is a liveness
property, maintenance keeps its schedule as well (`cmd/server`): even so a
retried approval stays where it is. For memory, the recurring jobs keep starting
runs (which holds as long as their chains are alive), claims take the oldest
first, so that no due event or operation is passed over for ever, and RAGFlow
lists in the end what it has taken. Producers, cancellers, approvers and people
who ask for retries are not obliged to act. Faults never are. Compilation has no
liveness property: the code does not ensure that a run is reconciled, because
its scan may never be armed, may be refused or may count a pass that is about
to end as its successor, and a document that failed for good keeps its run
dispatched.

Job rows are purged only by data retention, which is off by default;
`ApprovalExecution` assumes the default, and `RecurringJob` uses the purge to
recycle a finite set of rows.

## Proofs

Every invariant and every action property that a passing run checks is also a
theorem. The theorems rest on the assumptions that the modules name about their
constants: the bounds are natural numbers (limits and batch sizes positive),
a value that stands for "none" is not a member of the set it is added to, events
are numbered by their age and, where a proof counts, a set is finite. The sets
of jobs, workers, callers, requests, operations and events are otherwise
arbitrary.

`JobQueueProof` proves, for every set of jobs and runners and all bounds (the
assumptions are those `JobQueue` names about its constants):

* `TypeCorrect` and `AttemptsAreBounded` by the inductive invariant `TypeInv`:
  the types, that active rows and claims in memory have an attempt left, and
  that a row without a history has none of it. The two are proved together,
  because `attempts' \in 0..MaxRetry` needs the claim's attempts to be below
  the limit.
* `ClaimsExclusive` by `ExclusiveInv`: besides the property itself, that a row
  held by an execution keeps a fresh lease while no stall has happened;
  otherwise a requeue could take the row away.
* `SettledStays`, an action property, from `TypeInv` and the guards.
* `QueueImplementsLedger`, with `MaxStalls = 0`: initial states map to initial
  states and every step to a ledger step or a stutter; `SnapshotsAgree` says
  that the attempts an execution carries are the row's.
* `ClaimsStayWithinBudget` by `BudgetInv`. An outcome is written from the
  attempts its claim has read, so `attempts` may fall behind and does not count
  the claims. What counts them is the set `Slots(j)` of claims that may still
  come: those left to the row while it is queued, and those left after each
  claim in memory, should its outcome put the row back. The claims so far and
  these together never exceed the budget; a claim uses up a slot, and only a
  requeue or a reset adds any.

`OutboxDispatchProof` proves, for every set of rows, callers and events:

* `RecurringTypesHold` and `ChainStaysAlive` by `TypeInv` and `ChainInv`: as
  long as no two runs overlapped there is one run at most, and one that is about
  to return without an error leaves another active job. `ChainAlive` speaks of
  the step that leaves no active job, and does not follow from the types: a run
  ends long after it counted its successor.
* `OutboxTypesHold`, `EvidenceMarkedOnce`, `PublishedStaysFrozen` and
  `DispatchChainStaysAlive` by `DispatchInv`, which adds that a published event
  is not leased, so that no lease of it is left to run out. Every step of the
  composition is a step of `RecurringJob`, leaves its state alone, records an
  error or ends the body; so `ChainInv` carries over.

`ApprovalExecutionProof` proves, for every set of workers and callers, any
number of attempts, crashes and stalls:

* `ExecutionTypesHold` by `TypeInv`: attempts are used in order, only the latest
  is active or claimed, nobody refers to one without a context, and the writes a
  run has before it are one of a few lists.
* `EffectsHappenOnce` and `OutcomesStayTrue` by `HoldInv`: between the claim of
  an attempt and the write of its operation one run holds it, and has given it
  effect once if its outcome says so; a run that is to report a failure may have
  given it effect as well. `OutcomesAreFinal`, an action property,
  follows from the guards.
* `LatestAlwaysReported`, an action property, by `ReportInv`: without stalls
  there is one run, what it knows of its operation is still so, and a completed
  operation whose context is no longer claimed has its approval completed. It
  speaks of steps because no state shows which run settled the approval.

`GatewayQuotaProof` proves, for every set of handlers, every finite set of
requests and all limits and token counts, `QuotaTypesHold`,
`PendingAlwaysCovers`, `BudgetAlwaysKept` and `RequestsChargedOnce`. The last
three are inductive together (`Balanced`): a settlement gives back no more than
is pending because the balance covers it, and charges a request for the first
time because its row was pending. Like the properties, they speak of ledgers
that are neither `torn` nor `misread`; `HandlersOK` says that a handler about to
write has read a row that could be settled.

`MemoryDispatchProof` proves, for every set of operations, runs and consent
calls and every bound:

* `MemoryTypesHold` by `TypeInv`: the types, and that a run that is not idle
  holds an operation, and one that deletes a message has chosen it.
* `OperationsAreSentOnce` by `SendInv`: an operation that has not been marked
  dispatched has not been sent and no dispatcher is past the mark with it; a
  dispatcher about to call is the only one, and its operation was not sent.
* `EventsCloseWithOperations`, which is inductive beside `TypeInv` and `SendInv`:
  a dispatcher that finishes closes the event of an operation that was marked,
  so it is dispatched still or settled.
* `RevokedIsNeverSent` by `RevokedInv`: while no save went over another, the
  policy's generation only grows, an operation in `revoked` is behind it and
  still waits or ended unsent, and an admission that has read it denies it.

`MemoryBalanceProof` proves `NothingIsLeftBehind` for every finite set of
operations, with names of compensators that are not those of the other owners
of a claim. The number of messages alone is not inductive: a compensator first
deletes and later completes. `BalanceInv` therefore counts as a `Debt` each
operation whose compensator is done with the messages, and each that was
reconciled while its call was about to be made. Messages and debts together
never exceed the operations that were sent and are not reconciled
(`Owed`). `HeldInv` says that a listed message was sent and that compensators
hold only what can be compensated.

`KnowledgeCompilationProof` proves, for every set of runs, calls and bound:

* `CompilationTypesHold` by `TypeInv`, which is the rows, the passes and the
  rest: a plan calls RAGFlow in its first write or right after the write that
  marks the run, and never otherwise (`Shaped`); a row that is accepted or
  cancelled was never marked; a row and its reservation come together.
* `RunsAreIngestedOnce` and `CancelledRunsStayOut` by `IngestInv`: a pass about
  to call has a run that is marked, was not ingested, and that no other pass is
  about to call for; a run that was not marked was not ingested.
* `AbsenceIsSeenTwice` by `EvidenceInv`, which relates the count in the row to
  what was observed.
* `ReleasesFollowEnds`, `ReplacementsStandAlone` and `EndsAreFinal` from
  `TypeInv` and a relation between a row and its next value (`RowKept`) that
  every step satisfies: a run that has ended keeps its state.

Only model-checked: liveness (`JobsSettle`, `DuplicatesDieOut`,
`EventsGetPublished`, `OperationSettles`, `TombstoneHonoured`), because fairness and ENABLED are out
of the prover's reach.
`QueueImplementsLedger` is the safety part of the refinement, which is all that
`JobLedger` states.

## Disagreements that no run checks

Four sentences of the repository do not hold of the code as modelled. The
modules contain the first three behaviours, and the properties above are stated
so that they hold in spite of them:

* `repository/job.go:163` guards the write of an outcome by id and status only,
  so the late outcome of an execution whose job was taken back settles a later
  claim; `service/worker.go:64-66` says the runner "reconciles the outcome
  (succeed / retry with backoff / fail) exactly once per claim".
* A recurring run that crashed after arming its successor is executed again
  beside it, and each takes the other for the next job
  (`service/retention.go:88`), so the chain ends; `service/retention.go:22-24`
  says "the durable rgx_job ledger keeps at most one active janitor while still
  surviving restarts".
* After a crash between the claim of a context and the transition of the
  approval (`service/approval_executor.go:1042`) reconciliation accepts neither
  row; `repository/approval_operation.go:52-53` says "A crash therefore always
  leaves either no claim/no operation or a recoverable RUNNING pair."

* A key without a request quota drains the request column of a bucket it shares
  (`repository/quota_bucket.go:154`), a column that is not modelled;
  `model/quota_bucket.go:18-19` says that pending reservations are held "so
  concurrent in-flight requests cannot collectively exceed either budget".

One more was read and not modelled: `BeginGatewayIdempotency` lets a request
whose record is in progress or expired through to execution
(`service/gateway_idempotency.go:51-57`), while the gateway's contract lists
409/40981 "The original request with this Idempotency-Key is still running.
Retry after a short backoff." (`gateway/contract/contract.go:176`).

## Not modelled

* Gateway: request quotas, idempotency keys, usage records, rate limits.
* The goroutines of a runner (start, stop, drain).
* Approval decisions before the one that approves, and the policy cache.
* Project memory policies and personal consents, retention of memories.
* Compilation configurations and release gate evaluation after a run; limits
  and balances of the enhancement budget.
* Document version publication and its reconciler, assistant release
  activation, resource synchronisation, connectors, the audit chain, setting
  revisions, evaluation. These have state worth a module each; where they use
  the job queue, a recurring chain, the outbox or an approval, that part is
  modelled.
* Handlers, the provider client, IM adapters, SQL and template parsing,
  migrations, configuration and tooling: I/O or data transformation, which make
  up most of the repository's lines.
