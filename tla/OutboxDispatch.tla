--------------------------- MODULE OutboxDispatch ---------------------------
(***************************************************************************)
(* The outbox of document-version events and the recurring job that        *)
(* dispatches it (service/outbox.go, repository/document_version.go): the  *)
(* body of a RecurringJob run selects the due events, claims them for one  *)
(* minute, and handles them one at a time in the order they occurred.      *)
(* Handling an event marks the evaluation evidence stale and the event     *)
(* published in one transaction.                                           *)
(*                                                                         *)
(* Events are numbered in the order of occurred_at.  Memory dispatch       *)
(* events, which leave the same table by another handler, are left out.    *)
(***************************************************************************)
EXTENDS RecurringJob, FiniteSetsExt

CONSTANTS Events,      \* event ids, ordered by occurred_at
          Malformed,   \* events of a foreign type or with a bad payload
          Requesters,  \* callers that ask for a retry of one event
          Limit        \* the claim limit of one run

ASSUME OutboxAssumption ==
    /\ Events \subseteq Nat /\ Malformed \subseteq Events
    /\ Requesters \subseteq Callers
    /\ Limit \in Nat \ {0}
    /\ ~Optional

VARIABLES row,      \* row[e]: published or not, its lease, and whether it is due
          impacts,  \* impacts[e]: times e marked the evidence stale
          step,     \* step[j]: where the body of job j is
          todo,     \* todo[j]: events selected, then claimed, by job j
          asked     \* requesters whose event update is done

outbox == <<row, impacts, step, todo, asked>>
outboxVars == <<recurringVars, outbox>>

Row == [state : {"none", "pending", "published"},
        lease : {"free", "held", "expired"},
        due : BOOLEAN]

NoRow == [state |-> "none", lease |-> "free", due |-> TRUE]

OutboxInit ==
    /\ Init
    /\ row = [e \in Events |-> NoRow]
    /\ impacts = [e \in Events |-> 0]
    /\ step = [j \in Jobs |-> "select"]
    /\ todo = [j \in Jobs |-> {}]
    /\ asked = {}

-----------------------------------------------------------------------------
(***************************************************************************)
(* Publishing a document version commits the event with the version; a     *)
(* tenant may ask for an unpublished event to be retried, which frees the  *)
(* event and then schedules a dispatch.                                    *)
(***************************************************************************)
CreateOutboxEvent(e) ==
    /\ row[e] = NoRow
    /\ \A f \in Events : f < e => row[f].state # "none"
    /\ row' = [row EXCEPT ![e].state = "pending"]
    /\ UNCHANGED <<recurringVars, impacts, step, todo, asked>>

RequestOutboxEventRetry(c, e) ==
    /\ c \in Requesters \ asked
    /\ row[e].state = "pending"
    /\ row' = [row EXCEPT ![e].lease = "free", ![e].due = TRUE]
    /\ asked' = asked \union {c}
    /\ UNCHANGED <<recurringVars, impacts, step, todo>>

ScheduleOutboxDispatch(c) ==
    /\ c \in Requesters => c \in asked
    /\ CallerCounts(c) \/ CallerEnqueues(c)
    /\ UNCHANGED outbox

-----------------------------------------------------------------------------
(***************************************************************************)
(* ProcessOutboxEvents.                                                    *)
(***************************************************************************)
\* Seeded fault: a claim that ran out still counts.
Unclaimed_NoExpiry(e) == row[e].state = "pending" /\ row[e].lease = "free"

Unclaimed(e) == row[e].state = "pending" /\ row[e].lease # "held"

\* The select of ClaimOutboxEvents: the first Limit due, unclaimed events.
SelectEvents(j) ==
    LET claimable == {e \in Events : Unclaimed(e) /\ row[e].due}
        first == {e \in claimable : Cardinality({f \in claimable : f < e}) < Limit}
    IN /\ phase[j] = "body" /\ step[j] = "select"
       /\ todo' = [todo EXCEPT ![j] = first]
       /\ step' = [step EXCEPT ![j] = "claim"]
       /\ UNCHANGED <<recurringVars, row, impacts, asked>>

\* Its updates: the events no other run has claimed or published meanwhile.
ClaimOutboxEvents(j) ==
    LET claimed == {e \in todo[j] : Unclaimed(e)}
    IN /\ phase[j] = "body" /\ step[j] = "claim"
       /\ row' = [e \in Events |-> IF e \in claimed
                                   THEN [row[e] EXCEPT !.lease = "held"] ELSE row[e]]
       /\ todo' = [todo EXCEPT ![j] = claimed]
       /\ step' = [step EXCEPT ![j] = "handle"]
       /\ UNCHANGED <<recurringVars, impacts, asked>>

\* Seeded fault: the backoff is written to a published event as well.
RetryAdmits_Always(e) == TRUE

\* The guard of RetryOutboxEvent.
RetryAdmits(e) == row[e].state = "pending"

RetryOutboxEvent(e) ==
    row' = IF RetryAdmits(e)
           THEN [row EXCEPT ![e].lease = "free", ![e].due = FALSE]
           ELSE row

\* Seeded fault: the event is marked published whether it was or not.
PublishAdmits_Always(e) == TRUE

\* The guard of MarkDocumentVersionPublishedImpact.
PublishAdmits(e) == row[e].state = "pending"

Handling(j, e) ==
    /\ phase[j] = "body" /\ step[j] = "handle"
    /\ todo[j] # {} /\ e = Min(todo[j])
    /\ todo' = [todo EXCEPT ![j] = @ \ {e}]

\* MarkDocumentVersionPublishedImpact commits.
PublishEvent(j, e) ==
    /\ Handling(j, e)
    /\ e \notin Malformed
    /\ PublishAdmits(e)
    /\ impacts' = [impacts EXCEPT ![e] = @ + 1]
    /\ row' = [row EXCEPT ![e].state = "published", ![e].lease = "free"]
    /\ UNCHANGED <<recurringVars, step, asked>>

\* The event is malformed, or its transaction rolled back because another
\* run has published it: it is put off and the run will return an error.
PutOff(j, e) ==
    /\ Handling(j, e)
    /\ e \in Malformed \/ ~PublishAdmits(e)
    /\ RetryOutboxEvent(e)
    /\ failed' = [failed EXCEPT ![j] = TRUE]
    /\ UNCHANGED <<ledger, phase, rearmed, call, enabled, errors, losses, overlap,
                   impacts, step, asked>>

\* A database error in the impact transaction, or in the update that puts
\* the event off: then the lease has to run out.
HandlingFails(j, e) ==
    /\ Handling(j, e)
    /\ errors < MaxErrors
    /\ errors' = errors + 1
    /\ RetryOutboxEvent(e) \/ row' = row
    /\ failed' = [failed EXCEPT ![j] = TRUE]
    /\ UNCHANGED <<ledger, phase, rearmed, call, enabled, losses, overlap,
                   impacts, step, asked>>

\* ClaimOutboxEvents itself fails.
ClaimFails(j) ==
    /\ step[j] \in {"select", "claim"}
    /\ BodyFails(j)
    /\ step' = [step EXCEPT ![j] = "select"]
    /\ todo' = [todo EXCEPT ![j] = {}]
    /\ UNCHANGED <<row, impacts, asked>>

\* Seeded fault: the run returns at the first event that fails.
ProcessEnds_FirstError(j) ==
    /\ phase[j] = "body" /\ step[j] = "handle" /\ (todo[j] = {} \/ failed[j])
    /\ step' = [step EXCEPT ![j] = "select"]
    /\ phase' = [phase EXCEPT ![j] = IF failed[j] THEN "return" ELSE "count"]
    /\ UNCHANGED <<ledger, failed, rearmed, call, enabled, errors, losses, overlap,
                   row, impacts, todo, asked>>

\* All events are handled: Run goes on to reschedule, or returns the errors.
ProcessEnds(j) ==
    /\ phase[j] = "body" /\ step[j] = "handle" /\ todo[j] = {}
    /\ step' = [step EXCEPT ![j] = "select"]
    /\ phase' = [phase EXCEPT ![j] = IF failed[j] THEN "return" ELSE "count"]
    /\ UNCHANGED <<ledger, failed, rearmed, call, enabled, errors, losses, overlap,
                   row, impacts, todo, asked>>

-----------------------------------------------------------------------------
(***************************************************************************)
(* The clock, the rest of the run, and the ledger.                         *)
(***************************************************************************)
LeaseRunsOut(e) ==
    /\ row[e].lease = "held"
    /\ row' = [row EXCEPT ![e].lease = "expired"]
    /\ UNCHANGED <<recurringVars, impacts, step, todo, asked>>

BackoffPasses(e) ==
    /\ row[e].state = "pending" /\ ~row[e].due
    /\ row' = [row EXCEPT ![e].due = TRUE]
    /\ UNCHANGED <<recurringVars, impacts, step, todo, asked>>

LoseDispatch(j) ==
    /\ LoseRun(j)
    /\ step' = [step EXCEPT ![j] = "select"]
    /\ todo' = [todo EXCEPT ![j] = {}]
    /\ UNCHANGED <<row, impacts, asked>>

RunStep(j) ==
    /\ StartRun(j) \/ RunCounts(j) \/ RunEnqueues(j) \/ RunReturns(j) \/ Recover(j)
    /\ UNCHANGED outbox

\* The job is refused before ProcessOutboxEvents is called.
RefuseDispatch(j) ==
    /\ step[j] = "select"
    /\ DispatchRefused(j)
    /\ UNCHANGED outbox

OtherStep(j) ==
    /\ RunScheduleFails(j) \/ PurgeRow(j)
    /\ UNCHANGED outbox

BodyStep(j) ==
    \/ SelectEvents(j) \/ ClaimOutboxEvents(j) \/ ProcessEnds(j)
    \/ \E e \in Events : PublishEvent(j, e) \/ PutOff(j, e)

OutboxNext ==
    \/ \E e \in Events : CreateOutboxEvent(e) \/ LeaseRunsOut(e) \/ BackoffPasses(e)
    \/ \E c \in Callers : \/ ScheduleOutboxDispatch(c)
                          \/ \E e \in Events : RequestOutboxEventRetry(c, e)
    \/ \E j \in Jobs : \/ RunStep(j) \/ BodyStep(j) \/ OtherStep(j)
                       \/ RefuseDispatch(j) \/ ClaimFails(j) \/ LoseDispatch(j)
                       \/ \E e \in Events : HandlingFails(j, e)

OutboxSpec == OutboxInit /\ [][OutboxNext]_outboxVars

(***************************************************************************)
(* Fairness: that of RecurringJob, for the steps of the body too; leases   *)
(* and backoffs run out.                                                   *)
(***************************************************************************)
OutboxFairSpec ==
    /\ OutboxSpec
    /\ \A j \in Jobs : /\ WF_outboxVars(RunStep(j) \/ BodyStep(j))
                       /\ WF_outboxVars(PurgeRow(j) /\ UNCHANGED outbox)
    /\ \A c \in Callers : WF_outboxVars(ScheduleOutboxDispatch(c))
    /\ \A e \in Events : WF_outboxVars(LeaseRunsOut(e)) /\ WF_outboxVars(BackoffPasses(e))

-----------------------------------------------------------------------------
OutboxTypeOK ==
    /\ RecurringTypeOK
    /\ row \in [Events -> Row]
    /\ impacts \in [Events -> Nat]
    /\ step \in [Jobs -> {"select", "claim", "handle"}]
    /\ todo \in [Jobs -> SUBSET Events]
    /\ \A j \in Jobs : todo[j] # {} => phase[j] = "body"
    /\ asked \subseteq Requesters

(***************************************************************************)
(* The evidence is marked stale exactly once for a published event and     *)
(* never for another, although a run whose lease ran out, or whose event a *)
(* tenant asked to retry, may handle it at the same time as a second run.  *)
(***************************************************************************)
ImpactOnce == \A e \in Events : impacts[e] = IF row[e].state = "published" THEN 1 ELSE 0

(***************************************************************************)
(* Nothing changes an event once it is published: not the put-off of a run *)
(* that lost the race, not a retry request, not the clock.                 *)
(***************************************************************************)
PublishedIsFrozen ==
    [][\A e \in Events : row[e].state = "published" => row'[e] = row[e]]_outboxVars

(***************************************************************************)
(* Every well-formed event is published in the end, through lost runs,     *)
(* expired leases, failed transactions and malformed events of the same    *)
(* batch, unless the chain of dispatch runs has ended for good, in one of  *)
(* the ways ChainAlive lists.                                              *)
(***************************************************************************)
EventsGetPublished ==
    \A e \in Events \ Malformed :
        row[e].state = "pending" ~> (row[e].state = "published" \/ [](ActiveJobs = {}))
=============================================================================
