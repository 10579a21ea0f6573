--------------------------- MODULE MemoryDispatch ---------------------------
(***************************************************************************)
(* Memory writes and their withdrawal (service/memory_operation_outbox.go, *)
(* service/memory_compensation.go, repository/memory_policy.go).  A write  *)
(* is accepted as an operation with an outbox event; a dispatcher admits   *)
(* it against the current policy, marks it dispatched, calls RAGFlow once  *)
(* and records what it could confirm.  The owner may withdraw the consent  *)
(* (policy generation) or one operation (tombstone); a compensator then    *)
(* finds the external message by a hash of its content and deletes it.     *)
(*                                                                         *)
(* One user policy.  All operations write the same content to one session, *)
(* the case in which the hash cannot tell their messages apart.  A run     *)
(* handles its events, or operations, one at a time and is modelled by the *)
(* one it is at.                                                           *)
(***************************************************************************)
EXTENDS Integers, Sequences, FiniteSets

CONSTANTS Ops,           \* memory operations
          Dispatchers,   \* outbox dispatch runs
          Compensators,  \* compensation runs
          Consents,      \* opt-in and opt-out calls of the owner
          NoOp,          \* not an operation
          MaxRuns,       \* bound: runs of either kind under way at once
          MaxFaults      \* bound: crashes, database errors and provider errors

ASSUME MemoryAssumption ==
    /\ NoOp \notin Ops
    /\ MaxRuns \in Nat /\ MaxFaults \in Nat

\* The operations can be counted, and no compensator is named like a claim
\* that is not one of theirs.
ASSUME FiniteAssumption == IsFiniteSet(Ops)
ASSUME NamesAssumption == {"free", "dispatch"} \cap Compensators = {}

VARIABLES policy,      \* the policy row: active, policy_generation
          readable,    \* a scan can read all messages of the session
          op,          \* op[o]: the operation row
          event,       \* event[o]: the outbox event of o
          message,     \* message[o]: the external message o's write made
          dispatcher,  \* dispatcher[d]: where dispatcher d is
          compensator, \* compensator[k]: where compensator k is
          consent,     \* consent[c]: where consent call c is
          sends,       \* history: calls of AddMemoryMessage for o
          revoked,     \* history: operations no admission of which began before an opt-out
          stale,       \* history: a consent call wrote over one it had not read
          early,       \* history: operations whose scan met a write under way
          collided,    \* history: two runs chose to delete the same message
          faults

history == <<sends, revoked, stale, early, collided>>
vars == <<policy, readable, op, event, message, dispatcher, compensator, consent,
          history, faults>>

\* A draft is a request that has read the policy and not committed its row.
OpStates == {"none", "draft", "accepted", "admitted", "dispatched", "executed", "unknown",
             "blocked", "skipped", "reconciled"}
Terminal == {"executed", "unknown", "blocked", "skipped", "reconciled"}

\* claim: free, the dispatch worker's, or a compensator's; held: its expiry
\* lies ahead; remembered: the operation whose message was attached; sealed: the
\* payload is still stored.
Operation == [state : OpStates, generation : Nat, tombstone : BOOLEAN,
              claim : {"free", "dispatch"} \union Compensators, held : BOOLEAN,
              remembered : Ops \union {NoOp}, sealed : BOOLEAN]

\* A message that RAGFlow has taken and does not list yet is queued.
MessageStates == {"none", "queued", "visible", "deleted"}

Dispatcher == [pc : {"idle", "admit", "write", "mark", "call", "attach", "finish"},
               op : Ops \union {NoOp}, denied : BOOLEAN, outcome : {"executed", "unknown"}]
Compensator == [pc : {"idle", "scan", "delete", "complete"},
                op : Ops \union {NoOp}, remembered : Ops \union {NoOp},
                target : Ops \union {NoOp}, listed : BOOLEAN]
Consent == [pc : {"todo", "write", "done"}, in : BOOLEAN, read : Nat]

IdleDispatcher == [pc |-> "idle", op |-> NoOp, denied |-> FALSE, outcome |-> "unknown"]
IdleCompensator == [pc |-> "idle", op |-> NoOp, remembered |-> NoOp, target |-> NoOp,
                    listed |-> FALSE]

Init ==
    /\ policy = [active |-> TRUE, generation |-> 1]
    /\ readable = TRUE
    /\ op = [o \in Ops |-> [state |-> "none", generation |-> 0, tombstone |-> FALSE,
                            claim |-> "free", held |-> FALSE,
                            remembered |-> NoOp, sealed |-> FALSE]]
    /\ event = [o \in Ops |-> "none"]
    /\ message = [o \in Ops |-> "none"]
    /\ dispatcher = [d \in Dispatchers |-> IdleDispatcher]
    /\ compensator = [k \in Compensators |-> IdleCompensator]
    /\ consent = [c \in Consents |-> [pc |-> "todo", in |-> FALSE, read |-> 0]]
    /\ sends = [o \in Ops |-> 0]
    /\ revoked = {} /\ stale = FALSE /\ early = {} /\ collided = FALSE
    /\ faults = 0

Fault ==
    /\ faults < MaxFaults
    /\ faults' = faults + 1

-----------------------------------------------------------------------------
(***************************************************************************)
(* The owner: consent, writes and tombstones.                              *)
(***************************************************************************)
\* SetMemoryPolicyConsent reads the policy ...
ConsentReads(c, in) ==
    /\ consent[c].pc = "todo"
    /\ consent' = [consent EXCEPT ![c] = [pc |-> "write", in |-> in,
                                          read |-> policy.generation]]
    /\ UNCHANGED <<policy, readable, op, event, message, dispatcher, compensator,
                   history, faults>>

\* The operations an admission has not begun to look at.
Waiting == {o \in Ops : /\ op[o].state \in {"draft", "accepted"}
                        /\ \A d \in Dispatchers : dispatcher[d].op = o
                                                    => dispatcher[d].pc # "write"}

\* ... and saves the whole row with the next generation.
ConsentWrites(c) ==
    /\ consent[c].pc = "write"
    /\ policy' = [active |-> consent[c].in, generation |-> consent[c].read + 1]
    /\ stale' = (stale \/ policy.generation # consent[c].read)
    /\ revoked' = IF consent[c].in THEN revoked ELSE revoked \union Waiting
    /\ consent' = [consent EXCEPT ![c].pc = "done"]
    /\ UNCHANGED <<readable, op, event, message, dispatcher, compensator, sends, early,
                   collided, faults>>

\* CreateMemoryDispatchOperation takes the generation from the active policy ...
CreateReadsPolicy(o) ==
    /\ op[o].state = "none"
    /\ policy.active
    /\ op' = [op EXCEPT ![o] =
                    [@ EXCEPT !.state = "draft", !.generation = policy.generation]]
    /\ UNCHANGED <<policy, readable, event, message, dispatcher, compensator, consent,
                   history, faults>>

\* ... and commits the operation together with its event.
CreateMemoryOperationWithOutbox(o) ==
    /\ op[o].state = "draft"
    /\ op' = [op EXCEPT ![o] = [@ EXCEPT !.state = "accepted", !.sealed = TRUE]]
    /\ event' = [event EXCEPT ![o] = "pending"]
    /\ UNCHANGED <<policy, readable, message, dispatcher, compensator, consent, history,
                   faults>>

\* TombstoneMemoryOperation: an accepted operation is skipped and its event
\* closed; any other keeps its state.  (A repeated call only repairs hashes.)
TombstoneMemoryOperation(o) ==
    LET cancel == op[o].state = "accepted"
    IN /\ op[o].state \notin {"none", "draft"} /\ ~op[o].tombstone
       /\ op' = [op EXCEPT ![o] =
                    IF cancel
                    THEN [@ EXCEPT !.tombstone = TRUE, !.state = "skipped",
                                   !.claim = "free", !.held = FALSE, !.sealed = FALSE]
                    ELSE [@ EXCEPT !.tombstone = TRUE]]
       /\ event' = IF cancel \/ op[o].state = "skipped"
                   THEN [event EXCEPT ![o] = "published"] ELSE event
       /\ UNCHANGED <<policy, readable, message, dispatcher, compensator, consent,
                      history, faults>>

-----------------------------------------------------------------------------
(***************************************************************************)
(* dispatchMemoryOperationEvent.                                           *)
(***************************************************************************)
RunsLeft == Cardinality({d \in Dispatchers : dispatcher[d].pc # "idle"})
              + Cardinality({k \in Compensators : compensator[k].pc # "idle"}) < MaxRuns

At(d, pc) == dispatcher[d].pc = pc

Goes(d, pc) == dispatcher' = [dispatcher EXCEPT ![d].pc = pc]

Ends(d) == dispatcher' = [dispatcher EXCEPT ![d] = IdleDispatcher]

\* ClaimOutboxEvents: a pending event whose lease, if it has one, ran out.
ClaimEvent(d, o) ==
    /\ At(d, "idle") /\ RunsLeft
    /\ event[o] = "pending"
    /\ event' = [event EXCEPT ![o] = "claimed"]
    /\ dispatcher' = [dispatcher EXCEPT ![d] = [IdleDispatcher EXCEPT !.pc = "admit",
                                                                     !.op = o]]
    /\ UNCHANGED <<policy, readable, op, message, compensator, consent, history, faults>>

\* The lease of the event passes; under a live dispatcher it is a fault.
LeaseRunsOut(o) ==
    /\ event[o] = "claimed"
    /\ IF \E d \in Dispatchers : dispatcher[d].op = o THEN Fault ELSE UNCHANGED faults
    /\ event' = [event EXCEPT ![o] = "pending"]
    /\ UNCHANGED <<policy, readable, op, message, dispatcher, compensator, consent, history>>

\* closeMemoryDispatchOutbox fails, and with it the transaction, when the
\* event is published already.
CloseMemoryDispatchOutbox(o) ==
    /\ event[o] # "published"
    /\ event' = [event EXCEPT ![o] = "published"]

\* Seeded fault: the expiry of a claim outlives the claim.
Settle_KeepsExpiry(o, state) ==
    op' = [op EXCEPT ![o] =
                 [@ EXCEPT !.state = state, !.claim = "free", !.sealed = FALSE]]

\* Seeded fault: the payload stays stored.
Settle_KeepsPayload(o, state) ==
    op' = [op EXCEPT ![o] =
                 [@ EXCEPT !.state = state, !.claim = "free", !.held = FALSE]]

\* What every settling update sets beside the state.
Settle(o, state) ==
    op' = [op EXCEPT ![o] =
                 [@ EXCEPT !.state = state, !.claim = "free", !.held = FALSE,
                           !.sealed = FALSE]]

\* Seeded fault: an operation found admitted is taken for another run's.
AdmitFindsAdmitted_Leaves(d) ==
    /\ At(d, "admit")
    /\ op[dispatcher[d].op].state = "admitted"
    /\ Ends(d)
    /\ UNCHANGED <<policy, readable, op, event, message, compensator, consent, history,
                   faults>>

\* AdmitMemoryDispatchOperation finds the operation admitted before: a
\* dispatcher stopped between the admission and the call.
AdmitFindsAdmitted(d) ==
    /\ At(d, "admit")
    /\ op[dispatcher[d].op].state = "admitted"
    /\ Goes(d, "mark")
    /\ UNCHANGED <<policy, readable, op, event, message, compensator, consent, history,
                   faults>>

\* Seeded fault: an operation found dispatched is sent again.
RecoverDispatched_Resends(d) ==
    /\ At(d, "admit")
    /\ op[dispatcher[d].op].state = "dispatched"
    /\ Goes(d, "call")
    /\ UNCHANGED <<policy, readable, op, event, message, compensator, consent, history,
                   faults>>

\* recoverDispatchedMemoryOperation: whether the call was made is not known.
RecoverDispatched(d) ==
    LET o == dispatcher[d].op
    IN /\ At(d, "admit")
       /\ op[o].state = "dispatched"
       /\ Settle(o, "unknown")
       /\ CloseMemoryDispatchOutbox(o)
       /\ Ends(d)
       /\ UNCHANGED <<policy, readable, message, compensator, consent, history, faults>>

\* The operation is settled: only the event is left to close.
AdmitFindsSettled(d) ==
    LET o == dispatcher[d].op
    IN /\ At(d, "admit")
       /\ op[o].state \in Terminal
       /\ CloseMemoryDispatchOutbox(o)
       /\ Ends(d)
       /\ UNCHANGED <<policy, readable, op, message, compensator, consent, history, faults>>

\* Seeded fault: the admission looks at the policy's state only.
Denied_StateOnly(o) == ~policy.active

\* memoryDispatchAdmissionDenial.
Denied(o) == op[o].tombstone \/ ~policy.active \/ policy.generation # op[o].generation

\* The operation is accepted: the admission reads the policy ...
AdmitReads(d) ==
    LET o == dispatcher[d].op
    IN /\ At(d, "admit")
       /\ op[o].state = "accepted"
       /\ dispatcher' = [dispatcher EXCEPT ![d] =
                               [@ EXCEPT !.pc = "write", !.denied = Denied(o)]]
       /\ UNCHANGED <<policy, readable, op, event, message, compensator, consent, history,
                      faults>>

\* ... and admits the operation, if it is still accepted and no tombstone came,
AdmitWrites(d) ==
    LET o == dispatcher[d].op
    IN /\ At(d, "write") /\ ~dispatcher[d].denied
       /\ op[o].state = "accepted" /\ ~op[o].tombstone
       /\ op' = [op EXCEPT ![o] =
                       [@ EXCEPT !.state = "admitted", !.claim = "dispatch", !.held = FALSE]]
       /\ Goes(d, "mark")
       /\ UNCHANGED <<policy, readable, event, message, compensator, consent, history,
                      faults>>

\* or ends it (terminateNonDispatchedMemoryOperation).
AdmitBlocks(d) ==
    LET o == dispatcher[d].op
    IN /\ At(d, "write") /\ dispatcher[d].denied
       /\ op[o].state = "accepted"
       /\ Settle(o, IF op[o].tombstone THEN "skipped" ELSE "blocked")
       /\ CloseMemoryDispatchOutbox(o)
       /\ Ends(d)
       /\ UNCHANGED <<policy, readable, message, compensator, consent, history, faults>>

Markable(o) == op[o].state = "admitted"

MarkMemoryDispatched(d) ==
    LET o == dispatcher[d].op
    IN /\ At(d, "mark")
       /\ Markable(o)
       /\ op' = [op EXCEPT ![o] =
                       [@ EXCEPT !.state = "dispatched", !.claim = "dispatch", !.held = FALSE]]
       /\ Goes(d, "call")
       /\ UNCHANGED <<policy, readable, event, message, compensator, consent, history,
                      faults>>

\* A transaction of the dispatcher finds its guard false and rolls back: the
\* run returns an error and the event's lease is left to run out.
DispatchRollsBack(d) ==
    LET o == dispatcher[d].op
    IN /\ \/ At(d, "admit") /\ op[o].state \in Terminal /\ event[o] = "published"
          \/ /\ At(d, "write")
             /\ op[o].state # "accepted" \/ (op[o].tombstone /\ ~dispatcher[d].denied)
          \/ At(d, "mark") /\ ~Markable(o)
          \/ At(d, "finish") /\ event[o] = "published"
       /\ Ends(d)
       /\ UNCHANGED <<policy, readable, op, event, message, compensator, consent, history,
                      faults>>

\* AddMemoryMessage returns: RAGFlow lists the message at once or later.
AddMemoryMessage(d, seen) ==
    LET o == dispatcher[d].op
    IN /\ At(d, "call")
       /\ sends' = [sends EXCEPT ![o] = @ + 1]
       /\ message' = [message EXCEPT ![o] = seen]
       /\ Goes(d, "attach")
       /\ UNCHANGED <<policy, readable, op, event, compensator, consent, revoked, stale,
                      early, collided, faults>>

\* The sealed envelope cannot be opened or does not fit the operation.
EnvelopeUnreadable(d) ==
    /\ At(d, "call") /\ Fault
    /\ Goes(d, "finish")
    /\ UNCHANGED <<policy, readable, op, event, message, compensator, consent, history>>

\* The call fails, with or without effect.
AddMemoryMessageFails(d, seen) ==
    LET o == dispatcher[d].op
    IN /\ At(d, "call") /\ Fault
       /\ sends' = [sends EXCEPT ![o] = @ + 1]
       /\ message' = [message EXCEPT ![o] = seen]
       /\ Goes(d, "finish")
       /\ UNCHANGED <<policy, readable, op, event, compensator, consent, revoked, stale,
                      early, collided>>

\* RAGFlow lists a message it had queued.
Indexed(o) ==
    /\ message[o] = "queued"
    /\ message' = [message EXCEPT ![o] = "visible"]
    /\ UNCHANGED <<policy, readable, op, event, dispatcher, compensator, consent, history,
                   faults>>

\* The session comes to hold more messages than the memoryCompensationMaxPages
\* pages a scan reads, or one whose content it cannot parse, and stays so: a scan
\* may miss messages from now on, on every pass.
SessionOutgrowsScan ==
    /\ readable
    /\ readable' = FALSE
    /\ UNCHANGED <<policy, op, event, message, dispatcher, compensator, consent,
                   history, faults>>

\* The active messages with the content sought.
Matches == {m \in Ops : message[m] = "visible"}

\* attachMemoryExternalMessage: the match that RAGFlow's clock makes the
\* latest is remembered, unless the operation is no longer the dispatch
\* worker's; no match, or a scan that fails, leaves the outcome unknown.  A scan
\* that was cut off counts like a complete one.
AttachMemoryExternalMessage(d, m) ==
    LET o == dispatcher[d].op
    IN /\ At(d, "attach")
       /\ m \in Matches
       /\ op' = IF op[o].state = "dispatched" /\ op[o].claim = "dispatch"
                THEN [op EXCEPT ![o].remembered = m] ELSE op
       /\ dispatcher' = [dispatcher EXCEPT ![d] =
                               [@ EXCEPT !.pc = "finish", !.outcome = "executed"]]
       /\ UNCHANGED <<policy, readable, event, message, compensator, consent, history,
                      faults>>

AttachFindsNone(d) ==
    /\ At(d, "attach")
    /\ Matches = {} \/ ~readable
    /\ Goes(d, "finish")
    /\ UNCHANGED <<policy, readable, op, event, message, compensator, consent, history,
                   faults>>

AttachFails(d) ==
    /\ At(d, "attach") /\ Fault
    /\ Goes(d, "finish")
    /\ UNCHANGED <<policy, readable, op, event, message, compensator, consent, history>>

\* FinishMemoryDispatchOperation: an operation someone else has settled keeps
\* its state, and only the event is closed.
FinishMemoryDispatchOperation(d) ==
    LET o == dispatcher[d].op
    IN /\ At(d, "finish")
       /\ IF op[o].state = "dispatched" THEN Settle(o, dispatcher[d].outcome)
                                        ELSE UNCHANGED op
       /\ CloseMemoryDispatchOutbox(o)
       /\ Ends(d)
       /\ UNCHANGED <<policy, readable, message, compensator, consent, history, faults>>

\* The dispatcher's process dies, or a transaction of its fails: before the
\* call, or after it with the outcome not recorded.
LoseDispatcher(d) ==
    /\ ~At(d, "idle") /\ Fault
    /\ Ends(d)
    /\ UNCHANGED <<policy, readable, op, event, message, compensator, consent, history>>

-----------------------------------------------------------------------------
(***************************************************************************)
(* ProcessMemoryCompensations.                                             *)
(***************************************************************************)
\* Seeded fault: an operation whose outcome is unknown is not withdrawn.
Compensable_Known == {"dispatched", "executed"}

Compensable == {"dispatched", "executed", "unknown"}

Stops(k) == compensator' = [compensator EXCEPT ![k] = IdleCompensator]

\* ClaimDueMemoryCompensationOperations, which rereads the claimed row.  The
\* visibility grace only delays it: a grace counted from the tombstone says
\* nothing of when the write is made.
ClaimCompensation(k, o) ==
    /\ compensator[k].pc = "idle" /\ RunsLeft
    /\ op[o].tombstone  /\ op[o].state \in Compensable /\ ~op[o].held
    /\ op' = [op EXCEPT ![o] = [@ EXCEPT !.claim = k, !.held = TRUE]]
    /\ compensator' = [compensator EXCEPT ![k] =
                          [IdleCompensator EXCEPT !.pc = "scan", !.op = o,
                                                  !.remembered = op[o].remembered]]
    /\ UNCHANGED <<policy, readable, event, message, dispatcher, consent, history, faults>>

\* findMemoryExternalMessages has a match: the remembered message if it is
\* one of them, otherwise the first that RAGFlow lists.  It need not have read
\* the whole session.
ScanMatches(k, m) ==
    LET o == compensator[k].op
        r == compensator[k].remembered
    IN /\ compensator[k].pc = "scan"
       /\ m \in Matches
       /\ readable /\ r \in Matches => m = r
       /\ compensator' = [compensator EXCEPT ![k] =
                                [@ EXCEPT !.pc = "delete", !.target = m, !.listed = TRUE]]
       /\ UNCHANGED <<policy, readable, op, event, message, dispatcher, consent, history,
                      faults>>

\* A write is under way: called and not listed yet, or about to be called.
WriteUnderWay == \/ \E o \in Ops : message[o] = "queued"
                 \/ \E d \in Dispatchers : At(d, "call")

\* Seeded fault: a scan that was cut off counts as complete.
NoMatch_CutOff == Matches = {} \/ ~readable

NoMatch == Matches = {} /\ readable

\* A complete scan without a match: a remembered message is deleted all the
\* same, otherwise the content counts as absent.
ScanFindsNone(k) ==
    LET o == compensator[k].op
        r == compensator[k].remembered
    IN /\ compensator[k].pc = "scan"
       /\ NoMatch
       /\ compensator' = IF r = NoOp
                         THEN [compensator EXCEPT ![k].pc = "complete"]
                         ELSE [compensator EXCEPT ![k] =
                                     [@ EXCEPT !.pc = "delete", !.target = r]]
       /\ early' = IF WriteUnderWay THEN early \union {o} ELSE early
       /\ UNCHANGED <<policy, readable, op, event, message, dispatcher, consent, sends,
                      revoked, stale, collided, faults>>

\* The scan is cut off without a match ("pending"), or fails at a message it
\* cannot parse: the claim is left to run out, and the next run does the same.
ScanIsIncomplete(k) ==
    /\ compensator[k].pc = "scan" /\ ~readable
    /\ Stops(k)
    /\ UNCHANGED <<policy, readable, op, event, message, dispatcher, consent, history,
                   faults>>

\* DeleteMemoryMessage; deleting a deleted message is no error.
DeleteMemoryMessage(k) ==
    LET m == compensator[k].target
    IN /\ compensator[k].pc = "delete"
       /\ message' = [message EXCEPT ![m] = "deleted"]
       /\ collided' = (collided \/ (compensator[k].listed /\ message[m] = "deleted"))
       /\ compensator' = [compensator EXCEPT ![k].pc = "complete"]
       /\ UNCHANGED <<policy, readable, op, event, dispatcher, consent, sends, revoked,
                      stale, early, faults>>

\* The guard of CompleteMemoryCompensationOperation.
Fenced(k) ==
    LET o == compensator[k].op
    IN op[o].claim = k /\ op[o].tombstone /\ op[o].state \in Compensable

CompleteMemoryCompensation(k) ==
    /\ compensator[k].pc = "complete"
    /\ IF Fenced(k) THEN Settle(compensator[k].op, "reconciled") ELSE UNCHANGED op
    /\ Stops(k)
    /\ UNCHANGED <<policy, readable, event, message, dispatcher, consent, history, faults>>

\* RAGFlow or the database fails, or the process dies: the claim is left to run
\* out.
LoseCompensator(k) ==
    /\ compensator[k].pc # "idle" /\ Fault
    /\ Stops(k)
    /\ UNCHANGED <<policy, readable, op, event, message, dispatcher, consent, history>>

\* memoryCompensationLease passes; under a live compensator it is a fault.
ClaimRunsOut(o) ==
    /\ op[o].held
    /\ IF \E k \in Compensators : compensator[k].op = o /\ op[o].claim = k
       THEN Fault ELSE UNCHANGED faults
    /\ op' = [op EXCEPT ![o].held = FALSE]
    /\ UNCHANGED <<policy, readable, event, message, dispatcher, compensator, consent,
                   history>>

-----------------------------------------------------------------------------
OwnerStep ==
    \/ \E c \in Consents : (\E in \in BOOLEAN : ConsentReads(c, in)) \/ ConsentWrites(c)
    \/ \E o \in Ops : \/ CreateReadsPolicy(o) \/ CreateMemoryOperationWithOutbox(o)
                      \/ TombstoneMemoryOperation(o)

DispatchStep(d) ==
    \/ AdmitFindsAdmitted(d) \/ RecoverDispatched(d) \/ AdmitFindsSettled(d)
    \/ AdmitReads(d) \/ AdmitWrites(d) \/ AdmitBlocks(d) \/ MarkMemoryDispatched(d)
    \/ DispatchRollsBack(d)
    \/ \E seen \in {"queued", "visible"} : AddMemoryMessage(d, seen)
    \/ \E m \in Ops : AttachMemoryExternalMessage(d, m)
    \/ AttachFindsNone(d) \/ FinishMemoryDispatchOperation(d)

DispatchFault(d) ==
    \/ \E seen \in {"none", "queued", "visible"} : AddMemoryMessageFails(d, seen)
    \/ EnvelopeUnreadable(d) \/ AttachFails(d) \/ LoseDispatcher(d)

CompensateStep(k) ==
    \/ \E m \in Ops : ScanMatches(k, m)
    \/ ScanFindsNone(k) \/ ScanIsIncomplete(k)
    \/ DeleteMemoryMessage(k) \/ CompleteMemoryCompensation(k)

ClockStep(o) == LeaseRunsOut(o) \/ Indexed(o) \/ ClaimRunsOut(o)

Next ==
    \/ OwnerStep
    \/ \E d \in Dispatchers : \/ DispatchStep(d) \/ DispatchFault(d)
                              \/ \E o \in Ops : ClaimEvent(d, o)
    \/ \E k \in Compensators : \/ CompensateStep(k) \/ LoseCompensator(k)
                               \/ \E o \in Ops : ClaimCompensation(k, o)
    \/ \E o \in Ops : ClockStep(o)
    \/ SessionOutgrowsScan

Spec == Init /\ [][Next]_vars

(***************************************************************************)
(* Fairness: runs take their steps; the recurring jobs keep starting runs  *)
(* (ChainAlive of RecurringJob), and a claim takes the oldest first, so no *)
(* event or operation that stays due is passed over for ever; time passes. *)
(***************************************************************************)
FairSpec ==
    /\ Spec
    /\ \A d \in Dispatchers : WF_vars(DispatchStep(d))
    /\ \A k \in Compensators : WF_vars(CompensateStep(k))
    /\ \A o \in Ops : /\ WF_vars(\E d \in Dispatchers : ClaimEvent(d, o))
                      /\ WF_vars(\E k \in Compensators : ClaimCompensation(k, o))
                      /\ WF_vars(Indexed(o))
                      /\ WF_vars(LeaseRunsOut(o) /\ UNCHANGED faults)
                      /\ WF_vars(ClaimRunsOut(o) /\ UNCHANGED faults)

-----------------------------------------------------------------------------
\* Types; an expiry that lies ahead belongs to a compensator's claim, never to
\* the dispatch worker's and never to none (the updates that settle clear both).
MemoryTypeOK ==
    /\ policy \in [active : BOOLEAN, generation : Nat]
    /\ readable \in BOOLEAN
    /\ op \in [Ops -> Operation]
    /\ \A o \in Ops : op[o].held => op[o].claim \in Compensators
    /\ event \in [Ops -> {"none", "pending", "claimed", "published"}]
    /\ message \in [Ops -> MessageStates]
    /\ dispatcher \in [Dispatchers -> Dispatcher]
    /\ compensator \in [Compensators -> Compensator]
    /\ consent \in [Consents -> Consent]
    /\ sends \in [Ops -> Nat]
    /\ revoked \subseteq Ops /\ early \subseteq Ops
    /\ stale \in BOOLEAN /\ collided \in BOOLEAN
    /\ faults \in 0..MaxFaults

\* An operation is sent to RAGFlow at most once, however many runs handle its
\* event, and never when it ended as blocked or skipped.
SentOnce ==
    \A o \in Ops : /\ sends[o] <= 1
                   /\ op[o].state \in {"blocked", "skipped"} => sends[o] = 0

\* What was accepted before an opt-out and not yet looked at by an admission
\* is never sent, even when consent was given again since -- unless a consent
\* call saved over another one and took the generation back.
RevocationHolds == ~stale => \A o \in revoked : sends[o] = 0

\* An event leaves the outbox only with its operation settled, and a settled
\* operation no longer stores its payload.
ClosedTogether ==
    \A o \in Ops : /\ event[o] = "published" => op[o].state \in Terminal
                   /\ op[o].state \in Terminal => ~op[o].sealed

\* RAGFlow holds no more messages than there are sent operations that are not
\* reconciled: reconciling one has removed one.  Excepted are an operation
\* whose scan found nothing while a write was under way, and equal messages of
\* which two overlapping runs chose the same one.
NothingLeftBehind ==
    LET present == {o \in Ops : message[o] \in {"queued", "visible"}}
        owed == {o \in Ops : sends[o] > 0 /\ (op[o].state # "reconciled" \/ o \in early)}
    IN ~collided => Cardinality(present) <= Cardinality(owed)

\* An accepted operation settles and its event leaves the outbox.
OperationSettles ==
    \A o \in Ops : op[o].state = "accepted"
                     ~> op[o].state \in Terminal /\ event[o] = "published"

\* A withdrawn operation that was sent is reconciled, whatever run is lost on
\* the way -- unless its session comes to be one that no scan can read to the
\* end: a scan without a match is then "pending" on every pass, for good.
TombstoneHonoured ==
    \A o \in Ops : op[o].tombstone /\ sends[o] > 0
                     ~> op[o].state = "reconciled" \/ ~readable
=============================================================================
