------------------------- MODULE MemoryDispatchProof -------------------------
(***************************************************************************)
(* Proofs about MemoryDispatch, for any sets of operations, runs and calls *)
(* and any bounds.                                                         *)
(***************************************************************************)
EXTENDS MemoryDispatch, TLAPS

(***************************************************************************)
(* The types are inductive once a run that is not idle is known to hold an *)
(* operation, and one that deletes a message to have chosen it.            *)
(***************************************************************************)
Busy ==
    /\ \A d \in Dispatchers : dispatcher[d].pc # "idle" => dispatcher[d].op \in Ops
    /\ \A k \in Compensators :
          /\ compensator[k].pc # "idle" => compensator[k].op \in Ops
          /\ compensator[k].pc = "delete" => compensator[k].target \in Ops

TypeInv == MemoryTypeOK /\ Busy

\* The part of MemoryTypeOK about the operation rows.
RowsTyped ==
    /\ op \in [Ops -> Operation]
    /\ \A o \in Ops : op[o].held => op[o].claim \in Compensators

-----------------------------------------------------------------------------
\* Storing one well-formed row keeps the rows well-formed.
LEMMA RowChanges ==
    ASSUME RowsTyped, NEW o \in Ops, NEW x \in Operation,
           op' = [op EXCEPT ![o] = x], x.held => x.claim \in Compensators
    PROVE  RowsTyped'
BY DEF RowsTyped

\* The update that every settling transaction makes.
LEMMA SettleTyped ==
    ASSUME RowsTyped, NEW o \in Ops, NEW s \in Terminal, Settle(o, s)
    PROVE  RowsTyped'
<1>. DEFINE x == [op[o] EXCEPT !.state = s, !.claim = "free", !.held = FALSE, !.sealed = FALSE]
<1>1. op[o] \in Operation
  BY DEF RowsTyped
<1>2. x \in Operation
  BY <1>1, Zenon DEF Operation, OpStates, Terminal
<1>3. ~ x.held
  BY <1>1 DEF Operation
<1>4. op' = [op EXCEPT ![o] = x]
  BY DEF Settle
<1>. HIDE DEF x
<1>. QED  BY <1>2, <1>3, <1>4, RowChanges, Zenon

\* What that update leaves alone, and what it sets.
LEMMA SettleValues ==
    ASSUME TypeInv, NEW o \in Ops, NEW s, Settle(o, s)
    PROVE  /\ op'[o].state = s /\ ~ op'[o].sealed /\ op'[o].generation = op[o].generation
           /\ \A q \in Ops \ {o} : op'[q] = op[q]
BY DEF TypeInv, MemoryTypeOK, Operation, Settle

\* A dispatcher moves on, or ends.
LEMMA DispatcherMoves ==
    ASSUME TypeInv, NEW d \in Dispatchers,
           \/ /\ ~ At(d, "idle")
              /\ \E pc \in {"admit", "write", "mark", "call", "attach", "finish"} : Goes(d, pc)
           \/ Ends(d)
    PROVE  /\ dispatcher' \in [Dispatchers -> Dispatcher]
           /\ \A e \in Dispatchers : dispatcher'[e].pc # "idle" => dispatcher'[e].op \in Ops
<1>1. CASE Ends(d)
  BY <1>1 DEF TypeInv, MemoryTypeOK, Busy, Ends, IdleDispatcher, Dispatcher
<1>2. ASSUME ~ At(d, "idle"), NEW pc \in {"admit", "write", "mark", "call", "attach", "finish"},
             Goes(d, pc)
      PROVE  /\ dispatcher' \in [Dispatchers -> Dispatcher]
             /\ \A e \in Dispatchers : dispatcher'[e].pc # "idle" => dispatcher'[e].op \in Ops
  <2>. DEFINE x == [dispatcher[d] EXCEPT !.pc = pc]
  <2>1. dispatcher[d] \in Dispatcher /\ dispatcher[d].op \in Ops
    BY <1>2 DEF TypeInv, MemoryTypeOK, Busy, At
  <2>2. x \in Dispatcher /\ x.op = dispatcher[d].op
    BY <2>1 DEF Dispatcher
  <2>3. dispatcher' = [dispatcher EXCEPT ![d] = x]
    BY <1>2 DEF Goes
  <2>. HIDE DEF x
  <2>. QED  BY <2>1, <2>2, <2>3 DEF TypeInv, MemoryTypeOK, Busy
<1>. QED  BY <1>1, <1>2

\* A fault within the bound.
LEMMA FaultTyped == ASSUME TypeInv, Fault PROVE faults' \in 0..MaxFaults
BY MemoryAssumption DEF TypeInv, MemoryTypeOK, Fault

\* TypeInv holds initially and every step keeps it.
LEMMA TypeInvInit == Init => TypeInv
<1>. SUFFICES ASSUME Init PROVE TypeInv
  OBVIOUS
<1>1. policy \in [active : BOOLEAN, generation : Nat]
  BY DEF Init
<1>2. op \in [Ops -> Operation] /\ \A o \in Ops : ~ op[o].held
  BY DEF Init, Operation, OpStates
<1>3. dispatcher \in [Dispatchers -> Dispatcher] /\ compensator \in [Compensators -> Compensator]
  BY DEF Init, Dispatcher, Compensator, IdleDispatcher, IdleCompensator
<1>4. consent \in [Consents -> Consent]
  BY DEF Init, Consent
<1>5. Busy
  BY DEF Init, Busy, IdleDispatcher, IdleCompensator
<1>6. /\ event \in [Ops -> {"none", "pending", "claimed", "published"}]
      /\ message \in [Ops -> MessageStates]
      /\ sends \in [Ops -> Nat]
      /\ faults \in 0..MaxFaults
  BY MemoryAssumption DEF Init, MessageStates
<1>7. /\ revoked \subseteq Ops /\ early \subseteq Ops
      /\ stale \in BOOLEAN /\ collided \in BOOLEAN /\ readable \in BOOLEAN
  BY Zenon DEF Init
<1>. QED
  BY <1>1, <1>2, <1>3, <1>4, <1>5, <1>6, <1>7 DEF TypeInv, MemoryTypeOK

LEMMA OwnerKeepsTypes == ASSUME TypeInv, OwnerStep PROVE TypeInv'
<1>1. ASSUME NEW c \in Consents, NEW in \in BOOLEAN, ConsentReads(c, in) PROVE TypeInv'
  <2>1. consent' \in [Consents -> Consent]
    <3>1. [pc |-> "write", in |-> in, read |-> policy.generation] \in Consent
      BY DEF TypeInv, MemoryTypeOK, Consent
    <3>. QED  BY <1>1, <3>1 DEF TypeInv, MemoryTypeOK, ConsentReads
  <2>. QED
    BY <1>1, <2>1 DEF TypeInv, MemoryTypeOK, Busy, ConsentReads, history
<1>2. ASSUME NEW c \in Consents, ConsentWrites(c) PROVE TypeInv'
  <2>1. /\ consent[c] \in Consent
        /\ [active |-> consent[c].in, generation |-> consent[c].read + 1]
              \in [active : BOOLEAN, generation : Nat]
    BY DEF TypeInv, MemoryTypeOK, Consent
  <2>2. policy' \in [active : BOOLEAN, generation : Nat]
    BY <1>2, <2>1 DEF ConsentWrites
  <2>3. consent' \in [Consents -> Consent]
    BY <1>2 DEF TypeInv, MemoryTypeOK, ConsentWrites, Consent
  <2>4. revoked' \subseteq Ops /\ stale' \in BOOLEAN
    BY <1>2 DEF TypeInv, MemoryTypeOK, ConsentWrites, Waiting
  <2>. QED
    BY <1>2, <2>2, <2>3, <2>4 DEF TypeInv, MemoryTypeOK, Busy, ConsentWrites
<1>3. ASSUME NEW o \in Ops, CreateReadsPolicy(o) PROVE TypeInv'
  <2>. DEFINE x == [op[o] EXCEPT !.state = "draft", !.generation = policy.generation]
  <2>1. op[o] \in Operation /\ policy.generation \in Nat
    BY DEF TypeInv, MemoryTypeOK
  <2>2. x \in Operation /\ x.held = op[o].held /\ x.claim = op[o].claim
    BY <2>1, Zenon DEF Operation, OpStates
  <2>3. op' = [op EXCEPT ![o] = x]
    BY <1>3 DEF CreateReadsPolicy
  <2>. HIDE DEF x
  <2>4. RowsTyped'
    BY <2>2, <2>3, RowChanges DEF TypeInv, MemoryTypeOK, RowsTyped
  <2>. QED
    BY <1>3, <2>4 DEF TypeInv, MemoryTypeOK, Busy, RowsTyped, CreateReadsPolicy, history
<1>4. ASSUME NEW o \in Ops, CreateMemoryOperationWithOutbox(o) PROVE TypeInv'
  <2>. DEFINE x == [op[o] EXCEPT !.state = "accepted", !.sealed = TRUE]
  <2>1. op[o] \in Operation
    BY DEF TypeInv, MemoryTypeOK
  <2>2. x \in Operation /\ x.held = op[o].held /\ x.claim = op[o].claim
    BY <2>1, Zenon DEF Operation, OpStates
  <2>3. op' = [op EXCEPT ![o] = x]
    BY <1>4 DEF CreateMemoryOperationWithOutbox
  <2>. HIDE DEF x
  <2>4. RowsTyped'
    BY <2>2, <2>3, RowChanges DEF TypeInv, MemoryTypeOK, RowsTyped
  <2>. QED
    BY <1>4, <2>4
       DEF TypeInv, MemoryTypeOK, Busy, RowsTyped, CreateMemoryOperationWithOutbox,
                      history
<1>5. ASSUME NEW o \in Ops, TombstoneMemoryOperation(o) PROVE TypeInv'
  <2>. DEFINE x == IF op[o].state = "accepted"
                   THEN [op[o] EXCEPT !.tombstone = TRUE, !.state = "skipped",
                                      !.claim = "free", !.held = FALSE, !.sealed = FALSE]
                   ELSE [op[o] EXCEPT !.tombstone = TRUE]
  <2>1. op[o] \in Operation
    BY DEF TypeInv, MemoryTypeOK
  <2>2. x \in Operation
    BY <2>1, Zenon DEF Operation, OpStates
  <2>3. x.held => op[o].held /\ x.claim = op[o].claim
    BY <2>1 DEF Operation
  <2>4. op' = [op EXCEPT ![o] = x]
    BY <1>5 DEF TombstoneMemoryOperation
  <2>. HIDE DEF x
  <2>5. RowsTyped'
    BY <2>2, <2>3, <2>4, RowChanges DEF TypeInv, MemoryTypeOK, RowsTyped
  <2>. QED
    BY <1>5, <2>5
       DEF TypeInv, MemoryTypeOK, Busy, RowsTyped, TombstoneMemoryOperation, history
<1>. QED  BY <1>1, <1>2, <1>3, <1>4, <1>5 DEF OwnerStep

LEMMA DispatchKeepsTypes ==
    ASSUME TypeInv, NEW d \in Dispatchers, DispatchStep(d) \/ DispatchFault(d)
    PROVE  TypeInv'
<1>. DEFINE o == dispatcher[d].op
<1>0. /\ RowsTyped
      /\ ~ At(d, "idle") => o \in Ops /\ op[o] \in Operation
  BY DEF TypeInv, MemoryTypeOK, RowsTyped, Busy, At
<1>1. ASSUME AdmitFindsAdmitted(d) PROVE TypeInv'
  <2>1. /\ dispatcher' \in [Dispatchers -> Dispatcher]
        /\ \A e \in Dispatchers : dispatcher'[e].pc # "idle" => dispatcher'[e].op \in Ops
    BY <1>1, DispatcherMoves DEF AdmitFindsAdmitted, At
  <2>. QED
    BY <1>1, <2>1 DEF TypeInv, MemoryTypeOK, Busy, RowsTyped, AdmitFindsAdmitted, history
<1>2. ASSUME RecoverDispatched(d) PROVE TypeInv'
  <2>1. RowsTyped'
    BY <1>2, <1>0, SettleTyped DEF RecoverDispatched, At, Terminal
  <2>2. /\ dispatcher' \in [Dispatchers -> Dispatcher]
        /\ \A e \in Dispatchers : dispatcher'[e].pc # "idle" => dispatcher'[e].op \in Ops
    BY <1>2, DispatcherMoves DEF RecoverDispatched
  <2>. QED
    BY <1>2, <2>1, <2>2, Zenon
       DEF TypeInv, MemoryTypeOK, Busy, RowsTyped, RecoverDispatched,
           CloseMemoryDispatchOutbox, history
<1>3. ASSUME AdmitFindsSettled(d) PROVE TypeInv'
  <2>1. /\ dispatcher' \in [Dispatchers -> Dispatcher]
        /\ \A e \in Dispatchers : dispatcher'[e].pc # "idle" => dispatcher'[e].op \in Ops
    BY <1>3, DispatcherMoves DEF AdmitFindsSettled, At
  <2>. QED
    BY <1>3, <2>1, Zenon
       DEF TypeInv, MemoryTypeOK, Busy, RowsTyped, AdmitFindsSettled, history,
           CloseMemoryDispatchOutbox
<1>4. ASSUME AdmitReads(d) PROVE TypeInv'
  <2>1. PICK b \in BOOLEAN : b = Denied(o)
    BY Zenon DEF Denied
  <2>. DEFINE x == [dispatcher[d] EXCEPT !.pc = "write", !.denied = b]
  <2>2. dispatcher' = [dispatcher EXCEPT ![d] = x]
    BY <1>4, <2>1 DEF AdmitReads
  <2>3. /\ dispatcher' \in [Dispatchers -> Dispatcher]
        /\ \A e \in Dispatchers : dispatcher'[e].pc # "idle" => dispatcher'[e].op \in Ops
    <3>1. o \in Ops
      BY <1>4, <1>0 DEF AdmitReads, At
    <3>2. x \in Dispatcher /\ x.op = o
      <4>1. dispatcher[d] \in Dispatcher
        BY DEF TypeInv, MemoryTypeOK
      <4>. QED  BY <4>1, Zenon DEF Dispatcher
    <3>. HIDE DEF x
    <3>. QED  BY <2>2, <3>1, <3>2 DEF TypeInv, MemoryTypeOK, Busy
  <2>. QED
    BY <1>4, <2>3 DEF TypeInv, MemoryTypeOK, Busy, RowsTyped, AdmitReads, history
<1>5. ASSUME AdmitWrites(d) PROVE TypeInv'
  <2>. DEFINE x == [op[o] EXCEPT !.state = "admitted", !.claim = "dispatch", !.held = FALSE]
  <2>1. op[o] \in Operation
    BY <1>5, <1>0 DEF AdmitWrites, At
  <2>2. x \in Operation /\ ~ x.held
    BY <2>1, Zenon DEF Operation, OpStates
  <2>3. op' = [op EXCEPT ![o] = x]
    BY <1>5 DEF AdmitWrites
  <2>. HIDE DEF x
  <2>4. RowsTyped'
    BY <1>5, <1>0, <2>2, <2>3, RowChanges, Zenon DEF AdmitWrites, At
  <2>5. /\ dispatcher' \in [Dispatchers -> Dispatcher]
        /\ \A e \in Dispatchers : dispatcher'[e].pc # "idle" => dispatcher'[e].op \in Ops
    BY <1>5, DispatcherMoves DEF AdmitWrites, At
  <2>. QED
    BY <1>5, <2>4, <2>5 DEF TypeInv, MemoryTypeOK, Busy, RowsTyped, AdmitWrites, history
<1>6. ASSUME AdmitBlocks(d) PROVE TypeInv'
  <2>1. RowsTyped'
    BY <1>6, <1>0, SettleTyped DEF AdmitBlocks, At, Terminal
  <2>2. /\ dispatcher' \in [Dispatchers -> Dispatcher]
        /\ \A e \in Dispatchers : dispatcher'[e].pc # "idle" => dispatcher'[e].op \in Ops
    BY <1>6, DispatcherMoves DEF AdmitBlocks
  <2>. QED
    BY <1>6, <2>1, <2>2, Zenon
       DEF TypeInv, MemoryTypeOK, Busy, RowsTyped, AdmitBlocks, CloseMemoryDispatchOutbox,
           history
<1>7. ASSUME MarkMemoryDispatched(d) PROVE TypeInv'
  <2>. DEFINE x == [op[o] EXCEPT !.state = "dispatched", !.claim = "dispatch", !.held = FALSE]
  <2>1. op[o] \in Operation
    BY <1>7, <1>0 DEF MarkMemoryDispatched, At
  <2>2. x \in Operation /\ ~ x.held
    BY <2>1, Zenon DEF Operation, OpStates
  <2>3. op' = [op EXCEPT ![o] = x]
    BY <1>7 DEF MarkMemoryDispatched
  <2>. HIDE DEF x
  <2>4. RowsTyped'
    BY <1>7, <1>0, <2>2, <2>3, RowChanges, Zenon DEF MarkMemoryDispatched, At
  <2>5. /\ dispatcher' \in [Dispatchers -> Dispatcher]
        /\ \A e \in Dispatchers : dispatcher'[e].pc # "idle" => dispatcher'[e].op \in Ops
    BY <1>7, DispatcherMoves DEF MarkMemoryDispatched, At
  <2>. QED
    BY <1>7, <2>4, <2>5
       DEF TypeInv, MemoryTypeOK, Busy, RowsTyped, MarkMemoryDispatched, history
<1>8. ASSUME DispatchRollsBack(d) PROVE TypeInv'
  <2>1. /\ dispatcher' \in [Dispatchers -> Dispatcher]
        /\ \A e \in Dispatchers : dispatcher'[e].pc # "idle" => dispatcher'[e].op \in Ops
    BY <1>8, DispatcherMoves DEF DispatchRollsBack, At
  <2>. QED
    BY <1>8, <2>1 DEF TypeInv, MemoryTypeOK, Busy, RowsTyped, DispatchRollsBack, history
<1>9. ASSUME NEW seen \in {"queued", "visible"}, AddMemoryMessage(d, seen) PROVE TypeInv'
  <2>1. /\ dispatcher' \in [Dispatchers -> Dispatcher]
        /\ \A e \in Dispatchers : dispatcher'[e].pc # "idle" => dispatcher'[e].op \in Ops
    BY <1>9, DispatcherMoves DEF AddMemoryMessage, At
  <2>. QED
    BY <1>9, <2>1
       DEF TypeInv, MemoryTypeOK, Busy, RowsTyped, AddMemoryMessage, history,
           MessageStates, At
<1>10. ASSUME EnvelopeUnreadable(d) PROVE TypeInv'
  <2>1. /\ dispatcher' \in [Dispatchers -> Dispatcher]
        /\ \A e \in Dispatchers : dispatcher'[e].pc # "idle" => dispatcher'[e].op \in Ops
    BY <1>10, DispatcherMoves DEF EnvelopeUnreadable, At
  <2>. QED
    BY <1>10, <2>1, FaultTyped
       DEF TypeInv, MemoryTypeOK, Busy, RowsTyped, EnvelopeUnreadable, history
<1>11. ASSUME NEW seen \in {"none", "queued", "visible"}, AddMemoryMessageFails(d, seen)
       PROVE  TypeInv'
  <2>1. /\ dispatcher' \in [Dispatchers -> Dispatcher]
        /\ \A e \in Dispatchers : dispatcher'[e].pc # "idle" => dispatcher'[e].op \in Ops
    BY <1>11, DispatcherMoves DEF AddMemoryMessageFails, At
  <2>. QED
    BY <1>11, <2>1, FaultTyped
       DEF TypeInv, MemoryTypeOK, Busy, RowsTyped, AddMemoryMessageFails, history,
           MessageStates, At
<1>12. ASSUME NEW m \in Ops, AttachMemoryExternalMessage(d, m) PROVE TypeInv'
  <2>. DEFINE x == [op[o] EXCEPT !.remembered = m]
  <2>1. op[o] \in Operation
    BY <1>12, <1>0 DEF AttachMemoryExternalMessage, At
  <2>2. x \in Operation /\ x.held = op[o].held /\ x.claim = op[o].claim
    BY <2>1 DEF Operation
  <2>3. op' = [op EXCEPT ![o] = x] \/ op' = op
    BY <1>12 DEF AttachMemoryExternalMessage
  <2>. HIDE DEF x
  <2>4. RowsTyped'
    BY <1>12, <1>0, <2>2, <2>3, RowChanges, Zenon DEF AttachMemoryExternalMessage, At, RowsTyped
  <2>5. /\ dispatcher' \in [Dispatchers -> Dispatcher]
        /\ \A e \in Dispatchers : dispatcher'[e].pc # "idle" => dispatcher'[e].op \in Ops
    <3>. DEFINE y == [dispatcher[d] EXCEPT !.pc = "finish", !.outcome = "executed"]
    <3>1. o \in Ops
      BY <1>12, <1>0 DEF AttachMemoryExternalMessage, At
    <3>2. dispatcher' = [dispatcher EXCEPT ![d] = y]
      BY <1>12 DEF AttachMemoryExternalMessage
    <3>3. y \in Dispatcher /\ y.op = o
      <4>1. dispatcher[d] \in Dispatcher
        BY DEF TypeInv, MemoryTypeOK
      <4>. QED  BY <4>1, Zenon DEF Dispatcher
    <3>. HIDE DEF y
    <3>. QED  BY <3>1, <3>2, <3>3 DEF TypeInv, MemoryTypeOK, Busy
  <2>. QED
    BY <1>12, <2>4, <2>5
       DEF TypeInv, MemoryTypeOK, Busy, RowsTyped, AttachMemoryExternalMessage, history
<1>13. ASSUME AttachFindsNone(d) PROVE TypeInv'
  <2>1. /\ dispatcher' \in [Dispatchers -> Dispatcher]
        /\ \A e \in Dispatchers : dispatcher'[e].pc # "idle" => dispatcher'[e].op \in Ops
    BY <1>13, DispatcherMoves DEF AttachFindsNone, At
  <2>. QED
    BY <1>13, <2>1 DEF TypeInv, MemoryTypeOK, Busy, RowsTyped, AttachFindsNone, history
<1>14. ASSUME AttachFails(d) PROVE TypeInv'
  <2>1. /\ dispatcher' \in [Dispatchers -> Dispatcher]
        /\ \A e \in Dispatchers : dispatcher'[e].pc # "idle" => dispatcher'[e].op \in Ops
    BY <1>14, DispatcherMoves DEF AttachFails, At
  <2>. QED
    BY <1>14, <2>1, FaultTyped
       DEF TypeInv, MemoryTypeOK, Busy, RowsTyped, AttachFails, history
<1>15. ASSUME FinishMemoryDispatchOperation(d) PROVE TypeInv'
  <2>1. dispatcher[d].outcome \in Terminal
    BY DEF TypeInv, MemoryTypeOK, Dispatcher, Terminal
  <2>2. RowsTyped'
    <3>1. CASE Settle(o, dispatcher[d].outcome)
      BY <1>15, <1>0, <2>1, <3>1, SettleTyped DEF FinishMemoryDispatchOperation, At
    <3>2. CASE UNCHANGED op
      BY <1>0, <3>2 DEF RowsTyped
    <3>. QED  BY <1>15, <3>1, <3>2 DEF FinishMemoryDispatchOperation
  <2>3. /\ dispatcher' \in [Dispatchers -> Dispatcher]
        /\ \A e \in Dispatchers : dispatcher'[e].pc # "idle" => dispatcher'[e].op \in Ops
    BY <1>15, DispatcherMoves DEF FinishMemoryDispatchOperation
  <2>. QED
    BY <1>15, <2>2, <2>3, Zenon
       DEF TypeInv, MemoryTypeOK, Busy, RowsTyped, FinishMemoryDispatchOperation,
                         CloseMemoryDispatchOutbox, history
<1>16. ASSUME LoseDispatcher(d) PROVE TypeInv'
  <2>1. /\ dispatcher' \in [Dispatchers -> Dispatcher]
        /\ \A e \in Dispatchers : dispatcher'[e].pc # "idle" => dispatcher'[e].op \in Ops
    BY <1>16, DispatcherMoves DEF LoseDispatcher, At
  <2>. QED
    BY <1>16, <2>1, FaultTyped
       DEF TypeInv, MemoryTypeOK, Busy, RowsTyped, LoseDispatcher, history
<1>. QED
  BY <1>1, <1>2, <1>3, <1>4, <1>5, <1>6, <1>7, <1>8, <1>9, <1>10, <1>11, <1>12, <1>13,
     <1>14, <1>15, <1>16
     DEF DispatchStep, DispatchFault

LEMMA CompensateKeepsTypes ==
    ASSUME TypeInv, NEW k \in Compensators, CompensateStep(k) \/ LoseCompensator(k)
    PROVE  TypeInv'
<1>. DEFINE o == compensator[k].op
<1>0. /\ RowsTyped
      /\ compensator[k].pc # "idle" => o \in Ops
      /\ compensator[k] \in Compensator
  BY DEF TypeInv, MemoryTypeOK, RowsTyped, Busy
<1>1. ASSUME NEW m \in Ops, ScanMatches(k, m) PROVE TypeInv'
  <2>1. compensator' = [compensator EXCEPT ![k] =
                          [@ EXCEPT !.pc = "delete", !.target = m, !.listed = TRUE]]
    BY <1>1 DEF ScanMatches
  <2>2. o \in Ops
    BY <1>1, <1>0 DEF ScanMatches
  <2>3. /\ compensator' \in [Compensators -> Compensator]
        /\ \A j \in Compensators :
              /\ compensator'[j].pc # "idle" => compensator'[j].op \in Ops
              /\ compensator'[j].pc = "delete" => compensator'[j].target \in Ops
    BY <1>0, <2>1, <2>2, Zenon DEF TypeInv, MemoryTypeOK, Busy, Compensator
  <2>. QED  BY <1>1, <2>3 DEF TypeInv, MemoryTypeOK, Busy, RowsTyped, ScanMatches, history
<1>2. ASSUME ScanFindsNone(k) PROVE TypeInv'
  <2>1. o \in Ops
    BY <1>2, <1>0 DEF ScanFindsNone
  <2>2. /\ compensator' \in [Compensators -> Compensator]
        /\ \A j \in Compensators :
              /\ compensator'[j].pc # "idle" => compensator'[j].op \in Ops
              /\ compensator'[j].pc = "delete" => compensator'[j].target \in Ops
    BY <1>2, <1>0, <2>1, Zenon DEF TypeInv, MemoryTypeOK, Busy, Compensator, ScanFindsNone
  <2>3. early' \subseteq Ops
    BY <1>2, <2>1 DEF TypeInv, MemoryTypeOK, ScanFindsNone
  <2>. QED  BY <1>2, <2>2, <2>3 DEF TypeInv, MemoryTypeOK, Busy, RowsTyped, ScanFindsNone
<1>3. ASSUME DeleteMemoryMessage(k) PROVE TypeInv'
  <2>1. o \in Ops /\ compensator[k].target \in Ops
    BY <1>3, <1>0 DEF TypeInv, Busy, DeleteMemoryMessage
  <2>2. /\ compensator' \in [Compensators -> Compensator]
        /\ \A j \in Compensators :
              /\ compensator'[j].pc # "idle" => compensator'[j].op \in Ops
              /\ compensator'[j].pc = "delete" => compensator'[j].target \in Ops
    BY <1>3, <1>0, <2>1 DEF TypeInv, MemoryTypeOK, Busy, Compensator, DeleteMemoryMessage
  <2>3. message' \in [Ops -> MessageStates]
    BY <1>3, Zenon DEF TypeInv, MemoryTypeOK, DeleteMemoryMessage, MessageStates
  <2>4. collided' \in BOOLEAN
    BY <1>3 DEF DeleteMemoryMessage
  <2>. QED  BY <1>3, <2>2, <2>3, <2>4
               DEF TypeInv, MemoryTypeOK, Busy, RowsTyped, DeleteMemoryMessage
<1>4. ASSUME CompleteMemoryCompensation(k) PROVE TypeInv'
  <2>1. RowsTyped'
    <3>1. CASE Settle(o, "reconciled")
      BY <1>4, <1>0, <3>1, SettleTyped DEF CompleteMemoryCompensation, Terminal
    <3>2. CASE UNCHANGED op
      BY <1>0, <3>2 DEF RowsTyped
    <3>. QED  BY <1>4, <3>1, <3>2 DEF CompleteMemoryCompensation
  <2>2. /\ compensator' \in [Compensators -> Compensator]
        /\ \A j \in Compensators :
              /\ compensator'[j].pc # "idle" => compensator'[j].op \in Ops
              /\ compensator'[j].pc = "delete" => compensator'[j].target \in Ops
    BY <1>4
       DEF TypeInv, MemoryTypeOK, Busy, Compensator, CompleteMemoryCompensation, Stops,
                IdleCompensator
  <2>. QED  BY <1>4, <2>1, <2>2 DEF TypeInv, MemoryTypeOK, Busy, RowsTyped,
                 CompleteMemoryCompensation, history
<1>5. ASSUME LoseCompensator(k) PROVE TypeInv'
  <2>1. /\ compensator' \in [Compensators -> Compensator]
        /\ \A j \in Compensators :
              /\ compensator'[j].pc # "idle" => compensator'[j].op \in Ops
              /\ compensator'[j].pc = "delete" => compensator'[j].target \in Ops
    BY <1>5 DEF TypeInv, MemoryTypeOK, Busy, Compensator, LoseCompensator, Stops,
                IdleCompensator
  <2>. QED  BY <1>5, <2>1, FaultTyped
               DEF TypeInv, MemoryTypeOK, Busy, RowsTyped, LoseCompensator, history
<1>6. ASSUME ScanIsIncomplete(k) PROVE TypeInv'
  <2>1. /\ compensator' \in [Compensators -> Compensator]
        /\ \A j \in Compensators :
              /\ compensator'[j].pc # "idle" => compensator'[j].op \in Ops
              /\ compensator'[j].pc = "delete" => compensator'[j].target \in Ops
    BY <1>6 DEF TypeInv, MemoryTypeOK, Busy, Compensator, ScanIsIncomplete, Stops,
                IdleCompensator
  <2>. QED  BY <1>6, <2>1
               DEF TypeInv, MemoryTypeOK, Busy, RowsTyped, ScanIsIncomplete, history
<1>. QED  BY <1>1, <1>2, <1>3, <1>4, <1>5, <1>6 DEF CompensateStep

LEMMA ClaimsKeepTypes ==
    ASSUME TypeInv, NEW o \in Ops,
           \/ \E d \in Dispatchers : ClaimEvent(d, o)
           \/ \E k \in Compensators : ClaimCompensation(k, o)
           \/ ClockStep(o)
    PROVE  TypeInv'
<1>0. RowsTyped /\ op[o] \in Operation
  BY DEF TypeInv, MemoryTypeOK, RowsTyped
<1>1. ASSUME NEW d \in Dispatchers, ClaimEvent(d, o) PROVE TypeInv'
  <2>1. dispatcher' \in [Dispatchers -> Dispatcher]
    BY <1>1, Zenon DEF TypeInv, MemoryTypeOK, ClaimEvent, IdleDispatcher, Dispatcher
  <2>2. \A e \in Dispatchers : dispatcher'[e].pc # "idle" => dispatcher'[e].op \in Ops
    BY <1>1 DEF TypeInv, MemoryTypeOK, Busy, ClaimEvent, IdleDispatcher
  <2>. QED  BY <1>1, <2>1, <2>2
               DEF TypeInv, MemoryTypeOK, Busy, RowsTyped, ClaimEvent, history
<1>2. ASSUME NEW k \in Compensators, ClaimCompensation(k, o) PROVE TypeInv'
  <2>. DEFINE x == [op[o] EXCEPT !.claim = k, !.held = TRUE]
  <2>1. x \in Operation /\ x.claim = k
    BY <1>0, Zenon DEF Operation
  <2>2. op' = [op EXCEPT ![o] = x]
    BY <1>2, Zenon DEF ClaimCompensation
  <2>. HIDE DEF x
  <2>3. RowsTyped'
    BY <1>0, <2>1, <2>2, RowChanges, Zenon
  <2>4. /\ compensator' \in [Compensators -> Compensator]
        /\ \A j \in Compensators :
              /\ compensator'[j].pc # "idle" => compensator'[j].op \in Ops
              /\ compensator'[j].pc = "delete" => compensator'[j].target \in Ops
    BY <1>2, <1>0, Zenon DEF TypeInv, MemoryTypeOK, Busy, Compensator, ClaimCompensation,
                      IdleCompensator, Operation
  <2>. QED  BY <1>2, <2>3, <2>4, Zenon
               DEF TypeInv, MemoryTypeOK, Busy, RowsTyped, ClaimCompensation, history
<1>3. ASSUME LeaseRunsOut(o) PROVE TypeInv'
  BY <1>3, FaultTyped DEF TypeInv, MemoryTypeOK, Busy, RowsTyped, LeaseRunsOut, history
<1>4. ASSUME Indexed(o) PROVE TypeInv'
  BY <1>4 DEF TypeInv, MemoryTypeOK, Busy, RowsTyped, MessageStates, Indexed, history
<1>5. ASSUME ClaimRunsOut(o) PROVE TypeInv'
  <2>. DEFINE x == [op[o] EXCEPT !.held = FALSE]
  <2>1. x \in Operation /\ ~ x.held
    BY <1>0, Zenon DEF Operation
  <2>2. op' = [op EXCEPT ![o] = x]
    BY <1>5 DEF ClaimRunsOut
  <2>. HIDE DEF x
  <2>3. RowsTyped'
    BY <1>0, <2>1, <2>2, RowChanges, Zenon
  <2>. QED  BY <1>5, <2>3, FaultTyped
               DEF TypeInv, MemoryTypeOK, Busy, RowsTyped, ClaimRunsOut, history
<1>. QED  BY <1>1, <1>2, <1>3, <1>4, <1>5 DEF ClockStep

LEMMA TypeInvNext == TypeInv /\ [Next]_vars => TypeInv'
<1>. SUFFICES ASSUME TypeInv, [Next]_vars PROVE TypeInv'
  OBVIOUS
<1>1. CASE UNCHANGED vars
  BY <1>1 DEF TypeInv, MemoryTypeOK, Busy, RowsTyped, vars, history
<1>2. CASE SessionOutgrowsScan
  BY <1>2 DEF TypeInv, MemoryTypeOK, Busy, RowsTyped, SessionOutgrowsScan, history
<1>. QED
  BY <1>1, <1>2, OwnerKeepsTypes, DispatchKeepsTypes, CompensateKeepsTypes, ClaimsKeepTypes
     DEF Next

(***************************************************************************)
(* What makes SentOnce inductive.  An operation that was not dispatched,   *)
(* or ended before it was, has not been sent and no dispatcher is past the *)
(* update that marks it; the one dispatcher that made that update and has  *)
(* not called yet is alone, and the operation is still unsent.             *)
(***************************************************************************)
Unmarked == {"none", "draft", "accepted", "admitted", "blocked", "skipped"}

SendInv ==
    /\ SentOnce
    /\ \A o \in Ops : op[o].state \in Unmarked =>
          /\ sends[o] = 0
          /\ \A d \in Dispatchers : dispatcher[d].op = o
                => dispatcher[d].pc \notin {"call", "attach", "finish"}
    /\ \A d \in Dispatchers : dispatcher[d].pc = "call" =>
          /\ sends[dispatcher[d].op] = 0
          /\ \A e \in Dispatchers :
                dispatcher[e].pc = "call" /\ dispatcher[e].op = dispatcher[d].op => e = d

(***************************************************************************)
(* What makes RevocationHolds inductive.  As long as no consent call saved *)
(* over another one, the policy's generation only grows: an operation is   *)
(* never ahead of it, a revoked one is behind it, so that every admission  *)
(* that began since has found it denied and none has marked it.            *)
(***************************************************************************)
RevokedInv ==
    ~ stale =>
      /\ \A o \in Ops : op[o].state # "none" => op[o].generation <= policy.generation
      /\ \A o \in revoked :
            /\ op[o].state \in {"draft", "accepted", "blocked", "skipped"}
            /\ op[o].generation < policy.generation
            /\ \A d \in Dispatchers : dispatcher[d].op = o /\ dispatcher[d].pc = "write"
                  => dispatcher[d].denied

(***************************************************************************)
(* The quiet steps: they send nothing, leave the policy and what was       *)
(* revoked alone, take no operation into or out of the states before its   *)
(* mark, and a dispatcher takes one only to end.                           *)
(***************************************************************************)
RowsQuiet ==
    \A q \in Ops :
        /\ op'[q].generation = op[q].generation
        /\ op[q].state \in Unmarked \/ op'[q].state \in Unmarked
              => op'[q].state = op[q].state

Quiet ==
    /\ UNCHANGED <<sends, policy, revoked, stale>>
    /\ RowsQuiet
    /\ \A e \in Dispatchers : dispatcher'[e] = dispatcher[e] \/ dispatcher'[e].pc = "idle"

QuietDispatch(d) ==
    \/ RecoverDispatched(d) \/ AdmitFindsSettled(d) \/ DispatchRollsBack(d)
    \/ FinishMemoryDispatchOperation(d) \/ LoseDispatcher(d)

QuietCompensate(k) ==
    \/ CompensateStep(k) \/ LoseCompensator(k)
    \/ \E o \in Ops : ClaimCompensation(k, o)

\* Settling a sent operation leaves the other rows and all generations alone.
LEMMA SettleIsQuiet ==
    ASSUME TypeInv, NEW o \in Ops, NEW s \in {"executed", "unknown", "reconciled"},
           op[o].state \in Compensable, Settle(o, s)
    PROVE  RowsQuiet
<1>1. /\ op'[o].state = s /\ op'[o].generation = op[o].generation
      /\ \A q \in Ops \ {o} : op'[q] = op[q]
  BY SettleValues
<1>2. op[o].state \notin Unmarked /\ op'[o].state \notin Unmarked
  BY <1>1 DEF Unmarked, Compensable
<1>. QED  BY <1>1, <1>2 DEF RowsQuiet

LEMMA DispatchEndsQuietly ==
    ASSUME TypeInv, NEW d \in Dispatchers, QuietDispatch(d)
    PROVE  Quiet
<1>. DEFINE o == dispatcher[d].op
<1>1. UNCHANGED <<sends, policy, revoked, stale>>
  BY DEF QuietDispatch, RecoverDispatched, AdmitFindsSettled, DispatchRollsBack,
         FinishMemoryDispatchOperation, LoseDispatcher, history
<1>2. Ends(d)
  BY Zenon DEF QuietDispatch, RecoverDispatched, AdmitFindsSettled, DispatchRollsBack,
         FinishMemoryDispatchOperation, LoseDispatcher
<1>3. \A e \in Dispatchers : dispatcher'[e] = dispatcher[e] \/ dispatcher'[e].pc = "idle"
  BY <1>2 DEF TypeInv, MemoryTypeOK, Ends, IdleDispatcher
<1>4. \/ op' = op
      \/ /\ ~ At(d, "idle") /\ op[o].state = "dispatched"
         /\ Settle(o, "unknown") \/ Settle(o, dispatcher[d].outcome)
  BY DEF QuietDispatch, RecoverDispatched, AdmitFindsSettled, DispatchRollsBack,
         FinishMemoryDispatchOperation, LoseDispatcher, At
<1>5. dispatcher[d].outcome \in {"executed", "unknown"}
  BY DEF TypeInv, MemoryTypeOK, Dispatcher
<1>6. ~ At(d, "idle") => o \in Ops
  BY DEF TypeInv, Busy, At
<1>7. RowsQuiet
  <2>1. CASE op' = op
    BY <2>1 DEF RowsQuiet
  <2>2. ASSUME NEW s \in {"executed", "unknown"}, o \in Ops, op[o].state = "dispatched",
               Settle(o, s)
        PROVE  RowsQuiet
    BY <2>2, SettleIsQuiet DEF Compensable
  <2>. QED  BY <1>4, <1>5, <1>6, <2>1, <2>2
<1>. QED  BY <1>1, <1>3, <1>7 DEF Quiet

LEMMA CompensationIsQuiet ==
    ASSUME TypeInv, NEW k \in Compensators, QuietCompensate(k)
    PROVE  Quiet
<1>. DEFINE o == compensator[k].op
<1>1. UNCHANGED <<sends, policy, revoked, stale, dispatcher>>
  BY Zenon DEF QuietCompensate, CompensateStep, LoseCompensator, ClaimCompensation, ScanMatches,
         ScanFindsNone, ScanIsIncomplete, DeleteMemoryMessage, CompleteMemoryCompensation,
         history
<1>2. \/ op' = op
      \/ o \in Ops /\ op[o].state \in Compensable /\ Settle(o, "reconciled")
      \/ \E q \in Ops : op' = [op EXCEPT ![q] = [@ EXCEPT !.claim = k, !.held = TRUE]]
  BY Zenon DEF TypeInv, Busy, QuietCompensate, CompensateStep, LoseCompensator, ClaimCompensation,
         ScanMatches, ScanFindsNone, ScanIsIncomplete, DeleteMemoryMessage,
         CompleteMemoryCompensation, Fenced, history
<1>3. RowsQuiet
  <2>1. CASE op' = op
    BY <2>1 DEF RowsQuiet
  <2>2. CASE o \in Ops /\ op[o].state \in Compensable /\ Settle(o, "reconciled")
    BY <2>2, SettleIsQuiet
  <2>3. ASSUME NEW p \in Ops, op' = [op EXCEPT ![p] = [@ EXCEPT !.claim = k, !.held = TRUE]]
        PROVE  RowsQuiet
    BY <2>3 DEF TypeInv, MemoryTypeOK, Operation, RowsQuiet
  <2>. QED  BY <1>2, <2>1, <2>2, <2>3, Zenon
<1>. QED  BY <1>1, <1>3 DEF Quiet

LEMMA ClockIsQuiet ==
    ASSUME TypeInv, NEW o \in Ops, ClockStep(o)
    PROVE  Quiet
<1>1. UNCHANGED <<sends, policy, revoked, stale, dispatcher>>
  BY DEF ClockStep, LeaseRunsOut, Indexed, ClaimRunsOut, history
<1>2. op' = op \/ op' = [op EXCEPT ![o].held = FALSE]
  BY DEF ClockStep, LeaseRunsOut, Indexed, ClaimRunsOut
<1>3. \A q \in Ops : op'[q].generation = op[q].generation /\ op'[q].state = op[q].state
  BY <1>2 DEF TypeInv, MemoryTypeOK, Operation
<1>. QED  BY <1>1, <1>3 DEF Quiet, RowsQuiet

\* Nothing at all is quiet.
LEMMA StutterIsQuiet == UNCHANGED vars => Quiet
BY DEF vars, history, Quiet, RowsQuiet

LEMMA SessionIsQuiet == SessionOutgrowsScan => Quiet
BY DEF SessionOutgrowsScan, history, Quiet, RowsQuiet

LEMMA ConsentReadsQuietly ==
    ASSUME NEW c \in Consents, NEW in \in BOOLEAN, ConsentReads(c, in) PROVE Quiet
BY DEF ConsentReads, Quiet, RowsQuiet, history

\* A step that is not quiet is one of these.
LEMMA LoudSteps ==
    ASSUME TypeInv, [Next]_vars
    PROVE  \/ Quiet
           \/ \E c \in Consents : ConsentWrites(c)
           \/ \E o \in Ops : \/ CreateReadsPolicy(o) \/ CreateMemoryOperationWithOutbox(o)
                             \/ TombstoneMemoryOperation(o)
           \/ \E d \in Dispatchers :
                 \/ \E o \in Ops : ClaimEvent(d, o)
                 \/ AdmitFindsAdmitted(d) \/ AdmitReads(d) \/ AdmitWrites(d)
                 \/ AdmitBlocks(d) \/ MarkMemoryDispatched(d)
                 \/ \E seen \in {"queued", "visible"} : AddMemoryMessage(d, seen)
                 \/ \E seen \in {"none", "queued", "visible"} : AddMemoryMessageFails(d, seen)
                 \/ \E m \in Ops : AttachMemoryExternalMessage(d, m)
                 \/ EnvelopeUnreadable(d) \/ AttachFindsNone(d) \/ AttachFails(d)
BY StutterIsQuiet, SessionIsQuiet, ConsentReadsQuietly, ClockIsQuiet, CompensationIsQuiet, DispatchEndsQuietly
   DEF Next, OwnerStep, DispatchStep, DispatchFault, QuietDispatch, QuietCompensate

LEMMA QuietKeepsSends == ASSUME SendInv, Quiet PROVE SendInv'
<1>1. \A e \in Dispatchers : dispatcher'[e].pc # "idle" => dispatcher'[e] = dispatcher[e]
  BY DEF Quiet
<1>2. sends' = sends /\ \A q \in Ops : op'[q].state \in Unmarked => op[q].state \in Unmarked
  BY DEF Quiet, RowsQuiet
<1>3. SentOnce'
  BY <1>2 DEF SendInv, SentOnce, Unmarked
<1>4. \A q \in Ops : op'[q].state \in Unmarked =>
          /\ sends'[q] = 0
          /\ \A e \in Dispatchers : dispatcher'[e].op = q
                => dispatcher'[e].pc \notin {"call", "attach", "finish"}
  BY <1>1, <1>2 DEF SendInv
<1>5. \A d \in Dispatchers : dispatcher'[d].pc = "call" =>
          /\ sends'[dispatcher'[d].op] = 0
          /\ \A e \in Dispatchers :
                dispatcher'[e].pc = "call" /\ dispatcher'[e].op = dispatcher'[d].op => e = d
  BY <1>1, <1>2 DEF SendInv
<1>. QED  BY <1>3, <1>4, <1>5 DEF SendInv

LEMMA QuietKeepsRevoked == ASSUME TypeInv, RevokedInv, Quiet PROVE RevokedInv'
<1>. SUFFICES ASSUME ~ stale PROVE RevokedInv'
  BY DEF RevokedInv, Quiet
<1>0. revoked \subseteq Ops /\ revoked' = revoked /\ policy' = policy
  BY DEF TypeInv, MemoryTypeOK, Quiet
<1>1. \A q \in Ops : op'[q].state # "none" => op'[q].generation <= policy'.generation
  <2>1. \A q \in Ops : op'[q].state # "none" => op[q].state # "none"
    BY DEF Quiet, RowsQuiet, Unmarked
  <2>. QED  BY <1>0, <2>1 DEF RevokedInv, Quiet, RowsQuiet
<1>2. ASSUME NEW q \in revoked'
      PROVE  /\ op'[q].state \in {"draft", "accepted", "blocked", "skipped"}
             /\ op'[q].generation < policy'.generation
  BY <1>0 DEF RevokedInv, Unmarked, Quiet, RowsQuiet
<1>3. ASSUME NEW q \in revoked', NEW d \in Dispatchers, dispatcher'[d].op = q,
             dispatcher'[d].pc = "write"
      PROVE  dispatcher'[d].denied
  <2>1. dispatcher'[d] = dispatcher[d]
    BY <1>3 DEF Quiet
  <2>. QED  BY <1>0, <1>3, <2>1 DEF RevokedInv
<1>. QED  BY <1>1, <1>2, <1>3 DEF RevokedInv

LEMMA SendInvInit == Init => SendInv
BY DEF Init, SendInv, SentOnce, Unmarked, IdleDispatcher

LEMMA SendInvNext == TypeInv /\ SendInv /\ [Next]_vars => SendInv'
<1>. SUFFICES ASSUME TypeInv, SendInv, [Next]_vars PROVE SendInv'
  OBVIOUS
<1>. USE DEF SendInv, SentOnce, Unmarked, TypeInv, MemoryTypeOK, Busy, Operation,
             Dispatcher, history
<1>1. ASSUME NEW c \in Consents, ConsentWrites(c) PROVE SendInv'
  BY <1>1 DEF ConsentWrites
<1>2. ASSUME NEW o \in Ops, CreateReadsPolicy(o) PROVE SendInv'
  BY <1>2 DEF CreateReadsPolicy
<1>3. ASSUME NEW o \in Ops, CreateMemoryOperationWithOutbox(o) PROVE SendInv'
  BY <1>3 DEF CreateMemoryOperationWithOutbox
<1>4. ASSUME NEW o \in Ops, TombstoneMemoryOperation(o) PROVE SendInv'
  BY <1>4 DEF TombstoneMemoryOperation
<1>5. ASSUME NEW d \in Dispatchers, NEW o \in Ops, ClaimEvent(d, o) PROVE SendInv'
  BY <1>5 DEF ClaimEvent, At, IdleDispatcher
<1>6. ASSUME NEW d \in Dispatchers, AdmitFindsAdmitted(d) PROVE SendInv'
  BY <1>6 DEF AdmitFindsAdmitted, At, Goes
<1>7. ASSUME NEW d \in Dispatchers, AdmitReads(d) PROVE SendInv'
  BY <1>7 DEF AdmitReads, At
<1>8. ASSUME NEW d \in Dispatchers, AdmitWrites(d) PROVE SendInv'
  BY <1>8 DEF AdmitWrites, At, Goes
<1>9. ASSUME NEW d \in Dispatchers, AdmitBlocks(d) PROVE SendInv'
  BY <1>9 DEF AdmitBlocks, At, Ends, Settle, IdleDispatcher
<1>10. ASSUME NEW d \in Dispatchers, MarkMemoryDispatched(d) PROVE SendInv'
  BY <1>10 DEF MarkMemoryDispatched, At, Goes, Markable
<1>11. ASSUME NEW d \in Dispatchers, NEW seen \in {"queued", "visible"}, AddMemoryMessage(d, seen)
       PROVE  SendInv'
  BY <1>11 DEF AddMemoryMessage, At, Goes
<1>12. ASSUME NEW d \in Dispatchers, EnvelopeUnreadable(d) PROVE SendInv'
  BY <1>12 DEF EnvelopeUnreadable, At, Goes
<1>13. ASSUME NEW d \in Dispatchers, NEW seen \in {"none", "queued", "visible"}, AddMemoryMessageFails(d, seen)
       PROVE  SendInv'
  BY <1>13 DEF AddMemoryMessageFails, At, Goes
<1>14. ASSUME NEW d \in Dispatchers, NEW m \in Ops, AttachMemoryExternalMessage(d, m)
       PROVE  SendInv'
  BY <1>14 DEF AttachMemoryExternalMessage, At
<1>15. ASSUME NEW d \in Dispatchers, AttachFindsNone(d) PROVE SendInv'
  BY <1>15 DEF AttachFindsNone, At, Goes
<1>16. ASSUME NEW d \in Dispatchers, AttachFails(d) PROVE SendInv'
  BY <1>16 DEF AttachFails, At, Goes
<1>. HIDE DEF SendInv, SentOnce, Unmarked, TypeInv, MemoryTypeOK, Busy, Operation,
              Dispatcher, history
<1>. QED
  BY <1>1, <1>2, <1>3, <1>4, <1>5, <1>6, <1>7, <1>8, <1>9, <1>10, <1>11, <1>12, <1>13,
     <1>14, <1>15, <1>16, LoudSteps, QuietKeepsSends

LEMMA RevokedInvInit == Init => RevokedInv
BY DEF Init, RevokedInv

LEMMA RevokedInvNext == TypeInv /\ RevokedInv /\ [Next]_vars => RevokedInv'
<1>. SUFFICES ASSUME TypeInv, RevokedInv, [Next]_vars PROVE RevokedInv'
  OBVIOUS
<1>. USE DEF RevokedInv, Unmarked, TypeInv, MemoryTypeOK, Busy, Operation, Dispatcher,
             Consent, history
<1>1. ASSUME NEW c \in Consents, ConsentWrites(c) PROVE RevokedInv'
  <2>. SUFFICES ASSUME ~ stale' PROVE RevokedInv'
    BY DEF RevokedInv
  <2>1. /\ ~ stale /\ consent[c].read = policy.generation
        /\ policy'.generation = policy.generation + 1
    BY <1>1, Zenon DEF ConsentWrites
  <2>2. revoked' \subseteq revoked \union Waiting
    BY <1>1 DEF ConsentWrites
  <2>3. dispatcher' = dispatcher /\ op' = op /\ policy.generation \in Nat
    BY <1>1 DEF ConsentWrites
  <2>4. \A q \in Ops : op[q].state # "none" => op[q].generation < policy'.generation
    BY <2>1, <2>3
  <2>5. ASSUME NEW q \in Waiting
        PROVE  /\ op[q].state \in {"draft", "accepted"}
               /\ \A d \in Dispatchers : dispatcher[d].op = q => dispatcher[d].pc # "write"
    BY DEF Waiting
  <2>6. ASSUME NEW q \in revoked'
        PROVE  /\ op[q].state \in {"draft", "accepted", "blocked", "skipped"}
               /\ op[q].generation < policy'.generation
               /\ \A d \in Dispatchers : dispatcher[d].op = q /\ dispatcher[d].pc = "write"
                     => dispatcher[d].denied
    <3>1. CASE q \in revoked
      BY <2>1, <2>3, <3>1
    <3>2. CASE q \in Waiting
      BY <2>4, <2>5, <3>2 DEF Waiting
    <3>. QED  BY <2>2, <3>1, <3>2
  <2>. QED  BY <2>1, <2>3, <2>4, <2>6
<1>2. ASSUME NEW o \in Ops, CreateReadsPolicy(o) PROVE RevokedInv'
  BY <1>2 DEF CreateReadsPolicy
<1>3. ASSUME NEW o \in Ops, CreateMemoryOperationWithOutbox(o) PROVE RevokedInv'
  BY <1>3 DEF CreateMemoryOperationWithOutbox
<1>4. ASSUME NEW o \in Ops, TombstoneMemoryOperation(o) PROVE RevokedInv'
  BY <1>4 DEF TombstoneMemoryOperation
<1>5. ASSUME NEW d \in Dispatchers, NEW o \in Ops, ClaimEvent(d, o) PROVE RevokedInv'
  BY <1>5 DEF ClaimEvent, At, IdleDispatcher
<1>6. ASSUME NEW d \in Dispatchers, AdmitFindsAdmitted(d) PROVE RevokedInv'
  BY <1>6 DEF AdmitFindsAdmitted, At, Goes
<1>7. ASSUME NEW d \in Dispatchers, AdmitReads(d) PROVE RevokedInv'
  <2>. SUFFICES ASSUME ~ stale' PROVE RevokedInv'
    BY DEF RevokedInv
  <2>1. \A q \in revoked : Denied(q)
    BY <1>7 DEF AdmitReads, Denied
  <2>2. \A e \in Dispatchers :
           /\ dispatcher'[e].op = dispatcher[e].op
           /\ e # d => dispatcher'[e] = dispatcher[e]
    BY <1>7 DEF AdmitReads
  <2>3. dispatcher[d].op \in revoked => dispatcher'[d].denied
    BY <1>7, <2>1 DEF AdmitReads
  <2>. QED  BY <1>7, <2>2, <2>3 DEF AdmitReads
<1>8. ASSUME NEW d \in Dispatchers, AdmitWrites(d) PROVE RevokedInv'
  BY <1>8 DEF AdmitWrites, At, Goes
<1>9. ASSUME NEW d \in Dispatchers, AdmitBlocks(d) PROVE RevokedInv'
  BY <1>9 DEF AdmitBlocks, At, Ends, Settle, IdleDispatcher
<1>10. ASSUME NEW d \in Dispatchers, MarkMemoryDispatched(d) PROVE RevokedInv'
  BY <1>10 DEF MarkMemoryDispatched, At, Goes, Markable
<1>11. ASSUME NEW d \in Dispatchers, NEW seen \in {"queued", "visible"}, AddMemoryMessage(d, seen)
       PROVE  RevokedInv'
  BY <1>11 DEF AddMemoryMessage, At, Goes
<1>12. ASSUME NEW d \in Dispatchers, EnvelopeUnreadable(d) PROVE RevokedInv'
  BY <1>12 DEF EnvelopeUnreadable, At, Goes
<1>13. ASSUME NEW d \in Dispatchers, NEW seen \in {"none", "queued", "visible"}, AddMemoryMessageFails(d, seen)
       PROVE  RevokedInv'
  BY <1>13 DEF AddMemoryMessageFails, At, Goes
<1>14. ASSUME NEW d \in Dispatchers, NEW m \in Ops, AttachMemoryExternalMessage(d, m)
       PROVE  RevokedInv'
  BY <1>14 DEF AttachMemoryExternalMessage, At
<1>15. ASSUME NEW d \in Dispatchers, AttachFindsNone(d) PROVE RevokedInv'
  BY <1>15 DEF AttachFindsNone, At, Goes
<1>16. ASSUME NEW d \in Dispatchers, AttachFails(d) PROVE RevokedInv'
  BY <1>16 DEF AttachFails, At, Goes
<1>. HIDE DEF RevokedInv, Unmarked, TypeInv, MemoryTypeOK, Busy, Operation, Dispatcher,
              Consent, history
<1>. QED
  BY <1>1, <1>2, <1>3, <1>4, <1>5, <1>6, <1>7, <1>8, <1>9, <1>10, <1>11, <1>12, <1>13,
     <1>14, <1>15, <1>16, LoudSteps, QuietKeepsRevoked

LEMMA ClosedInit == Init => ClosedTogether
BY DEF Init, ClosedTogether, Terminal

\* Settling an operation and closing its event, or closing that of a settled one.
LEMMA SettlingCloses ==
    ASSUME TypeInv, ClosedTogether, NEW o \in Ops, CloseMemoryDispatchOutbox(o),
           \/ \E s \in Terminal : Settle(o, s)
           \/ op[o].state \in Terminal /\ op' = op
    PROVE  ClosedTogether'
<1>1. \A q \in Ops : q # o => event'[q] = event[q]
  BY DEF CloseMemoryDispatchOutbox, TypeInv, MemoryTypeOK
<1>2. /\ op'[o].state \in Terminal /\ ~ op'[o].sealed
      /\ \A q \in Ops : q # o => op'[q] = op[q]
  <2>1. CASE \E s \in Terminal : Settle(o, s)
    <3>1. PICK s \in Terminal : Settle(o, s)
      BY <2>1
    <3>. QED  BY <3>1, SettleValues
  <2>2. CASE op[o].state \in Terminal /\ op' = op
    BY <2>2 DEF ClosedTogether
  <2>. QED  BY <2>1, <2>2
<1>. QED  BY <1>1, <1>2 DEF ClosedTogether

\* Steps that write neither operations nor events.
LEMMA SameRowsClosed == ASSUME ClosedTogether, op' = op, event' = event PROVE ClosedTogether'
BY Zenon DEF ClosedTogether

\* A dispatcher that finishes has an operation that was marked (SendInv), so
\* one that is not dispatched any more is settled.
LEMMA ClosedNext == TypeInv /\ SendInv /\ ClosedTogether /\ [Next]_vars => ClosedTogether'
<1>. SUFFICES ASSUME TypeInv, SendInv, ClosedTogether, [Next]_vars PROVE ClosedTogether'
  OBVIOUS
<1>1. ASSUME NEW c \in Consents, NEW in \in BOOLEAN, ConsentReads(c, in)
      PROVE  ClosedTogether'
  BY <1>1, SameRowsClosed, Zenon DEF ConsentReads
<1>2. ASSUME NEW c \in Consents, ConsentWrites(c) PROVE ClosedTogether'
  BY <1>2, SameRowsClosed, Zenon DEF ConsentWrites
<1>3. ASSUME NEW o \in Ops, CreateReadsPolicy(o) PROVE ClosedTogether'
  BY <1>3 DEF CreateReadsPolicy,
              ClosedTogether, Terminal, TypeInv, MemoryTypeOK, Operation
<1>4. ASSUME NEW o \in Ops, CreateMemoryOperationWithOutbox(o) PROVE ClosedTogether'
  BY <1>4 DEF CreateMemoryOperationWithOutbox,
              ClosedTogether, Terminal, TypeInv, MemoryTypeOK, Operation
<1>5. ASSUME NEW o \in Ops, TombstoneMemoryOperation(o) PROVE ClosedTogether'
  BY <1>5 DEF TombstoneMemoryOperation,
              ClosedTogether, Terminal, TypeInv, MemoryTypeOK, Operation
<1>6. ASSUME NEW d \in Dispatchers, NEW o \in Ops, ClaimEvent(d, o) PROVE ClosedTogether'
  BY <1>6 DEF ClaimEvent, At,
              ClosedTogether, Terminal, TypeInv, MemoryTypeOK, Operation
<1>7. ASSUME NEW d \in Dispatchers, AdmitFindsAdmitted(d) PROVE ClosedTogether'
  BY <1>7, SameRowsClosed, Zenon DEF AdmitFindsAdmitted
<1>8. ASSUME NEW d \in Dispatchers, RecoverDispatched(d) PROVE ClosedTogether'
  <2>1. dispatcher[d].op \in Ops /\ "unknown" \in Terminal
    BY <1>8, Zenon DEF RecoverDispatched, At, TypeInv, Busy, Terminal
  <2>2. Settle(dispatcher[d].op, "unknown") /\ CloseMemoryDispatchOutbox(dispatcher[d].op)
    BY <1>8, Zenon DEF RecoverDispatched
  <2>3. \E s \in Terminal : Settle(dispatcher[d].op, s)
    BY <2>1, <2>2, Zenon
  <2>. QED  BY <2>1, <2>2, <2>3, SettlingCloses, Zenon
<1>9. ASSUME NEW d \in Dispatchers, AdmitFindsSettled(d) PROVE ClosedTogether'
  <2>1. dispatcher[d].op \in Ops
    BY <1>9 DEF AdmitFindsSettled, At, TypeInv, Busy
  <2>2. /\ op[dispatcher[d].op].state \in Terminal /\ op' = op
        /\ CloseMemoryDispatchOutbox(dispatcher[d].op)
    BY <1>9, Zenon DEF AdmitFindsSettled
  <2>. QED  BY <2>1, <2>2, SettlingCloses, Zenon
<1>10. ASSUME NEW d \in Dispatchers, AdmitReads(d) PROVE ClosedTogether'
  BY <1>10, SameRowsClosed, Zenon DEF AdmitReads
<1>11. ASSUME NEW d \in Dispatchers, AdmitWrites(d) PROVE ClosedTogether'
  BY <1>11 DEF AdmitWrites, At,
              ClosedTogether, Terminal, TypeInv, MemoryTypeOK, Operation, Busy
<1>12. ASSUME NEW d \in Dispatchers, AdmitBlocks(d) PROVE ClosedTogether'
  <2>1. dispatcher[d].op \in Ops /\ {"skipped", "blocked"} \subseteq Terminal
    BY <1>12 DEF AdmitBlocks, At, TypeInv, Busy, Terminal
  <2>2. /\ \E s \in {"skipped", "blocked"} : Settle(dispatcher[d].op, s)
        /\ CloseMemoryDispatchOutbox(dispatcher[d].op)
    BY <1>12, Zenon DEF AdmitBlocks
  <2>. QED  BY <2>1, <2>2, SettlingCloses, Zenon
<1>13. ASSUME NEW d \in Dispatchers, MarkMemoryDispatched(d) PROVE ClosedTogether'
  BY <1>13 DEF MarkMemoryDispatched, At, Markable,
              ClosedTogether, Terminal, TypeInv, MemoryTypeOK, Operation, Busy
<1>14. ASSUME NEW d \in Dispatchers, DispatchRollsBack(d) PROVE ClosedTogether'
  BY <1>14, SameRowsClosed, Zenon DEF DispatchRollsBack
<1>15. ASSUME NEW d \in Dispatchers, NEW seen \in {"queued", "visible"}, AddMemoryMessage(d, seen)
       PROVE  ClosedTogether'
  BY <1>15, SameRowsClosed, Zenon DEF AddMemoryMessage
<1>16. ASSUME NEW d \in Dispatchers, EnvelopeUnreadable(d) PROVE ClosedTogether'
  BY <1>16, SameRowsClosed, Zenon DEF EnvelopeUnreadable
<1>17. ASSUME NEW d \in Dispatchers, NEW seen \in {"none", "queued", "visible"}, AddMemoryMessageFails(d, seen)
       PROVE  ClosedTogether'
  BY <1>17, SameRowsClosed, Zenon DEF AddMemoryMessageFails
<1>18. ASSUME NEW d \in Dispatchers, NEW m \in Ops, AttachMemoryExternalMessage(d, m)
       PROVE  ClosedTogether'
  BY <1>18 DEF AttachMemoryExternalMessage, At,
              ClosedTogether, Terminal, TypeInv, MemoryTypeOK, Operation, Busy
<1>19. ASSUME NEW d \in Dispatchers, AttachFindsNone(d) PROVE ClosedTogether'
  BY <1>19, SameRowsClosed, Zenon DEF AttachFindsNone
<1>20. ASSUME NEW d \in Dispatchers, AttachFails(d) PROVE ClosedTogether'
  BY <1>20, SameRowsClosed, Zenon DEF AttachFails
<1>21. ASSUME NEW d \in Dispatchers, FinishMemoryDispatchOperation(d)
       PROVE  ClosedTogether'
  <2>1. /\ dispatcher[d].op \in Ops /\ dispatcher[d].outcome \in {"executed", "unknown"}
        /\ {"executed", "unknown"} \subseteq Terminal
    BY <1>21 DEF FinishMemoryDispatchOperation, At, TypeInv, MemoryTypeOK, Busy, Dispatcher, Terminal
  <2>2. CloseMemoryDispatchOutbox(dispatcher[d].op)
    BY <1>21, Zenon DEF FinishMemoryDispatchOperation
  <2>3. CASE op[dispatcher[d].op].state = "dispatched"
    <3>1. Settle(dispatcher[d].op, dispatcher[d].outcome)
      BY <1>21, <2>3, Zenon DEF FinishMemoryDispatchOperation
    <3>. QED  BY <2>1, <2>2, <3>1, SettlingCloses, Zenon
  <2>4. CASE op[dispatcher[d].op].state # "dispatched"
    <3>1. op' = op
      BY <1>21, <2>4, Zenon DEF FinishMemoryDispatchOperation
    <3>2. op[dispatcher[d].op].state \in Terminal
      <4>1. dispatcher[d].pc = "finish"
        BY ONLY <1>21, Zenon DEF FinishMemoryDispatchOperation, At
      <4>2. op[dispatcher[d].op].state \notin Unmarked
        BY ONLY SendInv, d \in Dispatchers, <2>1, <4>1 DEF SendInv
      <4>3. op[dispatcher[d].op].state \in OpStates
        BY ONLY TypeInv, <2>1 DEF TypeInv, MemoryTypeOK, Operation
      <4>. QED  BY ONLY <2>4, <4>2, <4>3 DEF Unmarked, OpStates, Terminal
    <3>. QED  BY <2>1, <2>2, <3>1, <3>2, SettlingCloses, Zenon
  <2>. QED  BY <2>3, <2>4, Zenon
<1>22. ASSUME NEW d \in Dispatchers, LoseDispatcher(d) PROVE ClosedTogether'
  BY <1>22, SameRowsClosed, Zenon DEF LoseDispatcher
<1>23. ASSUME NEW k \in Compensators, NEW o \in Ops, ClaimCompensation(k, o)
       PROVE  ClosedTogether'
  BY <1>23 DEF ClaimCompensation,
              ClosedTogether, Terminal, TypeInv, MemoryTypeOK, Operation
<1>24. ASSUME NEW k \in Compensators, NEW m \in Ops, ScanMatches(k, m)
       PROVE  ClosedTogether'
  BY <1>24, SameRowsClosed, Zenon DEF ScanMatches
<1>25. ASSUME NEW k \in Compensators, ScanFindsNone(k) PROVE ClosedTogether'
  BY <1>25, SameRowsClosed, Zenon DEF ScanFindsNone
<1>26. ASSUME NEW k \in Compensators, DeleteMemoryMessage(k) PROVE ClosedTogether'
  BY <1>26, SameRowsClosed, Zenon DEF DeleteMemoryMessage
<1>27. ASSUME NEW k \in Compensators, CompleteMemoryCompensation(k) PROVE ClosedTogether'
  <2>1. CASE Fenced(k)
    <3>1. compensator[k].op \in Ops
      BY <1>27 DEF CompleteMemoryCompensation, TypeInv, Busy
    <3>2. Settle(compensator[k].op, "reconciled")
      BY <1>27, <2>1 DEF CompleteMemoryCompensation
    <3>3. op[compensator[k].op].state \in Compensable
      BY <2>1 DEF Fenced
    <3>. QED
      BY <1>27, <3>1, <3>2, <3>3, SettleValues
         DEF CompleteMemoryCompensation, Compensable, ClosedTogether, Terminal
  <2>2. CASE ~ Fenced(k)
    BY <1>27, <2>2, SameRowsClosed, Zenon DEF CompleteMemoryCompensation
  <2>. QED  BY <2>1, <2>2
<1>28. ASSUME NEW k \in Compensators, LoseCompensator(k) PROVE ClosedTogether'
  BY <1>28, SameRowsClosed, Zenon DEF LoseCompensator
<1>29. ASSUME NEW o \in Ops, LeaseRunsOut(o) PROVE ClosedTogether'
  BY <1>29 DEF LeaseRunsOut,
              ClosedTogether, Terminal, TypeInv, MemoryTypeOK, Operation
<1>30. ASSUME NEW o \in Ops, Indexed(o) PROVE ClosedTogether'
  BY <1>30, SameRowsClosed, Zenon DEF Indexed
<1>31. ASSUME NEW o \in Ops, ClaimRunsOut(o) PROVE ClosedTogether'
  BY <1>31 DEF ClaimRunsOut,
              ClosedTogether, Terminal, TypeInv, MemoryTypeOK, Operation
<1>32. CASE UNCHANGED vars
  BY <1>32, SameRowsClosed, Zenon DEF vars
<1>33. ASSUME NEW k \in Compensators, ScanIsIncomplete(k) PROVE ClosedTogether'
  BY <1>33, SameRowsClosed, Zenon DEF ScanIsIncomplete
<1>34. CASE SessionOutgrowsScan
  BY <1>34, SameRowsClosed, Zenon DEF SessionOutgrowsScan
<1>. QED
  BY <1>1, <1>2, <1>3, <1>4, <1>5, <1>6, <1>7, <1>8, <1>9, <1>10, <1>11, <1>12, <1>13,
     <1>14, <1>15, <1>16,
     <1>17, <1>18, <1>19, <1>20, <1>21, <1>22, <1>23, <1>24, <1>25, <1>26, <1>27, <1>28,
     <1>29, <1>30, <1>31, <1>32, <1>33, <1>34
     DEF Next, OwnerStep, DispatchStep, DispatchFault, CompensateStep, ClockStep

-----------------------------------------------------------------------------
(***************************************************************************)
(* The rows, events, messages and runs of MemoryDispatch have their types, *)
(* and only a compensator's claim has an expiry ahead.                     *)
(***************************************************************************)
THEOREM MemoryTypesHold == Spec => []MemoryTypeOK
<1>1. TypeInv => MemoryTypeOK
  BY DEF TypeInv
<1>. QED  BY <1>1, TypeInvInit, TypeInvNext, PTL DEF Spec

(***************************************************************************)
(* AddMemoryMessage is called at most once for an operation, by whatever   *)
(* dispatchers and after whatever crashes, and never for a blocked or      *)
(* skipped one (the guarded updates of AdmitMemoryDispatchOperation and    *)
(* MarkMemoryDispatched).                                                  *)
(***************************************************************************)
THEOREM OperationsAreSentOnce == Spec => []SentOnce
<1>1. SendInv => SentOnce
  BY DEF SendInv
<1>. QED
  BY <1>1, TypeInvInit, TypeInvNext, SendInvInit, SendInvNext, PTL DEF Spec

(***************************************************************************)
(* An operation that was waiting when consent was withdrawn is never sent, *)
(* unless a consent call saved over another one                            *)
(* (memoryDispatchAdmissionDenial compares the generations).               *)
(***************************************************************************)
THEOREM RevokedIsNeverSent == Spec => []RevocationHolds
<1>1. TypeInv /\ SendInv /\ RevokedInv => RevocationHolds
  BY DEF TypeInv, MemoryTypeOK, SendInv, RevokedInv, RevocationHolds, Unmarked
<1>. QED
  BY <1>1, TypeInvInit, TypeInvNext, SendInvInit, SendInvNext, RevokedInvInit,
     RevokedInvNext, PTL DEF Spec

(***************************************************************************)
(* An event leaves the outbox only with its operation settled, and what is *)
(* settled stores no payload (closeMemoryDispatchOutbox shares every       *)
(* settling transaction).                                                  *)
(***************************************************************************)
THEOREM EventsCloseWithOperations == Spec => []ClosedTogether
BY TypeInvInit, TypeInvNext, SendInvInit, SendInvNext, ClosedInit, ClosedNext, PTL DEF Spec
=============================================================================
