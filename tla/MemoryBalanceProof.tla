-------------------------- MODULE MemoryBalanceProof --------------------------
(***************************************************************************)
(* Proof that a compensation leaves nothing behind (NothingLeftBehind of   *)
(* MemoryDispatch), for any finite set of operations, any runs and bounds. *)
(***************************************************************************)
EXTENDS MemoryDispatchProof, FiniteSetTheorems

(***************************************************************************)
(* NothingLeftBehind counts messages against operations, and a step may    *)
(* change one count long before the other.  Debt holds the operations for  *)
(* which the balance is in advance: a compensator has removed a message    *)
(* for one, or found none, and has not reconciled it yet; or it has        *)
(* reconciled one that a dispatcher is about to send.  With the messages   *)
(* that are still to come or to go counted in, no step loses one.          *)
(***************************************************************************)
Present == {o \in Ops : message[o] \in {"queued", "visible"}}

Owed == {o \in Ops : sends[o] > 0 /\ (op[o].state # "reconciled" \/ o \in early)}

\* A dispatcher is about to send o.
Calling(o) == \E d \in Dispatchers : dispatcher[d].pc = "call" /\ dispatcher[d].op = o

\* The compensator that holds o has done with the messages.
Removed(k) == \/ compensator[k].pc = "complete"
              \/ compensator[k].pc = "delete" /\ ~ compensator[k].listed

Settling(o) ==
    \E k \in Compensators : compensator[k].op = o /\ op[o].claim = k /\ Removed(k)

Debt == {o \in Ops \ early :
            \/ Settling(o) /\ (sends[o] > 0 \/ Calling(o))
            \/ op[o].state = "reconciled" /\ sends[o] = 0 /\ Calling(o)}

Balance == Cardinality(Present) + Cardinality(Debt) <= Cardinality(Owed)

\* A compensator only holds an operation that can be compensated, a message
\* is there only because of a call, and a listed one is not taken back.
HeldInv ==
    /\ \A o \in Ops : op[o].claim \in Compensators => op[o].state \in Compensable
    /\ \A o \in Ops : message[o] \in {"queued", "visible"} => sends[o] > 0
    /\ \A k \in Compensators : compensator[k].pc = "delete" /\ compensator[k].listed
          => /\ message[compensator[k].target] \in {"visible", "deleted"}
             /\ sends[compensator[k].target] > 0
    /\ \A k \in Compensators : compensator[k].pc = "scan" => ~ compensator[k].listed

BalanceInv == HeldInv /\ (~ collided => Balance)

\* Sizes of subsets of a finite set, after one element more or less.
LEMMA Sizes ==
    ASSUME NEW S, IsFiniteSet(S), NEW A \in SUBSET S, NEW B \in SUBSET S
    PROVE  /\ Cardinality(A) \in Nat
           /\ A \subseteq B => Cardinality(A) <= Cardinality(B)
           /\ \A x : A \subseteq B \cup {x} => Cardinality(A) <= Cardinality(B) + 1
           /\ \A x : x \in B /\ A \subseteq B \ {x} => Cardinality(A) <= Cardinality(B) - 1
<1>1. IsFiniteSet(A) /\ IsFiniteSet(B)
  BY FS_Subset
<1>2. Cardinality(A) \in Nat /\ Cardinality(B) \in Nat
  BY <1>1, FS_CardinalityType
<1>3. A \subseteq B => Cardinality(A) <= Cardinality(B)
  BY <1>1, FS_Subset
<1>4. ASSUME NEW x, A \subseteq B \cup {x} PROVE Cardinality(A) <= Cardinality(B) + 1
  <2>1. /\ IsFiniteSet(B \cup {x})
        /\ Cardinality(B \cup {x}) = Cardinality(B) \/ Cardinality(B \cup {x}) = Cardinality(B) + 1
    BY <1>1, FS_AddElement
  <2>2. Cardinality(A) <= Cardinality(B \cup {x})
    BY <1>4, <2>1, FS_Subset
  <2>. QED  BY <1>2, <2>1, <2>2
<1>5. ASSUME NEW x, x \in B, A \subseteq B \ {x} PROVE Cardinality(A) <= Cardinality(B) - 1
  <2>1. IsFiniteSet(B \ {x}) /\ Cardinality(B \ {x}) = Cardinality(B) - 1
    BY <1>1, <1>5, FS_RemoveElement
  <2>2. Cardinality(A) <= Cardinality(B \ {x})
    BY <1>5, <2>1, FS_Subset
  <2>. QED  BY <2>1, <2>2
<1>. QED  BY <1>2, <1>3, <1>4, <1>5

\* How a step may move the three sets without losing the balance.
LEMMA StepBalances ==
    ASSUME Balance,
           \/ Present' \subseteq Present /\ Debt' \subseteq Debt /\ Owed \subseteq Owed'
           \/ \E x : /\ Present' \subseteq Present \cup {x} /\ Debt' \subseteq Debt
                     /\ x \in Owed' /\ Owed \subseteq Owed' \ {x}
           \/ \E x : /\ Present' \subseteq Present \cup {x} /\ x \in Debt
                     /\ Debt' \subseteq Debt \ {x} /\ Owed \subseteq Owed'
           \/ \E x, y : /\ x \in Present /\ Present' \subseteq Present \ {x}
                        /\ Debt' \subseteq Debt \cup {y} /\ Owed \subseteq Owed'
           \/ \E x : /\ Present' \subseteq Present /\ x \in Debt
                     /\ Debt' \subseteq Debt \ {x} /\ Owed \subseteq Owed' \cup {x}
           \/ Present' = {} /\ Debt' \subseteq Owed'
    PROVE  Balance'
<1>. DEFINE P == Present   D == Debt   W == Owed
            P1 == Present'   D1 == Debt'   W1 == Owed'
<1>a. /\ P \in SUBSET Ops /\ D \in SUBSET Ops /\ W \in SUBSET Ops
      /\ P1 \in SUBSET Ops /\ D1 \in SUBSET Ops /\ W1 \in SUBSET Ops
  BY Zenon DEF Present, Debt, Owed
<1>b. Cardinality(P) + Cardinality(D) <= Cardinality(W)
  BY DEF Balance
<1>c. \/ P1 \subseteq P /\ D1 \subseteq D /\ W \subseteq W1
      \/ \E x : P1 \subseteq P \cup {x} /\ D1 \subseteq D /\ x \in W1 /\ W \subseteq W1 \ {x}
      \/ \E x : P1 \subseteq P \cup {x} /\ x \in D /\ D1 \subseteq D \ {x} /\ W \subseteq W1
      \/ \E x, y : x \in P /\ P1 \subseteq P \ {x} /\ D1 \subseteq D \cup {y} /\ W \subseteq W1
      \/ \E x : P1 \subseteq P /\ x \in D /\ D1 \subseteq D \ {x} /\ W \subseteq W1 \cup {x}
      \/ P1 = {} /\ D1 \subseteq W1
  BY Zenon
<1>. SUFFICES Cardinality(P1) + Cardinality(D1) <= Cardinality(W1)
  BY DEF Balance
<1>. HIDE DEF P, D, W, P1, D1, W1
<1>0. /\ Cardinality(P) \in Nat /\ Cardinality(D) \in Nat /\ Cardinality(W) \in Nat
      /\ Cardinality(P1) \in Nat /\ Cardinality(D1) \in Nat /\ Cardinality(W1) \in Nat
  BY <1>a, FiniteAssumption, Sizes
<1>1. CASE P1 \subseteq P /\ D1 \subseteq D /\ W \subseteq W1
  <2>1. /\ Cardinality(P1) <= Cardinality(P) /\ Cardinality(D1) <= Cardinality(D)
        /\ Cardinality(W) <= Cardinality(W1)
    BY <1>1, <1>a, FiniteAssumption, Sizes
  <2>. QED  BY <1>0, <1>b, <2>1
<1>2. ASSUME NEW x, P1 \subseteq P \cup {x}, D1 \subseteq D, x \in W1, W \subseteq W1 \ {x}
      PROVE  Cardinality(P1) + Cardinality(D1) <= Cardinality(W1)
  <2>1. /\ Cardinality(P1) <= Cardinality(P) + 1 /\ Cardinality(D1) <= Cardinality(D)
        /\ Cardinality(W) <= Cardinality(W1) - 1
    BY <1>2, <1>a, FiniteAssumption, Sizes, Zenon
  <2>. QED  BY <1>0, <1>b, <2>1
<1>3. ASSUME NEW x, P1 \subseteq P \cup {x}, x \in D, D1 \subseteq D \ {x}, W \subseteq W1
      PROVE  Cardinality(P1) + Cardinality(D1) <= Cardinality(W1)
  <2>1. /\ Cardinality(P1) <= Cardinality(P) + 1 /\ Cardinality(D1) <= Cardinality(D) - 1
        /\ Cardinality(W) <= Cardinality(W1)
    BY <1>3, <1>a, FiniteAssumption, Sizes, Zenon
  <2>. QED  BY <1>0, <1>b, <2>1
<1>4. ASSUME NEW x, NEW y, x \in P, P1 \subseteq P \ {x}, D1 \subseteq D \cup {y}, W \subseteq W1
      PROVE  Cardinality(P1) + Cardinality(D1) <= Cardinality(W1)
  <2>1. /\ Cardinality(P1) <= Cardinality(P) - 1 /\ Cardinality(D1) <= Cardinality(D) + 1
        /\ Cardinality(W) <= Cardinality(W1)
    BY <1>4, <1>a, FiniteAssumption, Sizes, Zenon
  <2>. QED  BY <1>0, <1>b, <2>1
<1>5. ASSUME NEW x, P1 \subseteq P, x \in D, D1 \subseteq D \ {x}, W \subseteq W1 \cup {x}
      PROVE  Cardinality(P1) + Cardinality(D1) <= Cardinality(W1)
  <2>1. /\ Cardinality(P1) <= Cardinality(P) /\ Cardinality(D1) <= Cardinality(D) - 1
        /\ Cardinality(W) <= Cardinality(W1) + 1
    BY <1>5, <1>a, FiniteAssumption, Sizes, Zenon
  <2>. QED  BY <1>0, <1>b, <2>1
<1>6. CASE P1 = {} /\ D1 \subseteq W1
  <2>1. Cardinality(P1) = 0 /\ Cardinality(D1) <= Cardinality(W1)
    BY <1>6, <1>a, FiniteAssumption, Sizes, FS_EmptySet
  <2>. QED  BY <1>0, <1>b, <2>1
<1>. QED  BY <1>c, <1>1, <1>2, <1>3, <1>4, <1>5, <1>6

(***************************************************************************)
(* The steps aside: no compensator moves, nothing is sent or deleted, no   *)
(* operation is reconciled or comes into a compensator's hands, and a      *)
(* dispatcher gets to its call only with an operation it has just marked.  *)
(***************************************************************************)
Fresh(o) == op'[o].state # "reconciled" /\ op'[o].claim \notin Compensators

RowsAside ==
    \A q \in Ops :
        /\ op'[q].state = "reconciled" => op[q].state = "reconciled"
        /\ op'[q].claim \in Compensators
              => op'[q].claim = op[q].claim /\ op'[q].state = op[q].state

CallsAside ==
    \A e \in Dispatchers : dispatcher'[e].pc = "call"
        => \/ dispatcher[e].pc = "call" /\ dispatcher[e].op = dispatcher'[e].op
           \/ Fresh(dispatcher'[e].op)

Aside ==
    /\ UNCHANGED <<compensator, sends, early, collided>>
    /\ \A q \in Ops : message'[q] = message[q] \/ (message[q] = "queued" /\ message'[q] = "visible")
    /\ RowsAside
    /\ CallsAside

LEMMA AsideKeepsBalance ==
    ASSUME TypeInv, BalanceInv, Aside
    PROVE  BalanceInv'
<1>1. \A q \in Ops : Settling(q)' => Settling(q) /\ ~ Fresh(q)
  BY DEF Settling, Removed, Aside, RowsAside, Fresh
<1>2. \A q \in Ops : Calling(q)' => Calling(q) \/ Fresh(q)
  BY DEF Calling, Aside, CallsAside
<1>3. Debt' \subseteq Debt
  <2>. SUFFICES ASSUME NEW q \in Debt' PROVE q \in Debt
    OBVIOUS
  <2>1. /\ q \in Ops \ early /\ sends' = sends
        /\ op'[q].state = "reconciled" => op[q].state = "reconciled"
    BY DEF Debt, Aside, RowsAside
  <2>2. CASE Settling(q)' /\ (sends'[q] > 0 \/ Calling(q)')
    BY <1>1, <1>2, <2>1, <2>2 DEF Debt
  <2>3. CASE op'[q].state = "reconciled" /\ sends'[q] = 0 /\ Calling(q)'
    BY <1>2, <2>1, <2>3 DEF Debt, Fresh
  <2>. QED  BY <2>2, <2>3 DEF Debt
<1>4. Present' \subseteq Present
  BY DEF Present, Aside
<1>5. Owed \subseteq Owed'
  BY DEF Owed, Aside, RowsAside
<1>6. Balance => Balance'
  BY <1>3, <1>4, <1>5, StepBalances
<1>7. \A o \in Ops : op'[o].claim \in Compensators => op'[o].state \in Compensable
  BY DEF BalanceInv, HeldInv, Aside, RowsAside
<1>8. \A o \in Ops : message'[o] \in {"queued", "visible"} => sends'[o] > 0
  BY DEF BalanceInv, HeldInv, Aside
<1>9. ASSUME NEW k \in Compensators, compensator'[k].pc = "delete", compensator'[k].listed
      PROVE  /\ message'[compensator'[k].target] \in {"visible", "deleted"}
             /\ sends'[compensator'[k].target] > 0
  <2>1. compensator'[k] = compensator[k] /\ compensator[k].target \in Ops
    BY <1>9 DEF Aside, TypeInv, Busy
  <2>2. /\ message[compensator[k].target] \in {"visible", "deleted"}
        /\ sends[compensator[k].target] > 0
    BY <1>9, <2>1 DEF BalanceInv, HeldInv
  <2>. QED  BY <2>1, <2>2 DEF Aside
<1>10. collided' = collided
  BY DEF Aside
<1>11. \A k \in Compensators : compensator'[k].pc = "scan" => ~ compensator'[k].listed
  BY DEF BalanceInv, HeldInv, Aside
<1>. QED  BY <1>6, <1>7, <1>8, <1>9, <1>10, <1>11 DEF BalanceInv, HeldInv

\* A row that one step rewrites, and what that means for the rows aside.
LEMMA RowAside ==
    ASSUME NEW o, \A q \in Ops \ {o} : op'[q] = op[q],
           o \in Ops => op'[o].state # "reconciled",
           o \in Ops /\ op'[o].claim \in Compensators
              => op'[o].claim = op[o].claim /\ op'[o].state = op[o].state
    PROVE  RowsAside
BY DEF RowsAside

LEMMA OwnerStepsAside ==
    ASSUME TypeInv, BalanceInv, OwnerStep
    PROVE  Aside
<1>. USE NamesAssumption
<1>1. ASSUME NEW c \in Consents, NEW in \in BOOLEAN, ConsentReads(c, in) \/ ConsentWrites(c)
      PROVE  Aside
  <2>1. UNCHANGED <<op, message, dispatcher, compensator, sends, early, collided>>
    BY <1>1 DEF ConsentReads, ConsentWrites, history
  <2>. QED  BY <2>1 DEF Aside, RowsAside, CallsAside
<1>2. ASSUME NEW o \in Ops, CreateReadsPolicy(o) \/ CreateMemoryOperationWithOutbox(o)
      PROVE  Aside
  <2>1. op[o] \in Operation /\ op[o].state \in {"none", "draft"}
    BY <1>2 DEF CreateReadsPolicy, CreateMemoryOperationWithOutbox, TypeInv, MemoryTypeOK
  <2>2. op[o].claim \notin Compensators
    BY <2>1 DEF BalanceInv, HeldInv, Compensable
  <2>3. op'[o].state # "reconciled" /\ op'[o].claim = op[o].claim
        /\ \A q \in Ops \ {o} : op'[q] = op[q]
    <3>1. CASE CreateReadsPolicy(o)
      BY <2>1, <3>1 DEF CreateReadsPolicy, TypeInv, MemoryTypeOK, Operation
    <3>2. CASE CreateMemoryOperationWithOutbox(o)
      BY <2>1, <3>2 DEF CreateMemoryOperationWithOutbox, TypeInv, MemoryTypeOK, Operation
    <3>. QED  BY <1>2, <3>1, <3>2
  <2>4. RowsAside
    BY <2>2, <2>3, RowAside
  <2>. QED
    BY <1>2, <2>4 DEF CreateReadsPolicy, CreateMemoryOperationWithOutbox, history, Aside, CallsAside
<1>3. ASSUME NEW o \in Ops, TombstoneMemoryOperation(o) PROVE Aside
  <2>1. op[o] \in Operation
    BY DEF TypeInv, MemoryTypeOK
  <2>2. /\ \A q \in Ops \ {o} : op'[q] = op[q]
        /\ \/ op'[o].state = "skipped" /\ op'[o].claim = "free"
           \/ op'[o].state = op[o].state /\ op'[o].claim = op[o].claim
    BY <1>3, <2>1 DEF TombstoneMemoryOperation, TypeInv, MemoryTypeOK, Operation
  <2>3. RowsAside
    BY <2>2 DEF RowsAside
  <2>. QED
    BY <1>3, <2>3 DEF TombstoneMemoryOperation, history, Aside, CallsAside
<1>. QED  BY <1>1, <1>2, <1>3, Zenon DEF OwnerStep

\* A settling update frees the row.
LEMMA SettleAside ==
    ASSUME TypeInv, NEW o \in Ops, NEW s \in {"executed", "unknown", "blocked", "skipped"},
           Settle(o, s)
    PROVE  RowsAside
<1>1. op'[o].state = s /\ \A q \in Ops \ {o} : op'[q] = op[q]
  BY SettleValues
<1>2. op'[o].claim = "free"
  BY DEF Settle, TypeInv, MemoryTypeOK, Operation
<1>. QED  BY <1>1, <1>2, NamesAssumption, RowAside

\* The dispatcher's steps that neither mark nor send.
DispatchAside(d) ==
    \/ AdmitFindsAdmitted(d) \/ RecoverDispatched(d) \/ AdmitFindsSettled(d)
    \/ AdmitReads(d) \/ AdmitWrites(d) \/ AdmitBlocks(d) \/ DispatchRollsBack(d)
    \/ \E m \in Ops : AttachMemoryExternalMessage(d, m)
    \/ AttachFindsNone(d) \/ FinishMemoryDispatchOperation(d)
    \/ EnvelopeUnreadable(d) \/ AttachFails(d) \/ LoseDispatcher(d)
    \/ \E o \in Ops : ClaimEvent(d, o)

LEMMA DispatchStepsAside ==
    ASSUME TypeInv, NEW d \in Dispatchers, DispatchAside(d)
    PROVE  Aside
<1>. DEFINE o == dispatcher[d].op
<1>1. UNCHANGED <<compensator, message, sends, early, collided>>
  BY Zenon DEF DispatchAside, AdmitFindsAdmitted, RecoverDispatched, AdmitFindsSettled, AdmitReads,
     AdmitWrites, AdmitBlocks, DispatchRollsBack, AttachMemoryExternalMessage, AttachFindsNone,
     FinishMemoryDispatchOperation, EnvelopeUnreadable, AttachFails, LoseDispatcher, ClaimEvent,
     history
<1>2. \/ Ends(d) \/ Goes(d, "mark") \/ Goes(d, "finish")
      \/ \E x : dispatcher' = [dispatcher EXCEPT ![d] = x] /\ x.pc # "call"
  <2>0. dispatcher[d] \in Dispatcher
    BY DEF TypeInv, MemoryTypeOK
  <2>1. CASE AdmitReads(d)
    <3>. DEFINE x == [dispatcher[d] EXCEPT !.pc = "write", !.denied = Denied(o)]
    <3>1. dispatcher' = [dispatcher EXCEPT ![d] = x]
      BY <2>1 DEF AdmitReads
    <3>2. x.pc = "write"
      BY <2>0 DEF Dispatcher
    <3>. QED  BY <3>1, <3>2, Zenon
  <2>2. ASSUME NEW m \in Ops, AttachMemoryExternalMessage(d, m)
        PROVE  \E x : dispatcher' = [dispatcher EXCEPT ![d] = x] /\ x.pc # "call"
    <3>. DEFINE x == [dispatcher[d] EXCEPT !.pc = "finish", !.outcome = "executed"]
    <3>1. dispatcher' = [dispatcher EXCEPT ![d] = x]
      BY <2>2 DEF AttachMemoryExternalMessage
    <3>2. x.pc = "finish"
      BY <2>0 DEF Dispatcher
    <3>. QED  BY <3>1, <3>2, Zenon
  <2>3. ASSUME NEW q \in Ops, ClaimEvent(d, q)
        PROVE  \E x : dispatcher' = [dispatcher EXCEPT ![d] = x] /\ x.pc # "call"
    <3>. DEFINE x == [IdleDispatcher EXCEPT !.pc = "admit", !.op = q]
    <3>1. dispatcher' = [dispatcher EXCEPT ![d] = x]
      BY <2>3 DEF ClaimEvent
    <3>2. x.pc = "admit"
      BY DEF IdleDispatcher
    <3>. QED  BY <3>1, <3>2, Zenon
  <2>4. CASE \/ AdmitFindsAdmitted(d) \/ RecoverDispatched(d) \/ AdmitFindsSettled(d)
             \/ AdmitWrites(d) \/ AdmitBlocks(d) \/ DispatchRollsBack(d)
             \/ AttachFindsNone(d) \/ FinishMemoryDispatchOperation(d)
             \/ EnvelopeUnreadable(d) \/ AttachFails(d) \/ LoseDispatcher(d)
    BY <2>4 DEF AdmitFindsAdmitted, RecoverDispatched, AdmitFindsSettled, AdmitWrites,
       AdmitBlocks, DispatchRollsBack, AttachFindsNone, FinishMemoryDispatchOperation,
       EnvelopeUnreadable, AttachFails, LoseDispatcher
  <2>. QED  BY <2>1, <2>2, <2>3, <2>4 DEF DispatchAside
<1>3. \A e \in Dispatchers : dispatcher'[e].pc = "call" => dispatcher'[e] = dispatcher[e]
  BY <1>2 DEF TypeInv, MemoryTypeOK, Ends, Goes, IdleDispatcher, Dispatcher
<1>4. \/ op' = op
      \/ /\ o \in Ops
         /\ \E s \in {"executed", "unknown", "blocked", "skipped"} : Settle(o, s)
      \/ AdmitWrites(d)
      \/ \E m \in Ops : o \in Ops /\ op' = [op EXCEPT ![o].remembered = m]
  <2>1. dispatcher[d].outcome \in {"executed", "unknown"} /\ (dispatcher[d].pc # "idle" => o \in Ops)
    BY DEF TypeInv, MemoryTypeOK, Busy, Dispatcher
  <2>2. CASE RecoverDispatched(d)
    BY <2>1, <2>2 DEF RecoverDispatched, At
  <2>3. CASE AdmitBlocks(d)
    BY <2>1, <2>3 DEF AdmitBlocks, At
  <2>4. CASE FinishMemoryDispatchOperation(d)
    BY <2>1, <2>4 DEF FinishMemoryDispatchOperation, At
  <2>5. ASSUME NEW m \in Ops, AttachMemoryExternalMessage(d, m)
        PROVE  op' = op \/ (o \in Ops /\ op' = [op EXCEPT ![o].remembered = m])
    BY <2>1, <2>5 DEF AttachMemoryExternalMessage, At
  <2>6. CASE \/ AdmitFindsAdmitted(d) \/ AdmitFindsSettled(d) \/ AdmitReads(d)
             \/ DispatchRollsBack(d) \/ AttachFindsNone(d) \/ EnvelopeUnreadable(d)
             \/ AttachFails(d) \/ LoseDispatcher(d) \/ \E q \in Ops : ClaimEvent(d, q)
    BY <2>6, Zenon DEF AdmitFindsAdmitted, AdmitFindsSettled, AdmitReads, DispatchRollsBack,
       AttachFindsNone, EnvelopeUnreadable, AttachFails, LoseDispatcher, ClaimEvent
  <2>. QED  BY <2>2, <2>3, <2>4, <2>5, <2>6, Zenon DEF DispatchAside
<1>5. RowsAside
  <2>1. CASE op' = op
    BY <2>1 DEF RowsAside
  <2>2. ASSUME o \in Ops, NEW s \in {"executed", "unknown", "blocked", "skipped"}, Settle(o, s)
        PROVE  RowsAside
    BY <2>2, SettleAside
  <2>3. CASE AdmitWrites(d)
    <3>1. o \in Ops
      BY <2>3 DEF AdmitWrites, At, TypeInv, Busy
    <3>2. op'[o].state = "admitted" /\ op'[o].claim = "dispatch" /\ \A q \in Ops \ {o} : op'[q] = op[q]
      BY <2>3, <3>1 DEF AdmitWrites, TypeInv, MemoryTypeOK, Operation
    <3>. QED  BY <3>2, NamesAssumption, RowAside
  <2>4. ASSUME o \in Ops, NEW m \in Ops, op' = [op EXCEPT ![o].remembered = m]
        PROVE  RowsAside
    BY <2>4 DEF RowsAside, TypeInv, MemoryTypeOK, Operation
  <2>. QED  BY <1>4, <2>1, <2>2, <2>3, <2>4, Zenon
<1>. QED  BY <1>1, <1>3, <1>5 DEF Aside, CallsAside

LEMMA MarkAside ==
    ASSUME TypeInv, NEW d \in Dispatchers, MarkMemoryDispatched(d)
    PROVE  Aside
<1>. DEFINE o == dispatcher[d].op
<1>1. o \in Ops
  BY DEF MarkMemoryDispatched, At, TypeInv, Busy
<1>2. op'[o].state = "dispatched" /\ op'[o].claim = "dispatch" /\ \A q \in Ops \ {o} : op'[q] = op[q]
  BY <1>1 DEF MarkMemoryDispatched, TypeInv, MemoryTypeOK, Operation
<1>3. RowsAside
  BY <1>2, NamesAssumption, RowAside
<1>4. Fresh(o)
  BY <1>2, NamesAssumption DEF Fresh
<1>5. /\ dispatcher'[d].op = o
      /\ \A e \in Dispatchers \ {d} : dispatcher'[e] = dispatcher[e]
  BY DEF MarkMemoryDispatched, Goes, TypeInv, MemoryTypeOK, Dispatcher
<1>6. CallsAside
  BY <1>4, <1>5 DEF CallsAside
<1>. QED  BY <1>3, <1>6 DEF Aside, MarkMemoryDispatched, history

LEMMA ClockStepsAside ==
    ASSUME TypeInv, NEW o \in Ops, ClockStep(o)
    PROVE  Aside
<1>1. UNCHANGED <<compensator, sends, early, collided, dispatcher>>
  BY DEF ClockStep, LeaseRunsOut, Indexed, ClaimRunsOut, history
<1>2. op' = op \/ op' = [op EXCEPT ![o].held = FALSE]
  BY DEF ClockStep, LeaseRunsOut, Indexed, ClaimRunsOut
<1>3. RowsAside
  BY <1>2 DEF RowsAside, TypeInv, MemoryTypeOK, Operation
<1>4. \A q \in Ops : message'[q] = message[q] \/ (message[q] = "queued" /\ message'[q] = "visible")
  BY DEF ClockStep, LeaseRunsOut, Indexed, ClaimRunsOut, TypeInv, MemoryTypeOK
<1>. QED  BY <1>1, <1>3, <1>4 DEF Aside, CallsAside

(***************************************************************************)
(* The call: the message it leaves is owed for, or, when the operation was *)
(* reconciled first, was in the debt already.                              *)
(***************************************************************************)
LEMMA AddKeepsBalance ==
    ASSUME TypeInv, SendInv, BalanceInv, NEW d \in Dispatchers,
           \/ \E seen \in {"queued", "visible"} : AddMemoryMessage(d, seen)
           \/ \E seen \in {"none", "queued", "visible"} : AddMemoryMessageFails(d, seen)
    PROVE  BalanceInv'
<1>. DEFINE o == dispatcher[d].op
<1>1. /\ UNCHANGED <<op, compensator, early, collided>>
      /\ sends' = [sends EXCEPT ![o] = @ + 1]
      /\ \E seen : message' = [message EXCEPT ![o] = seen]
      /\ Goes(d, "attach") \/ Goes(d, "finish")
      /\ dispatcher[d].pc = "call"
  BY DEF AddMemoryMessage, AddMemoryMessageFails, At
<1>2. /\ o \in Ops /\ sends[o] = 0
      /\ \A e \in Dispatchers : dispatcher[e].pc = "call" /\ dispatcher[e].op = o => e = d
  BY <1>1 DEF TypeInv, Busy, SendInv
<1>3. /\ sends'[o] = 1
      /\ \A q \in Ops \ {o} : sends'[q] = sends[q] /\ message'[q] = message[q]
  BY <1>1, <1>2 DEF TypeInv, MemoryTypeOK
<1>4. /\ \A q \in Ops : Calling(q)' => Calling(q) /\ q # o
      /\ Calling(o)
  BY <1>1, <1>2 DEF Calling, Goes, TypeInv, MemoryTypeOK, Dispatcher
<1>5. \A q \in Ops : Settling(q)' <=> Settling(q)
  BY <1>1 DEF Settling, Removed
<1>6. Debt' \subseteq Debt
  BY <1>1, <1>2, <1>3, <1>4, <1>5, Zenon DEF Debt
<1>7. Present' \subseteq Present \cup {o}
  BY <1>3 DEF Present
<1>8. Owed \subseteq Owed' \ {o}
  BY <1>1, <1>2, <1>3 DEF Owed
<1>9. Balance => Balance'
  <2>1. CASE o \in Owed'
    BY <1>6, <1>7, <1>8, <2>1, StepBalances
  <2>2. CASE o \notin Owed'
    <3>1. op[o].state = "reconciled" /\ o \notin early
      BY <1>1, <1>2, <1>3, <2>2 DEF Owed
    <3>2. o \in Debt
      BY <1>2, <1>4, <3>1 DEF Debt
    <3>3. ~ Settling(o)
      BY <1>2, <3>1 DEF Settling, BalanceInv, HeldInv, Compensable
    <3>4. o \notin Debt'
      BY <1>3, <1>4, <1>5, <3>3 DEF Debt
    <3>. QED  BY <1>6, <1>7, <1>8, <3>2, <3>4, StepBalances
  <2>. QED  BY <2>1, <2>2
<1>10. \A q \in Ops : op'[q].claim \in Compensators => op'[q].state \in Compensable
  BY <1>1 DEF BalanceInv, HeldInv
<1>11. \A q \in Ops : message'[q] \in {"queued", "visible"} => sends'[q] > 0
  BY <1>3 DEF BalanceInv, HeldInv
<1>12. ASSUME NEW k \in Compensators, compensator'[k].pc = "delete", compensator'[k].listed
       PROVE  /\ message'[compensator'[k].target] \in {"visible", "deleted"}
              /\ sends'[compensator'[k].target] > 0
  <2>1. compensator'[k] = compensator[k] /\ compensator[k].target \in Ops
    BY <1>1, <1>12 DEF TypeInv, Busy
  <2>2. /\ message[compensator[k].target] \in {"visible", "deleted"}
        /\ sends[compensator[k].target] > 0
    BY <1>12, <2>1 DEF BalanceInv, HeldInv
  <2>3. compensator[k].target # o
    BY <1>2, <2>2
  <2>. QED  BY <1>3, <2>1, <2>2, <2>3
<1>13. \A k \in Compensators : compensator'[k].pc = "scan" => ~ compensator'[k].listed
  BY <1>1 DEF BalanceInv, HeldInv
<1>. QED  BY <1>1, <1>9, <1>10, <1>11, <1>12, <1>13, Zenon DEF BalanceInv, HeldInv

(***************************************************************************)
(* The compensator's steps.  They change no call, and the debt grows by at *)
(* most the operation of the compensator that takes the step.              *)
(***************************************************************************)
Compensates(k) ==
    /\ UNCHANGED <<dispatcher, sends>>
    /\ early \subseteq early'
    /\ \A j \in Compensators \ {k} : compensator'[j] = compensator[j]

LEMMA DebtOfOthers ==
    ASSUME NEW k \in Compensators, Compensates(k), NEW q \in Debt', op'[q] = op[q],
           ~ (compensator'[k].op = q /\ op[q].claim = k /\ Removed(k)')
    PROVE  q \in Debt
<1>1. Settling(q)' => Settling(q)
  BY DEF Settling, Removed, Compensates
<1>2. Calling(q)' <=> Calling(q)
  BY DEF Calling, Compensates
<1>. QED  BY <1>1, <1>2 DEF Debt, Compensates

\* The facts a compensator's step keeps about the rows and the other runs.
LEMMA HeldKept ==
    ASSUME TypeInv, HeldInv, NEW k \in Compensators, Compensates(k),
           \A q \in Ops : op'[q].claim \in Compensators => op'[q].state \in Compensable,
           \A q \in Ops : message'[q] = message[q] \/ message'[q] = "deleted",
           compensator'[k].pc = "delete" /\ compensator'[k].listed
              => /\ message'[compensator'[k].target] \in {"visible", "deleted"}
                 /\ sends[compensator'[k].target] > 0,
           compensator'[k].pc = "scan" => ~ compensator'[k].listed
    PROVE  HeldInv'
<1>1. \A q \in Ops : message'[q] \in {"queued", "visible"} => sends'[q] > 0
  BY DEF HeldInv, Compensates
<1>2. ASSUME NEW j \in Compensators \ {k}, compensator'[j].pc = "delete", compensator'[j].listed
      PROVE  /\ message'[compensator'[j].target] \in {"visible", "deleted"}
             /\ sends'[compensator'[j].target] > 0
  <2>1. compensator'[j] = compensator[j] /\ compensator[j].target \in Ops
    BY <1>2 DEF TypeInv, Busy, Compensates
  <2>2. /\ message[compensator[j].target] \in {"visible", "deleted"}
        /\ sends[compensator[j].target] > 0
    BY <1>2, <2>1 DEF HeldInv
  <2>. QED  BY <2>1, <2>2, Zenon DEF Compensates
<1>3. \A j \in Compensators \ {k} : compensator'[j].pc = "scan" => ~ compensator'[j].listed
  BY Zenon DEF HeldInv, Compensates
<1>. QED  BY <1>1, <1>2, <1>3 DEF HeldInv, Compensates

\* Claiming, choosing a listed message and giving up remove nothing.
LEMMA ClaimKeepsBalance ==
    ASSUME TypeInv, BalanceInv, NEW k \in Compensators, NEW o \in Ops, ClaimCompensation(k, o)
    PROVE  BalanceInv'
<1>1. /\ op'[o].claim = k /\ op'[o].state = op[o].state
      /\ \A q \in Ops \ {o} : op'[q] = op[q]
  BY DEF ClaimCompensation, TypeInv, MemoryTypeOK, Operation
<1>2. compensator'[k].pc = "scan" /\ compensator'[k].op = o /\ ~ compensator'[k].listed
  BY DEF ClaimCompensation, TypeInv, MemoryTypeOK, IdleCompensator
<1>3. /\ Compensates(k)
      /\ UNCHANGED <<message, early, collided>>
      /\ op[o].state \in Compensable
  BY DEF ClaimCompensation, Compensates, history, TypeInv, MemoryTypeOK
<1>4. Debt' \subseteq Debt
  <2>. SUFFICES ASSUME NEW q \in Debt' PROVE q \in Debt
    OBVIOUS
  <2>1. ~ Removed(k)'
    BY <1>2 DEF Removed
  <2>2. q # o
    <3>1. ~ Settling(o)'
      BY <1>1, <2>1 DEF Settling
    <3>2. op'[o].state # "reconciled"
      BY <1>1, <1>3 DEF Compensable
    <3>. QED  BY <3>1, <3>2 DEF Debt
  <2>3. q \in Ops
    BY DEF Debt
  <2>. QED  BY <1>1, <1>3, <2>1, <2>2, <2>3, DebtOfOthers
<1>5. Present' \subseteq Present /\ Owed \subseteq Owed'
  BY <1>1, <1>3 DEF Present, Owed, Compensates
<1>6. Balance => Balance'
  BY <1>4, <1>5, StepBalances
<1>7. HeldInv'
  BY <1>1, <1>2, <1>3, HeldKept, Zenon DEF BalanceInv, HeldInv
<1>. QED  BY <1>3, <1>6, <1>7 DEF BalanceInv

LEMMA ScanMatchesKeepsBalance ==
    ASSUME TypeInv, BalanceInv, NEW k \in Compensators, NEW m \in Ops, ScanMatches(k, m)
    PROVE  BalanceInv'
<1>1. compensator'[k].pc = "delete" /\ compensator'[k].target = m /\ compensator'[k].listed
  BY DEF ScanMatches, TypeInv, MemoryTypeOK, Compensator
<1>2. Compensates(k) /\ UNCHANGED <<op, message, early, collided>> /\ message[m] = "visible"
  BY DEF ScanMatches, Compensates, history, TypeInv, MemoryTypeOK, Matches
<1>3. Debt' \subseteq Debt
  <2>1. ~ Removed(k)'
    BY <1>1 DEF Removed
  <2>. QED  BY <1>2, <2>1, DebtOfOthers, Zenon
<1>4. Present' \subseteq Present /\ Owed \subseteq Owed'
  BY <1>2 DEF Present, Owed, Compensates
<1>5. Balance => Balance'
  BY <1>3, <1>4, StepBalances
<1>6. sends[m] > 0
  BY <1>2 DEF BalanceInv, HeldInv
<1>7. HeldInv'
  BY <1>1, <1>2, <1>6, HeldKept, Zenon DEF BalanceInv, HeldInv
<1>. QED  BY <1>2, <1>5, <1>7 DEF BalanceInv

LEMMA LoseKeepsBalance ==
    ASSUME TypeInv, BalanceInv, NEW k \in Compensators, Stops(k),
           UNCHANGED <<op, dispatcher, message, sends, early, collided>>
    PROVE  BalanceInv'
<1>1. compensator'[k].pc = "idle"
  BY DEF Stops, TypeInv, MemoryTypeOK, IdleCompensator
<1>2. Compensates(k)
  BY DEF Stops, Compensates, TypeInv, MemoryTypeOK
<1>3. Debt' \subseteq Debt
  <2>1. ~ Removed(k)'
    BY <1>1 DEF Removed
  <2>. QED  BY <1>2, <2>1, DebtOfOthers
<1>4. Present' \subseteq Present /\ Owed \subseteq Owed'
  BY DEF Present, Owed
<1>5. Balance => Balance'
  BY <1>3, <1>4, StepBalances
<1>6. HeldInv'
  BY <1>1, <1>2, HeldKept, Zenon DEF BalanceInv, HeldInv
<1>. QED  BY <1>5, <1>6 DEF BalanceInv

(***************************************************************************)
(* A complete scan without a match: a write under way makes the operation  *)
(* an exception; otherwise RAGFlow holds no message at all.                *)
(***************************************************************************)
LEMMA ScanFindsNoneKeepsBalance ==
    ASSUME TypeInv, BalanceInv, NEW k \in Compensators, ScanFindsNone(k)
    PROVE  BalanceInv'
<1>. DEFINE o == compensator[k].op
<1>1. /\ compensator'[k].pc \in {"delete", "complete"}
      /\ compensator'[k].op = o /\ compensator'[k].listed = compensator[k].listed
      /\ \A j \in Compensators \ {k} : compensator'[j] = compensator[j]
  <2>1. CASE compensator[k].remembered = NoOp
    BY <2>1 DEF ScanFindsNone, TypeInv, MemoryTypeOK, Compensator
  <2>2. CASE compensator[k].remembered # NoOp
    BY <2>2 DEF ScanFindsNone, TypeInv, MemoryTypeOK, Compensator
  <2>. QED  BY <2>1, <2>2
<1>2. /\ UNCHANGED <<op, dispatcher, message, sends, collided>>
      /\ early' = IF WriteUnderWay THEN early \cup {o} ELSE early
      /\ \A m \in Ops : message[m] # "visible"
      /\ compensator[k].pc = "scan"
  BY DEF ScanFindsNone, NoMatch, Matches
<1>3. Compensates(k)
  BY <1>1, <1>2 DEF Compensates
<1>4. Balance => Balance'
  <2>1. CASE WriteUnderWay
    <3>1. early' = early \cup {o}
      BY <1>2, <2>1
    <3>2. \A q \in Debt' : q # o
      BY <3>1 DEF Debt
    <3>3. Debt' \subseteq Debt
      BY <1>1, <1>2, <1>3, <3>2, DebtOfOthers
    <3>4. Present' \subseteq Present /\ Owed \subseteq Owed'
      BY <1>2, <3>1 DEF Present, Owed
    <3>. QED  BY <3>3, <3>4, StepBalances
  <2>2. CASE ~ WriteUnderWay
    <3>1. Present' = {}
      BY <1>2, <2>2 DEF Present, WriteUnderWay
    <3>2. \A q \in Ops : ~ Calling(q)'
      BY <1>2, <2>2 DEF Calling, WriteUnderWay, At
    <3>3. \A q \in Ops : Settling(q)' => op'[q].state # "reconciled"
      BY <1>2 DEF Settling, BalanceInv, HeldInv, Compensable
    <3>4. Debt' \subseteq Owed'
      BY <3>2, <3>3 DEF Debt, Owed
    <3>. QED  BY <3>1, <3>4, StepBalances
  <2>. QED  BY <2>1, <2>2
<1>5. ~ compensator'[k].listed
  BY <1>1, <1>2, Zenon DEF BalanceInv, HeldInv
<1>6. HeldInv'
  BY <1>2, <1>3, <1>5, HeldKept, Zenon DEF BalanceInv, HeldInv
<1>. QED  BY <1>2, <1>4, <1>6 DEF BalanceInv

(***************************************************************************)
(* The deletion takes one message away, unless it was gone already, and    *)
(* the compensator's operation into the debt.                              *)
(***************************************************************************)
LEMMA DeleteKeepsBalance ==
    ASSUME TypeInv, BalanceInv, NEW k \in Compensators, DeleteMemoryMessage(k)
    PROVE  BalanceInv'
<1>. DEFINE o == compensator[k].op
            m == compensator[k].target
<1>1. /\ compensator'[k].pc = "complete" /\ compensator'[k].op = o
      /\ \A j \in Compensators \ {k} : compensator'[j] = compensator[j]
  BY DEF DeleteMemoryMessage, TypeInv, MemoryTypeOK, Compensator
<1>2. /\ UNCHANGED <<op, dispatcher, sends, early>>
      /\ m \in Ops
      /\ collided' = (collided \/ (compensator[k].listed /\ message[m] = "deleted"))
      /\ compensator[k].pc = "delete"
  BY DEF DeleteMemoryMessage, TypeInv, Busy
<1>3. message'[m] = "deleted" /\ \A q \in Ops \ {m} : message'[q] = message[q]
  BY <1>2 DEF DeleteMemoryMessage, TypeInv, MemoryTypeOK
<1>4. Compensates(k)
  BY <1>1, <1>2, Zenon DEF Compensates
<1>5. Debt' \subseteq Debt \cup {o}
  <2>. SUFFICES ASSUME NEW q \in Debt', q # o PROVE q \in Debt
    OBVIOUS
  <2>. QED  BY <1>1, <1>2, <1>4, DebtOfOthers, Zenon
<1>6. Owed \subseteq Owed' /\ Present' \subseteq Present \ {m}
  BY <1>2, <1>3 DEF Owed, Present
<1>7. ASSUME Balance, ~ collided' PROVE Balance'
  <2>1. CASE compensator[k].listed
    <3>1. message[m] # "deleted"
      BY <1>2, <1>7, <2>1, Zenon
    <3>2. m \in Present
      BY <1>2, <2>1, <3>1 DEF Present, BalanceInv, HeldInv
    <3>. QED  BY <1>5, <1>6, <1>7, <3>2, StepBalances
  <2>2. CASE ~ compensator[k].listed
    <3>1. Removed(k)
      BY <1>2, <2>2 DEF Removed
    <3>2. Debt' \subseteq Debt
      <4>1. \A q \in Ops : Settling(q)' => Settling(q)
        BY <1>1, <1>2, <3>1 DEF Settling, Removed
      <4>2. \A q \in Ops : Calling(q)' <=> Calling(q)
        BY <1>2 DEF Calling
      <4>. QED  BY <1>2, <4>1, <4>2 DEF Debt
    <3>. QED  BY <1>5, <1>6, <1>7, <3>2, StepBalances
  <2>. QED  BY <2>1, <2>2
<1>8. HeldInv'
  BY <1>1, <1>2, <1>3, <1>4, HeldKept, Zenon DEF BalanceInv, HeldInv
<1>. QED  BY <1>2, <1>7, <1>8, Zenon DEF BalanceInv

(***************************************************************************)
(* Reconciling an operation takes it out of what is owed and, when it was  *)
(* sent, out of the debt.                                                  *)
(***************************************************************************)
LEMMA CompleteKeepsBalance ==
    ASSUME TypeInv, BalanceInv, NEW k \in Compensators, CompleteMemoryCompensation(k)
    PROVE  BalanceInv'
<1>. DEFINE o == compensator[k].op
<1>1. Stops(k) /\ UNCHANGED <<dispatcher, message, sends, early, collided>>
  BY Zenon DEF CompleteMemoryCompensation, history
<1>2. CASE ~ Fenced(k)
  BY <1>1, <1>2, LoseKeepsBalance DEF CompleteMemoryCompensation
<1>3. CASE Fenced(k)
  <2>1. /\ o \in Ops /\ op[o].claim = k /\ compensator[k].pc = "complete"
        /\ Settle(o, "reconciled")
    BY <1>3 DEF CompleteMemoryCompensation, Fenced, TypeInv, Busy
  <2>2. /\ op'[o].state = "reconciled" /\ \A q \in Ops \ {o} : op'[q] = op[q]
        /\ op'[o].claim = "free"
    <3>1. op'[o].state = "reconciled" /\ \A q \in Ops \ {o} : op'[q] = op[q]
      BY <2>1, SettleValues
    <3>2. op'[o].claim = "free"
      BY <2>1 DEF Settle, TypeInv, MemoryTypeOK, Operation
    <3>. QED  BY <3>1, <3>2
  <2>3. compensator'[k].pc = "idle" /\ Compensates(k)
    BY <1>1 DEF Stops, Compensates, TypeInv, MemoryTypeOK, IdleCompensator
  <2>4. Settling(o)
    BY <2>1 DEF Settling, Removed
  <2>5. \A q \in Ops : q = o => ~ Settling(q)'
    BY <2>2, NamesAssumption DEF Settling
  <2>6. Debt' \subseteq Debt
    <3>. SUFFICES ASSUME NEW q \in Debt' PROVE q \in Debt
      OBVIOUS
    <3>1. CASE q = o
      <4>1. Calling(q)' <=> Calling(q)
        BY <1>1 DEF Calling
      <4>. QED  BY <1>1, <2>1, <2>4, <2>5, <3>1, <4>1, Zenon DEF Debt
    <3>2. CASE q # o
      <4>1. ~ Removed(k)' /\ q \in Ops
        BY <2>3 DEF Removed, Debt
      <4>. QED  BY <2>2, <2>3, <3>2, <4>1, DebtOfOthers, Zenon
    <3>. QED  BY <3>1, <3>2
  <2>7. Present' \subseteq Present
    BY <1>1 DEF Present
  <2>8. Balance => Balance'
    <3>1. CASE sends[o] > 0 /\ o \notin early
      <4>1. o \in Debt
        BY <2>1, <2>4, <3>1 DEF Debt
      <4>2. \A q \in Debt' : q # o
        <5>1. sends'[o] > 0 /\ sends'[o] # 0
          BY <1>1, <2>1, <3>1 DEF TypeInv, MemoryTypeOK
        <5>. QED  BY <2>5, <5>1 DEF Debt
      <4>3. Owed \subseteq Owed' \cup {o}
        BY <1>1, <2>2 DEF Owed
      <4>. QED  BY <2>6, <2>7, <4>1, <4>2, <4>3, StepBalances
    <3>2. CASE ~ (sends[o] > 0 /\ o \notin early)
      <4>1. Owed \subseteq Owed'
        BY <1>1, <2>2, <3>2 DEF Owed
      <4>. QED  BY <2>6, <2>7, <4>1, StepBalances
    <3>. QED  BY <3>1, <3>2
  <2>9. HeldInv'
    <3>1. \A q \in Ops : op'[q].claim \in Compensators => op'[q].state \in Compensable
      BY <2>2, NamesAssumption DEF BalanceInv, HeldInv
    <3>. QED  BY <1>1, <2>3, <3>1, HeldKept DEF BalanceInv
  <2>. QED  BY <1>1, <2>8, <2>9 DEF BalanceInv
<1>. QED  BY <1>2, <1>3

LEMMA BalanceInit == Init => BalanceInv
<1>. SUFFICES ASSUME Init PROVE BalanceInv
  OBVIOUS
<1>1. HeldInv
  BY NamesAssumption, Zenon DEF Init, HeldInv, IdleCompensator
<1>2. Present = {} /\ Debt = {}
  BY Zenon DEF Init, Present, Debt, Settling, Calling, Removed, IdleDispatcher, IdleCompensator
<1>3. Cardinality(Owed) \in Nat
  BY FiniteAssumption, Sizes DEF Owed
<1>4. Balance
  BY <1>2, <1>3, FS_EmptySet DEF Balance
<1>. QED  BY <1>1, <1>4 DEF BalanceInv

LEMMA BalanceNext == TypeInv /\ SendInv /\ BalanceInv /\ [Next]_vars => BalanceInv'
<1>. SUFFICES ASSUME TypeInv, SendInv, BalanceInv, [Next]_vars PROVE BalanceInv'
  OBVIOUS
<1>1. CASE UNCHANGED vars
  <2>1. Aside
    BY <1>1 DEF vars, history, Aside, RowsAside, CallsAside
  <2>. QED  BY <2>1, AsideKeepsBalance
<1>2. CASE SessionOutgrowsScan
  <2>1. Aside
    BY <1>2 DEF SessionOutgrowsScan, history, Aside, RowsAside, CallsAside
  <2>. QED  BY <2>1, AsideKeepsBalance
<1>3. CASE OwnerStep
  BY <1>3, OwnerStepsAside, AsideKeepsBalance
<1>4. ASSUME NEW o \in Ops, ClockStep(o) PROVE BalanceInv'
  BY <1>4, ClockStepsAside, AsideKeepsBalance
<1>5. ASSUME NEW d \in Dispatchers,
             DispatchStep(d) \/ DispatchFault(d) \/ \E o \in Ops : ClaimEvent(d, o)
      PROVE  BalanceInv'
  <2>1. \/ DispatchAside(d) \/ MarkMemoryDispatched(d)
        \/ \E seen \in {"queued", "visible"} : AddMemoryMessage(d, seen)
        \/ \E seen \in {"none", "queued", "visible"} : AddMemoryMessageFails(d, seen)
    BY <1>5, Zenon DEF DispatchStep, DispatchFault, DispatchAside
  <2>. QED  BY <2>1, DispatchStepsAside, MarkAside, AsideKeepsBalance, AddKeepsBalance
<1>6. ASSUME NEW k \in Compensators, ScanIsIncomplete(k) PROVE BalanceInv'
  BY <1>6, LoseKeepsBalance DEF ScanIsIncomplete, history
<1>7. ASSUME NEW k \in Compensators, CompensateStep(k) PROVE BalanceInv'
  BY <1>7, <1>6, ScanMatchesKeepsBalance, ScanFindsNoneKeepsBalance, DeleteKeepsBalance,
     CompleteKeepsBalance DEF CompensateStep
<1>8. ASSUME NEW k \in Compensators, LoseCompensator(k) PROVE BalanceInv'
  BY <1>8, LoseKeepsBalance DEF LoseCompensator, history
<1>9. ASSUME NEW k \in Compensators, NEW o \in Ops, ClaimCompensation(k, o) PROVE BalanceInv'
  BY <1>9, ClaimKeepsBalance
<1>. QED  BY <1>1, <1>3, <1>4, <1>5, <1>7, <1>8, <1>9, <1>2 DEF Next

(***************************************************************************)
(* A compensation that reports an operation reconciled has removed a       *)
(* message for it, whatever is sent, listed, deleted, lost or claimed      *)
(* again meanwhile; the two exceptions are those the property names.       *)
(***************************************************************************)
THEOREM NothingIsLeftBehind == Spec => []NothingLeftBehind
<1>1. BalanceInv => NothingLeftBehind
  <2>. SUFFICES ASSUME BalanceInv, ~ collided PROVE Cardinality(Present) <= Cardinality(Owed)
    BY DEF NothingLeftBehind, Present, Owed
  <2>1. /\ Cardinality(Present) \in Nat /\ Cardinality(Debt) \in Nat
        /\ Cardinality(Owed) \in Nat
    <3>1. Present \in SUBSET Ops /\ Debt \in SUBSET Ops /\ Owed \in SUBSET Ops
      BY DEF Present, Debt, Owed
    <3>. QED  BY <3>1, FiniteAssumption, Sizes
  <2>. QED  BY <2>1 DEF BalanceInv, Balance
<1>. QED
  BY <1>1, TypeInvInit, TypeInvNext, SendInvInit, SendInvNext, BalanceInit, BalanceNext,
     PTL DEF Spec
=============================================================================
