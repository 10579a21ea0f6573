------------------------- MODULE OutboxDispatchProof -------------------------
(***************************************************************************)
(* Proofs about RecurringJob and about OutboxDispatch, which extends it,   *)
(* for any sets of jobs, callers and events, any retry budget and any      *)
(* bounds.                                                                 *)
(***************************************************************************)
EXTENDS OutboxDispatch, TLAPS

(***************************************************************************)
(* The types are inductive once a job that a goroutine holds is known to   *)
(* be running, and a row that does not exist to have no attempts.          *)
(***************************************************************************)
TypeInv ==
    /\ RecurringTypeOK
    /\ \A j \in busy : status[j] = "running"
    /\ \A j \in Jobs : status[j] = "absent" => attempts[j] = 0

(***************************************************************************)
(* What ChainAlive rests on.  Unless another Run began beside it one Run   *)
(* is under way at most, and one that is about to return without an error  *)
(* leaves another active job behind: nothing but a second Run, which would *)
(* be an overlap, could have ended that one since it was counted or        *)
(* enqueued.                                                               *)
(***************************************************************************)
ChainInv ==
    ~ overlap =>
       /\ \A i, j \in busy : i = j
       /\ \A j \in Jobs : phase[j] = "return" /\ ~ failed[j]
                             => \E k \in ActiveJobs : k # j

\* What ChainAlive says of a step.
EndsRightly == ActiveJobs # {} /\ ActiveJobs' = {} => \E j \in ActiveJobs : EndsChain(j)

\* What no step but a Run's end does: take a job off the active ones.
StayActive == \A j \in Jobs : j \in ActiveJobs => j \in ActiveJobs'

-----------------------------------------------------------------------------
LEMMA Bounds == MaxErrors \in Nat /\ MaxLosses \in Nat /\ MaxRetry \in Nat /\ 0 < MaxRetry
<1>1. MaxRetry \in Nat \ {0}
  BY RecurringAssumption
<1>2. MaxErrors \in Nat /\ MaxLosses \in Nat
  BY RecurringAssumption, Zenon
<1>. QED  BY <1>1, <1>2

\* The jobs held are those whose Run is somewhere.
Phases == {"idle", "body", "count", "enqueue", "return", "off"}

LEMMA PhaseMoves ==
    ASSUME TypeInv, NEW j \in Jobs, NEW p \in Phases, phase' = [phase EXCEPT ![j] = p]
    PROVE  /\ phase' \in [Jobs -> Phases]
           /\ {i \in Jobs : phase'[i] # "idle"} = IF p = "idle" THEN busy \ {j}
                                                  ELSE busy \union {j}
           /\ \A i \in Jobs : phase'[i] = IF i = j THEN p ELSE phase[i]
<1>1. phase \in [Jobs -> Phases] /\ busy = {i \in Jobs : phase[i] # "idle"}
  BY Zenon DEF TypeInv, RecurringTypeOK, Phases
<1>2. phase' \in [Jobs -> Phases] /\ \A i \in Jobs : phase'[i] = IF i = j THEN p ELSE phase[i]
  BY <1>1
<1>3. ASSUME NEW i
      PROVE  i \in {q \in Jobs : phase'[q] # "idle"}
                <=> i \in (IF p = "idle" THEN busy \ {j} ELSE busy \union {j})
  BY <1>1, <1>2
<1>. QED  BY <1>2, <1>3

LEMMA TypeInvInit == Init => TypeInv
<1>. SUFFICES ASSUME Init PROVE TypeInv
  OBVIOUS
<1>1. errors \in 0..MaxErrors /\ losses \in 0..MaxLosses
  BY Bounds DEF Init
<1>2. ActiveJobs = {} /\ busy = {j \in Jobs : phase[j] # "idle"}
  BY DEF Init, LedgerInit, ActiveJobs
<1>3. attempts \in [Jobs -> 0..MaxRetry]
  BY Bounds DEF Init, LedgerInit
<1>. QED
  BY <1>1, <1>2, <1>3, Zenon DEF Init, LedgerInit, TypeInv, RecurringTypeOK

\* A row that is inserted, queued with no attempts.
LEMMA EnqueueTyped ==
    ASSUME TypeInv, NEW j \in Jobs, Enqueue(j)
    PROVE  /\ status' \in [Jobs -> {"absent", "queued", "running", "succeeded", "failed"}]
           /\ UNCHANGED <<attempts, busy>>
           /\ \A i \in ActiveJobs' : attempts'[i] < MaxRetry
           /\ \A i \in busy : status'[i] = "running"
           /\ \A i \in Jobs : status'[i] = "absent" => attempts[i] = 0
           /\ StayActive /\ j \in ActiveJobs' /\ j \notin ActiveJobs
<1>1. status \in [Jobs -> {"absent", "queued", "running", "succeeded", "failed"}]
  BY Zenon DEF TypeInv, RecurringTypeOK
<1>2. /\ status[j] = "absent" /\ status'[j] = "queued" /\ UNCHANGED <<attempts, busy>>
      /\ \A i \in Jobs \ {j} : status'[i] = status[i]
      /\ status' \in [Jobs -> {"absent", "queued", "running", "succeeded", "failed"}]
  BY <1>1 DEF Enqueue
<1>3. StayActive /\ j \in ActiveJobs' /\ j \notin ActiveJobs
  BY <1>2 DEF StayActive, ActiveJobs
<1>4. \A i \in ActiveJobs' : attempts'[i] < MaxRetry
  <2>1. attempts[j] = 0
    BY <1>2 DEF TypeInv
  <2>2. \A i \in Jobs \ {j} : i \in ActiveJobs' => i \in ActiveJobs
    BY <1>2 DEF ActiveJobs
  <2>3. \A i \in ActiveJobs' : i \in Jobs
    BY DEF ActiveJobs
  <2>4. \A i \in ActiveJobs : attempts[i] < MaxRetry
    BY Zenon DEF TypeInv, RecurringTypeOK
  <2>. QED  BY <1>2, <2>1, <2>2, <2>3, <2>4, Bounds
<1>5. \A i \in busy : status'[i] = "running"
  BY <1>2, Zenon DEF TypeInv, RecurringTypeOK
<1>. QED  BY <1>2, <1>3, <1>4, <1>5 DEF TypeInv

LEMMA CallerKeepsTypes ==
    ASSUME TypeInv, NEW c \in Callers, CallerCounts(c) \/ CallerEnqueues(c)
    PROVE  TypeInv' /\ StayActive
<1>1. call' \in [Callers -> {"idle", "none active", "done"}]
  BY Zenon DEF TypeInv, RecurringTypeOK, CallerCounts, CallerEnqueues
<1>2. CASE CallerCounts(c)
  BY <1>1, <1>2, Zenon
     DEF TypeInv, RecurringTypeOK, CallerCounts, ledger, run, ActiveJobs, StayActive
<1>3. CASE CallerEnqueues(c)
  <2>1. PICK j \in Jobs : Enqueue(j)
    BY <1>3, Zenon DEF CallerEnqueues
  <2>2. UNCHANGED <<phase, failed, rearmed, enabled, errors, losses, overlap>>
    BY <1>3, Zenon DEF CallerEnqueues, run
  <2>3. /\ status' \in [Jobs -> {"absent", "queued", "running", "succeeded", "failed"}]
        /\ UNCHANGED <<attempts, busy>>
        /\ \A i \in ActiveJobs' : attempts'[i] < MaxRetry
        /\ \A i \in busy : status'[i] = "running"
        /\ \A i \in Jobs : status'[i] = "absent" => attempts[i] = 0
        /\ StayActive
    BY <2>1, EnqueueTyped
  <2>. QED  BY <1>1, <2>2, <2>3, Zenon DEF TypeInv, RecurringTypeOK
<1>. QED  BY <1>2, <1>3

LEMMA StartKeepsTypes ==
    ASSUME TypeInv, NEW j \in Jobs, StartRun(j)
    PROVE  TypeInv' /\ StayActive
<1>1. /\ status[j] = "queued" /\ j \notin busy
      /\ status' = [i \in Jobs |-> IF i = j THEN "running" ELSE status[i]]
      /\ busy' = busy \union {j} /\ attempts' = attempts
  BY DEF StartRun, Claim, All, With
<1>2. /\ \A i \in Jobs : status'[i] = IF i = j THEN "running" ELSE status[i]
      /\ status' \in [Jobs -> {"absent", "queued", "running", "succeeded", "failed"}]
  BY <1>1, Zenon DEF TypeInv, RecurringTypeOK
<1>3. /\ phase' \in [Jobs -> {"idle", "body", "count", "enqueue", "return", "off"}]
      /\ busy' = {i \in Jobs : phase'[i] # "idle"}
  <2>1. phase' = [phase EXCEPT ![j] = "body"]
    BY DEF StartRun
  <2>. QED  BY <1>1, <2>1, PhaseMoves, Zenon DEF Phases
<1>4. failed' \in [Jobs -> BOOLEAN] /\ rearmed' \in [Jobs -> BOOLEAN] /\ overlap' \in BOOLEAN
  BY Zenon DEF TypeInv, RecurringTypeOK, StartRun
<1>5. /\ \A i \in ActiveJobs' : attempts'[i] < MaxRetry
      /\ \A i \in busy' : status'[i] = "running"
      /\ \A i \in Jobs : status'[i] = "absent" => attempts'[i] = 0
      /\ StayActive
  BY <1>1, <1>2, Zenon DEF TypeInv, RecurringTypeOK, ActiveJobs, StayActive
<1>. QED  BY <1>1, <1>2, <1>3, <1>4, <1>5, Zenon DEF TypeInv, RecurringTypeOK, StartRun

\* The steps of a Run between its claim and its outcome.
LEMMA RunKeepsTypes ==
    ASSUME TypeInv, NEW j \in Jobs,
           \/ BodySucceeds(j) \/ BodyFails(j) \/ RunCounts(j) \/ RunScheduleFails(j)
    PROVE  TypeInv' /\ StayActive
<1>1. /\ UNCHANGED <<status, attempts, busy, call, enabled, losses, overlap>>
      /\ phase[j] # "idle"
      /\ \E p \in {"count", "enqueue", "return", "off"} : phase' = [phase EXCEPT ![j] = p]
  BY DEF BodySucceeds, BodyFails, RunCounts, RunScheduleFails, ledger
<1>2. /\ phase' \in [Jobs -> {"idle", "body", "count", "enqueue", "return", "off"}]
      /\ busy' = {i \in Jobs : phase'[i] # "idle"}
  <2>1. PICK p \in {"count", "enqueue", "return", "off"} : phase' = [phase EXCEPT ![j] = p]
    BY <1>1, Zenon
  <2>2. j \in busy
    BY <1>1, Zenon DEF TypeInv, RecurringTypeOK
  <2>3. p \in Phases /\ p # "idle"
    BY DEF Phases
  <2>4. /\ phase' \in [Jobs -> Phases]
        /\ {i \in Jobs : phase'[i] # "idle"} = busy \union {j}
    BY <2>1, <2>3, PhaseMoves, Zenon
  <2>. QED  BY <1>1, <2>2, <2>4 DEF Phases
<1>3. failed' \in [Jobs -> BOOLEAN] /\ rearmed' \in [Jobs -> BOOLEAN]
  BY Zenon DEF TypeInv, RecurringTypeOK, BodySucceeds, BodyFails, RunCounts, RunScheduleFails
<1>4. errors' \in 0..MaxErrors
  <2>1. errors' = errors \/ (errors < MaxErrors /\ errors' = errors + 1)
    BY DEF BodySucceeds, BodyFails, RunCounts, RunScheduleFails
  <2>2. errors \in 0..MaxErrors
    BY Zenon DEF TypeInv, RecurringTypeOK
  <2>. QED  BY <2>1, <2>2, Bounds
<1>. QED
  BY <1>1, <1>2, <1>3, <1>4, Zenon DEF TypeInv, RecurringTypeOK, ActiveJobs, StayActive

LEMMA EnqueuesKeepsTypes ==
    ASSUME TypeInv, NEW j \in Jobs, RunEnqueues(j)
    PROVE  TypeInv' /\ StayActive /\ \E k \in ActiveJobs' : k # j
<1>1. PICK k \in Jobs : Enqueue(k)
  BY DEF RunEnqueues
<1>2. /\ phase' \in [Jobs -> {"idle", "body", "count", "enqueue", "return", "off"}]
      /\ busy = {i \in Jobs : phase'[i] # "idle"} /\ j \in busy
  BY Zenon DEF TypeInv, RecurringTypeOK, RunEnqueues
<1>3. rearmed' \in [Jobs -> BOOLEAN]
  BY Zenon DEF TypeInv, RecurringTypeOK, RunEnqueues
<1>4. k # j
  BY <1>1, <1>2 DEF TypeInv, Enqueue
<1>5. TypeInv'
  <2>1. UNCHANGED <<failed, call, enabled, errors, losses, overlap>>
    BY DEF RunEnqueues
  <2>2. /\ status' \in [Jobs -> {"absent", "queued", "running", "succeeded", "failed"}]
        /\ UNCHANGED <<attempts, busy>>
        /\ \A i \in ActiveJobs' : attempts'[i] < MaxRetry
        /\ \A i \in busy : status'[i] = "running"
        /\ \A i \in Jobs : status'[i] = "absent" => attempts[i] = 0
    BY <1>1, EnqueueTyped
  <2>. QED  BY <1>2, <1>3, <2>1, <2>2, Zenon DEF TypeInv, RecurringTypeOK
<1>. QED  BY <1>1, <1>4, <1>5, EnqueueTyped

\* The end of a Run, or its refusal: its own row is the only one that changes.
LEMMA FinishWrites ==
    ASSUME TypeInv, NEW j \in Jobs, Finish(j)
    PROVE  /\ j \in busy /\ busy' = busy \ {j} /\ status[j] = "running"
           /\ status'[j] \in {"succeeded", "failed", "queued"}
           /\ status'[j] = "queued" => attempts'[j] < MaxRetry
           /\ \A i \in Jobs \ {j} : status'[i] = status[i] /\ attempts'[i] = attempts[i]
           /\ attempts'[j] = attempts[j] + 1 /\ attempts[j] \in 0 .. (MaxRetry - 1)
           /\ status' \in [Jobs -> {"absent", "queued", "running", "succeeded", "failed"}]
           /\ attempts' \in [Jobs -> 0..MaxRetry]
<1>1. PICK s \in {"succeeded", "failed", "queued"} :
         /\ s = "queued" => attempts[j] + 1 < MaxRetry
         /\ status' = [status EXCEPT ![j] = s]
  BY Zenon DEF Finish
<1>2. /\ j \in busy /\ busy' = busy \ {j} /\ status[j] = "running"
      /\ attempts' = [attempts EXCEPT ![j] = @ + 1]
  BY Zenon DEF Finish
<1>3. /\ status \in [Jobs -> {"absent", "queued", "running", "succeeded", "failed"}]
      /\ attempts \in [Jobs -> 0..MaxRetry] /\ attempts[j] < MaxRetry
  BY <1>2, Zenon DEF TypeInv, RecurringTypeOK, ActiveJobs
<1>4. attempts[j] \in 0 .. (MaxRetry - 1) /\ attempts[j] + 1 \in 0..MaxRetry
  BY <1>3, Bounds
<1>5. /\ \A i \in Jobs : attempts'[i] = IF i = j THEN attempts[j] + 1 ELSE attempts[i]
      /\ attempts' \in [Jobs -> 0..MaxRetry]
  BY ONLY <1>2, <1>3, <1>4
<1>6. /\ \A i \in Jobs : status'[i] = IF i = j THEN s ELSE status[i]
      /\ status' \in [Jobs -> {"absent", "queued", "running", "succeeded", "failed"}]
  BY ONLY <1>1, <1>3
<1>. QED  BY <1>1, <1>2, <1>4, <1>5, <1>6

LEMMA FinishKeepsTypes ==
    ASSUME TypeInv, NEW j \in Jobs, Finish(j), phase' = [phase EXCEPT ![j] = "idle"],
           rearmed' \in [Jobs -> BOOLEAN], errors' \in 0..MaxErrors,
           UNCHANGED <<failed, call, enabled, losses, overlap>>
    PROVE  TypeInv'
<1>1. /\ j \in busy /\ busy' = busy \ {j}
      /\ status'[j] \in {"succeeded", "failed", "queued"}
      /\ status'[j] = "queued" => attempts'[j] < MaxRetry
      /\ \A i \in Jobs \ {j} : status'[i] = status[i] /\ attempts'[i] = attempts[i]
      /\ status' \in [Jobs -> {"absent", "queued", "running", "succeeded", "failed"}]
      /\ attempts' \in [Jobs -> 0..MaxRetry]
  BY FinishWrites
<1>2. /\ phase' \in [Jobs -> {"idle", "body", "count", "enqueue", "return", "off"}]
      /\ busy' = {i \in Jobs : phase'[i] # "idle"}
  BY <1>1, PhaseMoves, Zenon DEF Phases
<1>3. \A i \in ActiveJobs' : attempts'[i] < MaxRetry
  <2>1. status'[j] # "running"
    BY <1>1
  <2>. QED  BY <1>1, <2>1, Zenon DEF TypeInv, RecurringTypeOK, ActiveJobs
<1>4. \A i \in busy' : status'[i] = "running"
  BY <1>1, Zenon DEF TypeInv, RecurringTypeOK
<1>5. \A i \in Jobs : status'[i] = "absent" => attempts'[i] = 0
  BY <1>1 DEF TypeInv
<1>. QED  BY <1>1, <1>2, <1>3, <1>4, <1>5, Zenon DEF TypeInv, RecurringTypeOK

LEMMA EndKeepsTypes ==
    ASSUME TypeInv, NEW j \in Jobs, RunReturns(j) \/ DispatchRefused(j)
    PROVE  TypeInv'
<1>1. /\ Finish(j) /\ phase' = [phase EXCEPT ![j] = "idle"]
      /\ UNCHANGED <<failed, call, enabled, losses, overlap>>
  BY Zenon DEF RunReturns, DispatchRefused
<1>2. rearmed' \in [Jobs -> BOOLEAN]
  BY Zenon DEF RunReturns, DispatchRefused, TypeInv, RecurringTypeOK
<1>3. errors' \in 0..MaxErrors
  <2>1. errors' = errors \/ (errors < MaxErrors /\ errors' = errors + 1)
    BY Zenon DEF RunReturns, DispatchRefused
  <2>2. errors \in 0..MaxErrors
    BY Zenon DEF TypeInv, RecurringTypeOK
  <2>. QED  BY <2>1, <2>2, Bounds
<1>. QED  BY <1>1, <1>2, <1>3, FinishKeepsTypes

\* A restart with another policy.
LEMMA PolicyKeepsTypes == ASSUME TypeInv, SetPolicy PROVE TypeInv' /\ StayActive
BY Zenon DEF TypeInv, RecurringTypeOK, SetPolicy, ledger, run, ActiveJobs, StayActive

\* A lost Run, its recovery, and retention.
LEMMA QueueKeepsTypes ==
    ASSUME TypeInv, NEW j \in Jobs, LoseRun(j) \/ Recover(j) \/ PurgeRow(j)
    PROVE  TypeInv' /\ StayActive /\ (busy' = busy \/ busy' = busy \ {j})
<1>1. CASE LoseRun(j)
  <2>1. /\ busy' = busy \ {j} /\ UNCHANGED <<status, attempts>>
        /\ phase' = [phase EXCEPT ![j] = "idle"] /\ losses' \in 0..MaxLosses
        /\ rearmed' \in [Jobs -> BOOLEAN]
    <3>1. losses < MaxLosses /\ losses' = losses + 1 /\ losses \in 0..MaxLosses
      BY <1>1, Zenon DEF LoseRun, TypeInv, RecurringTypeOK
    <3>2. losses' \in 0..MaxLosses
      BY <3>1, Bounds
    <3>. QED  BY <1>1, <3>2, Zenon DEF LoseRun, Lose, TypeInv, RecurringTypeOK
  <2>2. /\ phase' \in [Jobs -> {"idle", "body", "count", "enqueue", "return", "off"}]
        /\ busy' = {i \in Jobs : phase'[i] # "idle"}
    BY <2>1, PhaseMoves, Zenon DEF Phases
  <2>. QED
    BY <1>1, <2>1, <2>2, Zenon DEF TypeInv, RecurringTypeOK, LoseRun, ActiveJobs, StayActive
<1>2. CASE Recover(j)
  <2>1. /\ status[j] = "running" /\ j \notin busy /\ UNCHANGED <<attempts, busy>>
        /\ status' = [i \in Jobs |-> IF i = j THEN "queued" ELSE status[i]]
    BY <1>2 DEF Recover, TakeBack, All, With
  <2>2. /\ \A i \in Jobs : status'[i] = IF i = j THEN "queued" ELSE status[i]
        /\ status' \in [Jobs -> {"absent", "queued", "running", "succeeded", "failed"}]
    BY <2>1, Zenon DEF TypeInv, RecurringTypeOK
  <2>. QED
    BY <1>2, <2>1, <2>2, Zenon DEF TypeInv, RecurringTypeOK, Recover, ActiveJobs, StayActive, run
<1>3. CASE PurgeRow(j)
  <2>1. /\ status[j] \in {"succeeded", "failed", "canceled"} /\ busy' = busy
        /\ status' = [status EXCEPT ![j] = "absent"]
        /\ attempts' = [attempts EXCEPT ![j] = 0]
    BY <1>3 DEF PurgeRow, Purge
  <2>2. /\ \A i \in Jobs : status'[i] = IF i = j THEN "absent" ELSE status[i]
        /\ \A i \in Jobs : attempts'[i] = IF i = j THEN 0 ELSE attempts[i]
        /\ status' \in [Jobs -> {"absent", "queued", "running", "succeeded", "failed"}]
        /\ attempts' \in [Jobs -> 0..MaxRetry]
    <3>1. 0 \in 0..MaxRetry
      BY Bounds
    <3>. QED  BY <2>1, <3>1, Zenon DEF TypeInv, RecurringTypeOK
  <2>3. \A i \in busy : i # j
    BY <2>1 DEF TypeInv
  <2>4. ActiveJobs' = ActiveJobs /\ j \notin ActiveJobs
    BY <2>1, <2>2 DEF ActiveJobs
  <2>5. \A i \in ActiveJobs' : attempts'[i] < MaxRetry
    BY <2>2, <2>4, Zenon DEF TypeInv, RecurringTypeOK, ActiveJobs
  <2>6. \A i \in busy' : status'[i] = "running"
    BY <2>1, <2>2, <2>3, Zenon DEF TypeInv, RecurringTypeOK
  <2>7. \A i \in Jobs : status'[i] = "absent" => attempts'[i] = 0
    BY <2>2 DEF TypeInv
  <2>8. UNCHANGED <<busy, phase, failed, rearmed, call, enabled, errors, losses, overlap>>
    BY <1>3, <2>1 DEF PurgeRow, run
  <2>9. StayActive
    BY <2>4 DEF StayActive
  <2>. QED  BY <2>2, <2>5, <2>6, <2>7, <2>8, <2>9, Zenon DEF TypeInv, RecurringTypeOK
<1>. QED  BY <1>1, <1>2, <1>3

LEMMA StutterKeepsTypes ==
    ASSUME TypeInv, UNCHANGED recurringVars PROVE TypeInv' /\ StayActive
BY Zenon DEF TypeInv, RecurringTypeOK, recurringVars, ActiveJobs, StayActive

LEMMA TypeInvNext == TypeInv /\ [Next]_recurringVars => TypeInv'
BY PolicyKeepsTypes, CallerKeepsTypes, StartKeepsTypes, RunKeepsTypes, EnqueuesKeepsTypes,
   EndKeepsTypes, QueueKeepsTypes, StutterKeepsTypes DEF Next

-----------------------------------------------------------------------------
(***************************************************************************)
(* The chain.                                                              *)
(***************************************************************************)
LEMMA ChainInvInit == Init => ChainInv
BY DEF Init, LedgerInit, ChainInv

\* A step that ends no Run, starts none and lets no Run through to its return
\* without an error keeps the chain.
LEMMA ChainGoesOn ==
    ASSUME ChainInv, StayActive, busy' \subseteq busy, overlap' = overlap,
           \A j \in Jobs : phase'[j] = "return" /\ ~ failed'[j]
              => \/ phase[j] = "return" /\ ~ failed[j]
                 \/ \E k \in ActiveJobs' : k # j
    PROVE  ChainInv'
<1>2. ASSUME ~ overlap, NEW j \in Jobs, phase'[j] = "return", ~ failed'[j]
      PROVE  \E k \in ActiveJobs' : k # j
  <2>1. CASE phase[j] = "return" /\ ~ failed[j]
    <3>1. PICK k \in ActiveJobs : k # j
      BY <1>2, <2>1 DEF ChainInv
    <3>2. k \in ActiveJobs'
      BY DEF StayActive, ActiveJobs
    <3>. QED  BY <3>1, <3>2
  <2>. QED  BY <1>2, <2>1
<1>3. ~ overlap => \A i, j \in busy' : i = j
  BY DEF ChainInv
<1>. QED  BY <1>2, <1>3 DEF ChainInv

\* A Run that begins alone has nobody beside it; any other is an overlap.
LEMMA StartKeepsChain == ASSUME TypeInv, ChainInv, NEW j \in Jobs, StartRun(j) PROVE ChainInv'
<1>1. overlap' = (busy # {}) /\ busy' = busy \union {j}
  BY DEF StartRun, Claim
<1>2. \A i \in Jobs : busy = {} => phase'[i] # "return"
  BY Zenon DEF StartRun, TypeInv, RecurringTypeOK
<1>. QED  BY <1>1, <1>2, Zenon DEF ChainInv

\* The end of a Run that nobody overlapped leaves no Run under way.
LEMMA EndKeepsChain ==
    ASSUME TypeInv, ChainInv, NEW j \in Jobs, RunReturns(j) \/ DispatchRefused(j)
    PROVE  ChainInv'
<1>1. /\ j \in busy /\ busy' = busy \ {j} /\ overlap' = overlap
      /\ phase' = [phase EXCEPT ![j] = "idle"]
  BY Zenon DEF RunReturns, DispatchRefused, Finish
<1>2. ~ overlap => \A i \in Jobs \ {j} : phase[i] = "idle"
  BY <1>1, Zenon DEF ChainInv, TypeInv, RecurringTypeOK
<1>3. \A i \in Jobs : phase'[i] = IF i = j THEN "idle" ELSE phase[i]
  BY <1>1, PhaseMoves, Zenon DEF Phases
<1>4. ~ overlap => busy' = {} /\ \A i \in Jobs : phase'[i] # "return"
  BY <1>1, <1>2, <1>3 DEF ChainInv
<1>. QED  BY <1>1, <1>4 DEF ChainInv

LEMMA CallerKeepsChain ==
    ASSUME TypeInv, ChainInv, NEW c \in Callers, CallerCounts(c) \/ CallerEnqueues(c)
    PROVE  ChainInv'
<1>1. StayActive
  BY CallerKeepsTypes
<1>2. UNCHANGED <<phase, failed, busy, overlap>>
  BY Zenon DEF CallerCounts, CallerEnqueues, Enqueue, ledger, run
<1>. QED  BY <1>1, <1>2, ChainGoesOn

LEMMA PolicyKeepsChain == ASSUME TypeInv, ChainInv, SetPolicy PROVE ChainInv'
<1>1. StayActive
  BY PolicyKeepsTypes
<1>2. UNCHANGED <<phase, failed, busy, overlap>>
  BY Zenon DEF SetPolicy, ledger, run
<1>. QED  BY <1>1, <1>2, ChainGoesOn

LEMMA RunKeepsChain ==
    ASSUME TypeInv, ChainInv, NEW j \in Jobs,
           \/ BodySucceeds(j) \/ BodyFails(j) \/ RunCounts(j) \/ RunEnqueues(j)
           \/ RunScheduleFails(j)
    PROVE  ChainInv'
<1>1. StayActive
  BY RunKeepsTypes, EnqueuesKeepsTypes
<1>2. UNCHANGED <<call, busy, overlap>>
  BY DEF BodySucceeds, BodyFails, RunCounts, RunEnqueues, RunScheduleFails, Enqueue, ledger
<1>3. \A i \in Jobs \ {j} : phase'[i] = phase[i] /\ failed'[i] = failed[i]
  BY Zenon DEF TypeInv, RecurringTypeOK, BodySucceeds, BodyFails, RunCounts, RunEnqueues,
         RunScheduleFails
<1>4. ASSUME phase'[j] = "return", ~ failed'[j] PROVE \E k \in ActiveJobs' : k # j
  <2>1. CASE RunEnqueues(j)
    BY <2>1, EnqueuesKeepsTypes
  <2>2. CASE RunCounts(j)
    <3>1. Others(j) # {}
      BY <1>4, <2>2, Zenon DEF RunCounts, TypeInv, RecurringTypeOK
    <3>. QED  BY <1>1, <3>1 DEF Others, StayActive, ActiveJobs
  <2>3. CASE BodySucceeds(j)
    BY <1>4, <2>3, Zenon DEF BodySucceeds, TypeInv, RecurringTypeOK
  <2>4. CASE BodyFails(j) \/ RunScheduleFails(j)
    BY <1>4, <2>4, Zenon DEF BodyFails, RunScheduleFails, TypeInv, RecurringTypeOK
  <2>. QED  BY <2>1, <2>2, <2>3, <2>4
<1>. QED  BY <1>1, <1>2, <1>3, <1>4, ChainGoesOn

LEMMA QueueKeepsChain ==
    ASSUME TypeInv, ChainInv, NEW j \in Jobs, LoseRun(j) \/ Recover(j) \/ PurgeRow(j)
    PROVE  ChainInv'
<1>1. StayActive /\ busy' \subseteq busy
  BY QueueKeepsTypes
<1>2. UNCHANGED <<call, overlap, failed>>
  BY DEF LoseRun, Recover, PurgeRow, run
<1>3. \A i \in Jobs : phase'[i] = phase[i] \/ phase'[i] = "idle"
  BY Zenon DEF TypeInv, RecurringTypeOK, LoseRun, Recover, PurgeRow, run
<1>. QED  BY <1>1, <1>2, <1>3, ChainGoesOn

LEMMA StutterKeepsChain == ASSUME TypeInv, ChainInv, UNCHANGED recurringVars PROVE ChainInv'
<1>1. StayActive
  BY StutterKeepsTypes
<1>2. UNCHANGED <<call, busy, phase, failed, overlap>>
  BY DEF recurringVars
<1>. QED  BY <1>1, <1>2, ChainGoesOn

LEMMA ChainInvNext == TypeInv /\ ChainInv /\ [Next]_recurringVars => ChainInv'
BY PolicyKeepsChain, CallerKeepsChain, StartKeepsChain, RunKeepsChain, EndKeepsChain,
   QueueKeepsChain, StutterKeepsChain DEF Next

\* Only the end of a Run takes a job off the active ones.
LEMMA StayingEndsNothing == ASSUME StayActive PROVE EndsRightly
BY DEF StayActive, ActiveJobs, EndsRightly

LEMMA RefusalEndsRightly ==
    ASSUME TypeInv, NEW j \in Jobs, DispatchRefused(j) PROVE EndsRightly
<1>1. Finish(j) /\ phase[j] = "body" /\ status'[j] = "failed"
  BY Zenon DEF DispatchRefused
<1>2. j \in ActiveJobs
  BY <1>1, FinishWrites DEF ActiveJobs
<1>. QED  BY <1>1, <1>2, Zenon DEF EndsRightly, EndsChain

LEMMA ReturnEndsRightly ==
    ASSUME TypeInv, ChainInv, NEW j \in Jobs, RunReturns(j) PROVE EndsRightly
<1>1. Finish(j) /\ status'[j] = Outcome(j) /\ phase[j] \in {"return", "off"}
  BY Zenon DEF RunReturns
<1>2. /\ status[j] = "running" /\ attempts'[j] = attempts[j] + 1
      /\ attempts[j] \in 0 .. (MaxRetry - 1)
      /\ \A i \in Jobs \ {j} : status'[i] = status[i]
  BY <1>1, FinishWrites
<1>3. j \in ActiveJobs
  BY <1>2 DEF ActiveJobs
<1>4. ASSUME ActiveJobs' = {}, ~ overlap, phase[j] # "off"
      PROVE  failed[j] /\ attempts'[j] = MaxRetry
  <2>1. failed[j]
    <3>1. SUFFICES ASSUME ~ failed[j] PROVE FALSE
      OBVIOUS
    <3>2. PICK k \in ActiveJobs : k # j
      BY <1>1, <1>4, <3>1 DEF ChainInv
    <3>3. k \in ActiveJobs'
      BY <1>2, <3>2 DEF ActiveJobs
    <3>. QED  BY <1>4, <3>3
  <2>2. status'[j] # "queued"
    BY <1>4 DEF ActiveJobs
  <2>3. ~ (attempts[j] + 1 < MaxRetry)
    BY <1>1, <2>1, <2>2 DEF Outcome
  <2>. QED  BY <1>2, <2>1, <2>3, Bounds
<1>. QED  BY <1>3, <1>4, Zenon DEF EndsRightly, EndsChain

LEMMA NextEndsRightly == TypeInv /\ ChainInv /\ [Next]_recurringVars => EndsRightly
BY PolicyKeepsTypes, CallerKeepsTypes, StartKeepsTypes, RunKeepsTypes, EnqueuesKeepsTypes,
   QueueKeepsTypes, StutterKeepsTypes, StayingEndsNothing, RefusalEndsRightly,
   ReturnEndsRightly DEF Next

-----------------------------------------------------------------------------
(***************************************************************************)
(* The rows, Runs and schedule calls of a recurring kind have their types; *)
(* a goroutine holds exactly the jobs whose Run is under way, and no       *)
(* active job has used up its attempts.                                    *)
(***************************************************************************)
THEOREM RecurringTypesHold == Spec => []RecurringTypeOK
<1>1. TypeInv => RecurringTypeOK
  BY DEF TypeInv
<1>. QED  BY <1>1, TypeInvInit, TypeInvNext, PTL DEF Spec

(***************************************************************************)
(* A chain of runs ends only with a job that is refused at dispatch or has *)
(* used up its retries, with a run that found its kind switched off, or    *)
(* with one of two overlapping runs, for any number of rows, callers,      *)
(* crashes and errors (the count of a finishing worker leaves out its own  *)
(* job and no other).                                                      *)
(***************************************************************************)
THEOREM ChainStaysAlive == Spec => ChainAlive
<1>1. TypeInv /\ ChainInv /\ [Next]_recurringVars
        => [ActiveJobs # {} /\ ActiveJobs' = {}
              => \E j \in ActiveJobs : EndsChain(j)]_recurringVars
  BY NextEndsRightly DEF EndsRightly
<1>. QED
  BY <1>1, TypeInvInit, TypeInvNext, ChainInvInit, ChainInvNext, PTL DEF Spec, ChainAlive

-----------------------------------------------------------------------------
(***************************************************************************)
(* OutboxDispatch.  A dispatch run is a Run of RecurringJob whose body has *)
(* steps of its own, so that the lemmas above carry over: every step       *)
(* either is a step of RecurringJob, or leaves its state alone, or is one  *)
(* of the body that records an error or ends the body.                     *)
(***************************************************************************)
\* The parts of OutboxTypeOK about events and about bodies.
EventsTyped ==
    /\ row \in [Events -> Row]
    /\ impacts \in [Events -> Nat]

BodiesTyped ==
    /\ step \in [Jobs -> {"select", "claim", "handle"}]
    /\ todo \in [Jobs -> SUBSET Events]
    /\ \A j \in Jobs : todo[j] # {} => phase[j] = "body" /\ step[j] # "select"
    /\ asked \subseteq Requesters

(***************************************************************************)
(* What makes ImpactOnce inductive and PublishedIsFrozen hold: the types,  *)
(* and that the update which publishes an event frees it, so that no lease *)
(* of a published event is left to run out.                                *)
(***************************************************************************)
DispatchInv ==
    /\ TypeInv /\ ChainInv /\ EventsTyped /\ BodiesTyped
    /\ ImpactOnce
    /\ \A e \in Events : row[e].state = "published" => row[e].lease = "free"

\* The steps of a body that RecurringJob does not know.
Records(j) ==
    /\ phase[j] = "body"
    /\ failed' = [failed EXCEPT ![j] = TRUE]
    /\ UNCHANGED <<ledger, phase, rearmed, call, enabled, losses, overlap>>
    /\ errors' = errors \/ (errors < MaxErrors /\ errors' = errors + 1)

EndsBody(j) ==
    /\ phase[j] = "body"
    /\ phase' = [phase EXCEPT ![j] = IF failed[j] THEN "return" ELSE "count"]
    /\ UNCHANGED <<ledger, failed, rearmed, call, enabled, errors, losses, overlap>>

LEMMA RecordsKeeps ==
    ASSUME TypeInv, ChainInv, NEW j \in Jobs, Records(j)
    PROVE  TypeInv' /\ ChainInv' /\ EndsRightly
<1>1. /\ UNCHANGED <<status, attempts, busy, phase, rearmed, call, enabled, losses, overlap>>
      /\ ActiveJobs' = ActiveJobs
  BY DEF Records, ledger, ActiveJobs
<1>2. failed' \in [Jobs -> BOOLEAN] /\ errors' \in 0..MaxErrors
  <2>1. failed' \in [Jobs -> BOOLEAN]
    BY Zenon DEF Records, TypeInv, RecurringTypeOK
  <2>2. errors \in 0..MaxErrors /\ (errors' = errors \/ (errors < MaxErrors /\ errors' = errors + 1))
    BY Zenon DEF Records, TypeInv, RecurringTypeOK
  <2>. QED  BY <2>1, <2>2, Bounds
<1>3. TypeInv'
  BY <1>1, <1>2, Zenon DEF TypeInv, RecurringTypeOK
<1>4. \A i \in Jobs : ~ failed'[i] => ~ failed[i]
  BY Zenon DEF Records, TypeInv, RecurringTypeOK
<1>5. StayActive
  BY <1>1 DEF StayActive
<1>. QED  BY <1>1, <1>3, <1>4, <1>5, ChainGoesOn, StayingEndsNothing

LEMMA EndsBodyKeeps ==
    ASSUME TypeInv, ChainInv, NEW j \in Jobs, EndsBody(j)
    PROVE  TypeInv' /\ ChainInv' /\ EndsRightly
<1>0. PICK p \in {"return", "count"} : p = IF failed[j] THEN "return" ELSE "count"
  OBVIOUS
<1>1. /\ UNCHANGED <<status, attempts, busy, failed, rearmed, call, enabled, errors, losses, overlap>>
      /\ ActiveJobs' = ActiveJobs
  BY DEF EndsBody, ledger, ActiveJobs
<1>2. p \in Phases /\ p # "idle" /\ phase' = [phase EXCEPT ![j] = p] /\ j \in busy
  BY <1>0, Zenon DEF EndsBody, Phases, TypeInv, RecurringTypeOK
<1>3. /\ phase' \in [Jobs -> Phases]
      /\ {i \in Jobs : phase'[i] # "idle"} = busy \union {j}
      /\ \A i \in Jobs : phase'[i] = IF i = j THEN p ELSE phase[i]
  BY <1>2, PhaseMoves, Zenon
<1>4. TypeInv'
  BY <1>1, <1>2, <1>3, Zenon DEF TypeInv, RecurringTypeOK, Phases
<1>5. \A i \in Jobs : phase'[i] = "return" /\ ~ failed'[i] => phase[i] = "return" /\ ~ failed[i]
  BY <1>0, <1>1, <1>3
<1>6. StayActive
  BY <1>1 DEF StayActive
<1>. QED  BY <1>1, <1>4, <1>5, <1>6, ChainGoesOn, StayingEndsNothing

\* A step of RecurringJob, or none.
LEMMA RecurringKeeps ==
    TypeInv /\ ChainInv /\ [Next]_recurringVars => TypeInv' /\ ChainInv' /\ EndsRightly
BY TypeInvNext, ChainInvNext, NextEndsRightly

-----------------------------------------------------------------------------
(***************************************************************************)
(* How a step treats an event: it never touches a published one, marks the *)
(* evidence stale only when it publishes, and otherwise keeps the row's    *)
(* being or not being published.                                           *)
(***************************************************************************)
EventKept(e) ==
    /\ row'[e] \in Row /\ impacts'[e] \in Nat
    /\ row[e].state = "published" => row'[e] = row[e]
    /\ \/ /\ impacts'[e] = impacts[e]
          /\ row'[e].state = "published" => row[e].state = "published"
       \/ /\ impacts'[e] = impacts[e] + 1
          /\ row[e].state = "pending" /\ row'[e].state = "published"
          /\ row'[e].lease = "free"

EventsKept ==
    /\ row' \in [Events -> Row] /\ impacts' \in [Events -> Nat]
    /\ \A e \in Events : EventKept(e)

LEMMA NoEventChanges == ASSUME EventsTyped, UNCHANGED <<row, impacts>> PROVE EventsKept
BY DEF EventsTyped, EventsKept, EventKept

LEMMA OneEventChanges ==
    ASSUME EventsTyped, NEW e \in Events, NEW x \in Row, row' = [row EXCEPT ![e] = x],
           row[e].state = "published" => x = row[e],
           \/ impacts' = impacts /\ (x.state = "published" => row[e].state = "published")
           \/ /\ impacts' = [impacts EXCEPT ![e] = @ + 1]
              /\ row[e].state = "pending" /\ x.state = "published" /\ x.lease = "free"
    PROVE  EventsKept
<1>1. row \in [Events -> Row] /\ impacts \in [Events -> Nat]
  BY DEF EventsTyped
<1>2. row' \in [Events -> Row] /\ \A f \in Events : row'[f] = IF f = e THEN x ELSE row[f]
  BY <1>1
<1>3. CASE impacts' = impacts /\ (x.state = "published" => row[e].state = "published")
  BY <1>1, <1>2, <1>3 DEF EventsKept, EventKept
<1>4. CASE /\ impacts' = [impacts EXCEPT ![e] = @ + 1]
           /\ row[e].state = "pending" /\ x.state = "published" /\ x.lease = "free"
  <2>1. /\ impacts' \in [Events -> Nat]
        /\ \A f \in Events : impacts'[f] = IF f = e THEN impacts[f] + 1 ELSE impacts[f]
    BY <1>1, <1>4
  <2>. QED  BY <1>1, <1>2, <1>4, <2>1 DEF EventsKept, EventKept
<1>. QED  BY <1>3, <1>4

LEMMA RetryKeepsEvents ==
    ASSUME EventsTyped, NEW e \in Events, RetryOutboxEvent(e) \/ row' = row, impacts' = impacts
    PROVE  EventsKept
<1>1. CASE row' = row
  BY <1>1, NoEventChanges
<1>2. CASE row' # row
  <2>. DEFINE x == [row[e] EXCEPT !.lease = "free", !.due = FALSE]
  <2>1. row[e].state = "pending" /\ row' = [row EXCEPT ![e] = x]
    BY <1>2, Zenon DEF RetryOutboxEvent, RetryAdmits
  <2>2. row[e] \in Row
    BY DEF EventsTyped
  <2>3. x \in Row /\ x.state = row[e].state
    BY <2>2, Zenon DEF Row
  <2>. HIDE DEF x
  <2>. QED  BY <2>1, <2>3, OneEventChanges, Zenon
<1>. QED  BY <1>1, <1>2

\* Claiming takes the lease of unpublished events only.
LEMMA ClaimKeepsEvents ==
    ASSUME EventsTyped, NEW j \in Jobs, ClaimOutboxEvents(j) PROVE EventsKept
<1>. DEFINE claimed == {e \in todo[j] : Unclaimed(e)}
            x(e) == [row[e] EXCEPT !.lease = "held"]
<1>1. row \in [Events -> Row] /\ impacts \in [Events -> Nat]
  BY DEF EventsTyped
<1>2. \A e \in Events : x(e) \in Row /\ x(e).state = row[e].state
  BY <1>1 DEF Row
<1>3. \A e \in claimed : row[e].state = "pending"
  BY DEF Unclaimed
<1>4. impacts' = impacts /\ row' = [e \in Events |-> IF e \in claimed THEN x(e) ELSE row[e]]
  BY DEF ClaimOutboxEvents
<1>. HIDE DEF x, claimed
<1>5. \A e \in Events : row'[e] = IF e \in claimed THEN x(e) ELSE row[e]
  BY <1>4
<1>6. row' \in [Events -> Row]
  BY <1>1, <1>2, <1>4
<1>7. ASSUME NEW e \in Events PROVE EventKept(e)
  <2>1. row[e] \in Row /\ impacts[e] \in Nat /\ impacts'[e] = impacts[e]
    BY <1>1, <1>4
  <2>2. CASE e \in claimed
    BY <1>2, <1>3, <1>5, <2>1, <2>2 DEF EventKept
  <2>3. CASE e \notin claimed
    BY <1>5, <2>1, <2>3 DEF EventKept
  <2>. QED  BY <2>2, <2>3
<1>. QED  BY <1>1, <1>4, <1>6, <1>7 DEF EventsKept

\* The four other steps that write a row: each an update of one event.
LEMMA RowWrites ==
    ASSUME EventsTyped, NEW e \in Events,
           \/ CreateOutboxEvent(e) \/ LeaseRunsOut(e) \/ BackoffPasses(e)
           \/ \E c \in Callers : RequestOutboxEventRetry(c, e)
           \/ \E j \in Jobs : PublishEvent(j, e),
           row[e].state = "published" => row[e].lease = "free"
    PROVE  EventsKept
<1>1. row[e] \in Row
  BY DEF EventsTyped
<1>2. CASE CreateOutboxEvent(e)
  <2>. DEFINE x == [row[e] EXCEPT !.state = "pending"]
  <2>1. row' = [row EXCEPT ![e] = x] /\ impacts' = impacts /\ row[e].state = "none"
    BY <1>2 DEF CreateOutboxEvent, NoRow
  <2>2. x \in Row /\ x.state = "pending"
    BY <1>1 DEF Row
  <2>. HIDE DEF x
  <2>. QED  BY <2>1, <2>2, OneEventChanges, Zenon
<1>3. CASE LeaseRunsOut(e)
  <2>. DEFINE x == [row[e] EXCEPT !.lease = "expired"]
  <2>1. row' = [row EXCEPT ![e] = x] /\ impacts' = impacts /\ row[e].lease = "held"
    BY <1>3 DEF LeaseRunsOut
  <2>2. x \in Row /\ x.state = row[e].state
    BY <1>1 DEF Row
  <2>. HIDE DEF x
  <2>. QED  BY <2>1, <2>2, OneEventChanges, Zenon
<1>4. CASE BackoffPasses(e)
  <2>. DEFINE x == [row[e] EXCEPT !.due = TRUE]
  <2>1. row' = [row EXCEPT ![e] = x] /\ impacts' = impacts /\ row[e].state = "pending"
    BY <1>4 DEF BackoffPasses
  <2>2. x \in Row /\ x.state = row[e].state
    BY <1>1, Zenon DEF Row
  <2>. HIDE DEF x
  <2>. QED  BY <2>1, <2>2, OneEventChanges, Zenon
<1>5. ASSUME NEW c \in Callers, RequestOutboxEventRetry(c, e) PROVE EventsKept
  <2>. DEFINE x == [row[e] EXCEPT !.lease = "free", !.due = TRUE]
  <2>1. row' = [row EXCEPT ![e] = x] /\ impacts' = impacts /\ row[e].state = "pending"
    BY <1>5, Zenon DEF RequestOutboxEventRetry
  <2>2. x \in Row /\ x.state = row[e].state
    BY <1>1, Zenon DEF Row
  <2>. HIDE DEF x
  <2>. QED  BY <2>1, <2>2, OneEventChanges, Zenon
<1>6. ASSUME NEW j \in Jobs, PublishEvent(j, e) PROVE EventsKept
  <2>. DEFINE x == [row[e] EXCEPT !.state = "published", !.lease = "free"]
  <2>1. /\ row' = [row EXCEPT ![e] = x] /\ row[e].state = "pending"
        /\ impacts' = [impacts EXCEPT ![e] = @ + 1]
    BY <1>6, Zenon DEF PublishEvent, PublishAdmits
  <2>2. x \in Row /\ x.state = "published" /\ x.lease = "free"
    BY <1>1, Zenon DEF Row
  <2>. HIDE DEF x
  <2>. QED  BY <2>1, <2>2, OneEventChanges, Zenon
<1>. QED  BY <1>2, <1>3, <1>4, <1>5, <1>6

-----------------------------------------------------------------------------
(***************************************************************************)
(* The bodies: a run has events to handle only while it is in its body.    *)
(***************************************************************************)
LEMMA NoBodyChanges ==
    ASSUME BodiesTyped, UNCHANGED <<step, todo>>, asked' \subseteq Requesters,
           \A j \in Jobs : phase[j] = "body" => phase'[j] = "body"
    PROVE  BodiesTyped'
BY DEF BodiesTyped

LEMMA OneBodyChanges ==
    ASSUME BodiesTyped, NEW j \in Jobs, NEW s \in {"select", "claim", "handle"},
           NEW T \in SUBSET Events,
           step' = [step EXCEPT ![j] = s], todo' = [todo EXCEPT ![j] = T], asked' = asked,
           T # {} => phase'[j] = "body" /\ s # "select",
           \A i \in Jobs \ {j} : phase'[i] = phase[i]
    PROVE  BodiesTyped'
BY DEF BodiesTyped

\* Leaving the body with nothing left to handle.
LEMMA BodyIsOver ==
    ASSUME TypeInv, BodiesTyped, NEW j \in Jobs,
           RunCounts(j) \/ RunEnqueues(j) \/ RunReturns(j) \/ RunScheduleFails(j),
           UNCHANGED outbox
    PROVE  BodiesTyped'
<1>1. /\ phase[j] # "body" /\ \A i \in Jobs \ {j} : phase'[i] = phase[i]
  BY Zenon DEF TypeInv, RecurringTypeOK, RunCounts, RunEnqueues, RunReturns, RunScheduleFails
<1>. QED  BY <1>1, NoBodyChanges DEF BodiesTyped, outbox

(***************************************************************************)
(* What a step does to the run, to the events and to the bodies.           *)
(***************************************************************************)
Kept == TypeInv' /\ ChainInv' /\ EndsRightly /\ EventsKept /\ BodiesTyped'

LEMMA OutsideKeeps ==
    ASSUME DispatchInv, NEW e \in Events,
           \/ CreateOutboxEvent(e) \/ LeaseRunsOut(e) \/ BackoffPasses(e)
           \/ \E c \in Callers : RequestOutboxEventRetry(c, e)
    PROVE  Kept
<1>1. /\ UNCHANGED <<recurringVars, step, todo>>
      /\ asked' = asked \/ \E c \in Requesters : asked' = asked \union {c}
  BY DEF CreateOutboxEvent, LeaseRunsOut, BackoffPasses, RequestOutboxEventRetry
<1>2. TypeInv' /\ ChainInv' /\ EndsRightly
  BY <1>1, RecurringKeeps DEF DispatchInv
<1>3. EventsKept
  BY RowWrites DEF DispatchInv
<1>4. BodiesTyped'
  <2>1. phase' = phase
    BY <1>1 DEF recurringVars
  <2>2. asked' \subseteq Requesters
    BY <1>1 DEF DispatchInv, BodiesTyped
  <2>. QED  BY <1>1, <2>1, <2>2, NoBodyChanges DEF DispatchInv
<1>. QED  BY <1>2, <1>3, <1>4 DEF Kept

LEMMA ScheduleKeeps ==
    ASSUME DispatchInv, NEW c \in Callers, ScheduleOutboxDispatch(c) PROVE Kept
<1>1. CallerCounts(c) \/ CallerEnqueues(c)
  BY DEF ScheduleOutboxDispatch
<1>2. TypeInv' /\ ChainInv' /\ EndsRightly
  BY <1>1, RecurringKeeps DEF DispatchInv, Next
<1>3. phase' = phase
  BY <1>1, Zenon DEF CallerCounts, CallerEnqueues, run
<1>4. UNCHANGED <<row, impacts, step, todo, asked>>
  BY DEF ScheduleOutboxDispatch, outbox
<1>5. EventsKept
  BY <1>4, NoEventChanges DEF DispatchInv
<1>6. BodiesTyped'
  BY <1>3, <1>4, NoBodyChanges DEF DispatchInv, BodiesTyped
<1>. QED  BY <1>2, <1>5, <1>6 DEF Kept

LEMMA RunStepKeeps ==
    ASSUME DispatchInv, NEW j \in Jobs, RunStep(j) \/ OtherStep(j) PROVE Kept
<1>1. \/ StartRun(j) \/ Recover(j) \/ PurgeRow(j)
      \/ RunCounts(j) \/ RunEnqueues(j) \/ RunReturns(j) \/ RunScheduleFails(j)
  BY DEF RunStep, OtherStep
<1>2. TypeInv' /\ ChainInv' /\ EndsRightly
  BY <1>1, RecurringKeeps DEF DispatchInv, Next
<1>3. UNCHANGED outbox
  BY DEF RunStep, OtherStep
<1>4. EventsKept
  BY <1>3, NoEventChanges DEF DispatchInv, outbox
<1>5. BodiesTyped'
  <2>1. CASE StartRun(j) \/ Recover(j) \/ PurgeRow(j)
    <3>1. \A i \in Jobs : phase[i] = "body" => phase'[i] = "body"
      BY <2>1, Zenon DEF StartRun, Recover, PurgeRow, run, DispatchInv, TypeInv, RecurringTypeOK
    <3>. QED  BY <1>3, <3>1, NoBodyChanges DEF DispatchInv, BodiesTyped, outbox
  <2>. QED  BY <1>1, <1>3, <2>1, BodyIsOver DEF DispatchInv
<1>. QED  BY <1>2, <1>4, <1>5 DEF Kept

\* A refused job has not begun its body: it holds no events.
LEMMA RefusalKeeps == ASSUME DispatchInv, NEW j \in Jobs, RefuseDispatch(j) PROVE Kept
<1>1. DispatchRefused(j) /\ step[j] = "select"
  BY DEF RefuseDispatch
<1>2. TypeInv' /\ ChainInv' /\ EndsRightly
  BY <1>1, RecurringKeeps DEF DispatchInv, Next
<1>3. UNCHANGED <<row, impacts, step, todo, asked>>
  BY DEF RefuseDispatch, outbox
<1>4. EventsKept
  BY <1>3, NoEventChanges DEF DispatchInv
<1>5. \A i \in Jobs \ {j} : phase'[i] = phase[i]
  BY <1>1, Zenon DEF DispatchInv, TypeInv, RecurringTypeOK, DispatchRefused
<1>6. todo[j] = {}
  BY <1>1 DEF DispatchInv, BodiesTyped
<1>7. BodiesTyped'
  BY <1>3, <1>5, <1>6 DEF DispatchInv, BodiesTyped
<1>. QED  BY <1>2, <1>4, <1>7 DEF Kept

\* Selecting and claiming.
LEMMA ClaimStepKeeps ==
    ASSUME DispatchInv, NEW j \in Jobs, SelectEvents(j) \/ ClaimOutboxEvents(j) PROVE Kept
<1>1. UNCHANGED recurringVars /\ asked' = asked /\ phase[j] = "body"
  BY DEF SelectEvents, ClaimOutboxEvents
<1>2. TypeInv' /\ ChainInv' /\ EndsRightly
  BY <1>1, RecurringKeeps DEF DispatchInv
<1>3. EventsKept
  BY NoEventChanges, ClaimKeepsEvents DEF DispatchInv, SelectEvents
<1>4. \E T \in SUBSET Events : todo' = [todo EXCEPT ![j] = T]
  <2>1. CASE SelectEvents(j)
    BY <2>1, Zenon DEF SelectEvents
  <2>2. CASE ClaimOutboxEvents(j)
    <3>1. {e \in todo[j] : Unclaimed(e)} \in SUBSET Events
      BY DEF DispatchInv, BodiesTyped
    <3>. QED  BY <2>2, <3>1, Zenon DEF ClaimOutboxEvents
  <2>. QED  BY <2>1, <2>2
<1>5. \E s \in {"claim", "handle"} : step' = [step EXCEPT ![j] = s]
  BY DEF SelectEvents, ClaimOutboxEvents
<1>6. phase' = phase
  BY <1>1 DEF recurringVars
<1>7. BodiesTyped'
  BY <1>1, <1>4, <1>5, <1>6, OneBodyChanges, Zenon DEF DispatchInv
<1>. QED  BY <1>2, <1>3, <1>7 DEF Kept

\* Handling one event, with whatever result.
LEMMA HandleStepKeeps ==
    ASSUME DispatchInv, NEW j \in Jobs, NEW e \in Events,
           PublishEvent(j, e) \/ PutOff(j, e) \/ HandlingFails(j, e)
    PROVE  Kept
<1>1. /\ phase[j] = "body" /\ UNCHANGED <<step, asked, phase>>
      /\ todo' = [todo EXCEPT ![j] = @ \ {e}]
  BY DEF PublishEvent, PutOff, HandlingFails, Handling, recurringVars
<1>2. BodiesTyped'
  BY <1>1 DEF DispatchInv, BodiesTyped
<1>3. CASE PublishEvent(j, e)
  <2>1. UNCHANGED recurringVars
    BY <1>3 DEF PublishEvent
  <2>2. TypeInv' /\ ChainInv' /\ EndsRightly
    BY <2>1, RecurringKeeps DEF DispatchInv
  <2>3. EventsKept
    BY <1>3, RowWrites DEF DispatchInv
  <2>. QED  BY <1>2, <2>2, <2>3 DEF Kept
<1>4. CASE PutOff(j, e) \/ HandlingFails(j, e)
  <2>1. Records(j)
    BY <1>1, <1>4 DEF PutOff, HandlingFails, Records
  <2>2. RetryOutboxEvent(e) \/ row' = row
    BY <1>4 DEF PutOff, HandlingFails
  <2>3. impacts' = impacts
    BY <1>4 DEF PutOff, HandlingFails
  <2>4. EventsKept
    BY <2>2, <2>3, RetryKeepsEvents DEF DispatchInv
  <2>. QED  BY <1>2, <2>1, <2>4, RecordsKeeps DEF Kept, DispatchInv
<1>. QED  BY <1>3, <1>4

\* The body ends, is given up, or is lost.
LEMMA BodyEndsKeeps ==
    ASSUME DispatchInv, NEW j \in Jobs, ProcessEnds(j) \/ ClaimFails(j) \/ LoseDispatch(j)
    PROVE  Kept
<1>1. UNCHANGED <<row, impacts, asked>> /\ step' = [step EXCEPT ![j] = "select"]
  BY DEF ProcessEnds, ClaimFails, LoseDispatch
<1>2. EventsKept
  BY <1>1, NoEventChanges DEF DispatchInv
<1>3. \A i \in Jobs \ {j} : phase'[i] = phase[i]
  BY Zenon DEF DispatchInv, TypeInv, RecurringTypeOK, ProcessEnds, ClaimFails, LoseDispatch,
         BodyFails, LoseRun
<1>4. todo' = [todo EXCEPT ![j] = {}]
  BY Zenon DEF DispatchInv, BodiesTyped, ProcessEnds, ClaimFails, LoseDispatch
<1>5. BodiesTyped'
  BY <1>1, <1>3, <1>4 DEF DispatchInv, BodiesTyped
<1>6. TypeInv' /\ ChainInv' /\ EndsRightly
  <2>1. CASE ProcessEnds(j)
    <3>1. EndsBody(j)
      BY <2>1 DEF ProcessEnds, EndsBody
    <3>. QED  BY <3>1, EndsBodyKeeps DEF DispatchInv
  <2>2. CASE ClaimFails(j) \/ LoseDispatch(j)
    <3>1. BodyFails(j) \/ LoseRun(j)
      BY <2>2 DEF ClaimFails, LoseDispatch
    <3>. QED  BY <3>1, RecurringKeeps DEF DispatchInv, Next
  <2>. QED  BY <2>1, <2>2
<1>. QED  BY <1>2, <1>5, <1>6 DEF Kept

LEMMA StutterKept == ASSUME DispatchInv, UNCHANGED outboxVars PROVE Kept
<1>1. UNCHANGED recurringVars /\ UNCHANGED <<row, impacts, step, todo, asked>>
  BY DEF outboxVars, outbox
<1>2. phase' = phase
  BY <1>1 DEF recurringVars
<1>3. TypeInv' /\ ChainInv' /\ EndsRightly
  BY <1>1, RecurringKeeps DEF DispatchInv
<1>4. EventsKept
  BY <1>1, NoEventChanges DEF DispatchInv
<1>5. BodiesTyped'
  BY <1>1, <1>2, NoBodyChanges DEF DispatchInv, BodiesTyped
<1>. QED  BY <1>3, <1>4, <1>5 DEF Kept

LEMMA StepsKept == ASSUME DispatchInv, [OutboxNext]_outboxVars PROVE Kept
BY OutsideKeeps, ScheduleKeeps, RunStepKeeps, RefusalKeeps, ClaimStepKeeps, HandleStepKeeps,
   BodyEndsKeeps, StutterKept DEF OutboxNext, BodyStep

LEMMA DispatchInvInit == OutboxInit => DispatchInv
<1>. SUFFICES ASSUME OutboxInit PROVE DispatchInv
  OBVIOUS
<1>1. TypeInv /\ ChainInv
  BY TypeInvInit, ChainInvInit DEF OutboxInit
<1>2. EventsTyped
  BY DEF OutboxInit, EventsTyped, Row, NoRow
<1>3. BodiesTyped
  BY DEF OutboxInit, BodiesTyped
<1>4. \A e \in Events : row[e].state = "none" /\ impacts[e] = 0
  BY DEF OutboxInit, NoRow
<1>. QED  BY <1>1, <1>2, <1>3, <1>4 DEF DispatchInv, ImpactOnce

LEMMA DispatchInvNext == DispatchInv /\ [OutboxNext]_outboxVars => DispatchInv'
<1>. SUFFICES ASSUME DispatchInv, [OutboxNext]_outboxVars PROVE DispatchInv'
  OBVIOUS
<1>1. TypeInv' /\ ChainInv' /\ EventsKept /\ BodiesTyped'
  BY StepsKept DEF Kept
<1>2. EventsTyped'
  BY <1>1 DEF EventsKept, EventsTyped
<1>3. ASSUME NEW e \in Events
      PROVE  /\ impacts'[e] = IF row'[e].state = "published" THEN 1 ELSE 0
             /\ row'[e].state = "published" => row'[e].lease = "free"
  <2>1. EventKept(e)
    BY <1>1 DEF EventsKept
  <2>2. /\ impacts[e] = IF row[e].state = "published" THEN 1 ELSE 0
        /\ row[e].state = "published" => row[e].lease = "free"
    BY DEF DispatchInv, ImpactOnce
  <2>. QED  BY <2>1, <2>2 DEF EventKept
<1>. QED  BY <1>1, <1>2, <1>3 DEF DispatchInv, ImpactOnce

-----------------------------------------------------------------------------
(***************************************************************************)
(* The events, bodies and Runs of the outbox dispatch have their types: in *)
(* particular a run holds events only while it is in its body.             *)
(***************************************************************************)
THEOREM OutboxTypesHold == OutboxSpec => []OutboxTypeOK
<1>1. DispatchInv => OutboxTypeOK
  BY DEF DispatchInv, TypeInv, EventsTyped, BodiesTyped, OutboxTypeOK
<1>. QED  BY <1>1, DispatchInvInit, DispatchInvNext, PTL DEF OutboxSpec

(***************************************************************************)
(* The evidence is marked stale exactly once for a published event, and    *)
(* never for another, with any number of runs handling it at once          *)
(* (MarkDocumentVersionPublishedImpact updates the event in the same       *)
(* transaction, only if it is unpublished).                                *)
(***************************************************************************)
THEOREM EvidenceMarkedOnce == OutboxSpec => []ImpactOnce
<1>1. DispatchInv => ImpactOnce
  BY DEF DispatchInv
<1>. QED  BY <1>1, DispatchInvInit, DispatchInvNext, PTL DEF OutboxSpec

(***************************************************************************)
(* A published event never changes again: the put-off, the retry request   *)
(* and the claim all require it to be unpublished, and publishing freed    *)
(* its lease.                                                              *)
(***************************************************************************)
THEOREM PublishedStaysFrozen == OutboxSpec => PublishedIsFrozen
<1>1. DispatchInv /\ [OutboxNext]_outboxVars
        => [\A e \in Events : row[e].state = "published" => row'[e] = row[e]]_outboxVars
  BY StepsKept DEF Kept, EventsKept, EventKept
<1>. QED
  BY <1>1, DispatchInvInit, DispatchInvNext, PTL DEF OutboxSpec, PublishedIsFrozen

(***************************************************************************)
(* The chain of dispatch runs ends in the same ways as that of any         *)
(* recurring kind, although the body of a dispatch run may record errors   *)
(* and go on.                                                              *)
(***************************************************************************)
THEOREM DispatchChainStaysAlive == OutboxSpec => ChainAlive
<1>1. DispatchInv /\ [OutboxNext]_outboxVars
        => [ActiveJobs # {} /\ ActiveJobs' = {}
              => \E j \in ActiveJobs : EndsChain(j)]_recurringVars
  BY StepsKept DEF Kept, EndsRightly
<1>. QED  BY <1>1, DispatchInvInit, DispatchInvNext, PTL DEF OutboxSpec, ChainAlive
=============================================================================
