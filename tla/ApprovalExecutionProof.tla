----------------------- MODULE ApprovalExecutionProof -----------------------
(***************************************************************************)
(* The remaining steps preserve the invariant of ApprovalExecutionSteps,   *)
(* and what follows from it.                                               *)
(***************************************************************************)
EXTENDS ApprovalExecutionSteps

-----------------------------------------------------------------------------
(***************************************************************************)
(* The steps that write contexts, operations and effects.                  *)
(***************************************************************************)
LEMMA ReportAfterLone ==
    ASSUME RunsOK, ReportInv, NEW w \in Workers, OnlyRun(w), run[w].pc # "idle",
           UNCHANGED <<approval, job, stalls>>, SettledOK(run[w])',
           stalls = 0 /\ LoneOK(run[w]) => LoneOK(run[w])',
           stalls = 0 => \A n \in Attempts : operation'[n].status = "COMPLETED"
                            => context'[n].status = "CLAIMED" \/ approval' = "completed"
    PROVE  ReportInv'
<1>1. ASSUME NEW v \in Workers PROVE SettledOK(run[v])'
  BY DEF OnlyRun, ReportInv, SettledOK
<1>2. ASSUME stalls' = 0, NEW v \in Workers PROVE LoneOK(run[v])'
  <2>1. CASE v = w
    BY <1>2, <2>1 DEF ReportInv
  <2>2. CASE v # w
    <3>1. run'[v] = run[v] /\ run[v].pc = "idle"
      BY <1>2, <2>2 DEF OnlyRun, ReportInv
    <3>2. ~Holding(run'[v]) /\ ~Knows(run'[v])
      BY <3>1 DEF Holding, Knows, First
    <3>. QED  BY <3>1, <3>2 DEF LoneOK
  <2>. QED  BY <2>1, <2>2
<1>3. ASSUME stalls' = 0
      PROVE  \A v, u \in Workers : run'[v].pc # "idle" /\ run'[u].pc # "idle" => v = u
  BY <1>3 DEF OnlyRun, ReportInv
<1>. QED  BY <1>1, <1>2, <1>3 DEF ReportInv

LEMMA ClaimKeeps ==
    ASSUME Inv, NEW w \in Workers, ClaimActingContextForOperation(w)
    PROVE  Inv'
<1>1. /\ RunsOK /\ RowsOK /\ UsedOK /\ run[w] \in Run /\ RunOK(run[w]) /\ SettledOK(run[w])
      /\ run[w].pc = "claim" /\ run[w].attempt \in Attempts /\ run[w].attempt <= Last
  BY RunFacts DEF ClaimActingContextForOperation
<1>2. UNCHANGED <<approval, job, call, effects, stalls>>
  BY DEF ClaimActingContextForOperation, counters
<1>3. PICK n \in Attempts : n = run[w].attempt
  BY <1>1
<1>4. CASE ~Claimable(n)
  <2>1. Returns(w, TRUE) /\ UNCHANGED <<durable, call, effects, stalls>>
    BY <1>2, <1>3, <1>4, Zenon DEF ClaimActingContextForOperation, durable
  <2>. QED  BY <1>1, <2>1, OverStep, Zenon
<1>5. CASE Claimable(n)
  <2>. DEFINE x == [status |-> "CLAIMED", live |-> TRUE]
              y == [status |-> "RUNNING", fresh |-> TRUE]
  <2>1. /\ context' = [context EXCEPT ![n] = x] /\ operation' = [operation EXCEPT ![n] = y]
        /\ Goes(w, "transition")
    BY <1>3, <1>5 DEF ClaimActingContextForOperation
  <2>2. x \in Context /\ x.status = "CLAIMED" /\ y \in Operation /\ y.status = "RUNNING"
    BY DEF Context, ContextStatus, Operation, OperationStatus
  <2>. HIDE DEF x, y
  <2>3. context[n].status = "ACTIVE" /\ operation[n].status = "NONE"
    BY <1>1, <1>5 DEF Claimable, RowsOK
  <2>4. approval' \in ApprovalStatus /\ effects' \in [Attempts -> Nat]
    BY <1>1, <1>2 DEF RowsOK
  <2>5. /\ RowsOK' /\ UsedOK' /\ Last' = Last
        /\ \A m \in Attempts : /\ context'[m] = IF m = n THEN x ELSE context[m]
                               /\ operation'[m] = IF m = n THEN y ELSE operation[m]
    BY <1>1, <2>1, <2>2, <2>3, <2>4, RowMoves, Zenon DEF Unclaimed
  <2>6. /\ RunsOK' /\ OnlyRun(w) /\ SameRun(w) /\ run'[w].pc = "transition"
        /\ run'[w].outcome = "NONE"
    BY <1>1, <2>1, GoesMoves
  <2>7. TypeInv'
    <3>1. Last <= Last'
      BY <1>1, <2>5, Bounds DEF UsedOK
    <3>. QED  BY <1>1, <1>2, <2>5, <2>6, <3>1, TypesAfterRun DEF Inv, SameRun
  <2>8. HoldInv'
    <3>1. effects[n] = 0
      BY <2>3 DEF Inv, HoldInv
    <3>2. ASSUME NEW v \in Workers, v # w, Holding(run[v])
          PROVE  run[v].attempt # n /\ run[v].attempt \in Attempts
      BY <1>1, <2>3, <3>2, RunRefs DEF Inv, HoldInv, HolderOK
    <3>3. ASSUME NEW v \in Workers PROVE HolderOK(run[v])'
      <4>1. CASE v = w
        BY <1>2, <1>3, <2>2, <2>5, <2>6, <3>1, <4>1 DEF HolderOK, SameRun
      <4>2. CASE v # w
        <5>1. run'[v] = run[v] /\ HolderOK(run[v])
          BY <2>6, <4>2 DEF OnlyRun, Inv, HoldInv
        <5>. QED  BY <1>2, <2>5, <3>2, <4>2, <5>1 DEF HolderOK
      <4>. QED  BY <4>1, <4>2
    <3>4. ASSUME NEW v \in Workers, NEW u \in Workers, v # u, Holding(run'[v]), Holding(run'[u])
          PROVE  run'[v].attempt # run'[u].attempt
      BY <1>3, <2>6, <3>2, <3>4 DEF OnlyRun, SameRun, Inv, HoldInv
    <3>5. Evidence => Evidence'
      BY <1>2, <2>3, <2>5 DEF Evidence
    <3>6. \A m \in Attempts :
             /\ effects'[m] <= 1
             /\ operation'[m].status = "NONE" => effects'[m] = 0
             /\ operation'[m].status = "COMPLETED" => effects'[m] = 1
      BY <1>2, <2>2, <2>5 DEF Inv, HoldInv
    <3>7. \A v \in Workers : Reports(run'[v]) => Evidence'
      BY <2>6, <3>5 DEF OnlyRun, Inv, HoldInv, Reports
    <3>. QED  BY <1>2, <3>3, <3>4, <3>5, <3>6, <3>7 DEF Inv, HoldInv
  <2>9. ReportInv'
    <3>1. SettledOK(run[w])'
      BY <1>1, <1>2, <2>6 DEF SettledOK, SameRun
    <3>2. LoneOK(run[w]) => LoneOK(run[w])'
      <4>1. ~Knows(run'[w])
        BY <2>6 DEF Knows
      <4>. QED  BY <1>1, <1>2, <1>3, <2>2, <2>5, <2>6, <4>1 DEF LoneOK, SameRun
    <3>3. stalls = 0 => \A m \in Attempts : operation'[m].status = "COMPLETED"
                            => context'[m].status = "CLAIMED" \/ approval' = "completed"
      BY <1>2, <2>2, <2>5 DEF Inv, ReportInv
    <3>. QED  BY <1>1, <1>2, <2>6, <3>1, <3>2, <3>3, ReportAfterLone DEF Inv
  <2>. QED  BY <2>7, <2>8, <2>9 DEF Inv
<1>. QED  BY <1>4, <1>5

LEMMA ExecuteKeeps ==
    ASSUME Inv, NEW w \in Workers, Execute(w)
    PROVE  Inv'
<1>1. /\ RunsOK /\ RowsOK /\ UsedOK /\ run[w] \in Run /\ RunOK(run[w]) /\ SettledOK(run[w])
      /\ run[w].pc = "execute" /\ run[w].attempt \in Attempts /\ run[w].attempt <= Last
  BY RunFacts DEF Execute
<1>2. UNCHANGED <<durable, call, stalls>>
  BY DEF Execute, counters
<1>3. /\ Holding(run[w]) /\ run[w].outcome = "NONE"
      /\ {"FAILED", "COMPLETED"} \subseteq OperationStatus
  BY <1>1 DEF Holding, RunOK, OperationStatus
<1>4. CASE Plan(w, "FAILED", FailureWrites, TRUE) /\ UNCHANGED effects
  BY <1>1, <1>2, <1>3, <1>4, PlanStep, Lists, Zenon
<1>5. CASE /\ effects' = [effects EXCEPT ![run[w].attempt] = @ + 1]
           /\ \/ Plan(w, "COMPLETED", SuccessWrites, FALSE)
              \/ Plan(w, "FAILED", FailureWrites, TRUE)
  <2>1. PICK n \in Attempts : n = run[w].attempt
    BY <1>1
  <2>2. /\ effects' \in [Attempts -> Nat]
        /\ \A m \in Attempts : effects'[m] = IF m = n THEN effects[n] + 1 ELSE effects[m]
    BY <1>1, <1>5, <2>1 DEF RowsOK
  <2>3. PICK o \in {"COMPLETED", "FAILED"}, s \in {SuccessWrites, FailureWrites} :
          /\ RunsOK' /\ OnlyRun(w) /\ SameRun(w)
          /\ run'[w].pc = "write" /\ run'[w].outcome = o /\ run'[w].writes = s
    <3>1. PICK o \in {"COMPLETED", "FAILED"}, s \in {SuccessWrites, FailureWrites}, e \in BOOLEAN :
            Plan(w, o, s, e) /\ (o = "COMPLETED" => s = SuccessWrites)
      BY <1>5, Zenon
    <3>2. /\ s \in WriteLists /\ s # <<>> /\ Head(s) = "operation" /\ o \in OperationStatus
          /\ o = "COMPLETED" => s \in SuccessLists
      BY <1>3, <3>1, Lists, Zenon DEF SuccessLists
    <3>3. run[w].pc # "idle" /\ run[w].pc # "write"
      BY <1>1
    <3>4. /\ RunsOK' /\ OnlyRun(w) /\ SameRun(w)
          /\ run'[w].pc = "write" /\ run'[w].outcome = o /\ run'[w].writes = s
      BY <1>1, <3>1, <3>2, <3>3, PlanMoves
    <3>. QED  BY <3>4
  <2>4. RowsOK' /\ UsedOK' /\ Last' = Last
    BY <1>1, <1>2, <2>2, RowsStay DEF RowsOK, durable
  <2>5. TypeInv'
    <3>1. Last <= Last'
      BY <1>1, <2>4, Bounds DEF UsedOK
    <3>. QED  BY <1>1, <1>2, <2>3, <2>4, <3>1, TypesAfterRun DEF Inv, SameRun, durable
  <2>6. Holding(run'[w]) /\ ~Knows(run'[w]) /\ ~Reports(run'[w])
    <3>1. s # <<>> /\ Head(s) = "operation"
      BY Lists, Zenon
    <3>. QED  BY <2>3, <3>1 DEF Holding, Knows, Reports, First
  <2>7. HoldInv'
    <3>1. operation[n].status \in {"RUNNING", "UNKNOWN"} /\ effects[n] = 0
      BY <1>3, <2>1 DEF Inv, HoldInv, HolderOK
    <3>2. ASSUME NEW v \in Workers, v # w, Holding(run[v])
          PROVE  run[v].attempt # n /\ run[v].attempt \in Attempts
      BY <1>1, <1>3, <2>1, <3>2, RunRefs DEF Inv, HoldInv
    <3>3. ASSUME NEW v \in Workers PROVE HolderOK(run[v])'
      <4>1. CASE v = w
        BY <1>2, <2>1, <2>2, <2>3, <3>1, <4>1 DEF HolderOK, SameRun, durable
      <4>2. CASE v # w
        <5>1. run'[v] = run[v] /\ HolderOK(run[v])
          BY <2>3, <4>2 DEF OnlyRun, Inv, HoldInv
        <5>. QED  BY <1>2, <2>2, <3>2, <4>2, <5>1 DEF HolderOK, durable
      <4>. QED  BY <4>1, <4>2
    <3>4. ASSUME NEW v \in Workers, NEW u \in Workers, v # u, Holding(run'[v]), Holding(run'[u])
          PROVE  run'[v].attempt # run'[u].attempt
      BY <2>1, <2>3, <3>2, <3>4 DEF OnlyRun, SameRun, Inv, HoldInv
    <3>5. Evidence => Evidence'
      BY <1>2, <2>2, <3>1 DEF Evidence, durable
    <3>6. \A m \in Attempts :
             /\ effects'[m] <= 1
             /\ operation'[m].status = "NONE" => effects'[m] = 0
             /\ operation'[m].status = "COMPLETED" => effects'[m] = 1
      BY <1>2, <2>2, <3>1 DEF Inv, HoldInv, durable
    <3>7. \A v \in Workers : Reports(run'[v]) => Evidence'
      BY <2>3, <2>6, <3>5 DEF OnlyRun, Inv, HoldInv
    <3>. QED  BY <1>2, <3>3, <3>4, <3>5, <3>6, <3>7 DEF Inv, HoldInv, durable
  <2>8. ReportInv'
    <3>1. SettledOK(run[w])'
      <4>1. s # <<"context">>
        BY DEF SuccessWrites, FailureWrites
      <4>. QED  BY <1>1, <1>2, <2>3, <4>1 DEF SettledOK, SameRun, durable
    <3>2. LoneOK(run[w]) => LoneOK(run[w])'
      BY <1>1, <1>2, <1>3, <2>3, <2>6 DEF LoneOK, SameRun, durable
    <3>3. stalls = 0 => \A m \in Attempts : operation'[m].status = "COMPLETED"
                            => context'[m].status = "CLAIMED" \/ approval' = "completed"
      BY <1>2 DEF Inv, ReportInv, durable
    <3>. QED  BY <1>1, <1>2, <2>3, <3>1, <3>2, <3>3, ReportAfterLone DEF Inv, durable
  <2>. QED  BY <2>5, <2>7, <2>8 DEF Inv
<1>. QED  BY <1>4, <1>5, Zenon DEF Execute

LEMMA MarkStaleKeeps ==
    ASSUME Inv, NEW w \in Workers, MarkStaleApprovalOperationUnknown(w)
    PROVE  Inv'
<1>1. /\ RunsOK /\ RowsOK /\ UsedOK /\ RunOK(run[w]) /\ SettledOK(run[w])
      /\ run[w].pc = "stale" /\ run[w].attempt <= Last
      /\ run[w].given \in Attempts /\ run[w].attempt = run[w].given
  BY RunFacts DEF MarkStaleApprovalOperationUnknown, RunOK
<1>2. UNCHANGED <<approval, context, job, call, effects, stalls>>
  BY DEF MarkStaleApprovalOperationUnknown, counters
<1>3. PICK n \in Attempts : n = run[w].given
  BY <1>1
<1>4. /\ RunsOK' /\ OnlyRun(w) /\ SameRun(w)
      /\ run'[w].pc = "reconcile" /\ run'[w].outcome = "UNKNOWN"
  BY <1>1, OutcomeMoves, Zenon DEF MarkStaleApprovalOperationUnknown, OperationStatus
<1>5. /\ RowsOK' /\ UsedOK' /\ Last' = Last
      /\ \A m \in Attempts : \/ operation'[m].status = operation[m].status
                             \/ operation[m].status = "RUNNING" /\ operation'[m].status = "UNKNOWN"
  <2>1. CASE operation' = operation
    BY <1>1, <1>2, <2>1, RowsStay DEF RowsOK
  <2>2. CASE operation' # operation
    <3>. DEFINE y == [status |-> "UNKNOWN", fresh |-> TRUE]
    <3>1. operation[n].status = "RUNNING" /\ operation' = [operation EXCEPT ![n] = y]
      BY <1>3, <2>2 DEF MarkStaleApprovalOperationUnknown
    <3>2. y \in Operation /\ y.status = "UNKNOWN"
      BY DEF Operation, OperationStatus
    <3>. HIDE DEF y
    <3>3. /\ RowsOK' /\ UsedOK' /\ Last' = Last
          /\ \A m \in Attempts : operation'[m] = IF m = n THEN y ELSE operation[m]
      BY <1>1, <1>2, <3>1, <3>2, OperationMoves, Zenon
    <3>. QED  BY <3>1, <3>2, <3>3
  <2>. QED  BY <2>1, <2>2
<1>6. TypeInv'
  <2>1. Last <= Last'
    BY <1>1, <1>5, Bounds DEF UsedOK
  <2>. QED  BY <1>1, <1>2, <1>4, <1>5, <2>1, TypesAfterRun DEF Inv, SameRun
<1>7. ~Holding(run'[w]) /\ ~Reports(run'[w])
  BY <1>4 DEF Holding, Reports, First
<1>8. HoldInv'
  <2>1. HoldQuiet(w)
    BY <1>2, <1>4, <1>5, <1>7 DEF HoldQuiet
  <2>. QED  BY <1>1, <2>1, HoldAfterQuiet DEF Inv
<1>9. ReportInv'
  <2>1. SettledOK(run[w])'
    BY <1>1, <1>2, <1>4 DEF SettledOK, SameRun
  <2>2. LoneOK(run[w]) => LoneOK(run[w])'
    <3>1. Knows(run[w]) /\ run[w].outcome = "NONE"
      BY <1>1 DEF Knows, RunOK
    <3>2. LoneOK(run[w]) => operation'[n].status # "COMPLETED"
      BY <1>3, <1>5, <3>1 DEF LoneOK
    <3>. QED  BY <1>1, <1>2, <1>3, <1>4, <1>7, <3>2 DEF LoneOK, SameRun
  <2>3. stalls = 0 => \A m \in Attempts : operation'[m].status = "COMPLETED"
                          => context'[m].status = "CLAIMED" \/ approval' = "completed"
    BY <1>2, <1>5 DEF Inv, ReportInv
  <2>. QED  BY <1>1, <1>2, <1>4, <2>1, <2>2, <2>3, ReportAfterLone DEF Inv
<1>. QED  BY <1>6, <1>8, <1>9 DEF Inv

LEMMA CompleteOperationKeeps ==
    ASSUME Inv, NEW w \in Workers, CompleteApprovalOperation(w)
    PROVE  Inv'
<1>1. /\ RunsOK /\ RowsOK /\ UsedOK /\ RunOK(run[w]) /\ SettledOK(run[w])
      /\ run[w].pc = "write" /\ run[w].writes # <<>> /\ Head(run[w].writes) = "operation"
      /\ run[w].attempt <= Last /\ run[w].attempt \in Attempts /\ run[w].given \in Attempts
  BY RunFacts DEF CompleteApprovalOperation, Writing
<1>2. UNCHANGED <<approval, context, job, call, effects, stalls>>
  BY DEF CompleteApprovalOperation, counters
<1>3. PICK n \in Attempts : n = run[w].attempt
  BY <1>1
<1>4. PICK o \in {"COMPLETED", "FAILED"} : o = run[w].outcome
  BY <1>1 DEF RunOK, First
<1>5. /\ RunsOK' /\ OnlyRun(w) /\ SameRun(w) /\ run'[w].pc = "write"
      /\ run'[w].outcome = run[w].outcome /\ run'[w].writes = Tail(run[w].writes)
      /\ Tail(run[w].writes) # <<>> => Head(Tail(run[w].writes)) # "operation"
  BY <1>1, WroteMoves DEF CompleteApprovalOperation
<1>6. Holding(run[w]) /\ ~Holding(run'[w])
  BY <1>1, <1>5 DEF Holding, First
<1>7. /\ RowsOK' /\ UsedOK' /\ Last' = Last
      /\ \A m \in Attempts : operation'[m].status =
            IF m = n /\ operation[n].status = "RUNNING" THEN o ELSE operation[m].status
  <2>1. CASE operation[n].status # "RUNNING"
    <3>1. operation' = operation
      BY <1>3, <2>1 DEF CompleteApprovalOperation, Completable
    <3>. QED  BY <1>1, <1>2, <2>1, <3>1, RowsStay DEF RowsOK
  <2>2. CASE operation[n].status = "RUNNING"
    <3>. DEFINE y == [status |-> o, fresh |-> TRUE]
    <3>1. operation' = [operation EXCEPT ![n] = y]
      BY <1>3, <1>4, <2>2 DEF CompleteApprovalOperation, Completable
    <3>2. y \in Operation /\ y.status = o /\ o # "NONE"
      BY DEF Operation, OperationStatus
    <3>. HIDE DEF y
    <3>3. /\ RowsOK' /\ UsedOK' /\ Last' = Last
          /\ \A m \in Attempts : operation'[m] = IF m = n THEN y ELSE operation[m]
      BY <1>1, <1>2, <2>2, <3>1, <3>2, OperationMoves, Zenon
    <3>. QED  BY <2>2, <3>2, <3>3
  <2>. QED  BY <2>1, <2>2
<1>8. TypeInv'
  <2>1. Last <= Last'
    BY <1>1, <1>7, Bounds DEF UsedOK
  <2>. QED  BY <1>1, <1>2, <1>5, <1>7, <2>1, TypesAfterRun DEF Inv, SameRun
<1>9. HoldInv'
  <2>1. /\ operation[n].status \in {"RUNNING", "UNKNOWN"}
        /\ o = "COMPLETED" => effects[n] = 1
    BY <1>3, <1>4, <1>6 DEF Inv, HoldInv, HolderOK
  <2>2. ASSUME NEW v \in Workers, Holding(run'[v])
        PROVE  /\ v # w /\ run'[v] = run[v] /\ HolderOK(run[v])
               /\ run[v].attempt # n /\ run[v].attempt \in Attempts
    <3>1. v # w /\ run'[v] = run[v]
      BY <1>5, <1>6, <2>2 DEF OnlyRun
    <3>. QED  BY <1>1, <1>3, <1>6, <2>2, <3>1, RunRefs DEF Inv, HoldInv
  <2>3. ASSUME NEW v \in Workers PROVE HolderOK(run[v])'
    BY <1>2, <1>7, <2>2 DEF HolderOK
  <2>4. ASSUME NEW v \in Workers, NEW u \in Workers, v # u, Holding(run'[v]), Holding(run'[u])
        PROVE  run'[v].attempt # run'[u].attempt
    BY <2>2, <2>4 DEF Inv, HoldInv
  <2>5. Evidence => Evidence'
    BY <1>2, <1>7 DEF Evidence
  <2>6. \A m \in Attempts :
           /\ effects'[m] <= 1
           /\ operation'[m].status = "NONE" => effects'[m] = 0
           /\ operation'[m].status = "COMPLETED" => effects'[m] = 1
    BY <1>2, <1>7, <2>1 DEF Inv, HoldInv
  <2>7. \A v \in Workers : Reports(run'[v]) => Evidence'
    <3>1. o = "COMPLETED" => Evidence'
      BY <1>2, <1>7, <2>1 DEF Evidence
    <3>2. Reports(run'[w]) => o = "COMPLETED"
      BY <1>4, <1>5 DEF Reports
    <3>. QED  BY <1>5, <2>5, <3>1, <3>2 DEF OnlyRun, Inv, HoldInv
  <2>. QED  BY <1>2, <2>3, <2>4, <2>5, <2>6, <2>7 DEF Inv, HoldInv
<1>10. ReportInv'
  <2>1. SettledOK(run[w])'
    <3>1. run[w].outcome = "COMPLETED" => Tail(run[w].writes) # <<"context">>
      <4>1. run[w].writes \in WriteLists /\ (run[w].outcome = "COMPLETED" => run[w].writes \in SuccessLists)
        BY <1>1 DEF RunOK
      <4>. QED  BY <1>1, <4>1, ListFacts
    <3>. QED  BY <1>1, <1>2, <1>5, <3>1 DEF SettledOK, SameRun
  <2>2. LoneOK(run[w]) => LoneOK(run[w])'
    <3>1. LoneOK(run[w]) => operation'[n].status = o
      BY <1>3, <1>6, <1>7, Zenon DEF LoneOK
    <3>2. Knows(run'[w]) => run[w].given = n
      BY <1>3, <1>5 DEF Knows, SameRun
    <3>. QED  BY <1>1, <1>2, <1>4, <1>5, <1>6, <3>1, <3>2, Zenon DEF LoneOK, SameRun
  <2>3. stalls = 0 => \A m \in Attempts : operation'[m].status = "COMPLETED"
                          => context'[m].status = "CLAIMED" \/ approval' = "completed"
    <3>1. stalls = 0 => context[n].status = "CLAIMED"
      BY <1>3, <1>6, RunFacts DEF LoneOK
    <3>. QED  BY <1>2, <1>7, <3>1 DEF Inv, ReportInv
  <2>. QED  BY <1>1, <1>2, <1>5, <2>1, <2>2, <2>3, ReportAfterLone, Zenon DEF Inv
<1>. QED  BY <1>8, <1>9, <1>10 DEF Inv

LEMMA CompleteContextKeeps ==
    ASSUME Inv, NEW w \in Workers, CompleteActingContext(w)
    PROVE  Inv'
<1>1. /\ RunsOK /\ RowsOK /\ UsedOK /\ RunOK(run[w]) /\ SettledOK(run[w])
      /\ run[w].pc = "write" /\ run[w].writes # <<>> /\ Head(run[w].writes) = "context"
      /\ run[w].attempt <= Last /\ run[w].attempt \in Attempts /\ run[w].given \in Attempts
      /\ run[w].given <= run[w].attempt /\ (run[w].outcome = "COMPLETED" => Evidence)
  BY RunFacts DEF CompleteActingContext, Writing, Reports, First
<1>2. UNCHANGED <<approval, operation, job, call, effects, stalls>>
  BY DEF CompleteActingContext, counters
<1>3. PICK n \in Attempts : n = run[w].given
  BY <1>1
<1>4. /\ RunsOK' /\ OnlyRun(w) /\ SameRun(w) /\ run'[w].pc = "write"
      /\ run'[w].outcome = run[w].outcome /\ run'[w].writes = Tail(run[w].writes)
      /\ Tail(run[w].writes) # <<>> => Head(Tail(run[w].writes)) # "operation"
  BY <1>1, WroteMoves DEF CompleteActingContext
<1>5. /\ ~Holding(run[w]) /\ ~Holding(run'[w]) /\ (Knows(run'[w]) => Knows(run[w]))
      /\ n = run[w].attempt => Knows(run[w])
  BY <1>1, <1>3, <1>4 DEF Holding, First, Knows, SameRun
<1>6. /\ RowsOK' /\ UsedOK' /\ Last' = Last
      /\ \A m \in Attempts : \/ context'[m] = context[m]
                             \/ m = n /\ context[n].status = "CLAIMED"
  <2>1. CASE context[n].status # "CLAIMED"
    <3>1. context' = context
      BY <1>3, <2>1 DEF CompleteActingContext
    <3>. QED  BY <1>1, <1>2, <3>1, RowsStay DEF RowsOK
  <2>2. CASE context[n].status = "CLAIMED"
    <3>1. PICK t \in {"CONSUMED", "FAILED"} : context' = [context EXCEPT ![n].status = t]
      BY <1>3, <2>2, Zenon DEF CompleteActingContext
    <3>. DEFINE x == [context[n] EXCEPT !.status = t]
    <3>2. context[n] \in Context
      BY <1>1, RowFacts
    <3>3. x \in Context /\ x.status = t
      BY <3>2 DEF Context, ContextStatus
    <3>4. context' = [context EXCEPT ![n] = x]
      BY <1>1, <3>1 DEF RowsOK
    <3>. HIDE DEF x
    <3>5. /\ x.status \notin Unclaimed /\ context[n].status \notin Unclaimed
          /\ x.status \notin {"NONE", "ACTIVE", "CLAIMED"} /\ context[n].status # "NONE"
      BY <2>2, <3>1, <3>3 DEF Unclaimed
    <3>6. /\ RowsOK' /\ UsedOK' /\ Last' = Last
          /\ \A m \in Attempts : context'[m] = IF m = n THEN x ELSE context[m]
      BY <1>1, <1>2, <3>3, <3>4, <3>5, ContextMoves, Zenon
    <3>. QED  BY <2>2, <3>6
  <2>. QED  BY <2>1, <2>2
<1>7. TypeInv'
  <2>1. Last <= Last'
    BY <1>1, <1>6, Bounds DEF UsedOK
  <2>. QED  BY <1>1, <1>2, <1>4, <1>6, <2>1, TypesAfterRun DEF Inv, SameRun
<1>8. HoldInv'
  <2>1. HoldQuiet(w)
    BY <1>1, <1>2, <1>4, <1>5 DEF HoldQuiet, Reports
  <2>. QED  BY <1>1, <2>1, HoldAfterQuiet DEF Inv
<1>9. ReportInv'
  <2>1. run[w].outcome = "COMPLETED" => run[w].writes = <<"context">> /\ approval = "completed"
    <3>1. /\ run[w].writes \in WriteLists
          /\ run[w].outcome = "COMPLETED" => run[w].writes \in SuccessLists
      BY <1>1 DEF RunOK
    <3>2. run[w].outcome = "COMPLETED" => run[w].writes = <<"context">>
      BY <1>1, <3>1, ListFacts
    <3>. QED  BY <1>1, <3>2 DEF SettledOK
  <2>2. SettledOK(run[w])'
    BY <1>1, <1>2, <1>4, <2>1 DEF SettledOK, SameRun
  <2>3. LoneOK(run[w]) => LoneOK(run[w])'
    BY <1>1, <1>2, <1>4, <1>5, Zenon DEF LoneOK, SameRun
  <2>4. stalls = 0 => \A m \in Attempts : operation'[m].status = "COMPLETED"
                          => context'[m].status = "CLAIMED" \/ approval' = "completed"
    <3>1. context[n].status = "CLAIMED" => n = run[w].attempt
      <4>1. Last \in Nat /\ run[w].attempt \in Nat /\ n \in Nat
        BY <1>1, Bounds DEF UsedOK, Attempts
      <4>. QED  BY <1>1, <1>3, <4>1 DEF UsedOK
    <3>2. stalls = 0 /\ context[n].status = "CLAIMED" /\ operation[n].status = "COMPLETED"
             => approval = "completed"
      BY <1>3, <1>5, <2>1, <3>1, RunFacts DEF LoneOK
    <3>. QED  BY <1>2, <1>6, <3>2 DEF Inv, ReportInv
  <2>. QED  BY <1>1, <1>2, <1>4, <2>2, <2>3, <2>4, ReportAfterLone DEF Inv
<1>. QED  BY <1>7, <1>8, <1>9 DEF Inv

-----------------------------------------------------------------------------
(***************************************************************************)
(* The steps that leave the runs alone: callers, the queue and the clock.  *)
(***************************************************************************)
LEMMA IdleRunsStay ==
    ASSUME Inv, TypeInv', UNCHANGED <<run, effects>>,
           \A n \in Attempts : operation'[n].status = operation[n].status,
           \A n \in Attempts : context'[n].status = "CLAIMED" <=> context[n].status = "CLAIMED",
           approval = "completed" => approval' = "completed",
           approval' = "completed" => approval = "completed",
           stalls' = 0 => stalls = 0,
           \/ job' = job
           \/ stalls' = 0 => \A v \in Workers : run[v].pc = "idle"
    PROVE  Inv'
<1>1. HoldInv'
  <2>1. Evidence' = Evidence
    BY DEF Evidence
  <2>3. \A v \in Workers : Reports(run[v])' = Reports(run[v])
    BY DEF Reports, First
  <2>2. ASSUME NEW v \in Workers PROVE HolderOK(run[v])'
    <3>1. HolderOK(run[v])
      BY DEF Inv, HoldInv
    <3>2. Holding(run[v]) => run[v].attempt \in Attempts
      BY RunRefs DEF Inv, TypeInv
    <3>. QED  BY <3>1, <3>2 DEF HolderOK
  <2>. QED  BY <2>1, <2>2, <2>3 DEF Inv, HoldInv
<1>2. ReportInv'
  <2>1. ASSUME NEW v \in Workers PROVE SettledOK(run[v])'
    BY DEF Inv, ReportInv, SettledOK
  <2>2. ASSUME stalls' = 0, NEW v \in Workers PROVE LoneOK(run[v])'
    <3>1. CASE run[v].pc = "idle"
      <4>1. ~Holding(run'[v]) /\ ~Knows(run'[v])
        BY <3>1 DEF Holding, Knows, First
      <4>. QED  BY <3>1, <4>1 DEF LoneOK
    <3>2. CASE run[v].pc # "idle"
      <4>1. LoneOK(run[v]) /\ job' = job
        BY <2>2, <3>2 DEF Inv, ReportInv
      <4>2. run[v].attempt \in Attempts /\ run[v].given \in Attempts
        BY <3>2, RunRefs DEF Inv, TypeInv
      <4>3. Holding(run[v])' = Holding(run[v]) /\ Knows(run[v])' = Knows(run[v])
        BY DEF Holding, Knows, First
      <4>. QED  BY <4>1, <4>2, <4>3 DEF LoneOK
    <3>. QED  BY <3>1, <3>2
  <2>. QED  BY <2>1, <2>2 DEF Inv, ReportInv
<1>. QED  BY <1>1, <1>2 DEF Inv

LEMMA CallStays ==
    ASSUME TypeInv, UNCHANGED <<context, operation, job, run, effects>>, CallsOK',
           approval' \in ApprovalStatus,
           \A c \in Callers : call'[c].pc = "insert" =>
               call[c].pc = "insert" /\ call'[c].attempt = call[c].attempt
    PROVE  TypeInv'
<1>1. RowsOK' /\ UsedOK' /\ Last' = Last
  BY RowsStay DEF TypeInv, RowsOK
<1>2. RunsOK' /\ JobOK'
  BY DEF TypeInv, RunsOK, RunOK, JobOK, First
<1>3. RefsOK'
  BY <1>1 DEF TypeInv, RefsOK
<1>. QED  BY <1>1, <1>2, <1>3 DEF TypeInv

LEMMA CallMoves ==
    ASSUME CallsOK, NEW c \in Callers, NEW x \in [pc : {"idle", "count", "prepare", "insert"},
                                                  attempt : 0..MaxAttempts],
           x.pc = "insert" => x.attempt \in Attempts, call' = [call EXCEPT ![c] = x]
    PROVE  CallsOK' /\ \A b \in Callers : call'[b] = IF b = c THEN x ELSE call[b]
BY DEF CallsOK

LEMMA BeginsKeeps ==
    ASSUME Inv, NEW c \in Callers, Begins(c),
           UNCHANGED <<context, operation, job, run, effects, stalls>>,
           approval' \in {approval, "approved"}, approval' # approval => approval # "completed"
    PROVE  Inv'
<1>. DEFINE x == [pc |-> "count", attempt |-> 0]
<1>1. x \in [pc : {"idle", "count", "prepare", "insert"}, attempt : 0..MaxAttempts] /\ x.pc = "count"
  BY Bounds
<1>2. call' = [call EXCEPT ![c] = x]
  BY DEF Begins
<1>. HIDE DEF x
<1>3. CallsOK' /\ \A b \in Callers : call'[b] = IF b = c THEN x ELSE call[b]
  BY <1>1, <1>2, CallMoves, Zenon DEF Inv, TypeInv
<1>4. approval' \in ApprovalStatus
  BY DEF Inv, TypeInv, RowsOK, ApprovalStatus
<1>5. TypeInv'
  BY <1>1, <1>3, <1>4, CallStays DEF Inv
<1>. QED  BY <1>5, IdleRunsStay

\* A call moves on, or gives up.
LEMMA CallGoes ==
    ASSUME Inv, NEW c \in Callers, NEW p \in {"idle", "prepare"},
           call' = [call EXCEPT ![c].pc = p], UNCHANGED <<durable, run, effects, stalls>>
    PROVE  Inv'
<1>. DEFINE x == [call[c] EXCEPT !.pc = p]
<1>1. call[c] \in [pc : {"idle", "count", "prepare", "insert"}, attempt : 0..MaxAttempts]
  BY DEF Inv, TypeInv, CallsOK
<1>2. /\ x \in [pc : {"idle", "count", "prepare", "insert"}, attempt : 0..MaxAttempts]
      /\ x.pc # "insert"
  BY <1>1
<1>3. CallsOK /\ call' = [call EXCEPT ![c] = x]
  BY DEF Inv, TypeInv, CallsOK
<1>. HIDE DEF x
<1>4. CallsOK' /\ \A b \in Callers : call'[b] = IF b = c THEN x ELSE call[b]
  BY ONLY <1>2, <1>3, c \in Callers, CallMoves, Zenon
<1>5. TypeInv'
  BY <1>2, <1>4, CallStays DEF Inv, TypeInv, RowsOK, durable
<1>. QED  BY <1>5, IdleRunsStay DEF durable

LEMMA CallPreparesKeeps ==
    ASSUME Inv, NEW c \in Callers, CallPrepares(c)
    PROVE  Inv'
<1>. DEFINE x == [pc |-> "insert", attempt |-> Prepared]
<1>1. RowsOK /\ UsedOK /\ CallsOK /\ RunsOK /\ JobOK /\ RefsOK
  BY DEF Inv, TypeInv
<1>2. UNCHANGED <<approval, operation, job, run, effects, stalls>>
  BY DEF CallPrepares, counters
<1>3. /\ context' \in [Attempts -> Context] /\ UsedOK'
      /\ Last <= Last' /\ Prepared \in Attempts /\ Prepared <= Last'
      /\ \A n \in Attempts :
            /\ context'[n].status \in Unclaimed <=> context[n].status \in Unclaimed
            /\ context'[n].status = "CLAIMED" <=> context[n].status = "CLAIMED"
  BY <1>1, PrepareFacts DEF CallPrepares
<1>4. /\ x \in [pc : {"idle", "count", "prepare", "insert"}, attempt : 0..MaxAttempts]
      /\ x.attempt = Prepared
  BY <1>3, Bounds DEF Attempts
<1>5. call' = [call EXCEPT ![c] = x]
  BY DEF CallPrepares
<1>. HIDE DEF x
<1>6. CallsOK' /\ \A b \in Callers : call'[b] = IF b = c THEN x ELSE call[b]
  BY <1>1, <1>3, <1>4, <1>5, CallMoves, Zenon
<1>7. RowsOK'
  BY <1>1, <1>2, <1>3 DEF RowsOK, Unclaimed
<1>8. RunsOK' /\ JobOK'
  BY <1>1, <1>2 DEF RunsOK, JobOK
<1>9. RefsOK'
  <2>1. Last \in Nat /\ Last' \in Nat /\ Last <= Last'
    BY <1>1, <1>3, Bounds DEF UsedOK
  <2>2. ASSUME NEW v \in Workers, run[v].pc # "idle" PROVE run[v].attempt <= Last'
    <3>1. run[v].attempt <= Last /\ run[v].attempt \in Nat
      BY <1>1, <2>2, Bounds DEF RefsOK, RunsOK, Run
    <3>. QED  BY ONLY <2>1, <3>1
  <2>3. ASSUME NEW b \in Callers, call'[b].pc = "insert" PROVE call'[b].attempt <= Last'
    <3>1. CASE b = c
      BY <1>3, <1>4, <1>6, <3>1
    <3>2. CASE b # c
      <4>1. call'[b] = call[b] /\ call[b].attempt <= Last /\ call[b].attempt \in Nat
        BY <1>1, <1>6, <2>3, <3>2, Bounds DEF RefsOK, CallsOK
      <4>. QED  BY ONLY <2>1, <4>1
    <3>. QED  BY <3>1, <3>2
  <2>4. job.status # "absent" => job.attempt <= Last'
    <3>1. job.attempt \in Nat /\ (job.status # "absent" => job.attempt <= Last)
      BY <1>1, Bounds DEF JobOK, Job, RefsOK
    <3>. QED  BY ONLY <2>1, <3>1
  <2>. QED  BY <1>2, <2>2, <2>3, <2>4 DEF RefsOK
<1>10. TypeInv'
  BY <1>3, <1>6, <1>7, <1>8, <1>9 DEF TypeInv
<1>. QED  BY <1>2, <1>3, <1>10, IdleRunsStay

\* The call gives up; an expired context may have been closed.
LEMMA CallRefusedKeeps ==
    ASSUME Inv, NEW c \in Callers, CallRefused(c)
    PROVE  Inv'
<1>1. UNCHANGED <<approval, operation, job, run, effects, stalls>>
  BY DEF CallRefused
<1>2. call' = [call EXCEPT ![c].pc = "idle"]
  BY DEF CallRefused
<1>3. CASE UNCHANGED context
  BY <1>1, <1>2, <1>3, CallGoes DEF durable
<1>4. CASE PrepareRefused
  <2>1. RowsOK /\ UsedOK /\ CallsOK /\ RunsOK /\ JobOK /\ RefsOK
    BY DEF Inv, TypeInv
  <2>2. /\ context' \in [Attempts -> Context] /\ UsedOK' /\ Last' = Last
        /\ \A n \in Attempts :
              /\ context'[n].status \in Unclaimed <=> context[n].status \in Unclaimed
              /\ context'[n].status = "CLAIMED" <=> context[n].status = "CLAIMED"
    BY <1>4, <2>1, RefusalFacts
  <2>. DEFINE x == [call[c] EXCEPT !.pc = "idle"]
  <2>3. call[c] \in [pc : {"idle", "count", "prepare", "insert"}, attempt : 0..MaxAttempts]
    BY <2>1 DEF CallsOK
  <2>4. /\ x \in [pc : {"idle", "count", "prepare", "insert"}, attempt : 0..MaxAttempts]
        /\ x.pc = "idle"
    BY <2>3
  <2>5. call' = [call EXCEPT ![c] = x]
    BY <1>2, <2>1 DEF CallsOK
  <2>. HIDE DEF x
  <2>6. CallsOK' /\ \A b \in Callers : call'[b] = IF b = c THEN x ELSE call[b]
    BY <2>1, <2>4, <2>5, CallMoves, Zenon
  <2>7. RowsOK'
    BY <1>1, <2>1, <2>2 DEF RowsOK, Unclaimed
  <2>8. RunsOK' /\ JobOK'
    BY <1>1, <2>1 DEF RunsOK, JobOK
  <2>9. RefsOK'
    BY <1>1, <2>1, <2>2, <2>4, <2>6 DEF RefsOK
  <2>10. TypeInv'
    BY <2>2, <2>6, <2>7, <2>8, <2>9 DEF TypeInv
  <2>. QED  BY <1>1, <2>2, <2>10, IdleRunsStay
<1>. QED  BY <1>3, <1>4, Zenon DEF CallRefused

\* The job is written while no run of it is active, unless a lease ran out.
LEMMA JobWritten ==
    ASSUME Inv, JobOK', UNCHANGED <<approval, context, operation, run, effects>>,
           CallsOK', \A c \in Callers : call'[c].pc = "insert" =>
                         call[c].pc = "insert" /\ call'[c].attempt = call[c].attempt,
           job'.status # "absent" => job'.attempt <= Last, stalls' = 0 => stalls = 0,
           stalls' = 0 => job' = job \/ \A v \in Workers : run[v].pc = "idle"
    PROVE  Inv'
<1>1. RowsOK' /\ UsedOK' /\ Last' = Last
  BY RowsStay DEF Inv, TypeInv, RowsOK
<1>2. RunsOK'
  BY DEF Inv, TypeInv, RunsOK
<1>3. RefsOK'
  BY <1>1 DEF Inv, TypeInv, RefsOK
<1>4. TypeInv'
  BY <1>1, <1>2, <1>3 DEF TypeInv
<1>. QED  BY <1>4, IdleRunsStay

LEMMA CallEnqueuesKeeps ==
    ASSUME Inv, NEW c \in Callers, CallEnqueues(c)
    PROVE  Inv'
<1>1. UNCHANGED <<approval, context, operation, run, effects, stalls>>
  BY DEF CallEnqueues, counters
<1>2. CallsOK /\ JobOK /\ RefsOK
  BY DEF Inv, TypeInv
<1>. DEFINE x == [call[c] EXCEPT !.pc = "idle"]
            y == [status |-> "queued", attempts |-> 0, attempt |-> call[c].attempt]
<1>3. call[c] \in [pc : {"idle", "count", "prepare", "insert"}, attempt : 0..MaxAttempts]
  BY <1>2 DEF CallsOK
<1>4. x \in [pc : {"idle", "count", "prepare", "insert"}, attempt : 0..MaxAttempts] /\ x.pc = "idle"
  BY <1>3
<1>5. call' = [call EXCEPT ![c] = x]
  BY <1>2 DEF CallEnqueues, CallsOK
<1>6. call[c].attempt \in Attempts /\ call[c].attempt <= Last
  BY <1>2 DEF CallEnqueues, CallsOK, RefsOK
<1>7. /\ y \in Job /\ y.status = "queued" /\ y.attempts = 0 /\ y.attempt = call[c].attempt
  BY <1>3, Bounds DEF Job, JobStatus
<1>8. (job' = y /\ job.status \in {"absent", "failed"}) \/ job' = job
  BY DEF CallEnqueues
<1>. HIDE DEF x, y
<1>9. CallsOK' /\ \A b \in Callers : call'[b] = IF b = c THEN x ELSE call[b]
  BY <1>2, <1>4, <1>5, CallMoves, Zenon
<1>10. \A b \in Callers : call'[b].pc = "insert" =>
                             call[b].pc = "insert" /\ call'[b].attempt = call[b].attempt
  BY <1>4, <1>9
<1>11. JobOK' /\ (job'.status # "absent" => job'.attempt <= Last)
  BY <1>2, <1>6, <1>7, <1>8, Bounds DEF JobOK, RefsOK
<1>12. stalls' = 0 => job' = job \/ \A v \in Workers : run[v].pc = "idle"
  BY <1>1, <1>8 DEF Inv, ReportInv, LoneOK
<1>. QED  BY <1>1, <1>9, <1>10, <1>11, <1>12, JobWritten

LEMMA RequeueKeeps ==
    ASSUME Inv, stalls \in Nat, RequeueStaleJob
    PROVE  Inv'
<1>1. UNCHANGED <<approval, context, operation, run, call, effects>>
  BY DEF RequeueStaleJob
<1>2. CallsOK /\ JobOK /\ RefsOK /\ job.status = "running"
  BY DEF Inv, TypeInv, RequeueStaleJob
<1>. DEFINE y == [job EXCEPT !.status = "queued"]
<1>3. y \in Job /\ y.status = "queued" /\ y.attempts = job.attempts /\ y.attempt = job.attempt
  BY <1>2 DEF JobOK, Job, JobStatus
<1>4. job' = y
  BY DEF RequeueStaleJob
<1>. HIDE DEF y
<1>5. JobOK' /\ CallsOK' /\ (job'.status # "absent" => job'.attempt <= Last)
  BY <1>1, <1>2, <1>3, <1>4 DEF JobOK, CallsOK, RefsOK
<1>6. /\ stalls' = 0 => stalls = 0
      /\ stalls' = 0 => \A v \in Workers : run[v].pc = "idle"
  BY DEF RequeueStaleJob, Abandoned
<1>. QED  BY <1>1, <1>5, <1>6, JobWritten

LEMMA ClockKeeps ==
    ASSUME Inv, NEW n \in Attempts, ContextRunsOut(n) \/ WindowPasses(n)
    PROVE  Inv'
<1>1. UNCHANGED <<approval, job, run, call, effects, stalls>> /\ RowsOK /\ UsedOK
  BY DEF ContextRunsOut, WindowPasses, counters, Inv, TypeInv
<1>2. /\ RowsOK' /\ UsedOK' /\ Last' = Last
      /\ \A m \in Attempts : /\ operation'[m].status = operation[m].status
                             /\ context'[m].status = context[m].status
  <2>1. CASE ContextRunsOut(n)
    <3>. DEFINE x == [context[n] EXCEPT !.live = FALSE]
    <3>1. context[n] \in Context /\ context[n].status \in {"ACTIVE", "CLAIMED"}
      BY <1>1, <2>1, RowFacts DEF ContextRunsOut
    <3>2. x \in Context /\ x.status = context[n].status
      BY <3>1, Zenon DEF Context
    <3>3. context' = [context EXCEPT ![n] = x] /\ operation' = operation
      BY <1>1, <2>1 DEF ContextRunsOut, RowsOK
    <3>. HIDE DEF x
    <3>4. context[n].status # "NONE"
      BY <3>1
    <3>5. /\ RowsOK' /\ UsedOK' /\ Last' = Last
          /\ \A m \in Attempts : context'[m] = IF m = n THEN x ELSE context[m]
      BY <1>1, <3>2, <3>3, <3>4, ContextMoves, Zenon
    <3>. QED  BY <3>2, <3>3, <3>5
  <2>2. CASE WindowPasses(n)
    <3>. DEFINE y == [operation[n] EXCEPT !.fresh = FALSE]
    <3>1. operation[n] \in Operation /\ operation[n].status = "RUNNING"
      BY <1>1, <2>2, RowFacts DEF WindowPasses
    <3>2. y \in Operation /\ y.status = operation[n].status
      BY <3>1, Zenon DEF Operation
    <3>3. operation' = [operation EXCEPT ![n] = y] /\ context' = context
      BY <1>1, <2>2 DEF WindowPasses, RowsOK
    <3>. HIDE DEF y
    <3>4. operation[n].status # "NONE" /\ y.status # "NONE"
      BY <3>1, <3>2
    <3>5. /\ RowsOK' /\ UsedOK' /\ Last' = Last
          /\ \A m \in Attempts : operation'[m] = IF m = n THEN y ELSE operation[m]
      BY <1>1, <3>2, <3>3, <3>4, OperationMoves, Zenon
    <3>. QED  BY <3>2, <3>3, <3>5
  <2>. QED  BY <2>1, <2>2
<1>3. TypeInv'
  <2>1. RunsOK' /\ JobOK' /\ CallsOK'
    BY <1>1 DEF Inv, TypeInv, RunsOK, JobOK, CallsOK
  <2>2. RefsOK'
    BY <1>1, <1>2 DEF Inv, TypeInv, RefsOK
  <2>. QED  BY <1>2, <2>1, <2>2 DEF TypeInv
<1>. QED  BY <1>1, <1>2, <1>3, IdleRunsStay

-----------------------------------------------------------------------------
LEMMA InitInv == Init => Inv /\ stalls \in Nat
<1>. SUFFICES ASSUME Init PROVE Inv /\ stalls \in Nat
  OBVIOUS
<1>1. /\ Idle \in Run /\ RunOK(Idle) /\ Idle.pc = "idle" /\ Idle.outcome = "NONE"
      /\ Idle.approval = "pending_approval" /\ \A w \in Workers : run[w] = Idle
  BY IdleOK DEF Init, Idle
<1>2. RunsOK
  BY <1>1 DEF Init, RunsOK
<1>3. \A n \in Attempts : /\ context[n].status = "NONE" /\ operation[n].status = "NONE"
                          /\ effects[n] = 0
  BY DEF Init
<1>4. RowsOK
  BY <1>3 DEF Init, RowsOK, ApprovalStatus, Context, ContextStatus, Operation, OperationStatus
<1>5. JobOK /\ job.status = "absent"
  BY Bounds DEF Init, JobOK, Job, JobStatus
<1>6. CallsOK /\ \A c \in Callers : call[c].pc = "idle"
  BY Bounds DEF Init, CallsOK
<1>7. Last = 0
  <2>1. Used = {}
    BY <1>3 DEF Used
  <2>. QED  BY <2>1, LatestIs DEF Last
<1>8. UsedOK
  BY <1>3, <1>7, Bounds DEF UsedOK, Attempts
<1>9. RefsOK
  BY <1>1, <1>5, <1>6 DEF RefsOK
<1>10. \A w \in Workers : ~Holding(run[w]) /\ ~Knows(run[w])
  BY <1>1, Zenon DEF Holding, Knows, First
<1>11. approval = "pending_approval" /\ stalls = 0
  BY DEF Init
<1>12. HoldInv
  <2>1. \A n \in Attempts : effects[n] <= 1 /\ operation[n].status # "COMPLETED"
    BY <1>3
  <2>2. \A w \in Workers : ~Reports(run[w])
    BY <1>1, Zenon DEF Reports
  <2>3. approval # "completed"
    BY <1>11
  <2>. QED  BY <1>3, <1>10, <2>1, <2>2, <2>3, Zenon DEF HoldInv, HolderOK
<1>13. ReportInv
  BY <1>1, <1>3, <1>10, <1>11 DEF ReportInv, SettledOK, LoneOK
<1>. QED  BY <1>2, <1>4, <1>5, <1>6, <1>8, <1>9, <1>11, <1>12, <1>13 DEF Inv, TypeInv

LEMMA WorkerKeeps ==
    ASSUME Inv, NEW w \in Workers, WorkerStep(w) \/ DatabaseFault(w) \/ WorkerCrashes(w)
    PROVE  Inv'
BY StartRunKeeps, ReadApprovalKeeps, ReadContextKeeps, RunPreparesKeeps, ClaimKeeps,
   TransitionKeeps, CheckKeeps, ExecuteKeeps, MarkStaleKeeps, ReconcileKeeps,
   CompleteOperationKeeps, CompleteContextKeeps, SettleApprovalKeeps, SettleJobKeeps, FaultKeeps
   DEF WorkerStep

LEMMA CallerKeeps ==
    ASSUME Inv, NEW c \in Callers,
           \/ DecideApproval(c) \/ RetryApprovalExecution(c) \/ RunApprovalMaintenance(c)
           \/ CallStep(c) \/ CallCrashes(c)
    PROVE  Inv'
<1>1. CASE DecideApproval(c)
  BY <1>1, BeginsKeeps DEF DecideApproval, counters
<1>2. CASE RetryApprovalExecution(c)
  BY <1>2, BeginsKeeps DEF RetryApprovalExecution
<1>3. CASE RunApprovalMaintenance(c)
  BY <1>3, BeginsKeeps DEF RunApprovalMaintenance, counters, durable
<1>4. CASE CountActive(c)
  <2>1. PICK p \in {"idle", "prepare"} : call' = [call EXCEPT ![c].pc = p]
    BY <1>4, Zenon DEF CountActive
  <2>. QED  BY <1>4, <2>1, CallGoes, Zenon DEF CountActive, counters
<1>5. CASE CallCrashes(c)
  <2>1. PICK p \in {"idle", "prepare"} : call' = [call EXCEPT ![c].pc = p]
    BY <1>5 DEF CallCrashes
  <2>. QED  BY <1>5, <2>1, CallGoes, Zenon DEF CallCrashes
<1>. QED  BY <1>1, <1>2, <1>3, <1>4, <1>5, CallRefusedKeeps, CallPreparesKeeps, CallEnqueuesKeeps DEF CallStep

LEMMA StallsCounted ==
    ASSUME stalls \in Nat, [Next]_vars
    PROVE  stalls' \in Nat
<1>1. ASSUME NEW w \in Workers, WorkerStep(w) \/ DatabaseFault(w) \/ WorkerCrashes(w)
      PROVE  stalls' = stalls
  BY <1>1, Zenon DEF WorkerStep, counters, StartRun, ReadApproval, ReadContext, RunPrepares,
     ClaimActingContextForOperation, TransitionApproval, Check, Execute,
     MarkStaleApprovalOperationUnknown, Reconcile, CompleteApprovalOperation,
     CompleteActingContext, SettleApprovalExecution, SettleJob, DatabaseFault, WorkerCrashes
<1>2. ASSUME NEW c \in Callers,
             \/ DecideApproval(c) \/ RetryApprovalExecution(c) \/ RunApprovalMaintenance(c)
             \/ CallStep(c) \/ CallCrashes(c)
      PROVE  stalls' = stalls
  BY <1>2 DEF CallStep, counters, DecideApproval, RetryApprovalExecution,
     RunApprovalMaintenance, CountActive, CallPrepares, CallRefused, CallEnqueues, CallCrashes
<1>3. CASE RequeueStaleJob
  BY <1>3 DEF RequeueStaleJob
<1>4. ASSUME NEW n \in Attempts, ContextRunsOut(n) \/ WindowPasses(n)
      PROVE  stalls' = stalls
  BY <1>4 DEF ContextRunsOut, WindowPasses, counters
<1>5. CASE UNCHANGED vars
  BY <1>5 DEF vars, counters
<1>. QED  BY <1>1, <1>2, <1>3, <1>4, <1>5 DEF Next

LEMMA NextInv ==
    ASSUME Inv, stalls \in Nat, [Next]_vars
    PROVE  Inv'
<1>1. CASE UNCHANGED vars
  <2>1. UNCHANGED <<approval, context, operation, job, run, call, effects, stalls>>
    BY <1>1 DEF vars, durable, counters
  <2>2. TypeInv'
    BY <2>1, CallStays DEF Inv, TypeInv, CallsOK, RowsOK
  <2>. QED  BY <2>1, <2>2, IdleRunsStay
<1>. QED  BY <1>1, WorkerKeeps, CallerKeeps, RequeueKeeps, ClockKeeps DEF Next

LEMMA InvHolds == Spec => []Inv
<1>. DEFINE Counted == Inv /\ stalls \in Nat
<1>1. Init => Counted
  BY InitInv
<1>2. Counted /\ [Next]_vars => Counted'
  BY NextInv, StallsCounted
<1>3. Counted => Inv
  OBVIOUS
<1>. QED  BY <1>1, <1>2, <1>3, PTL DEF Spec

(***************************************************************************)
(* The rows keep their types, attempts are used in order without gaps, and *)
(* an attempt has an operation just when it has been claimed.              *)
(***************************************************************************)
THEOREM ExecutionTypesHold == Spec => []ExecutionTypeOK
<1>1. Inv => ExecutionTypeOK
  <2>. SUFFICES ASSUME Inv PROVE ExecutionTypeOK
    OBVIOUS
  <2>1. Used = 1..Last
    BY Bounds DEF Inv, TypeInv, UsedOK, Used, Attempts
  <2>. QED  BY <2>1 DEF Inv, TypeInv, RunsOK, RowsOK, JobOK, CallsOK, ExecutionTypeOK
<1>. QED  BY <1>1, InvHolds, PTL

(***************************************************************************)
(* An attempt takes effect at most once, however workers, retries, crashes *)
(* and expired leases interleave (ClaimActingContextForOperation).         *)
(***************************************************************************)
THEOREM EffectsHappenOnce == Spec => []EffectOncePerAttempt
<1>1. Inv => EffectOncePerAttempt
  BY DEF Inv, HoldInv, EffectOncePerAttempt
<1>. QED  BY <1>1, InvHolds, PTL

(***************************************************************************)
(* Operations and the approval say what happened: a completed operation    *)
(* took effect, and a completed approval has an attempt that took effect   *)
(* and whose operation is recorded as completed or was marked unknown.     *)
(***************************************************************************)
THEOREM OutcomesStayTrue == Spec => []OutcomesAreTrue
<1>1. Inv => OutcomesAreTrue
  BY DEF Inv, HoldInv, OutcomesAreTrue, Evidence
<1>. QED  BY <1>1, InvHolds, PTL

(***************************************************************************)
(* No step rewrites an operation that has an outcome.                      *)
(***************************************************************************)
THEOREM OutcomesAreFinal == Spec => SettledOperationsStay
<1>. DEFINE Stay == \A n \in Attempts : operation[n].status \in {"COMPLETED", "FAILED", "UNKNOWN"} =>
                                          operation'[n].status = operation[n].status
<1>1. Inv /\ [Next]_vars => [Stay]_vars
  <2>. SUFFICES ASSUME Inv, Next PROVE Stay
    OBVIOUS
  <2>1. operation \in [Attempts -> Operation]
    BY DEF Inv, TypeInv, RowsOK
  <2>2. ASSUME NEW w \in Workers, ClaimActingContextForOperation(w) PROVE Stay
    <3>1. run[w].attempt \in Attempts /\ RowsOK
      BY <2>2, RunFacts, Zenon DEF ClaimActingContextForOperation
    <3>2. Claimable(run[w].attempt) => operation[run[w].attempt].status = "NONE"
      BY <3>1 DEF Claimable, RowsOK
    <3>. QED  BY <2>1, <2>2, <3>1, <3>2, Zenon DEF ClaimActingContextForOperation
  <2>3. ASSUME NEW w \in Workers, MarkStaleApprovalOperationUnknown(w) PROVE Stay
    BY <2>1, <2>3 DEF MarkStaleApprovalOperationUnknown
  <2>4. ASSUME NEW w \in Workers, CompleteApprovalOperation(w) PROVE Stay
    BY <2>1, <2>4 DEF CompleteApprovalOperation, Completable
  <2>5. ASSUME NEW n \in Attempts, WindowPasses(n) PROVE Stay
    BY <2>1, <2>5 DEF WindowPasses
  <2>6. ASSUME NEW w \in Workers,
               \/ StartRun(w) \/ ReadApproval(w) \/ ReadContext(w) \/ RunPrepares(w)
               \/ TransitionApproval(w) \/ Check(w) \/ Execute(w) \/ Reconcile(w)
               \/ CompleteActingContext(w) \/ SettleApprovalExecution(w) \/ SettleJob(w)
               \/ DatabaseFault(w) \/ WorkerCrashes(w)
        PROVE  operation' = operation
    BY <2>6, Zenon DEF durable, StartRun, ReadApproval, ReadContext, RunPrepares, TransitionApproval,
       Check, Execute, Reconcile, CompleteActingContext, SettleApprovalExecution, SettleJob,
       DatabaseFault, WorkerCrashes
  <2>7. ASSUME NEW c \in Callers,
               \/ DecideApproval(c) \/ RetryApprovalExecution(c) \/ RunApprovalMaintenance(c)
               \/ CallStep(c) \/ CallCrashes(c)
        PROVE  operation' = operation
    BY <2>7 DEF durable, CallStep, DecideApproval, RetryApprovalExecution,
       RunApprovalMaintenance, CountActive, CallPrepares, CallRefused, CallEnqueues, CallCrashes
  <2>8. ASSUME RequeueStaleJob \/ \E n \in Attempts : ContextRunsOut(n)
        PROVE  operation' = operation
    BY <2>8 DEF RequeueStaleJob, ContextRunsOut
  <2>. QED  BY <2>2, <2>3, <2>4, <2>5, <2>6, <2>7, <2>8, Zenon DEF Next, WorkerStep
<1>. QED  BY <1>1, InvHolds, PTL DEF Spec, SettledOperationsStay

(***************************************************************************)
(* As long as no lease ran out under a live worker, a run of the latest    *)
(* attempt settles the approval as completed exactly when an operation is  *)
(* recorded as completed (SettleApprovalExecution).                        *)
(***************************************************************************)
THEOREM LatestAlwaysReported == Spec => LatestIsReported
<1>. DEFINE Settles == approval' # approval /\ approval' \in {"completed", "execution_failed"}
                          /\ stalls = 0 /\ job.attempt = Last
                       => (approval' = "completed" <=> Recorded)
<1>1. Inv /\ [Next]_vars => [Settles]_vars
  <2>. SUFFICES ASSUME Inv, Next, approval' # approval,
                       approval' \in {"completed", "execution_failed"},
                       stalls = 0, job.attempt = Last
                PROVE  approval' = "completed" <=> Recorded
    OBVIOUS
  <2>1. ASSUME NEW w \in Workers,
               \/ StartRun(w) \/ ReadApproval(w) \/ ReadContext(w) \/ RunPrepares(w)
               \/ ClaimActingContextForOperation(w) \/ TransitionApproval(w) \/ Check(w)
               \/ Execute(w) \/ MarkStaleApprovalOperationUnknown(w) \/ Reconcile(w)
               \/ CompleteApprovalOperation(w) \/ CompleteActingContext(w) \/ SettleJob(w)
               \/ DatabaseFault(w) \/ WorkerCrashes(w)
        PROVE  FALSE
    BY <2>1, Zenon DEF durable, StartRun, ReadApproval, ReadContext, RunPrepares,
       ClaimActingContextForOperation, TransitionApproval, Check, Execute,
       MarkStaleApprovalOperationUnknown, Reconcile, CompleteApprovalOperation,
       CompleteActingContext, SettleJob, DatabaseFault, WorkerCrashes
  <2>2. ASSUME NEW c \in Callers,
               \/ DecideApproval(c) \/ RetryApprovalExecution(c) \/ RunApprovalMaintenance(c)
               \/ CallStep(c) \/ CallCrashes(c)
        PROVE  FALSE
    BY <2>2 DEF durable, CallStep, DecideApproval, RetryApprovalExecution,
       RunApprovalMaintenance, CountActive, CallPrepares, CallRefused, CallEnqueues, CallCrashes
  <2>3. ASSUME RequeueStaleJob \/ \E n \in Attempts : ContextRunsOut(n) \/ WindowPasses(n)
        PROVE  FALSE
    BY <2>3 DEF RequeueStaleJob, ContextRunsOut, WindowPasses
  <2>4. ASSUME NEW w \in Workers, SettleApprovalExecution(w)
        PROVE  approval' = "completed" <=> Recorded
    <3>1. /\ run[w].pc = "write" /\ run[w].writes # <<>> /\ Head(run[w].writes) = "approval"
          /\ approval = "executing" /\ approval' = Implied(run[w].outcome)
      BY <2>4, Zenon DEF SettleApprovalExecution, Writing
    <3>2. /\ LoneOK(run[w]) /\ run[w].given \in Attempts /\ run[w].attempt \in Attempts
          /\ run[w].given <= run[w].attempt /\ run[w].attempt <= Last /\ UsedOK
      BY <3>1, RunFacts
    <3>3. run[w].given = Last
      BY <3>1, <3>2 DEF LoneOK
    <3>4. run[w].attempt = run[w].given
      BY <3>2, <3>3, Bounds DEF Attempts, UsedOK
    <3>5. run[w].outcome = "COMPLETED" <=> operation[Last].status = "COMPLETED"
      BY <3>1, <3>2, <3>3, <3>4 DEF LoneOK, Knows
    <3>6. ASSUME NEW n \in Attempts, operation[n].status = "COMPLETED" PROVE n = Last
      <4>1. context[n].status = "CLAIMED"
        BY <3>1, <3>6 DEF Inv, ReportInv
      <4>. QED  BY <3>2, <4>1, Bounds DEF UsedOK, Attempts
    <3>. QED  BY <3>1, <3>2, <3>3, <3>5, <3>6 DEF Implied, Recorded
  <2>. QED  BY <2>1, <2>2, <2>3, <2>4 DEF Next, WorkerStep
<1>. QED  BY <1>1, InvHolds, PTL DEF Spec, LatestIsReported
=============================================================================
