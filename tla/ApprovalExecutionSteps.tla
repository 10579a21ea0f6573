----------------------- MODULE ApprovalExecutionSteps -----------------------
(***************************************************************************)
(* The inductive invariant of ApprovalExecution, for any workers, callers, *)
(* retry limit and bounds, and that the steps of a run which write neither *)
(* a context nor an operation preserve it.                                 *)
(***************************************************************************)
EXTENDS ApprovalExecution, TLAPS

(***************************************************************************)
(* What a run knows on its own.  The operation is written first, if at     *)
(* all, and after a success the context is written last.  A run executes   *)
(* the attempt of its payload or a later one that it has prepared.         *)
(***************************************************************************)
SuccessLists == {<<>>, <<"context">>, <<"approval", "context">>, SuccessWrites}
WriteLists == SuccessLists \cup {<<"approval">>, <<"context", "approval">>,
                                 <<"operation", "context">>, FailureWrites}

First(x, what) == x.pc = "write" /\ x.writes # <<>> /\ Head(x.writes) = what

\* Between claiming an attempt and writing its operation.
Holding(x) == x.pc \in {"transition", "check", "execute"} \/ First(x, "operation")

RunOK(x) ==
    /\ x.writes \in WriteLists
    /\ x.tries < MaxRetry
    /\ x.pc # "idle" => x.given \in Attempts /\ x.attempt \in Attempts /\ x.given <= x.attempt
    /\ x.pc \in {"approval", "context", "prepare", "stale", "reconcile"} => x.attempt = x.given
    /\ x.pc \notin {"reconcile", "write"} => x.outcome = "NONE"
    /\ x.pc = "write" /\ x.outcome = "COMPLETED" => x.writes \in SuccessLists
    /\ First(x, "operation") => x.outcome \in {"COMPLETED", "FAILED"}
    /\ x.lax => x.pc = "write" /\ x.outcome = "FAILED"

RunsOK == run \in [Workers -> Run] /\ \A w \in Workers : RunOK(run[w])

RowsOK ==
    /\ approval \in ApprovalStatus
    /\ context \in [Attempts -> Context]
    /\ operation \in [Attempts -> Operation]
    /\ effects \in [Attempts -> Nat]
    /\ \A n \in Attempts : operation[n].status = "NONE" <=>
                           context[n].status \in {"NONE", "ACTIVE", "EXPIRED"}

JobOK ==
    /\ job \in Job
    /\ job.status # "absent" => job.attempt \in Attempts
    /\ job.status \in {"queued", "running"} => job.attempts < MaxRetry

CallsOK ==
    /\ call \in [Callers -> [pc : {"idle", "count", "prepare", "insert"}, attempt : 0..MaxAttempts]]
    /\ \A c \in Callers : call[c].pc = "insert" => call[c].attempt \in Attempts

\* Attempts are used in order, and only the latest can be claimed or is claimed.
UsedOK ==
    /\ Last \in 0..MaxAttempts
    /\ \A n \in Attempts : /\ context[n].status # "NONE" <=> n <= Last
                           /\ n < Last => context[n].status \notin {"ACTIVE", "CLAIMED"}

\* Nobody refers to an attempt that has no context.
RefsOK ==
    /\ \A w \in Workers : run[w].pc # "idle" => run[w].attempt <= Last
    /\ \A c \in Callers : call[c].pc = "insert" => call[c].attempt <= Last
    /\ job.status # "absent" => job.attempt <= Last

TypeInv == RunsOK /\ RowsOK /\ JobOK /\ CallsOK /\ UsedOK /\ RefsOK

(***************************************************************************)
(* An attempt is held by one run, which alone can give it effect and       *)
(* record that it did; a run reports a success once it is recorded, or     *)
(* could not be because the operation was marked unknown.                  *)
(***************************************************************************)
HolderOK(x) ==
    Holding(x) => /\ operation[x.attempt].status \in {"RUNNING", "UNKNOWN"}
                  /\ x.outcome = "NONE" => effects[x.attempt] = 0
                  /\ x.outcome = "COMPLETED" => effects[x.attempt] = 1

Reports(x) ==
    x.outcome = "COMPLETED" /\ (x.pc = "reconcile" \/ First(x, "approval") \/ First(x, "context"))

Evidence ==
    \E n \in Attempts : effects[n] = 1 /\ operation[n].status \in {"COMPLETED", "UNKNOWN"}

HoldInv ==
    /\ \A w \in Workers : HolderOK(run[w])
    /\ \A v, w \in Workers : v # w /\ Holding(run[v]) /\ Holding(run[w])
                                => run[v].attempt # run[w].attempt
    /\ \A n \in Attempts : /\ effects[n] <= 1
                           /\ operation[n].status = "NONE" => effects[n] = 0
                           /\ operation[n].status = "COMPLETED" => effects[n] = 1
    /\ \A w \in Workers : Reports(run[w]) => Evidence
    /\ approval = "completed" => Evidence

(***************************************************************************)
(* As long as no lease ran out under a live worker there is one run, and   *)
(* what it has read or written of its own attempt is still so.             *)
(***************************************************************************)
Knows(x) ==
    \/ x.pc \in {"stale", "reconcile"}
    \/ /\ x.pc = "write" /\ x.writes # <<>> /\ Head(x.writes) # "operation"
       /\ x.attempt = x.given

LoneOK(x) ==
    /\ x.pc # "idle" => job.status = "running" /\ x.given = job.attempt
    /\ Holding(x) => /\ context[x.attempt].status = "CLAIMED"
                     /\ operation[x.attempt].status = "RUNNING"
    /\ Knows(x) => (x.outcome = "COMPLETED" <=> operation[x.given].status = "COMPLETED")

SettledOK(x) ==
    /\ x.approval = "completed" => approval = "completed"
    /\ x.pc = "write" /\ x.writes = <<"context">> /\ x.outcome = "COMPLETED"
          => approval = "completed"

ReportInv ==
    /\ \A w \in Workers : SettledOK(run[w])
    /\ stalls = 0 =>
          /\ \A w \in Workers : LoneOK(run[w])
          /\ \A v, w \in Workers : run[v].pc # "idle" /\ run[w].pc # "idle" => v = w
          /\ \A n \in Attempts : operation[n].status = "COMPLETED"
                => context[n].status = "CLAIMED" \/ approval = "completed"

-----------------------------------------------------------------------------
LEMMA Bounds ==
    /\ MaxRetry \in Nat /\ MaxRetry > 0 /\ MaxAttempts \in Nat /\ MaxAttempts > 0
    /\ MaxStalls \in Nat
<1>1. MaxRetry \in Nat \ {0} /\ MaxAttempts \in Nat \ {0} /\ MaxStalls \in Nat
  BY ExecutionAssumption, Zenon
<1>. QED  BY <1>1

LEMMA LatestIs ==
    ASSUME NEW S, NEW n \in Nat, n \in S \union {0}, \A m \in S : m \in Nat /\ m <= n
    PROVE  Latest(S) = n
<1>1. \E k : k \in S \union {0} /\ \A m \in S : m <= k
  OBVIOUS
<1>2. PICK k : k = Latest(S)
  OBVIOUS
<1>3. k \in S \union {0} /\ \A m \in S : m <= k
  BY <1>1, <1>2, Zenon DEF Latest
<1>4. k \in Nat
  BY <1>3
<1>. QED  BY <1>2, <1>3, <1>4

LEMMA ListFacts ==
    ASSUME NEW s \in WriteLists
    PROVE  /\ s \in Seq({"operation", "approval", "context"})
           /\ s # <<>> => /\ Tail(s) \in WriteLists
                          /\ Head(s) \in {"operation", "approval", "context"}
                          /\ Tail(s) # <<>> => Head(Tail(s)) # "operation"
           /\ s \in SuccessLists /\ s # <<>> =>
                 /\ Tail(s) \in SuccessLists
                 /\ Head(s) = "context" => s = <<"context">>
                 /\ Tail(s) = <<"context">> => Head(s) = "approval"
<1>1. CASE s = <<>>
  BY <1>1
<1>2. CASE s = <<"context">>
  BY <1>2 DEF WriteLists, SuccessLists
<1>3. CASE s = <<"approval">>
  BY <1>3 DEF WriteLists, SuccessLists, SuccessWrites
<1>4. CASE s = <<"approval", "context">>
  BY <1>4 DEF WriteLists, SuccessLists
<1>5. CASE s = <<"context", "approval">>
  BY <1>5 DEF WriteLists, SuccessLists, SuccessWrites
<1>6. CASE s = <<"operation", "context">>
  BY <1>6 DEF WriteLists, SuccessLists, SuccessWrites
<1>7. CASE s = SuccessWrites
  BY <1>7 DEF WriteLists, SuccessLists, SuccessWrites
<1>8. CASE s = FailureWrites
  BY <1>8 DEF WriteLists, SuccessLists, SuccessWrites, FailureWrites
<1>. QED  BY <1>1, <1>2, <1>3, <1>4, <1>5, <1>6, <1>7, <1>8, Zenon DEF WriteLists, SuccessLists

-----------------------------------------------------------------------------
(***************************************************************************)
(* The ways in which a run goes on.                                        *)
(***************************************************************************)
OnlyRun(w) == \A v \in Workers : v # w => run'[v] = run[v]

\* What a run has read when it started stays with it.
SameRun(w) ==
    /\ run'[w].approval = run[w].approval /\ run'[w].given = run[w].given
    /\ run'[w].attempt = run[w].attempt

LEMMA RunMoves ==
    ASSUME RunsOK, NEW w \in Workers, NEW x \in Run, RunOK(x), run' = [run EXCEPT ![w] = x]
    PROVE  RunsOK' /\ OnlyRun(w) /\ run'[w] = x
BY DEF RunsOK, OnlyRun

LEMMA GoesMoves ==
    ASSUME RunsOK, NEW w \in Workers, run[w].pc \notin {"idle", "reconcile", "write"},
           NEW p \in {"claim", "prepare", "transition", "check", "execute", "stale"},
           p \in {"prepare", "stale"} => run[w].attempt = run[w].given, Goes(w, p)
    PROVE  RunsOK' /\ OnlyRun(w) /\ SameRun(w) /\ run'[w].pc = p /\ run'[w].outcome = "NONE"
<1>. DEFINE x == [run[w] EXCEPT !.pc = p]
<1>1. run[w] \in Run /\ RunOK(run[w])
  BY DEF RunsOK
<1>2. /\ x \in Run /\ x.pc = p /\ x.writes = run[w].writes /\ x.tries = run[w].tries
      /\ x.given = run[w].given /\ x.attempt = run[w].attempt
      /\ x.approval = run[w].approval /\ x.outcome = run[w].outcome /\ x.lax = run[w].lax
  BY <1>1 DEF Run
<1>3. run' = [run EXCEPT ![w] = x]
  BY DEF Goes
<1>. HIDE DEF x
<1>4. RunOK(x) /\ x.outcome = "NONE"
  BY <1>1, <1>2 DEF RunOK, First
<1>5. RunsOK' /\ OnlyRun(w) /\ run'[w] = x
  BY <1>2, <1>3, <1>4, RunMoves, Zenon
<1>. QED  BY <1>2, <1>4, <1>5 DEF SameRun

LEMMA PlanMoves ==
    ASSUME RunsOK, NEW w \in Workers, run[w].pc # "idle",
           NEW o \in OperationStatus, NEW s \in WriteLists, NEW e \in BOOLEAN,
           o = "COMPLETED" => s \in SuccessLists,
           s # <<>> /\ Head(s) = "operation" => o \in {"COMPLETED", "FAILED"},
           run[w].pc = "write" => o = run[w].outcome,
           Plan(w, o, s, e) \/ (o = "FAILED" /\ LaxPlan(w, s, e))
    PROVE  /\ RunsOK' /\ OnlyRun(w) /\ SameRun(w)
           /\ run'[w].pc = "write" /\ run'[w].outcome = o /\ run'[w].writes = s
<1>1. run[w] \in Run /\ RunOK(run[w])
  BY DEF RunsOK
<1>2. s \in Seq({"operation", "approval", "context"})
  BY ListFacts
<1>3. PICK l \in BOOLEAN :
        /\ l => o = "FAILED"
        /\ run' = [run EXCEPT ![w] = [run[w] EXCEPT !.pc = "write", !.outcome = o, !.writes = s,
                                                 !.lax = l, !.error = e]]
  <2>1. CASE Plan(w, o, s, e)
    <3>1. run[w].lax \in BOOLEAN /\ (run[w].lax => o = "FAILED")
      BY <1>1 DEF Run, RunOK
    <3>2. [run[w] EXCEPT !.pc = "write", !.outcome = o, !.writes = s, !.error = e]
             = [run[w] EXCEPT !.pc = "write", !.outcome = o, !.writes = s,
                              !.lax = run[w].lax, !.error = e]
      BY <1>1, Zenon DEF Run
    <3>3. run' = [run EXCEPT ![w] = [run[w] EXCEPT !.pc = "write", !.outcome = o,
                                                   !.writes = s, !.error = e]]
      BY <2>1, Zenon DEF Plan, RunsOK
    <3>. QED  BY <3>1, <3>2, <3>3, Zenon
  <2>2. CASE o = "FAILED" /\ LaxPlan(w, s, e)
    BY <2>2, Zenon DEF LaxPlan, RunsOK
  <2>. QED  BY <2>1, <2>2, Zenon
<1>. DEFINE x == [run[w] EXCEPT !.pc = "write", !.outcome = o, !.writes = s,
                                !.lax = l, !.error = e]
<1>4. /\ x \in Run /\ x.pc = "write" /\ x.writes = s /\ x.tries = run[w].tries
      /\ x.given = run[w].given /\ x.attempt = run[w].attempt
      /\ x.approval = run[w].approval /\ x.outcome = o /\ x.lax = l
  BY <1>1, <1>2, Zenon DEF Run
<1>5. run' = [run EXCEPT ![w] = x]
  BY <1>3
<1>. HIDE DEF x
<1>6. RunOK(x)
  BY <1>1, <1>3, <1>4 DEF RunOK, First
<1>7. RunsOK' /\ OnlyRun(w) /\ run'[w] = x
  BY <1>4, <1>5, <1>6, RunMoves, Zenon
<1>. QED  BY <1>4, <1>7 DEF SameRun

LEMMA ReturnsMoves ==
    ASSUME RunsOK, NEW w \in Workers, run[w].pc # "idle", NEW e \in BOOLEAN, Returns(w, e)
    PROVE  /\ RunsOK' /\ OnlyRun(w) /\ SameRun(w) /\ run'[w].pc = "write"
           /\ run'[w].outcome = run[w].outcome /\ run'[w].writes = <<>>
<1>1. run[w].outcome \in OperationStatus
  BY DEF RunsOK, Run
<1>2. <<>> \in WriteLists /\ <<>> \in SuccessLists
  BY DEF WriteLists, SuccessLists
<1>. QED  BY <1>1, <1>2, PlanMoves DEF Returns

LEMMA OutcomeMoves ==
    ASSUME RunsOK, NEW w \in Workers, run[w].pc \in {"context", "stale"},
           NEW o \in OperationStatus,
           run' = [run EXCEPT ![w].pc = "reconcile", ![w].outcome = o]
    PROVE  /\ RunsOK' /\ OnlyRun(w) /\ SameRun(w)
           /\ run'[w].pc = "reconcile" /\ run'[w].outcome = o
<1>. DEFINE x == [run[w] EXCEPT !.pc = "reconcile", !.outcome = o]
<1>1. run[w] \in Run /\ RunOK(run[w])
  BY DEF RunsOK
<1>2. /\ x \in Run /\ x.pc = "reconcile" /\ x.writes = run[w].writes /\ x.tries = run[w].tries
      /\ x.given = run[w].given /\ x.attempt = run[w].attempt
      /\ x.approval = run[w].approval /\ x.outcome = o /\ x.lax = run[w].lax
  BY <1>1, Zenon DEF Run
<1>3. run' = [run EXCEPT ![w] = x]
  BY Zenon DEF RunsOK
<1>. HIDE DEF x
<1>4. RunOK(x)
  BY <1>1, <1>2 DEF RunOK, First
<1>5. RunsOK' /\ OnlyRun(w) /\ run'[w] = x
  BY <1>2, <1>3, <1>4, RunMoves, Zenon
<1>. QED  BY <1>2, <1>5 DEF SameRun

LEMMA WroteMoves ==
    ASSUME RunsOK, NEW w \in Workers, run[w].pc = "write", run[w].writes # <<>>, Wrote(w)
    PROVE  /\ RunsOK' /\ OnlyRun(w) /\ SameRun(w) /\ run'[w].pc = "write"
           /\ run'[w].outcome = run[w].outcome /\ run'[w].writes = Tail(run[w].writes)
           /\ Tail(run[w].writes) # <<>> => Head(Tail(run[w].writes)) # "operation"
<1>. DEFINE x == [run[w] EXCEPT !.writes = Tail(run[w].writes)]
<1>1. run[w] \in Run /\ RunOK(run[w])
  BY DEF RunsOK
<1>2. run[w].writes \in WriteLists
  BY <1>1 DEF RunOK
<1>3. /\ Tail(run[w].writes) \in WriteLists
      /\ Tail(run[w].writes) \in Seq({"operation", "approval", "context"})
      /\ Tail(run[w].writes) # <<>> => Head(Tail(run[w].writes)) # "operation"
      /\ run[w].writes \in SuccessLists => Tail(run[w].writes) \in SuccessLists
  BY <1>2, ListFacts
<1>4. /\ x \in Run /\ x.pc = "write" /\ x.writes = Tail(run[w].writes)
      /\ x.tries = run[w].tries /\ x.given = run[w].given /\ x.attempt = run[w].attempt
      /\ x.approval = run[w].approval /\ x.outcome = run[w].outcome /\ x.lax = run[w].lax
  BY <1>1, <1>3, Zenon DEF Run
<1>5. run' = [run EXCEPT ![w] = x]
  BY DEF Wrote, RunsOK
<1>. HIDE DEF x
<1>6. RunOK(x)
  BY <1>1, <1>3, <1>4 DEF RunOK, First
<1>7. RunsOK' /\ OnlyRun(w) /\ run'[w] = x
  BY <1>4, <1>5, <1>6, RunMoves, Zenon
<1>. QED  BY <1>3, <1>4, <1>7 DEF SameRun

LEMMA IdleOK ==
    /\ Idle \in Run /\ RunOK(Idle) /\ Idle.approval = "pending_approval"
    /\ Idle.outcome = "NONE" /\ Idle.writes = <<>> /\ Idle.lax = FALSE
BY Bounds DEF Idle, Run, RunOK, First, ApprovalStatus, OperationStatus, WriteLists, SuccessLists

LEMMA IdleMoves ==
    ASSUME RunsOK, NEW w \in Workers, run' = [run EXCEPT ![w] = Idle]
    PROVE  RunsOK' /\ OnlyRun(w) /\ run'[w] = Idle
BY IdleOK, RunMoves, Zenon

-----------------------------------------------------------------------------
(***************************************************************************)
(* Contexts and operations.                                                *)
(***************************************************************************)
Unclaimed == {"NONE", "ACTIVE", "EXPIRED"}

\* A context and its operation are written together, or one of them.
LEMMA RowMoves ==
    ASSUME RowsOK, UsedOK, NEW n \in Attempts, NEW x \in Context, NEW y \in Operation,
           context[n].status # "NONE", x.status # "NONE",
           y.status = "NONE" <=> x.status \in Unclaimed,
           x.status \in {"ACTIVE", "CLAIMED"} => context[n].status \in {"ACTIVE", "CLAIMED"},
           context' = [context EXCEPT ![n] = x], operation' = [operation EXCEPT ![n] = y],
           approval' \in ApprovalStatus, effects' \in [Attempts -> Nat]
    PROVE  /\ RowsOK' /\ UsedOK' /\ Last' = Last
           /\ \A m \in Attempts : /\ context'[m] = IF m = n THEN x ELSE context[m]
                                  /\ operation'[m] = IF m = n THEN y ELSE operation[m]
<1>1. \A m \in Attempts : /\ context'[m] = IF m = n THEN x ELSE context[m]
                          /\ operation'[m] = IF m = n THEN y ELSE operation[m]
  BY DEF RowsOK
<1>2. Used' = Used
  BY <1>1 DEF Used
<1>3. Last' = Last
  BY <1>2 DEF Last
<1>4. context' \in [Attempts -> Context] /\ operation' \in [Attempts -> Operation]
  BY DEF RowsOK
<1>5. RowsOK'
  BY <1>1, <1>4 DEF RowsOK, Unclaimed
<1>6. UsedOK'
  BY <1>1, <1>3 DEF UsedOK
<1>. QED  BY <1>1, <1>3, <1>5, <1>6

LEMMA OperationMoves ==
    ASSUME RowsOK, UsedOK, NEW n \in Attempts, NEW y \in Operation,
           operation[n].status # "NONE", y.status # "NONE",
           UNCHANGED <<approval, context, effects>>, operation' = [operation EXCEPT ![n] = y]
    PROVE  /\ RowsOK' /\ UsedOK' /\ Last' = Last
           /\ \A m \in Attempts : operation'[m] = IF m = n THEN y ELSE operation[m]
<1>1. \A m \in Attempts : operation'[m] = IF m = n THEN y ELSE operation[m]
  BY DEF RowsOK
<1>2. Last' = Last
  BY DEF Last, Used
<1>3. UsedOK'
  BY <1>2 DEF UsedOK
<1>. QED  BY <1>1, <1>2, <1>3 DEF RowsOK

LEMMA ContextMoves ==
    ASSUME RowsOK, UsedOK, NEW n \in Attempts, NEW x \in Context,
           context[n].status # "NONE", x.status # "NONE",
           x.status \in Unclaimed <=> context[n].status \in Unclaimed,
           x.status \in {"ACTIVE", "CLAIMED"} => context[n].status \in {"ACTIVE", "CLAIMED"},
           UNCHANGED <<approval, operation, effects>>, context' = [context EXCEPT ![n] = x]
    PROVE  /\ RowsOK' /\ UsedOK' /\ Last' = Last
           /\ \A m \in Attempts : context'[m] = IF m = n THEN x ELSE context[m]
<1>1. \A m \in Attempts : context'[m] = IF m = n THEN x ELSE context[m]
  BY DEF RowsOK
<1>2. Used' = Used
  BY <1>1 DEF Used
<1>3. Last' = Last
  BY <1>2 DEF Last
<1>4. UsedOK'
  BY <1>1, <1>3 DEF UsedOK
<1>. QED  BY <1>1, <1>3, <1>4 DEF RowsOK, Unclaimed

LEMMA RowsStay ==
    ASSUME RowsOK, UsedOK, UNCHANGED <<context, operation>>,
           approval' \in ApprovalStatus, effects' \in [Attempts -> Nat]
    PROVE  RowsOK' /\ UsedOK' /\ Last' = Last
<1>1. Last' = Last
  BY DEF Last, Used
<1>. QED  BY <1>1 DEF RowsOK, UsedOK

LEMMA PrepareFacts ==
    ASSUME RowsOK, UsedOK, Prepare
    PROVE  /\ context' \in [Attempts -> Context] /\ UsedOK'
           /\ Last <= Last' /\ Prepared \in Attempts /\ Prepared <= Last'
           /\ \A n \in Attempts :
                 /\ context'[n].status \in Unclaimed <=> context[n].status \in Unclaimed
                 /\ context'[n].status = "CLAIMED" <=> context[n].status = "CLAIMED"
                 /\ n <= Last /\ context[n].status # "ACTIVE" => n < Prepared
<1>1. Last \in Nat /\ Last <= MaxAttempts /\ MaxAttempts \in Nat
  BY Bounds DEF UsedOK
<1>2. CASE Reusable
  <2>1. Prepared = Last /\ Prepared \in Attempts
    BY <1>2 DEF Prepare, Prepared
  <2>2. context' = context
    <3>1. context' = [n \in Attempts |-> context[n]]
      BY <1>2 DEF Prepare
    <3>. QED  BY <3>1 DEF RowsOK
  <2>3. Last' = Last
    BY <2>2 DEF Last, Used
  <2>4. \A n \in Attempts : n <= Last /\ context[n].status # "ACTIVE" => n < Prepared
    BY <1>1, <1>2, <2>1 DEF Reusable, Attempts
  <2>. QED  BY <1>1, <2>1, <2>2, <2>3, <2>4 DEF RowsOK, UsedOK
<1>3. CASE ~Reusable
  <2>. DEFINE new == [status |-> "ACTIVE", live |-> TRUE]
              old == [context[Last] EXCEPT !.status = "EXPIRED"]
              expires == Last > 0 /\ context[Last].status = "ACTIVE"
  <2>1. Prepared = Last + 1 /\ Prepared \in Attempts
    BY <1>3 DEF Prepare, Prepared
  <2>2. ~PrepareFails
    BY DEF Prepare
  <2>3. \A n \in Attempts : context'[n] = IF n = Last + 1 THEN new
                                        ELSE IF n = Last /\ context[n].status = "ACTIVE"
                                             THEN [context[n] EXCEPT !.status = "EXPIRED"]
                                             ELSE context[n]
    <3>1. SUFFICES ASSUME NEW n \in Attempts
                   PROVE  context'[n] = IF n = Last + 1 THEN new
                                        ELSE IF n = Last /\ context[n].status = "ACTIVE"
                                             THEN [context[n] EXCEPT !.status = "EXPIRED"]
                                             ELSE context[n]
      OBVIOUS
    <3>2. context'[n] =
             CASE Reusable -> context[n]
               [] ~Reusable /\ n = Prepared -> new
               [] ~Reusable /\ n = Last /\ context[n].status = "ACTIVE"
                      -> [context[n] EXCEPT !.status = "EXPIRED"]
               [] OTHER -> context[n]
      BY DEF Prepare
    <3>3. CASE n = Last + 1
      BY <1>1, <1>3, <2>1, <3>2, <3>3
    <3>4. CASE n # Last + 1 /\ n = Last /\ context[n].status = "ACTIVE"
      BY <1>1, <1>3, <2>1, <3>2, <3>4
    <3>5. CASE n # Last + 1 /\ ~(n = Last /\ context[n].status = "ACTIVE")
      BY <1>1, <1>3, <2>1, <3>2, <3>5
    <3>. QED  BY <3>3, <3>4, <3>5
  <2>4. ASSUME NEW n \in Attempts
        PROVE  /\ context'[n] \in Context
               /\ n = Last + 1 => context[n].status = "NONE" /\ context'[n].status = "ACTIVE"
               /\ n # Last + 1 /\ n # Last => context'[n].status = context[n].status
               /\ n = Last => context'[n].status = IF context[n].status = "ACTIVE"
                                                   THEN "EXPIRED" ELSE context[n].status
    <3>1. context[n] \in Context
      BY DEF RowsOK
    <3>2. new \in Context /\ new.status = "ACTIVE"
      BY DEF Context, ContextStatus
    <3>3. /\ [context[n] EXCEPT !.status = "EXPIRED"] \in Context
          /\ [context[n] EXCEPT !.status = "EXPIRED"].status = "EXPIRED"
      BY <3>1 DEF Context, ContextStatus
    <3>4. n = Last + 1 => context[n].status = "NONE"
      BY <1>1 DEF UsedOK, Attempts
    <3>. HIDE DEF new
    <3>5. CASE n = Last + 1
      <4>1. context'[n] = new
        BY <2>3, <3>5, Zenon
      <4>2. n # Last
        BY <1>1, <3>5
      <4>. QED  BY <3>2, <3>4, <3>5, <4>1, <4>2
    <3>6. CASE n # Last + 1 /\ n = Last /\ context[n].status = "ACTIVE"
      BY <2>3, <3>3, <3>6, Zenon
    <3>7. CASE n # Last + 1 /\ ~(n = Last /\ context[n].status = "ACTIVE")
      BY <2>3, <3>1, <3>7, Zenon
    <3>. QED  BY <3>5, <3>6, <3>7
  <2>5. context' \in [Attempts -> Context]
    <3>1. context' = [n \in Attempts |-> context'[n]]
      BY DEF Prepare
    <3>. QED  BY <2>4, <3>1
  <2>6. Last' = Last + 1
    <3>1. Used' = Used \union {Last + 1} /\ \A m \in Used : m \in Nat /\ m <= Last
      BY <1>1, <2>1, <2>4 DEF Used, UsedOK, Attempts
    <3>. QED  BY <1>1, <3>1, LatestIs DEF Last
  <2>7. UsedOK'
    <3>1. Last + 1 <= MaxAttempts
      BY <1>1, <2>1 DEF Attempts
    <3>2. ASSUME NEW n \in Attempts
          PROVE  /\ context'[n].status # "NONE" <=> n <= Last + 1
                 /\ n < Last + 1 => context'[n].status \notin {"ACTIVE", "CLAIMED"}
      <4>1. n \in Nat /\ n > 0
        BY <1>1 DEF Attempts
      <4>2. /\ context[n].status # "NONE" <=> n <= Last
            /\ n < Last => context[n].status \notin {"ACTIVE", "CLAIMED"}
            /\ n = Last => context[n].status # "CLAIMED"
        BY <2>2, <4>1 DEF UsedOK, PrepareFails
      <4>. QED  BY <1>1, <2>4, <4>1, <4>2
    <3>. QED  BY <1>1, <2>6, <3>1, <3>2 DEF UsedOK
  <2>8. \A n \in Attempts :
           /\ context'[n].status \in Unclaimed <=> context[n].status \in Unclaimed
           /\ context'[n].status = "CLAIMED" <=> context[n].status = "CLAIMED"
    BY <2>4 DEF Unclaimed
  <2>9. \A n \in Attempts : n <= Last => n < Prepared
    BY <1>1, <2>1 DEF Attempts
  <2>. QED  BY <1>1, <2>1, <2>5, <2>6, <2>7, <2>8, <2>9
<1>. QED  BY <1>2, <1>3

\* A refused attempt leaves at most the expired context behind.
LEMMA RefusalFacts ==
    ASSUME RowsOK, UsedOK, PrepareRefused
    PROVE  /\ context' \in [Attempts -> Context] /\ UsedOK' /\ Last' = Last
           /\ \A n \in Attempts :
                 /\ context'[n].status \in Unclaimed <=> context[n].status \in Unclaimed
                 /\ context'[n].status = "CLAIMED" <=> context[n].status = "CLAIMED"
<1>1. ASSUME NEW n \in Attempts
      PROVE  /\ context'[n] \in Context
             /\ \/ context'[n].status = context[n].status
                \/ context[n].status = "ACTIVE" /\ context'[n].status = "EXPIRED"
  <2>1. context[n] \in Context
    BY DEF RowsOK
  <2>2. /\ [context[n] EXCEPT !.status = "EXPIRED"] \in Context
        /\ [context[n] EXCEPT !.status = "EXPIRED"].status = "EXPIRED"
    BY <2>1 DEF Context, ContextStatus
  <2>3. context'[n] = IF n = Last /\ context[n].status = "ACTIVE"
                      THEN [context[n] EXCEPT !.status = "EXPIRED"] ELSE context[n]
    BY DEF PrepareRefused
  <2>. QED  BY <2>1, <2>2, <2>3, Zenon
<1>2. context' \in [Attempts -> Context]
  <2>1. context' = [n \in Attempts |-> context'[n]]
    BY DEF PrepareRefused
  <2>. QED  BY <1>1, <2>1
<1>3. Last' = Last
  <2>1. Used' = Used
    BY <1>1 DEF Used
  <2>. QED  BY <2>1 DEF Last
<1>4. UsedOK'
  BY <1>1, <1>3 DEF UsedOK
<1>. QED  BY <1>1, <1>2, <1>3, <1>4 DEF Unclaimed

-----------------------------------------------------------------------------
(***************************************************************************)
(* What a step of one worker has to show.                                  *)
(***************************************************************************)
LEMMA TypesAfterRun ==
    ASSUME TypeInv, NEW w \in Workers, RunsOK', OnlyRun(w), RowsOK', UsedOK', Last <= Last',
           run'[w].pc # "idle" => run'[w].attempt <= Last', UNCHANGED <<job, call>>
    PROVE  TypeInv'
<1>1. Last \in Nat /\ Last' \in Nat
  BY Bounds DEF TypeInv, UsedOK
<1>2. JobOK' /\ CallsOK'
  BY DEF TypeInv, JobOK, CallsOK
<1>3. ASSUME NEW v \in Workers, run'[v].pc # "idle" PROVE run'[v].attempt <= Last'
  <2>1. CASE v = w
    BY <1>3, <2>1
  <2>2. CASE v # w
    <3>1. run'[v] = run[v] /\ run[v].attempt <= Last
      BY <1>3, <2>2 DEF OnlyRun, TypeInv, RefsOK
    <3>2. run[v].attempt \in Nat
      BY Bounds DEF TypeInv, RunsOK, Run
    <3>. QED  BY <1>1, <3>1, <3>2
  <2>. QED  BY <2>1, <2>2
<1>4. ASSUME NEW c \in Callers, call'[c].pc = "insert" PROVE call'[c].attempt <= Last'
  <2>1. call[c].attempt \in Nat /\ call[c].attempt <= Last
    BY <1>4, Bounds DEF TypeInv, CallsOK, RefsOK
  <2>. QED  BY <1>1, <2>1
<1>5. job'.status # "absent" => job'.attempt <= Last'
  <2>1. job.attempt \in Nat /\ (job.status # "absent" => job.attempt <= Last)
    BY Bounds DEF TypeInv, JobOK, Job, RefsOK
  <2>. QED  BY <1>1, <2>1
<1>6. RefsOK'
  BY <1>3, <1>4, <1>5 DEF RefsOK
<1>. QED  BY <1>2, <1>6 DEF TypeInv

\* The run neither takes hold of an attempt nor records an outcome.
HoldQuiet(w) ==
    /\ OnlyRun(w) /\ effects' = effects
    /\ \A n \in Attempts : \/ operation'[n].status = operation[n].status
                           \/ operation[n].status = "RUNNING" /\ operation'[n].status = "UNKNOWN"
    /\ Holding(run'[w]) => /\ Holding(run[w]) /\ run'[w].attempt = run[w].attempt
                           /\ run'[w].outcome \in {run[w].outcome, "FAILED"}
    /\ Reports(run'[w]) => Evidence
    /\ approval' = "completed" => approval = "completed" \/ Evidence

LEMMA HoldAfterQuiet ==
    ASSUME RunsOK, HoldInv, NEW w \in Workers, HoldQuiet(w)
    PROVE  HoldInv'
<1>1. \A v \in Workers : Holding(run'[v]) =>
            /\ Holding(run[v]) /\ run'[v].attempt = run[v].attempt
            /\ run'[v].outcome \in {run[v].outcome, "FAILED"}
  BY DEF HoldQuiet, OnlyRun
<1>2. ASSUME NEW v \in Workers PROVE HolderOK(run[v])'
  <2>1. HolderOK(run[v])
    BY DEF HoldInv
  <2>2. Holding(run'[v]) => run[v].attempt \in Attempts
    <3>1. RunOK(run[v])
      BY DEF RunsOK
    <3>. QED  BY <1>1, <3>1 DEF RunOK, Holding, First
  <2>. QED  BY <1>1, <2>1, <2>2 DEF HolderOK, HoldQuiet
<1>3. \A v, u \in Workers : v # u /\ Holding(run'[v]) /\ Holding(run'[u])
                                => run'[v].attempt # run'[u].attempt
  BY <1>1 DEF HoldInv
<1>4. Evidence => Evidence'
  BY DEF HoldQuiet, Evidence
<1>5. \A v \in Workers : Reports(run'[v]) => Evidence'
  BY <1>4 DEF HoldQuiet, OnlyRun, HoldInv
<1>6. approval' = "completed" => Evidence'
  BY <1>4 DEF HoldQuiet, HoldInv
<1>7. \A n \in Attempts :
         /\ effects'[n] <= 1
         /\ operation'[n].status = "NONE" => effects'[n] = 0
         /\ operation'[n].status = "COMPLETED" => effects'[n] = 1
  BY DEF HoldQuiet, HoldInv
<1>. QED  BY <1>2, <1>3, <1>5, <1>6, <1>7 DEF HoldInv

\* The job, the claims and the operations stay as they are.
ReportQuiet(w) ==
    /\ OnlyRun(w) /\ UNCHANGED <<job, stalls>>
    /\ \A n \in Attempts : /\ operation'[n].status = operation[n].status
                           /\ context'[n].status = "CLAIMED" <=> context[n].status = "CLAIMED"
    /\ approval = "completed" => approval' = "completed"
    /\ run[w].pc # "idle"
    /\ run'[w].pc # "idle" => run'[w].given = run[w].given
    /\ Holding(run'[w]) => Holding(run[w]) /\ run'[w].attempt = run[w].attempt
    /\ stalls = 0 /\ Knows(run'[w]) =>
          (run'[w].outcome = "COMPLETED" <=> operation[run'[w].given].status = "COMPLETED")
    /\ SettledOK(run[w])'

\* A run that is known to be active has attempts to refer to.
LEMMA RunRefs ==
    ASSUME RunsOK, NEW v \in Workers
    PROVE  /\ run[v].pc # "idle" => run[v].given \in Attempts /\ run[v].attempt \in Attempts
           /\ Holding(run[v]) \/ Knows(run[v]) => run[v].pc # "idle"
BY DEF RunsOK, RunOK, Holding, Knows, First

LEMMA ReportAfterQuiet ==
    ASSUME RunsOK, RunsOK', ReportInv, NEW w \in Workers, ReportQuiet(w)
    PROVE  ReportInv'
<1>1. ASSUME NEW v \in Workers PROVE SettledOK(run[v])'
  <2>1. CASE v = w
    BY <2>1 DEF ReportQuiet
  <2>2. CASE v # w
    <3>1. run'[v] = run[v] /\ SettledOK(run[v])
      BY <2>2 DEF ReportQuiet, OnlyRun, ReportInv
    <3>. QED  BY <3>1 DEF SettledOK, ReportQuiet
  <2>. QED  BY <2>1, <2>2
<1>2. SUFFICES ASSUME stalls' = 0
               PROVE  /\ \A v \in Workers : LoneOK(run[v])'
                      /\ \A v, u \in Workers : run'[v].pc # "idle" /\ run'[u].pc # "idle" => v = u
                      /\ \A n \in Attempts : operation'[n].status = "COMPLETED"
                            => context'[n].status = "CLAIMED" \/ approval' = "completed"
  BY <1>1 DEF ReportInv
<1>3. /\ stalls = 0
      /\ \A v \in Workers : LoneOK(run[v])
      /\ \A v, u \in Workers : run[v].pc # "idle" /\ run[u].pc # "idle" => v = u
      /\ \A n \in Attempts : operation[n].status = "COMPLETED"
            => context[n].status = "CLAIMED" \/ approval = "completed"
  BY <1>2 DEF ReportQuiet, ReportInv
<1>4. \A v, u \in Workers : run'[v].pc # "idle" /\ run'[u].pc # "idle" => v = u
  BY <1>3 DEF ReportQuiet, OnlyRun
<1>5. \A n \in Attempts : operation'[n].status = "COMPLETED"
         => context'[n].status = "CLAIMED" \/ approval' = "completed"
  BY <1>3 DEF ReportQuiet
<1>6. ASSUME NEW v \in Workers PROVE LoneOK(run[v])'
  <2>1. LoneOK(run[v]) /\ LoneOK(run[w])
    BY <1>3
  <2>2. /\ run'[v].pc # "idle" => run'[v].given \in Attempts /\ run'[v].attempt \in Attempts
        /\ Holding(run'[v]) \/ Knows(run'[v]) => run'[v].pc # "idle"
    BY RunRefs DEF RunsOK, RunOK, Holding, Knows, First
  <2>3. run'[v].pc # "idle" => job'.status = "running" /\ run'[v].given = job'.attempt
    BY <2>1 DEF LoneOK, ReportQuiet, OnlyRun
  <2>4. Holding(run'[v]) => /\ context'[run'[v].attempt].status = "CLAIMED"
                            /\ operation'[run'[v].attempt].status = "RUNNING"
    BY <2>1, <2>2 DEF LoneOK, ReportQuiet, OnlyRun
  <2>5. Knows(run'[v]) => (run'[v].outcome = "COMPLETED"
                             <=> operation'[run'[v].given].status = "COMPLETED")
    <3>1. run'[v].given \in Attempts =>
             operation'[run'[v].given].status = operation[run'[v].given].status
      BY DEF ReportQuiet
    <3>2. CASE v = w
      BY <1>2, <2>2, <3>1, <3>2 DEF ReportQuiet
    <3>3. CASE v # w
      <4>1. run'[v] = run[v]
        BY <3>3 DEF ReportQuiet, OnlyRun
      <4>. QED  BY <2>1, <2>2, <3>1, <4>1 DEF LoneOK
    <3>. QED  BY <3>2, <3>3
  <2>. QED  BY <2>3, <2>4, <2>5 DEF LoneOK
<1>. QED  BY <1>4, <1>5, <1>6

Inv == TypeInv /\ HoldInv /\ ReportInv

LEMMA QuietRun ==
    ASSUME Inv, NEW w \in Workers, RunsOK', RowsOK', UsedOK', Last <= Last',
           run'[w].pc # "idle" => run'[w].attempt <= Last', UNCHANGED <<job, call>>,
           HoldQuiet(w), ReportQuiet(w)
    PROVE  Inv'
BY TypesAfterRun, HoldAfterQuiet, ReportAfterQuiet DEF Inv, TypeInv, HoldQuiet

LEMMA RunFacts ==
    ASSUME Inv, NEW w \in Workers
    PROVE  /\ RunsOK /\ RowsOK /\ UsedOK /\ run[w] \in Run /\ RunOK(run[w]) /\ SettledOK(run[w])
           /\ stalls = 0 => LoneOK(run[w])
           /\ Reports(run[w]) => Evidence
           /\ run[w].pc # "idle" => /\ run[w].given \in Attempts /\ run[w].attempt \in Attempts
                                    /\ run[w].given <= run[w].attempt /\ run[w].attempt <= Last
<1>1. RunsOK /\ RowsOK /\ UsedOK /\ RefsOK
  BY DEF Inv, TypeInv
<1>2. run[w] \in Run /\ RunOK(run[w])
  BY <1>1 DEF RunsOK
<1>3. SettledOK(run[w]) /\ (stalls = 0 => LoneOK(run[w]))
  BY DEF Inv, ReportInv
<1>4. Reports(run[w]) => Evidence
  BY DEF Inv, HoldInv
<1>. QED  BY <1>1, <1>2, <1>3, <1>4 DEF RunOK, RefsOK

LEMMA RowFacts ==
    ASSUME RowsOK, NEW n \in Attempts
    PROVE  /\ context[n] \in Context /\ operation[n] \in Operation
           /\ context[n].status \in ContextStatus /\ operation[n].status \in OperationStatus
BY DEF RowsOK, Context, Operation

\* A step that only changes what the run itself remembers.
LEMMA LocalStep ==
    ASSUME Inv, NEW w \in Workers, run[w].pc # "idle",
           UNCHANGED <<durable, call, effects, stalls>>, RunsOK', OnlyRun(w),
           run'[w].pc # "idle" => run'[w].given = run[w].given /\ run'[w].attempt = run[w].attempt,
           Holding(run'[w]) => /\ Holding(run[w])
                               /\ run'[w].outcome \in {run[w].outcome, "FAILED"},
           Reports(run'[w]) => Evidence,
           stalls = 0 /\ Knows(run'[w]) =>
              (run'[w].outcome = "COMPLETED" <=> operation[run[w].given].status = "COMPLETED"),
           SettledOK(run[w])'
    PROVE  Inv'
<1>1. RowsOK /\ UsedOK /\ run[w].attempt <= Last
  BY RunFacts, Zenon
<1>2. RowsOK' /\ UsedOK' /\ Last' = Last
  BY <1>1, RowsStay DEF RowsOK, durable
<1>3. Holding(run'[w]) \/ Knows(run'[w]) => run'[w].pc # "idle"
  BY DEF Holding, Knows, First
<1>4. HoldQuiet(w)
  BY <1>3 DEF HoldQuiet, durable
<1>5. ReportQuiet(w)
  BY <1>3 DEF ReportQuiet, durable
<1>6. Last <= Last'
  BY <1>1, <1>2, Bounds DEF UsedOK
<1>7. run'[w].pc # "idle" => run'[w].attempt <= Last'
  BY <1>1, <1>2
<1>8. UNCHANGED <<job, call>>
  BY DEF durable
<1>. QED  BY <1>2, <1>4, <1>5, <1>6, <1>7, <1>8, QuietRun, Zenon

\* The run is over, or nothing is left of it but its return.
LEMMA OverStep ==
    ASSUME Inv, NEW w \in Workers, run[w].pc # "idle",
           UNCHANGED <<durable, call, effects, stalls>>,
           run' = [run EXCEPT ![w] = Idle] \/ \E e \in BOOLEAN : Returns(w, e)
    PROVE  Inv'
<1>1. RunsOK /\ SettledOK(run[w])
  BY RunFacts
<1>2. CASE run' = [run EXCEPT ![w] = Idle]
  <2>1. RunsOK' /\ OnlyRun(w) /\ run'[w] = Idle
    BY <1>1, <1>2, IdleMoves, Zenon
  <2>2. run'[w].pc = "idle" /\ run'[w].outcome = "NONE" /\ run'[w].approval = "pending_approval"
    BY <2>1 DEF Idle
  <2>3. ~Holding(run'[w]) /\ ~Knows(run'[w]) /\ ~Reports(run'[w]) /\ SettledOK(run[w])'
    BY <2>2 DEF Holding, Knows, Reports, First, SettledOK
  <2>. QED  BY <2>1, <2>2, <2>3, LocalStep
<1>3. CASE \E e \in BOOLEAN : Returns(w, e)
  <2>1. /\ RunsOK' /\ OnlyRun(w) /\ SameRun(w) /\ run'[w].pc = "write"
        /\ run'[w].outcome = run[w].outcome /\ run'[w].writes = <<>>
    BY <1>1, <1>3, ReturnsMoves
  <2>2. ~Holding(run'[w]) /\ ~Knows(run'[w]) /\ ~Reports(run'[w])
    BY <2>1 DEF Holding, Knows, Reports, First
  <2>3. SettledOK(run[w])'
    BY <1>1, <2>1 DEF SettledOK, SameRun, durable
  <2>. QED  BY <1>1, <2>1, <2>2, <2>3, LocalStep DEF SameRun
<1>. QED  BY <1>2, <1>3

\* The run goes on to a later step of its own.
LEMMA GoesStep ==
    ASSUME Inv, NEW w \in Workers, run[w].pc \notin {"idle", "reconcile", "write"},
           UNCHANGED <<durable, call, effects, stalls>>,
           NEW p \in {"claim", "prepare", "check", "execute", "stale"}, Goes(w, p),
           p \in {"check", "execute"} => run[w].pc \in {"transition", "check"},
           p \in {"prepare", "stale"} => run[w].pc = "context",
           p = "stale" => operation[run[w].given].status # "COMPLETED"
    PROVE  Inv'
<1>1. RunsOK /\ RunOK(run[w]) /\ SettledOK(run[w])
  BY RunFacts
<1>2. /\ RunsOK' /\ OnlyRun(w) /\ SameRun(w) /\ run'[w].pc = p /\ run'[w].outcome = "NONE"
  BY <1>1, GoesMoves DEF RunOK
<1>3. run[w].outcome = "NONE"
  BY <1>1 DEF RunOK
<1>4. Holding(run'[w]) => Holding(run[w])
  BY <1>2 DEF Holding, First
<1>5. (Knows(run'[w]) => p = "stale") /\ ~Reports(run'[w])
  BY <1>2 DEF Knows, Reports
<1>6. SettledOK(run[w])'
  BY <1>1, <1>2 DEF SettledOK, SameRun, durable
<1>. QED  BY <1>2, <1>3, <1>4, <1>5, <1>6, LocalStep DEF SameRun

\* The run knows how it ends and has the writes before it.
LEMMA PlanStep ==
    ASSUME Inv, NEW w \in Workers, run[w].pc # "idle",
           UNCHANGED <<durable, call, effects, stalls>>,
           NEW o \in OperationStatus, NEW s \in WriteLists, NEW e \in BOOLEAN,
           Plan(w, o, s, e) \/ (o = "FAILED" /\ LaxPlan(w, s, e)),
           o = "COMPLETED" => s \in SuccessLists \ {SuccessWrites} /\ run[w].outcome = "COMPLETED",
           s # <<>> /\ Head(s) = "operation" => Holding(run[w]) /\ run[w].outcome # "COMPLETED"
                                                /\ o = "FAILED",
           s # <<>> /\ Head(s) # "operation" => run[w].pc = "reconcile" /\ o = run[w].outcome,
           s = <<"context">> /\ o = "COMPLETED" => run[w].approval = "completed",
           run[w].pc = "write" => o = run[w].outcome
    PROVE  Inv'
<1>1. /\ RunsOK /\ RunOK(run[w]) /\ SettledOK(run[w]) /\ (stalls = 0 => LoneOK(run[w]))
      /\ Reports(run[w]) => Evidence
  BY RunFacts
<1>2. /\ RunsOK' /\ OnlyRun(w) /\ SameRun(w)
      /\ run'[w].pc = "write" /\ run'[w].outcome = o /\ run'[w].writes = s
  <2>1. /\ o = "COMPLETED" => s \in SuccessLists
        /\ s # <<>> /\ Head(s) = "operation" => o \in {"COMPLETED", "FAILED"}
        /\ run[w].pc # "idle" /\ (run[w].pc = "write" => o = run[w].outcome)
        /\ Plan(w, o, s, e) \/ (o = "FAILED" /\ LaxPlan(w, s, e))
    OBVIOUS
  <2>2. w \in Workers /\ o \in OperationStatus /\ s \in WriteLists /\ e \in BOOLEAN
    OBVIOUS
  <2>. QED  BY ONLY <1>1, <2>1, <2>2, PlanMoves
<1>3. /\ Holding(run'[w]) => Holding(run[w]) /\ run'[w].outcome \in {run[w].outcome, "FAILED"}
      /\ Reports(run'[w]) => Reports(run[w])
  BY <1>2 DEF Holding, Reports, First
<1>4. stalls = 0 /\ Knows(run'[w]) =>
         (run'[w].outcome = "COMPLETED" <=> operation[run[w].given].status = "COMPLETED")
  <2>1. Knows(run'[w]) => run[w].pc = "reconcile" /\ o = run[w].outcome
    BY <1>2 DEF Knows
  <2>2. run[w].pc = "reconcile" => Knows(run[w])
    BY DEF Knows
  <2>. QED  BY <1>1, <1>2, <2>1, <2>2 DEF LoneOK
<1>5. SettledOK(run[w])'
  BY <1>1, <1>2 DEF SettledOK, SameRun, durable
<1>. QED  BY <1>1, <1>2, <1>3, <1>4, <1>5, LocalStep, Zenon DEF SameRun

-----------------------------------------------------------------------------
(***************************************************************************)
(* The steps of a run.                                                     *)
(***************************************************************************)
LEMMA ReadApprovalKeeps ==
    ASSUME Inv, NEW w \in Workers, ReadApproval(w)
    PROVE  Inv'
<1>. DEFINE x == [run[w] EXCEPT !.pc = "context", !.approval = approval]
<1>1. RunsOK /\ RowsOK /\ run[w] \in Run /\ RunOK(run[w]) /\ run[w].pc = "approval"
  BY RunFacts DEF ReadApproval
<1>2. /\ x \in Run /\ x.pc = "context" /\ x.writes = run[w].writes /\ x.tries = run[w].tries
      /\ x.given = run[w].given /\ x.attempt = run[w].attempt
      /\ x.approval = approval /\ x.outcome = run[w].outcome /\ x.lax = run[w].lax
  BY <1>1, Zenon DEF Run, RowsOK
<1>3. run' = [run EXCEPT ![w] = x]
  BY <1>1, Zenon DEF ReadApproval, RunsOK
<1>. HIDE DEF x
<1>4. RunOK(x) /\ x.outcome = "NONE"
  BY <1>1, <1>2 DEF RunOK, First
<1>5. RunsOK' /\ OnlyRun(w) /\ run'[w] = x
  BY <1>1, <1>2, <1>3, <1>4, RunMoves, Zenon
<1>6. ~Holding(x) /\ ~Knows(x)
  BY <1>2 DEF Holding, Knows, First
<1>7. ~Reports(x)
  BY <1>4 DEF Reports
<1>8. UNCHANGED <<durable, call, effects, stalls>>
  BY DEF ReadApproval, counters
<1>9. SettledOK(run[w])'
  BY <1>2, <1>5, <1>8 DEF SettledOK, durable
<1>. QED  BY <1>1, <1>2, <1>4, <1>5, <1>6, <1>7, <1>8, <1>9, LocalStep, Zenon

LEMMA ReadContextKeeps ==
    ASSUME Inv, NEW w \in Workers, ReadContext(w)
    PROVE  Inv'
<1>1. /\ RunsOK /\ RowsOK /\ RunOK(run[w]) /\ SettledOK(run[w])
      /\ run[w].pc = "context" /\ run[w].given \in Attempts
  BY RunFacts, Zenon DEF ReadContext
<1>2. UNCHANGED <<durable, call, effects, stalls>>
  BY DEF ReadContext, counters
<1>3. \/ Goes(w, "claim") \/ Goes(w, "prepare") \/ Returns(w, TRUE)
      \/ Goes(w, "stale") /\ operation[run[w].given].status = "RUNNING"
      \/ run' = [run EXCEPT ![w].pc = "reconcile",
                            ![w].outcome = operation[run[w].given].status]
  BY Zenon DEF ReadContext
<1>4. CASE Goes(w, "claim") \/ Goes(w, "prepare")
  BY <1>1, <1>2, <1>4, GoesStep
<1>5. CASE Goes(w, "stale") /\ operation[run[w].given].status = "RUNNING"
  BY <1>1, <1>2, <1>5, GoesStep
<1>6. CASE Returns(w, TRUE)
  BY <1>1, <1>2, <1>6, OverStep, Zenon
<1>7. CASE run' = [run EXCEPT ![w].pc = "reconcile",
                             ![w].outcome = operation[run[w].given].status]
  <2>. DEFINE o == operation[run[w].given].status
  <2>1. o \in OperationStatus
    BY <1>1, RowFacts
  <2>2. /\ RunsOK' /\ OnlyRun(w) /\ SameRun(w)
        /\ run'[w].pc = "reconcile" /\ run'[w].outcome = o
    BY <1>1, <1>7, <2>1, OutcomeMoves, Zenon
  <2>3. ~Holding(run'[w])
    BY <2>2 DEF Holding, First
  <2>4. Reports(run'[w]) => Evidence
    <3>1. o = "COMPLETED" => effects[run[w].given] = 1
      BY <1>1, Zenon DEF Inv, HoldInv
    <3>. QED  BY <1>1, <2>2, <3>1 DEF Evidence, Reports
  <2>5. SettledOK(run[w])'
    BY <1>1, <1>2, <2>2 DEF SettledOK, SameRun, durable
  <2>. QED  BY <1>1, <1>2, <2>2, <2>3, <2>4, <2>5, LocalStep DEF SameRun
<1>. QED  BY <1>3, <1>4, <1>5, <1>6, <1>7, Zenon

LEMMA Lists ==
    /\ FailureWrites \in WriteLists /\ FailureWrites # <<>> /\ Head(FailureWrites) = "operation"
    /\ SuccessWrites \in WriteLists /\ SuccessWrites # <<>> /\ Head(SuccessWrites) = "operation"
    /\ <<"operation", "context">> \in WriteLists /\ Head(<<"operation", "context">>) = "operation"
    /\ <<"approval", "context">> \in SuccessLists \ {SuccessWrites}
    /\ Head(<<"approval", "context">>) = "approval" /\ <<"approval", "context">> # <<"context">>
    /\ <<"context">> \in SuccessLists \ {SuccessWrites} /\ Head(<<"context">>) = "context"
    /\ <<>> # <<"context">> /\ SuccessLists \subseteq WriteLists
BY DEF WriteLists, SuccessLists, SuccessWrites, FailureWrites

LEMMA ReconcileKeeps ==
    ASSUME Inv, NEW w \in Workers, Reconcile(w)
    PROVE  Inv'
<1>1. /\ RunsOK /\ run[w] \in Run /\ RunOK(run[w]) /\ run[w].pc = "reconcile"
  BY RunFacts DEF Reconcile
<1>2. UNCHANGED <<durable, call, effects, stalls>>
  BY DEF Reconcile, counters
<1>3. run[w].outcome \in OperationStatus
  BY <1>1 DEF Run
<1>4. \/ Returns(w, TRUE)
      \/ Plan(w, run[w].outcome, <<"approval", "context">>, FALSE)
      \/ Plan(w, run[w].outcome, <<"context">>, FALSE) /\ run[w].approval = Implied(run[w].outcome)
  BY Zenon DEF Reconcile
<1>5. CASE Returns(w, TRUE)
  BY <1>1, <1>2, <1>5, OverStep, Zenon
<1>6. CASE Plan(w, run[w].outcome, <<"approval", "context">>, FALSE)
  BY <1>1, <1>2, <1>3, <1>6, PlanStep, Lists, Zenon
<1>7. CASE Plan(w, run[w].outcome, <<"context">>, FALSE) /\ run[w].approval = Implied(run[w].outcome)
  BY <1>1, <1>2, <1>3, <1>7, PlanStep, Lists, Zenon DEF Implied
<1>. QED  BY <1>4, <1>5, <1>6, <1>7, Zenon

LEMMA CheckKeeps ==
    ASSUME Inv, NEW w \in Workers, Check(w)
    PROVE  Inv'
<1>1. /\ RunsOK /\ run[w] \in Run /\ RunOK(run[w]) /\ run[w].pc = "check"
  BY RunFacts DEF Check
<1>2. UNCHANGED <<durable, call, effects, stalls>>
  BY DEF Check, counters
<1>3. Holding(run[w]) /\ run[w].outcome = "NONE" /\ "FAILED" \in OperationStatus
  BY <1>1 DEF Holding, RunOK, OperationStatus
<1>4. CASE Goes(w, "execute")
  BY <1>1, <1>2, <1>4, GoesStep
<1>5. CASE LaxPlan(w, FailureWrites, TRUE)
  BY <1>1, <1>2, <1>3, <1>5, PlanStep, Lists, Zenon
<1>. QED  BY <1>4, <1>5, Zenon DEF Check

LEMMA RunPreparesKeeps ==
    ASSUME Inv, NEW w \in Workers, RunPrepares(w)
    PROVE  Inv'
<1>1. /\ RunsOK /\ RowsOK /\ UsedOK /\ run[w] \in Run /\ RunOK(run[w]) /\ SettledOK(run[w])
      /\ run[w].pc = "prepare" /\ run[w].given \in Attempts /\ run[w].given <= Last
  BY RunFacts DEF RunPrepares, RunOK
<1>2. CASE Prepare /\ run' = [run EXCEPT ![w].pc = "claim", ![w].attempt = Prepared]
  <2>. DEFINE x == [run[w] EXCEPT !.pc = "claim", !.attempt = Prepared]
  <2>1. /\ context' \in [Attempts -> Context] /\ UsedOK'
        /\ Last <= Last' /\ Prepared \in Attempts /\ Prepared <= Last'
        /\ \A n \in Attempts :
              /\ context'[n].status \in Unclaimed <=> context[n].status \in Unclaimed
              /\ context'[n].status = "CLAIMED" <=> context[n].status = "CLAIMED"
    BY <1>1, <1>2, PrepareFacts
  <2>2. run[w].given <= Prepared
    BY <1>1, Bounds DEF Prepared, UsedOK, Attempts
  <2>3. /\ x \in Run /\ x.pc = "claim" /\ x.writes = run[w].writes /\ x.tries = run[w].tries
        /\ x.given = run[w].given /\ x.attempt = Prepared
        /\ x.approval = run[w].approval /\ x.outcome = run[w].outcome /\ x.lax = run[w].lax
    <3>1. Prepared \in 0..MaxAttempts
      BY <2>1, Bounds DEF Attempts
    <3>. QED  BY <1>1, <3>1, Zenon DEF Run
  <2>4. run' = [run EXCEPT ![w] = x]
    BY <1>1, <1>2, Zenon DEF RunsOK
  <2>. HIDE DEF x
  <2>5. RunOK(x) /\ x.outcome = "NONE"
    BY <1>1, <2>1, <2>2, <2>3 DEF RunOK, First
  <2>6. RunsOK' /\ OnlyRun(w) /\ run'[w] = x
    BY <1>1, <2>3, <2>4, <2>5, RunMoves, Zenon
  <2>7. UNCHANGED <<approval, operation, job, call, effects, stalls>>
    BY DEF RunPrepares
  <2>8. RowsOK'
    BY <1>1, <2>1, <2>7 DEF RowsOK, Unclaimed
  <2>9. ~Holding(x) /\ ~Knows(x) /\ ~Reports(x)
    BY <2>3, <2>5 DEF Holding, Knows, Reports, First
  <2>10. SettledOK(run[w])'
    BY <1>1, <2>3, <2>6, <2>7 DEF SettledOK
  <2>11. HoldQuiet(w)
    BY <2>5, <2>6, <2>7, <2>9, Zenon DEF HoldQuiet
  <2>12. ReportQuiet(w)
    BY <1>1, <2>1, <2>3, <2>6, <2>7, <2>9, <2>10 DEF ReportQuiet
  <2>. QED  BY <2>1, <2>3, <2>6, <2>7, <2>8, <2>11, <2>12, QuietRun
<1>3. CASE Returns(w, TRUE) /\ UNCHANGED context
  <2>1. UNCHANGED <<durable, call, effects, stalls>>
    BY <1>3 DEF RunPrepares, durable
  <2>. QED  BY <1>1, <1>3, <2>1, OverStep, Zenon
<1>4. CASE PrepareRefused /\ Returns(w, TRUE)
  <2>1. /\ context' \in [Attempts -> Context] /\ UsedOK' /\ Last' = Last
        /\ \A n \in Attempts :
              /\ context'[n].status \in Unclaimed <=> context[n].status \in Unclaimed
              /\ context'[n].status = "CLAIMED" <=> context[n].status = "CLAIMED"
    BY <1>1, <1>4, RefusalFacts
  <2>2. /\ RunsOK' /\ OnlyRun(w) /\ SameRun(w) /\ run'[w].pc = "write"
        /\ run'[w].outcome = run[w].outcome /\ run'[w].writes = <<>>
    BY <1>1, <1>4, ReturnsMoves
  <2>3. UNCHANGED <<approval, operation, job, call, effects, stalls>>
    BY DEF RunPrepares
  <2>4. RowsOK'
    BY <1>1, <2>1, <2>3 DEF RowsOK, Unclaimed
  <2>5. ~Holding(run'[w]) /\ ~Knows(run'[w]) /\ ~Reports(run'[w])
    BY <2>2 DEF Holding, Knows, Reports, First
  <2>6. SettledOK(run[w])'
    BY <1>1, <2>2, <2>3 DEF SettledOK, SameRun
  <2>7. HoldQuiet(w)
    BY <2>2, <2>3, <2>5, Zenon DEF HoldQuiet
  <2>8. ReportQuiet(w)
    BY <1>1, <2>1, <2>2, <2>3, <2>5, <2>6 DEF ReportQuiet, SameRun
  <2>9. Last <= Last' /\ run'[w].attempt <= Last'
    <3>1. run[w].attempt <= Last
      BY <1>1, RunFacts
    <3>. QED  BY <1>1, <2>1, <2>2, <3>1, Bounds DEF UsedOK, SameRun
  <2>. QED  BY <2>1, <2>2, <2>3, <2>4, <2>7, <2>8, <2>9, QuietRun
<1>. QED  BY <1>2, <1>3, <1>4, Zenon DEF RunPrepares

\* A step that only changes the approval and what the run remembers.
LEMMA ApprovalStep ==
    ASSUME Inv, NEW w \in Workers, run[w].pc # "idle",
           UNCHANGED <<context, operation, job, call, effects, stalls>>, RunsOK', OnlyRun(w),
           SameRun(w), approval' \in ApprovalStatus,
           approval = "completed" => approval' = "completed",
           approval' = "completed" => approval = "completed" \/ Evidence,
           run'[w].outcome = run[w].outcome, Reports(run'[w]) => Evidence,
           Holding(run'[w]) => Holding(run[w]), Knows(run'[w]) => Knows(run[w]),
           SettledOK(run[w])'
    PROVE  Inv'
<1>1. /\ RowsOK /\ UsedOK /\ run[w].attempt <= Last
      /\ stalls = 0 => LoneOK(run[w])
  BY RunFacts, Zenon
<1>2. RowsOK' /\ UsedOK' /\ Last' = Last
  BY <1>1, RowsStay DEF RowsOK
<1>3. HoldQuiet(w)
  BY <1>1 DEF HoldQuiet, SameRun
<1>4. ReportQuiet(w)
  <2>1. stalls = 0 /\ Knows(run'[w]) =>
           (run'[w].outcome = "COMPLETED" <=> operation[run'[w].given].status = "COMPLETED")
    BY <1>1 DEF SameRun, LoneOK
  <2>2. Holding(run'[w]) => Holding(run[w]) /\ run'[w].attempt = run[w].attempt
    BY DEF SameRun
  <2>3. run'[w].given = run[w].given
    BY DEF SameRun
  <2>. QED  BY <2>1, <2>2, <2>3 DEF ReportQuiet
<1>5. Last <= Last'
  BY <1>1, <1>2, Bounds DEF UsedOK
<1>6. run'[w].attempt <= Last'
  BY <1>1, <1>2 DEF SameRun
<1>7. UNCHANGED <<job, call>>
  OBVIOUS
<1>. QED  BY <1>2, <1>3, <1>4, <1>5, <1>6, <1>7, QuietRun, Zenon

LEMMA TransitionKeeps ==
    ASSUME Inv, NEW w \in Workers, TransitionApproval(w)
    PROVE  Inv'
<1>1. /\ RunsOK /\ run[w] \in Run /\ RunOK(run[w]) /\ SettledOK(run[w]) /\ run[w].pc = "transition"
  BY RunFacts, Zenon DEF TransitionApproval
<1>2. UNCHANGED <<context, operation, job, call, effects, stalls>>
  BY DEF TransitionApproval, counters
<1>3. Holding(run[w]) /\ run[w].outcome = "NONE" /\ "FAILED" \in OperationStatus
  BY <1>1 DEF Holding, RunOK, OperationStatus
<1>4. \/ approval = "approved" /\ approval' = "executing" /\ Goes(w, "check")
      \/ UNCHANGED approval /\ (Returns(w, FALSE) \/ Goes(w, "check"))
      \/ UNCHANGED approval /\ LaxPlan(w, <<"operation", "context">>, FALSE)
  BY Zenon DEF TransitionApproval
<1>5. CASE approval = "approved" /\ approval' = "executing" /\ Goes(w, "check")
  <2>1. /\ RunsOK' /\ OnlyRun(w) /\ SameRun(w) /\ run'[w].pc = "check" /\ run'[w].outcome = "NONE"
    BY <1>1, <1>5, GoesMoves
  <2>2. ~Knows(run'[w]) /\ ~Reports(run'[w]) /\ SettledOK(run[w])'
    BY <1>1, <1>5, <2>1 DEF Knows, Reports, SettledOK, SameRun
  <2>3. approval' \in ApprovalStatus
    BY <1>5 DEF ApprovalStatus
  <2>. QED  BY <1>1, <1>2, <1>3, <1>5, <2>1, <2>2, <2>3, ApprovalStep, Zenon
<1>6. CASE UNCHANGED approval /\ (Returns(w, FALSE) \/ Goes(w, "check"))
  <2>1. UNCHANGED <<durable, call, effects, stalls>>
    BY <1>2, <1>6 DEF durable
  <2>. QED  BY <1>1, <1>6, <2>1, OverStep, GoesStep, Zenon
<1>7. CASE UNCHANGED approval /\ LaxPlan(w, <<"operation", "context">>, FALSE)
  <2>1. UNCHANGED <<durable, call, effects, stalls>>
    BY <1>2, <1>7 DEF durable
  <2>. QED  BY <1>1, <1>3, <1>7, <2>1, PlanStep, Lists, Zenon
<1>. QED  BY <1>4, <1>5, <1>6, <1>7, Zenon

LEMMA SettleApprovalKeeps ==
    ASSUME Inv, NEW w \in Workers, SettleApprovalExecution(w)
    PROVE  Inv'
<1>1. /\ RunsOK /\ run[w] \in Run /\ RunOK(run[w]) /\ SettledOK(run[w])
      /\ run[w].pc = "write" /\ run[w].writes # <<>> /\ Head(run[w].writes) = "approval"
      /\ run[w].outcome = "COMPLETED" => Evidence
  BY RunFacts DEF SettleApprovalExecution, Writing, Reports, First
<1>2. UNCHANGED <<context, operation, job, call, effects, stalls>>
  BY DEF SettleApprovalExecution, counters
<1>3. CASE approval = "executing" /\ approval' = Implied(run[w].outcome) /\ Wrote(w)
  <2>1. /\ RunsOK' /\ OnlyRun(w) /\ SameRun(w) /\ run'[w].pc = "write"
        /\ run'[w].outcome = run[w].outcome /\ run'[w].writes = Tail(run[w].writes)
        /\ Tail(run[w].writes) # <<>> => Head(Tail(run[w].writes)) # "operation"
    BY <1>1, <1>3, WroteMoves
  <2>2. /\ approval' \in ApprovalStatus
        /\ approval' = "completed" <=> run[w].outcome = "COMPLETED"
    BY <1>3 DEF Implied, ApprovalStatus
  <2>3. ~Holding(run'[w]) /\ (Knows(run'[w]) => Knows(run[w]))
    BY <1>1, <2>1 DEF Holding, Knows, First, SameRun
  <2>4. SettledOK(run[w])'
    BY <1>1, <1>3, <2>1, <2>2 DEF SettledOK, SameRun
  <2>5. Reports(run'[w]) => Evidence
    BY <1>1, <2>1 DEF Reports
  <2>. QED  BY <1>1, <1>2, <1>3, <2>1, <2>2, <2>3, <2>4, <2>5, ApprovalStep
<1>4. CASE Returns(w, TRUE) /\ UNCHANGED approval
  <2>1. UNCHANGED <<durable, call, effects, stalls>>
    BY <1>2, <1>4 DEF durable
  <2>. QED  BY <1>1, <1>4, <2>1, OverStep, Zenon
<1>. QED  BY <1>3, <1>4, Zenon DEF SettleApprovalExecution

LEMMA FaultKeeps ==
    ASSUME Inv, NEW w \in Workers, DatabaseFault(w) \/ WorkerCrashes(w)
    PROVE  Inv'
<1>1. /\ RunsOK /\ run[w] \in Run /\ RunOK(run[w]) /\ SettledOK(run[w])
      /\ run[w].pc # "idle" /\ (stalls = 0 => LoneOK(run[w]))
      /\ run[w].pc # "idle" => run[w].given \in Attempts
  BY RunFacts, Zenon DEF DatabaseFault, WorkerCrashes
<1>2. UNCHANGED <<durable, call, effects, stalls>>
  BY Zenon DEF DatabaseFault, WorkerCrashes
<1>3. CASE run' = [run EXCEPT ![w] = Idle] \/ Returns(w, TRUE)
  BY <1>1, <1>2, <1>3, OverStep, Zenon
<1>4. CASE run[w].pc = "transition" /\ LaxPlan(w, <<"operation", "context">>, TRUE)
  <2>1. Holding(run[w]) /\ run[w].outcome = "NONE" /\ "FAILED" \in OperationStatus
    BY <1>1, <1>4 DEF Holding, RunOK, OperationStatus
  <2>. QED  BY <1>1, <1>2, <1>4, <2>1, PlanStep, Lists, Zenon
<1>5. CASE run[w].pc = "write" /\ run[w].writes # <<>> /\ run[w].lax /\ Wrote(w)
  <2>1. /\ RunsOK' /\ OnlyRun(w) /\ SameRun(w) /\ run'[w].pc = "write"
        /\ run'[w].outcome = run[w].outcome /\ run'[w].writes = Tail(run[w].writes)
        /\ Tail(run[w].writes) # <<>> => Head(Tail(run[w].writes)) # "operation"
    BY <1>1, <1>5, WroteMoves, Zenon
  <2>2. run[w].outcome = "FAILED"
    BY <1>1, <1>5 DEF RunOK
  <2>3. ~Holding(run'[w]) /\ ~Reports(run'[w])
    BY <2>1, <2>2 DEF Holding, Reports, First
  <2>4. stalls = 0 /\ Knows(run'[w]) => operation[run[w].given].status # "COMPLETED"
    <3>1. Knows(run'[w]) => run[w].attempt = run[w].given
      BY <2>1 DEF Knows, SameRun
    <3>2. CASE Head(run[w].writes) = "operation"
      BY <1>1, <1>5, <3>1, <3>2 DEF LoneOK, Holding, First
    <3>3. CASE Head(run[w].writes) # "operation"
      BY <1>1, <1>5, <2>2, <3>1, <3>3 DEF LoneOK, Knows
    <3>. QED  BY <3>2, <3>3
  <2>5. SettledOK(run[w])'
    BY <1>1, <1>2, <2>1, <2>2 DEF SettledOK, SameRun, durable
  <2>. QED  BY <1>1, <1>2, <2>1, <2>2, <2>3, <2>4, <2>5, LocalStep, Zenon DEF SameRun
<1>. QED  BY <1>3, <1>4, <1>5, Zenon DEF DatabaseFault, WorkerCrashes

-----------------------------------------------------------------------------
(***************************************************************************)
(* The job is taken and settled.                                           *)
(***************************************************************************)
LEMMA TypesAfterJob ==
    ASSUME TypeInv, NEW w \in Workers, RunsOK', OnlyRun(w), JobOK',
           UNCHANGED <<approval, context, operation, effects, call>>,
           job'.attempt = job.attempt, job'.status # "absent" => job.status # "absent",
           run'[w].pc # "idle" => run'[w].attempt <= Last
    PROVE  TypeInv'
<1>1. RowsOK' /\ UsedOK' /\ Last' = Last
  BY RowsStay, Zenon DEF TypeInv, RowsOK
<1>2. CallsOK'
  BY DEF TypeInv, CallsOK
<1>3. RefsOK'
  BY <1>1 DEF TypeInv, RefsOK, OnlyRun
<1>. QED  BY <1>1, <1>2, <1>3 DEF TypeInv

\* The run of one worker begins or ends, and the others are idle if no lease
\* ran out.
LEMMA ReportAfterJob ==
    ASSUME RunsOK, ReportInv, NEW w \in Workers, OnlyRun(w),
           UNCHANGED <<approval, context, operation, stalls>>,
           SettledOK(run[w])', ~Holding(run'[w]), ~Knows(run'[w]),
           run'[w].pc # "idle" => job'.status = "running" /\ run'[w].given = job'.attempt,
           stalls = 0 => \A v \in Workers : v # w => run[v].pc = "idle"
    PROVE  ReportInv'
<1>1. ASSUME NEW v \in Workers PROVE SettledOK(run[v])'
  BY DEF OnlyRun, ReportInv, SettledOK
<1>2. ASSUME stalls' = 0, NEW v \in Workers PROVE LoneOK(run[v])'
  <2>1. CASE v = w
    BY <2>1 DEF LoneOK
  <2>2. CASE v # w
    <3>1. run'[v] = run[v] /\ run[v].pc = "idle"
      BY <1>2, <2>2 DEF OnlyRun
    <3>2. ~Holding(run'[v]) /\ ~Knows(run'[v])
      BY <3>1 DEF Holding, Knows, First
    <3>. QED  BY <3>1, <3>2 DEF LoneOK
  <2>. QED  BY <2>1, <2>2
<1>3. ASSUME stalls' = 0
      PROVE  \A v, u \in Workers : run'[v].pc # "idle" /\ run'[u].pc # "idle" => v = u
  BY <1>3 DEF OnlyRun
<1>. QED  BY <1>1, <1>2, <1>3 DEF ReportInv

LEMMA StartRunKeeps ==
    ASSUME Inv, NEW w \in Workers, StartRun(w)
    PROVE  Inv'
<1>. DEFINE x == [Idle EXCEPT !.pc = "approval", !.tries = job.attempts,
                              !.given = job.attempt, !.attempt = job.attempt]
            y == [job EXCEPT !.status = "running"]
<1>1. /\ RunsOK /\ job \in Job /\ job.attempt \in Attempts /\ job.attempts < MaxRetry
      /\ job.attempt <= Last /\ job.status = "queued" /\ run[w].pc = "idle"
  BY DEF Inv, TypeInv, JobOK, RefsOK, StartRun
<1>2. /\ x.pc = "approval" /\ x.tries = job.attempts /\ x.given = job.attempt
      /\ x.attempt = job.attempt /\ x.approval = "pending_approval" /\ x.outcome = "NONE"
      /\ x.writes = <<>> /\ x.lax = FALSE /\ x \in Run
  <2>1. job.attempts \in 0..MaxRetry /\ job.attempt \in 0..MaxAttempts
    BY <1>1 DEF Job
  <2>. QED  BY <2>1, IdleOK, Zenon DEF Run
<1>3. y \in Job /\ y.status = "running" /\ y.attempt = job.attempt /\ y.attempts = job.attempts
  BY <1>1 DEF Job, JobStatus
<1>4. run' = [run EXCEPT ![w] = x] /\ job' = y
  BY DEF StartRun
<1>5. UNCHANGED <<approval, context, operation, call, effects, stalls>>
  BY DEF StartRun, counters
<1>. HIDE DEF x, y
<1>6. RunOK(x)
  <2>1. <<>> \in WriteLists
    BY DEF WriteLists, SuccessLists
  <2>2. job.attempt <= job.attempt
    BY <1>1, Bounds DEF Attempts
  <2>. QED  BY <1>1, <1>2, <2>1, <2>2 DEF RunOK, First
<1>7. RunsOK' /\ OnlyRun(w) /\ run'[w] = x
  BY <1>1, <1>2, <1>4, <1>6, RunMoves, Zenon
<1>8. TypeInv'
  <2>1. JobOK'
    BY <1>1, <1>3, <1>4 DEF JobOK
  <2>. QED  BY <1>1, <1>2, <1>3, <1>4, <1>5, <1>7, <2>1, TypesAfterJob DEF Inv
<1>9. ~Holding(x) /\ ~Knows(x) /\ ~Reports(x)
  BY <1>2 DEF Holding, Knows, Reports, First
<1>10. HoldInv'
  <2>1. HoldQuiet(w)
    BY <1>2, <1>5, <1>7, <1>9 DEF HoldQuiet
  <2>. QED  BY <1>1, <2>1, HoldAfterQuiet DEF Inv
<1>11. ReportInv'
  <2>1. stalls = 0 => \A v \in Workers : run[v].pc = "idle"
    BY <1>1, Zenon DEF Inv, ReportInv, LoneOK
  <2>2. SettledOK(run[w])'
    BY <1>2, <1>7 DEF SettledOK
  <2>. QED  BY <1>1, <1>2, <1>3, <1>4, <1>5, <1>7, <1>9, <2>1, <2>2, ReportAfterJob DEF Inv
<1>. QED  BY <1>8, <1>10, <1>11 DEF Inv

LEMMA SettleJobKeeps ==
    ASSUME Inv, NEW w \in Workers, SettleJob(w)
    PROVE  Inv'
<1>1. /\ RunsOK /\ run[w] \in Run /\ RunOK(run[w]) /\ run[w].pc = "write" /\ JobOK
  BY RunFacts DEF SettleJob, Inv, TypeInv
<1>2. RunsOK' /\ OnlyRun(w) /\ run'[w] = Idle
  BY <1>1, IdleMoves, Zenon DEF SettleJob
<1>3. /\ Idle.pc = "idle" /\ Idle.outcome = "NONE" /\ Idle.approval = "pending_approval"
  BY DEF Idle
<1>4. ~Holding(run'[w]) /\ ~Knows(run'[w]) /\ ~Reports(run'[w]) /\ SettledOK(run[w])'
  BY <1>2, <1>3 DEF Holding, Knows, Reports, First, SettledOK
<1>5. UNCHANGED <<approval, context, operation, call, effects, stalls>>
  BY DEF SettleJob, counters
<1>6. JobOK' /\ job'.attempt = job.attempt /\ (job'.status # "absent" => job.status # "absent")
  <2>1. CASE job.status # "running"
    BY <1>1, <2>1 DEF SettleJob, JobOK
  <2>2. CASE job.status = "running"
    <3>. DEFINE tried == run[w].tries + 1
                after == CASE ~run[w].error -> "succeeded"
                           [] run[w].error /\ tried < MaxRetry -> "queued"
                           [] OTHER -> "failed"
                y == [job EXCEPT !.status = after, !.attempts = tried]
    <3>1. tried \in 0..MaxRetry
      <4>1. run[w].tries \in 0..MaxRetry /\ run[w].tries < MaxRetry
        BY <1>1 DEF Run, RunOK
      <4>. QED  BY <4>1, Bounds
    <3>2. /\ after \in {"succeeded", "queued", "failed"}
          /\ after = "queued" => tried < MaxRetry
      BY <1>1 DEF Run
    <3>3. job' = y
      BY <2>2 DEF SettleJob
    <3>. HIDE DEF tried, after
    <3>4. y \in Job /\ y.status = after /\ y.attempts = tried /\ y.attempt = job.attempt
      BY <1>1, <3>1, <3>2, Zenon DEF JobOK, Job, JobStatus
    <3>. HIDE DEF y
    <3>. QED  BY <1>1, <2>2, <3>2, <3>3, <3>4 DEF JobOK
  <2>. QED  BY <2>1, <2>2
<1>7. TypeInv'
  BY <1>2, <1>3, <1>5, <1>6, TypesAfterJob, Zenon DEF Inv
<1>8. HoldInv'
  <2>1. HoldQuiet(w)
    BY <1>2, <1>3, <1>4, <1>5 DEF HoldQuiet
  <2>. QED  BY <1>1, <2>1, HoldAfterQuiet DEF Inv
<1>9. ReportInv'
  <2>1. stalls = 0 => \A v \in Workers : v # w => run[v].pc = "idle"
    BY <1>1 DEF Inv, ReportInv
  <2>. QED  BY <1>1, <1>2, <1>3, <1>4, <1>5, <2>1, ReportAfterJob, Zenon DEF Inv
<1>. QED  BY <1>7, <1>8, <1>9 DEF Inv
=============================================================================
