---------------------- MODULE KnowledgeCompilationProof ----------------------
(***************************************************************************)
(* Proofs about KnowledgeCompilation, for any sets of runs and calls and   *)
(* any bound.                                                              *)
(***************************************************************************)
EXTENDS KnowledgeCompilation, TLAPS

(***************************************************************************)
(* The plans of a pass: RAGFlow is called by the first write, or by the    *)
(* second after the update that marks the run.                             *)
(***************************************************************************)
Shaped(p) == /\ p \in Seq(Steps)
             /\ \A i \in 1..Len(p) : p[i] = "ingest" => i = 1 \/ (i = 2 /\ p[1] = "mark")

Calm(p) == /\ p \in Seq(Steps)
           /\ \A i \in 1..Len(p) : p[i] # "ingest"

\* A pass that is to verify has read the run as dispatched or unknown.
Sent == {"dispatched", "unknown"}

Pass == [pc : {"off", "probe", "write", "recheck", "finish", "done"},
         run : Runs \union {NoRun}, state : Active \union {"none"}, count : 0..2,
         plan : Seq(Steps)]

Working(v) ==
    /\ v.pc \in {"probe", "write"} => v.run \in Runs
    /\ v.pc \notin {"probe", "write"} => v.run = NoRun
    /\ v.pc = "probe" => v.state \in Active
    /\ v.pc = "write" => /\ v.plan # << >> /\ Shaped(v.plan)
                         /\ Needs(v.plan, "verify") => v.state \in Sent

PassesOK == /\ worker \in [Workers -> Pass]
            /\ \A w \in Workers : Working(worker[w])

(***************************************************************************)
(* The rows: a run has a reservation, one that is accepted or was          *)
(* cancelled has not been marked dispatched, and a row is created by a     *)
(* call that is still to create it.                                        *)
(***************************************************************************)
Reservations == {"none", "pending", "released", "withdrawn", "finalized"}
Fresh == {"none", "accepted", "cancelled"}

RowsOK ==
    /\ run \in [Runs -> Row]
    /\ reservation \in [Runs -> Reservations]
    /\ \A r \in Runs : run[r].state = "none" => reservation[r] = "none"
    /\ \A r \in Runs : reservation[r] = "none" => run[r].state = "none"
    /\ \A r \in Runs : run[r].state \in Fresh => ~ run[r].sent
    /\ \A r \in Runs : trigger[r].pc \in {"todo", "create"} => run[r].state = "none"
    /\ \A r \in upstream.done : run[r].sent

(***************************************************************************)
(* The other types; the source is edited by faults.                        *)
(***************************************************************************)
Upstream == [state : {"idle", "running", "completed"}, queue : SUBSET Runs,
             done : SUBSET Runs, terminal : BOOLEAN, artifacts : BOOLEAN]
Call == [pc : {"todo", "create", "schedule", "done"}, manifest : 0..MaxFaults,
         of : Runs \union {NoRun}]

RestOK ==
    /\ ready \subseteq Runs
    /\ upstream \in Upstream
    /\ trigger \in [Runs -> Call]
    /\ cancel \in [Cancels -> [pc : {"todo", "write", "done"}, run : Runs \union {NoRun}]]
    /\ \A c \in Cancels : cancel[c].pc = "write" => cancel[c].run \in Runs
    /\ ingests \in [Runs -> Nat]
    /\ seen \in [Runs -> 0..3]
    /\ source \in Nat /\ faults \in 0..MaxFaults /\ source <= faults

TypeInv == RowsOK /\ PassesOK /\ RestOK

LEMMA TypeInvImplies == TypeInv => CompilationTypeOK
<1>. SUFFICES ASSUME TypeInv PROVE CompilationTypeOK
  OBVIOUS
<1>1. source \in 0..MaxFaults
  BY CompilationAssumption DEF TypeInv, RestOK
<1>2. \A w \in Workers : worker[w].pc \in {"probe", "write"} <=> worker[w].run # NoRun
  BY CompilationAssumption DEF TypeInv, PassesOK, Working
<1>3. \A w \in Workers : worker[w].plan \in Seq(Steps)
  BY DEF TypeInv, PassesOK, Pass
<1>4. upstream.done \subseteq {r \in Runs : run[r].sent}
  BY DEF TypeInv, RowsOK, RestOK, Upstream
<1>. QED
  BY <1>1, <1>2, <1>3, <1>4 DEF TypeInv, RowsOK, RestOK, Reservations, CompilationTypeOK

-----------------------------------------------------------------------------
\* Storing a row that is not new, and is not fresh once it was marked.
LEMMA RowStored ==
    ASSUME RowsOK, NEW r \in Runs, NEW x \in Row, run' = [run EXCEPT ![r] = x],
           run[r].state = "none" => x.state = "none",
           x.state = "none" => run[r].state = "none",
           run[r].sent => x.sent, x.state \in Fresh => ~ x.sent,
           reservation' \in [Runs -> Reservations],
           \A q \in Runs : /\ reservation[q] = "none" => reservation'[q] = "none"
                           /\ reservation'[q] = "none" => reservation[q] = "none",
           \A q \in Runs : trigger'[q].pc \in {"todo", "create"}
                 => trigger[q].pc \in {"todo", "create"},
           upstream' = upstream, upstream.done \subseteq Runs
    PROVE  RowsOK'
<1>1. \A q \in Runs : run'[q] = IF q = r THEN x ELSE run[q]
  BY DEF RowsOK
<1>2. run' \in [Runs -> Row]
  BY DEF RowsOK
<1>3. \A q \in Runs : (run'[q].state = "none" => run[q].state = "none")
  BY <1>1
<1>4. \A q \in Runs : (run[q].state = "none" => run'[q].state = "none")
  BY <1>1
<1>5. \A q \in Runs : run[q].sent => run'[q].sent
  BY <1>1
<1>6. \A q \in Runs : run'[q].state \in Fresh => ~ run'[q].sent
  BY <1>1 DEF RowsOK
<1>. QED  BY <1>2, <1>3, <1>4, <1>5, <1>6 DEF RowsOK

\* ReleaseEnhancementQuota.
LEMMA ReleaseTyped ==
    ASSUME RowsOK, NEW r \in Runs, NEW won \in BOOLEAN, reservation' = ReleasedBy(r, won)
    PROVE  /\ reservation' \in [Runs -> Reservations]
           /\ \A q \in Runs : /\ reservation[q] = "none" => reservation'[q] = "none"
                              /\ reservation'[q] = "none" => reservation[q] = "none"
BY DEF RowsOK, ReleasedBy, Reservations

\* A pass goes on with a plan.
LEMMA GoesOnKeeps ==
    ASSUME PassesOK, NEW w \in Workers, worker[w].pc \in {"probe", "write"},
           NEW plan, Shaped(plan), Needs(plan, "verify") => worker[w].state \in Sent,
           GoesOn(w, plan)
    PROVE  /\ PassesOK'
           /\ \A v \in Workers \ {w} : worker'[v] = worker[v]
           /\ worker'[w].pc \in {"write", "recheck"}
           /\ worker'[w].pc = "write" => /\ worker'[w].plan = plan
                                         /\ worker'[w].run = worker[w].run
<1>1. /\ worker[w] \in Pass /\ worker[w].run \in Runs /\ plan \in Seq(Steps)
  BY DEF PassesOK, Working, Shaped
<1>2. CASE plan = << >>
  <2>. DEFINE x == [Off EXCEPT !.pc = "recheck"]
  <2>1. worker' = [worker EXCEPT ![w] = x]
    BY <1>2 DEF GoesOn
  <2>2. x = [pc |-> "recheck", run |-> NoRun, state |-> "none", count |-> 0, plan |-> plan]
    BY <1>2 DEF Off
  <2>3. x \in Pass
    BY <1>1, <2>2 DEF Pass
  <2>4. x.pc = "recheck" /\ x.run = NoRun
    BY <2>2
  <2>. HIDE DEF x
  <2>5. Working(x)
    BY <2>4 DEF Working
  <2>. QED  BY <2>1, <2>3, <2>4, <2>5 DEF PassesOK
<1>3. CASE plan # << >>
  <2>. DEFINE st == IF Needs(plan, "verify") THEN worker[w].state ELSE "none"
              ct == IF Needs(plan, "no_match") THEN worker[w].count ELSE 0
              x == [worker[w] EXCEPT !.pc = "write", !.plan = plan, !.state = st, !.count = ct]
  <2>1. worker' = [worker EXCEPT ![w] = x]
    BY <1>3 DEF GoesOn
  <2>2. /\ st \in Active \union {"none"} /\ ct \in 0..2
        /\ Needs(plan, "verify") => st \in Sent
    BY <1>1 DEF Pass
  <2>. HIDE DEF st, ct
  <2>3. x \in Pass
    BY <1>1, <2>2, Zenon DEF Pass
  <2>4. x.pc = "write" /\ x.plan = plan /\ x.run = worker[w].run /\ x.state = st
    BY <1>1 DEF Pass
  <2>. HIDE DEF x
  <2>5. Working(x)
    BY <1>1, <1>3, <2>2, <2>4 DEF Working
  <2>. QED  BY <2>1, <2>3, <2>4, <2>5 DEF PassesOK
<1>. QED  BY <1>2, <1>3

\* The writes after the first one.
LEMMA RestOfPlan ==
    ASSUME NEW p, Shaped(p), p # << >>
    PROVE  /\ Shaped(Tail(p))
           /\ Needs(Tail(p), "verify") => Needs(p, "verify")
           /\ Head(p) # "mark" => Calm(Tail(p))
BY DEF Shaped, Needs, Calm

LEMMA CalmJoins == ASSUME NEW p, NEW q, Calm(p), Calm(q) PROVE Calm(p \o q)
BY DEF Calm

-----------------------------------------------------------------------------
(***************************************************************************)
(* TypeInv is inductive.                                                   *)
(***************************************************************************)
LEMMA OffTyped == /\ Off \in Pass
                  /\ Off = [pc |-> "off", run |-> NoRun, state |-> "none", count |-> 0,
                            plan |-> << >>]
<1>1. << >> \in Seq(Steps)
  OBVIOUS
<1>. QED  BY <1>1 DEF Off, Pass

LEMMA InitTyped == Init => TypeInv
<1>. SUFFICES ASSUME Init PROVE TypeInv
  OBVIOUS
<1>1. NoRow \in Row /\ NoRow.state = "none" /\ ~ NoRow.sent
  BY CompilationAssumption DEF NoRow, Row, RunStates, Recovery
<1>2. PICK b \in BOOLEAN : upstream = [state |-> "idle", queue |-> {}, done |-> {},
                                       terminal |-> b, artifacts |-> b]
  BY Zenon DEF Init
<1>3. upstream.done = {} /\ upstream \in Upstream
  BY <1>2 DEF Upstream
<1>4. RowsOK
  BY <1>1, <1>3 DEF Init, RowsOK, Reservations
<1>5. PassesOK
  <2>. Off.pc = "off" /\ Off.run = NoRun
    BY OffTyped
  <2>. QED  BY OffTyped DEF Init, PassesOK, Working
<1>6. RestOK
  BY <1>3, CompilationAssumption DEF Init, RestOK, Call
<1>. QED  BY <1>4, <1>5, <1>6 DEF TypeInv

\* What a step that leaves the rows keeps of them.
LEMMA RowsKept ==
    ASSUME RowsOK, run' = run, reservation' = reservation,
           \A r \in Runs : trigger'[r].pc \in {"todo", "create"}
                             => trigger[r].pc \in {"todo", "create"},
           \A r \in upstream'.done : r \in upstream.done \/ run[r].sent
    PROVE  RowsOK'
BY DEF RowsOK

LEMMA TriggerTyped ==
    ASSUME TypeInv, NEW r \in Runs, Trigger(r)
    PROVE  TypeInv'
<1>1. RowsOK /\ PassesOK /\ RestOK
  BY DEF TypeInv
<1>2. trigger[r] \in Call /\ run[r] \in Row
  BY <1>1 DEF RestOK, RowsOK
<1>3. ASSUME NEW of \in Runs \union {NoRun}, TriggerReads(r, of) PROVE TypeInv'
  <2>1. of # NoRun => of \in Runs /\ run[of] \in Row
    BY <1>1 DEF RowsOK
  <2>2. (IF of = NoRun THEN source ELSE run[of].manifest) \in 0..MaxFaults
    BY <1>1, <2>1, CompilationAssumption DEF RestOK, Row
  <2>3. PICK m \in 0..MaxFaults :
           trigger' = [trigger EXCEPT ![r] = [pc |-> "create", of |-> of, manifest |-> m]]
    BY <1>3, <2>2, Zenon DEF TriggerReads
  <2>4. trigger' \in [Runs -> Call]
    BY <1>1, <2>3 DEF RestOK, Call
  <2>5. RowsOK'
    BY <1>1, <1>3, <2>3 DEF RowsOK, TriggerReads, RestOK
  <2>6. RestOK'
    BY <1>1, <1>3, <2>4 DEF RestOK, TriggerReads, history
  <2>. QED  BY <1>1, <1>3, <2>5, <2>6 DEF TypeInv, PassesOK, TriggerReads
<1>4. CASE CreateCompilationRun(r)
  <2>. DEFINE t == trigger[r]
              ok == ActiveRuns = {} /\ (t.of # NoRun => run[t.of].state = "reconciled")
  <2>1. t.pc = "create" /\ run[r].state = "none" /\ ~ run[r].sent /\ r \notin upstream.done
    BY <1>1, <1>4 DEF CreateCompilationRun, RowsOK, Fresh
  <2>2. trigger' = [trigger EXCEPT ![r].pc = IF ok THEN "schedule" ELSE "done"]
    BY <1>4 DEF CreateCompilationRun
  <2>3. /\ trigger' \in [Runs -> Call] /\ trigger'[r].pc \in {"schedule", "done"}
        /\ \A q \in Runs \ {r} : trigger'[q] = trigger[q]
    BY <1>1, <2>2 DEF RestOK, Call
  <2>4. RestOK'
    BY <1>1, <1>4, <2>3 DEF RestOK, CreateCompilationRun, history
  <2>5. CASE ~ ok
    <3>1. run' = run /\ reservation' = reservation /\ upstream' = upstream
      BY <1>4, <2>5 DEF CreateCompilationRun
    <3>2. RowsOK'
      BY <1>1, <2>3, <3>1 DEF RowsOK
    <3>. QED  BY <1>1, <1>4, <2>4, <3>2 DEF TypeInv, PassesOK, CreateCompilationRun
  <2>6. CASE ok
    <3>. DEFINE x == [NoRow EXCEPT !.state = "accepted", !.manifest = t.manifest, !.of = t.of]
                y(q) == [run[q] EXCEPT !.recovery = "replacement"]
    <3>1. /\ run' = [q \in Runs |-> IF q = r THEN x ELSE IF q = t.of THEN y(q) ELSE run[q]]
          /\ reservation' = [reservation EXCEPT ![r] = "pending"]
      BY <1>4, <2>6 DEF CreateCompilationRun, Reserved
    <3>2. x \in Row /\ x.state = "accepted" /\ ~ x.sent
      <4>1. NoRow \in Row /\ ~ NoRow.sent
        BY CompilationAssumption DEF NoRow, Row, RunStates, Recovery
      <4>2. t.manifest \in 0..MaxFaults /\ t.of \in Runs \union {NoRun}
        BY <1>2 DEF Call
      <4>. QED  BY <4>1, <4>2, Zenon DEF Row, RunStates, Active
    <3>3. \A q \in Runs : /\ y(q) \in Row /\ y(q).state = run[q].state
                          /\ (y(q).sent => run[q].sent) /\ (run[q].sent => y(q).sent)
      BY <1>1 DEF RowsOK, Row, Recovery
    <3>. HIDE DEF x, y
    <3>4. run' \in [Runs -> Row] /\ reservation' \in [Runs -> Reservations]
      BY <1>1, <3>1, <3>2, <3>3 DEF RowsOK, Reservations
    <3>5. run'[r].state = "accepted" /\ ~ run'[r].sent /\ reservation'[r] = "pending"
      BY <1>1, <3>1, <3>2 DEF RowsOK
    <3>6. \A q \in Runs \ {r} : /\ run'[q].state = run[q].state
                                /\ (run'[q].sent => run[q].sent) /\ (run[q].sent => run'[q].sent)
                                /\ reservation'[q] = reservation[q]
      BY <1>1, <3>1, <3>3 DEF RowsOK
    <3>7. upstream' = upstream /\ upstream.done \subseteq Runs
      BY <1>1, <1>4 DEF CreateCompilationRun, RestOK, Upstream
    <3>8. RowsOK'
      <4>1. \A q \in Runs : /\ run'[q].state = "none" => reservation'[q] = "none"
                            /\ reservation'[q] = "none" => run'[q].state = "none"
        BY <1>1, <3>5, <3>6 DEF RowsOK
      <4>2. \A q \in Runs : run'[q].state \in Fresh => ~ run'[q].sent
        BY <1>1, <3>5, <3>6 DEF RowsOK
      <4>3. \A q \in Runs : trigger'[q].pc \in {"todo", "create"} => run'[q].state = "none"
        BY <1>1, <2>3, <3>6 DEF RowsOK
      <4>4. \A q \in upstream'.done : run'[q].sent
        BY <1>1, <2>1, <3>6, <3>7 DEF RowsOK
      <4>. QED  BY <3>4, <4>1, <4>2, <4>3, <4>4 DEF RowsOK
    <3>. QED  BY <1>1, <1>4, <2>4, <3>8 DEF TypeInv, PassesOK, CreateCompilationRun
  <2>. QED  BY <2>5, <2>6
<1>5. CASE TriggerSchedules(r)
  <2>1. /\ trigger' \in [Runs -> Call] /\ trigger'[r].pc = "done"
        /\ \A q \in Runs \ {r} : trigger'[q] = trigger[q]
    BY <1>1, <1>5 DEF RestOK, Call, TriggerSchedules
  <2>2. RowsOK'
    BY <1>1, <1>5, <2>1 DEF RowsOK, TriggerSchedules
  <2>3. RestOK'
    BY <1>1, <1>5, <2>1 DEF RestOK, TriggerSchedules
  <2>. QED  BY <1>1, <1>5, <2>2, <2>3 DEF TypeInv, PassesOK, TriggerSchedules
<1>6. CASE CancelRunAfterSchedulingFailure(r)
  <2>0. PICK won \in BOOLEAN :
              /\ won => run[r].state = "accepted"
              /\ run' = [run EXCEPT ![r].state = IF won THEN "cancelled" ELSE @]
              /\ reservation' = ReleasedBy(r, won)
    BY <1>6, Zenon DEF CancelRunAfterSchedulingFailure
  <2>1. /\ trigger' \in [Runs -> Call] /\ trigger'[r].pc = "done"
        /\ \A q \in Runs \ {r} : trigger'[q] = trigger[q]
    BY <1>1, <1>6 DEF RestOK, Call, CancelRunAfterSchedulingFailure
  <2>. DEFINE x == [run[r] EXCEPT !.state = IF won THEN "cancelled" ELSE run[r].state]
  <2>2. run' = [run EXCEPT ![r] = x]
    BY <2>0
  <2>3. /\ x \in Row /\ (x.sent => run[r].sent) /\ (run[r].sent => x.sent)
        /\ x.state = IF won THEN "cancelled" ELSE run[r].state
    BY <1>2 DEF Row, RunStates, Active, Ended
  <2>. HIDE DEF x
  <2>5. x.state \in Fresh => ~ x.sent
    BY <1>1, <2>0, <2>3 DEF RowsOK, Fresh
  <2>6. \A q \in Runs : trigger'[q].pc \in {"todo", "create"}
              => trigger[q].pc \in {"todo", "create"}
    BY <2>1
  <2>7. upstream' = upstream /\ upstream.done \subseteq Runs
    BY <1>1, <1>6 DEF CancelRunAfterSchedulingFailure, RestOK, Upstream
  <2>8. RowsOK'
    <3>1. /\ run[r].state = "none" => x.state = "none"
          /\ x.state = "none" => run[r].state = "none"
      BY <2>0, <2>3
    <3>. QED
      BY <1>1, <2>0, <2>2, <2>3, <2>5, <2>6, <2>7, <3>1, ReleaseTyped, RowStored, Zenon
  <2>9. RestOK'
    BY <1>1, <1>6, <2>1, CompilationAssumption
       DEF RestOK, CancelRunAfterSchedulingFailure, Fault
  <2>. QED  BY <1>1, <1>6, <2>8, <2>9
               DEF TypeInv, PassesOK, CancelRunAfterSchedulingFailure
<1>7. CASE TriggerDies(r)
  <2>1. /\ trigger' \in [Runs -> Call] /\ trigger'[r].pc = "done"
        /\ \A q \in Runs \ {r} : trigger'[q] = trigger[q]
    BY <1>1, <1>7 DEF RestOK, Call, TriggerDies
  <2>2. RowsOK'
    BY <1>1, <1>7, <2>1 DEF RowsOK, TriggerDies
  <2>3. faults' \in 0..MaxFaults /\ source <= faults'
    BY <1>1, <1>7, CompilationAssumption DEF RestOK, TriggerDies, Fault
  <2>4. RestOK'
    BY <1>1, <1>7, <2>1, <2>3 DEF RestOK, TriggerDies, history
  <2>. QED  BY <1>1, <1>7, <2>2, <2>4 DEF TypeInv, PassesOK, TriggerDies
<1>. QED  BY <1>3, <1>4, <1>5, <1>6, <1>7 DEF Trigger

LEMMA CancelTyped ==
    ASSUME TypeInv, NEW c \in Cancels, CancelReads(c) \/ CancelCompilationRun(c)
    PROVE  TypeInv'
<1>1. RowsOK /\ PassesOK /\ RestOK
  BY DEF TypeInv
<1>2. CASE CancelReads(c)
  <2>1. PICK r \in Runs : cancel' = [cancel EXCEPT ![c] = [pc |-> "write", run |-> r]]
    BY <1>2, Zenon DEF CancelReads
  <2>2. RestOK'
    BY <1>1, <1>2, <2>1 DEF RestOK, CancelReads, history
  <2>3. RowsOK'
    BY <1>1, <1>2, RowsKept DEF CancelReads
  <2>. QED  BY <1>1, <1>2, <2>2, <2>3 DEF TypeInv, PassesOK, CancelReads
<1>3. CASE CancelCompilationRun(c)
  <2>. DEFINE r == cancel[c].run
              x == [run[r] EXCEPT !.state = IF run[r].state = "accepted" THEN "cancelled"
                                            ELSE run[r].state]
  <2>1. r \in Runs /\ run[r] \in Row
    BY <1>1, <1>3 DEF CancelCompilationRun, RestOK, RowsOK
  <2>2. run' = [run EXCEPT ![r] = x]
    BY <1>3 DEF CancelCompilationRun, Cancellable
  <2>3. /\ x \in Row /\ (x.sent => run[r].sent) /\ (run[r].sent => x.sent)
        /\ x.state = IF run[r].state = "accepted" THEN "cancelled" ELSE run[r].state
    BY <2>1 DEF Row, RunStates, Active, Ended
  <2>. HIDE DEF x
  <2>4. PICK won \in BOOLEAN : reservation' = ReleasedBy(r, won)
    BY <1>3, Zenon DEF CancelCompilationRun, Cancellable
  <2>5. x.state \in Fresh => ~ x.sent
    BY <1>1, <2>1, <2>3 DEF RowsOK, Fresh
  <2>6. upstream' = upstream /\ upstream.done \subseteq Runs /\ trigger' = trigger
    BY <1>1, <1>3 DEF CancelCompilationRun, RestOK, Upstream
  <2>7. cancel' = [cancel EXCEPT ![c] = [pc |-> "done", run |-> NoRun]]
    BY <1>3 DEF CancelCompilationRun
  <2>8. RestOK'
    BY <1>1, <1>3, <2>7 DEF RestOK, CancelCompilationRun
  <2>9. worker' = worker
    BY <1>3 DEF CancelCompilationRun
  <2>. HIDE DEF r
  <2>10. RowsOK'
    BY <1>1, <2>1, <2>2, <2>3, <2>4, <2>5, <2>6, ReleaseTyped, RowStored, Zenon
  <2>. QED  BY <1>1, <2>8, <2>9, <2>10 DEF TypeInv, PassesOK
<1>. QED  BY <1>2, <1>3

LEMMA RecoverTyped ==
    ASSUME TypeInv, NEW r \in Runs, Recover(r)
    PROVE  TypeInv'
<1>1. RowsOK /\ PassesOK /\ RestOK
  BY DEF TypeInv
<1>2. run[r] \in Row /\ upstream.done \subseteq Runs
  BY <1>1 DEF RowsOK, RestOK, Upstream
<1>3. CASE ConfirmIsRequested(r) \/ ConfirmReads(r)
  <2>1. RowsOK'
    BY <1>1, <1>3, RowsKept DEF ConfirmIsRequested, ConfirmReads
  <2>2. RestOK'
    BY <1>1, <1>3 DEF RestOK, ConfirmIsRequested, ConfirmReads, history
  <2>. QED  BY <1>1, <1>3, <2>1, <2>2
               DEF TypeInv, PassesOK, ConfirmIsRequested, ConfirmReads
<1>4. CASE ConfirmIsRecorded(r) \/ ReplacementIsApproved(r)
  <2>1. PICK e \in Recovery : run' = [run EXCEPT ![r] = [run[r] EXCEPT !.recovery = e]]
    <3>1. CASE ConfirmIsRecorded(r)
      <4>. DEFINE e == IF run[r].state = "unknown" THEN "needs_approval" ELSE run[r].recovery
      <4>1. e \in Recovery
        BY <1>2 DEF Row, Recovery
      <4>. QED  BY <3>1, <4>1, Zenon DEF ConfirmIsRecorded
    <3>2. CASE ReplacementIsApproved(r)
      BY <3>2 DEF ReplacementIsApproved, Recovery
    <3>. QED  BY <1>4, <3>1, <3>2
  <2>. DEFINE x == [run[r] EXCEPT !.recovery = e]
  <2>2. /\ x \in Row /\ x.state = run[r].state
        /\ (x.sent => run[r].sent) /\ (run[r].sent => x.sent)
    BY <1>2 DEF Row
  <2>. HIDE DEF x
  <2>3. UNCHANGED <<reservation, trigger, upstream, worker>>
    BY <1>4 DEF ConfirmIsRecorded, ReplacementIsApproved
  <2>4. RestOK'
    BY <1>1, <1>4 DEF RestOK, ConfirmIsRecorded, ReplacementIsApproved, history
  <2>5. x.state \in Fresh => ~ x.sent
    BY <1>1, <2>2 DEF RowsOK
  <2>6. RowsOK'
    <3>1. run' = [run EXCEPT ![r] = x]
      BY <2>1 DEF x
    <3>2. reservation' \in [Runs -> Reservations]
      BY <1>1, <2>3 DEF RowsOK
    <3>. QED  BY <1>1, <1>2, <2>2, <2>3, <2>5, <3>1, <3>2, RowStored, Zenon
  <2>. QED  BY <1>1, <2>3, <2>4, <2>6 DEF TypeInv, PassesOK
<1>5. CASE ConfirmDownstreamAbsent(r)
  <2>. DEFINE x == [run[r] EXCEPT !.state = "reconciled", !.recovery = "absent"]
  <2>1. /\ x \in Row /\ x.state = "reconciled" /\ (run[r].sent => x.sent)
    BY <1>2, Zenon DEF Row, RunStates, Ended, Recovery
  <2>2. IF run[r].state = "unknown" THEN run' = [run EXCEPT ![r] = x] ELSE run' = run
    BY <1>5 DEF ConfirmDownstreamAbsent
  <2>. HIDE DEF x
  <2>3. PICK won \in BOOLEAN : reservation' = ReleasedBy(r, won)
    BY <1>5, Zenon DEF ConfirmDownstreamAbsent
  <2>4. UNCHANGED <<trigger, upstream, worker>>
    BY <1>5 DEF ConfirmDownstreamAbsent
  <2>5. seen' \in [Runs -> 0..3]
    BY <1>1, <1>5 DEF RestOK, ConfirmDownstreamAbsent, Outdated, Saw
  <2>6. RestOK'
    BY <1>1, <1>5, <2>5 DEF RestOK, ConfirmDownstreamAbsent
  <2>7. RowsOK'
    <3>1. CASE run[r].state = "unknown"
      <4>1. run' = [run EXCEPT ![r] = x]
        BY <2>2, <3>1
      <4>2. x.state \notin Fresh /\ x.state # "none"
        BY <2>1 DEF Fresh
      <4>. QED  BY <1>1, <1>2, <2>1, <2>3, <2>4, <3>1, <4>1, <4>2, ReleaseTyped,
                   RowStored, Zenon
    <3>2. CASE run[r].state # "unknown"
      BY <1>1, <2>2, <2>3, <2>4, <3>2, ReleaseTyped DEF RowsOK
    <3>. QED  BY <3>1, <3>2
  <2>. QED  BY <1>1, <2>4, <2>6, <2>7 DEF TypeInv, PassesOK
<1>. QED  BY <1>3, <1>4, <1>5 DEF Recover

LEMMA UpstreamTyped ==
    ASSUME TypeInv,
           UpstreamStarts \/ UpstreamCompletes \/ UpstreamIdles \/ EditSource \/ ScanIsRefused
    PROVE  TypeInv'
<1>1. RowsOK /\ PassesOK /\ RestOK
  BY DEF TypeInv
<1>2. /\ upstream' \in Upstream
      /\ \A r \in upstream'.done : r \in upstream.done \/ run[r].sent
  <2>0. upstream \in Upstream
    BY <1>1 DEF RestOK
  <2>1. CASE UpstreamStarts
    BY <2>0, <2>1, Zenon DEF UpstreamStarts, Upstream
  <2>2. CASE UpstreamCompletes
    <3>. DEFINE ended == {r \in Runs : run[r].sent}
    <3>1. PICK found \in BOOLEAN, parsed \in BOOLEAN :
             upstream' = [upstream EXCEPT !.state = "completed", !.terminal = parsed,
                                          !.artifacts = found, !.done = ended]
      BY <2>2, Zenon DEF UpstreamCompletes
    <3>2. ended \subseteq Runs /\ \A r \in ended : run[r].sent
      OBVIOUS
    <3>. HIDE DEF ended
    <3>. QED  BY <2>0, <3>1, <3>2, Zenon DEF Upstream
  <2>3. CASE UpstreamIdles
    BY <2>0, <2>3 DEF UpstreamIdles, Upstream
  <2>4. CASE EditSource \/ ScanIsRefused
    BY <2>0, <2>4 DEF EditSource, ScanIsRefused
  <2>. QED  BY <2>1, <2>2, <2>3, <2>4
<1>3. run' = run /\ reservation' = reservation /\ trigger' = trigger /\ worker' = worker
  BY Zenon DEF UpstreamStarts, UpstreamCompletes, UpstreamIdles, EditSource, ScanIsRefused
<1>4. /\ faults' \in 0..MaxFaults /\ source' \in Nat /\ source' <= faults'
  <2>1. \/ faults' = faults /\ source' = source
        \/ Fault /\ source' \in {source, source + 1}
    BY Zenon DEF UpstreamStarts, UpstreamCompletes, UpstreamIdles, EditSource, ScanIsRefused
  <2>2. source \in Nat /\ faults \in 0..MaxFaults /\ source <= faults
    BY <1>1 DEF RestOK
  <2>. QED  BY <2>1, <2>2, CompilationAssumption DEF Fault
<1>5. RestOK'
  BY <1>1, <1>2, <1>4, Zenon
  DEF UpstreamStarts, UpstreamCompletes, UpstreamIdles, EditSource, ScanIsRefused, RestOK, history
<1>6. RowsOK'
  BY <1>1, <1>2, <1>3, RowsKept
<1>. QED  BY <1>1, <1>3, <1>5, <1>6 DEF TypeInv, PassesOK

(***************************************************************************)
(* The passes.  A pass that was not about to call RAGFlow does not go on   *)
(* with a plan that begins with the call.                                  *)
(***************************************************************************)
Begins(p, state) == /\ Shaped(p)
                    /\ p # << >> => Head(p) # "ingest"
                    /\ Needs(p, "verify") => state \in Sent

Plain(p) == Calm(p) /\ ~ Needs(p, "verify")

LEMMA CalmBegins ==
    ASSUME NEW p, Calm(p), NEW state, Needs(p, "verify") => state \in Sent
    PROVE  Begins(p, state)
BY DEF Calm, Shaped, Begins

LEMMA OneStep ==
    ASSUME NEW a \in Steps
    PROVE  /\ a # "ingest" => Calm(<<a>>)
           /\ a # "ingest" /\ a # "verify" => Plain(<<a>>)
BY DEF Calm, Needs, Plain

LEMMA PlainJoins == ASSUME NEW p, NEW q, Plain(p), Plain(q) PROVE Plain(p \o q)
<1>1. Calm(p \o q) /\ Calm(p) /\ Calm(q)
  BY CalmJoins DEF Plain
<1>. QED  BY <1>1 DEF Plain, Needs, Calm

LEMMA TwoSteps ==
    ASSUME NEW a \in Steps, NEW b \in Steps, a # "ingest", b # "ingest"
    PROVE  /\ Calm(<<a, b>>)
           /\ a # "verify" /\ b # "verify" => Plain(<<a, b>>)
BY DEF Calm, Needs, Plain

LEMMA RunningPlain ==
    ASSUME NEW r, NEW state \in {"dispatched", "unknown"}
    PROVE  Plain(RunningPlan(r, state))
<1>1. Plain(<<state>>) /\ Plain(Drift)
  BY OneStep, TwoSteps DEF Drift, Steps, Stores
<1>2. Plain(<< >>)
  BY DEF Plain, Calm, Needs
<1>. QED  BY <1>1, <1>2, PlainJoins DEF RunningPlan

LEMMA PlansBegin ==
    ASSUME NEW r, NEW state \in Active
    PROVE  /\ Begins(ProbePlan(r, state), state)
           /\ \A p \in ProbeFaultPlans(r, state) : Begins(p, state)
<1>. DEFINE running == IF upstream.state = "running"
                       THEN {RunningPlan(r, "unknown"), <<"unknown", "dispatched">>} ELSE {}
<1>0. /\ {"mark", "ingest", "meter", "verify", "dispatched", "unknown", "matched",
          "no_match", "failed", "stale", "drift"} \subseteq Steps
  BY DEF Steps, Stores, Verdicts
<1>1. \A p \in running : Plain(p)
  BY <1>0, RunningPlain, TwoSteps
<1>. HIDE DEF running
<1>5. \A p : Plain(p) => Begins(p, state)
  BY CalmBegins DEF Plain
<1>6. /\ Plain(<<"matched">>) /\ Plain(<<"failed">>) /\ Plain(<<"unknown">>)
      /\ Plain(<<"dispatched">>)
  BY <1>0, OneStep
<1>7. Plain(<< >>)
  BY DEF Plain, Calm, Needs
<1>2. CASE state = "accepted"
  <2>1. /\ ProbePlan(r, state) \in {<<"failed">>, <<"mark", "ingest", "meter">>}
        /\ ProbeFaultPlans(r, state) = {<< >>, <<"failed">>, <<"unknown">>}
    BY <1>2 DEF ProbePlan, DispatchPlan, ProbeFaultPlans
  <2>2. <<"mark", "ingest", "meter">> \in Seq(Steps)
    BY <1>0
  <2>3. Begins(<<"mark", "ingest", "meter">>, state)
    BY <2>2 DEF Begins, Shaped, Needs
  <2>. QED  BY <1>5, <1>6, <1>7, <2>1, <2>3
<1>3. CASE state = "dispatched"
  <2>1. ProbePlan(r, state) \in {RunningPlan(r, "dispatched"), <<"verify">>,
                                 <<"dispatched">>, <<"unknown">>}
    BY <1>3 DEF ProbePlan, DispatchedPlan
  <2>2. ProbeFaultPlans(r, state)
           \subseteq {<< >>, <<"failed">>, <<"unknown">>, <<"dispatched">>} \union running
    BY <1>3 DEF ProbeFaultPlans, running
  <2>3. Begins(<<"verify">>, state)
    BY <1>0, <1>3, OneStep, CalmBegins DEF Sent
  <2>. QED  BY <1>1, <1>5, <1>6, <1>7, <2>1, <2>2, <2>3, RunningPlain
<1>4. CASE state = "unknown"
  <2>1. ProbePlan(r, state) \in {<<"matched">> \o RunningPlan(r, "dispatched"), Drift,
                                 <<"matched", "dispatched">>, <<"matched", "verify">>,
                                 <<"no_match", "unknown">>}
    BY <1>4 DEF ProbePlan, UnknownPlan
  <2>2. ProbeFaultPlans(r, state)
           = {<< >>, <<"failed">>, <<"matched", "unknown">>}
                \union {<<"matched">> \o p : p \in running}
    BY <1>4 DEF ProbeFaultPlans, running
  <2>3. /\ Plain(Drift) /\ Plain(<<"matched", "dispatched">>)
        /\ Plain(<<"no_match", "unknown">>) /\ Plain(<<"matched", "unknown">>)
    BY <1>0, TwoSteps DEF Drift
  <2>4. Begins(<<"matched", "verify">>, state)
    BY <1>0, <1>4, TwoSteps, CalmBegins DEF Sent
  <2>5. \A p : Plain(p) => Plain(<<"matched">> \o p)
    BY <1>6, PlainJoins
  <2>. QED  BY <1>1, <1>5, <1>6, <1>7, <2>1, <2>2, <2>3, <2>4, <2>5, RunningPlain, Zenon
<1>. QED  BY <1>2, <1>3, <1>4 DEF Active

\* What a step that only adds to the faults keeps of the other variables.
LEMMA RestKept ==
    ASSUME RestOK, source' = source, faults' = faults \/ Fault,
           UNCHANGED <<ready, upstream, trigger, cancel, ingests, seen>>
    PROVE  RestOK'
<1>1. faults' \in 0..MaxFaults /\ source' <= faults'
  BY CompilationAssumption DEF RestOK, Fault
<1>. QED  BY <1>1 DEF RestOK

LEMMA PassMoves ==
    ASSUME PassesOK, NEW w \in Workers, NEW x \in Pass, Working(x),
           worker' = [worker EXCEPT ![w] = x]
    PROVE  PassesOK'
BY DEF PassesOK

LEMMA PassTyped ==
    ASSUME TypeInv, NEW w \in Workers,
           \/ PassStarts(w) \/ RecheckActive(w) \/ (w = Scanner /\ ScanFinishes)
           \/ RescheduleFails(w) \/ PassDies(w)
    PROVE  /\ TypeInv'
           /\ \A v \in Workers \ {w} : worker'[v] = worker[v]
           /\ worker'[w].pc # "write"
<1>1. RowsOK /\ PassesOK /\ RestOK
  BY DEF TypeInv
<1>2. worker[w] \in Pass /\ Working(worker[w])
  BY <1>1 DEF PassesOK
<1>3. UNCHANGED <<run, reservation, trigger, upstream>>
  BY Zenon DEF PassStarts, RecheckActive, ScanFinishes, RescheduleFails, PassDies
<1>4. RowsOK'
  BY <1>1, <1>3, RowsKept
<1>5. /\ source' = source /\ (faults' = faults \/ Fault)
      /\ UNCHANGED <<ready, upstream, trigger, cancel, ingests, seen>>
  BY Zenon DEF PassStarts, RecheckActive, ScanFinishes, RescheduleFails, PassDies, history
<1>6. RestOK'
  BY <1>1, <1>5, RestKept
<1>7. PICK x \in Pass : /\ worker' = [worker EXCEPT ![w] = x] /\ Working(x)
                        /\ x.pc # "write"
  <2>1. ASSUME NEW p \in {"off", "recheck", "finish", "done"}
        PROVE  /\ [Off EXCEPT !.pc = p] \in Pass
               /\ Working([Off EXCEPT !.pc = p]) /\ [Off EXCEPT !.pc = p].pc # "write"
    <3>. DEFINE x == [Off EXCEPT !.pc = p]
    <3>1. x \in Pass /\ x.pc = p /\ x.run = NoRun
      BY OffTyped, Zenon DEF Pass
    <3>. HIDE DEF x
    <3>2. Working(x) /\ x.pc # "write"
      BY <3>1 DEF Working
    <3>. QED  BY <3>1, <3>2 DEF x
  <2>2. ASSUME NEW p \in {"recheck", "finish"}, worker[w].pc \notin {"probe", "write"}
        PROVE  /\ [worker[w] EXCEPT !.pc = p] \in Pass
               /\ Working([worker[w] EXCEPT !.pc = p]) /\ [worker[w] EXCEPT !.pc = p].pc # "write"
    <3>. DEFINE x == [worker[w] EXCEPT !.pc = p]
    <3>1. x \in Pass /\ x.pc = p /\ x.run = NoRun
      BY <1>2, <2>2 DEF Pass, Working
    <3>. HIDE DEF x
    <3>2. Working(x) /\ x.pc # "write"
      BY <3>1 DEF Working
    <3>. QED  BY <3>1, <3>2 DEF x
  <2>3. CASE PassStarts(w)
    <3>1. CASE ActiveRuns = {}
      <4>1. /\ worker' = [worker EXCEPT ![w] = [worker[w] EXCEPT !.pc = "recheck"]]
            /\ worker[w].pc \notin {"probe", "write"}
        BY <2>3, <3>1 DEF PassStarts
      <4>. QED  BY <2>2, <4>1, Zenon
    <3>2. CASE ActiveRuns # {}
      <4>1. PICK r \in ActiveRuns :
               worker' = [worker EXCEPT ![w] = [Off EXCEPT !.pc = "probe", !.run = r,
                                             !.state = run[r].state, !.count = run[r].count]]
        BY <2>3, <3>2, Zenon DEF PassStarts
      <4>2. r \in Runs /\ run[r].state \in Active /\ run[r].count \in 0..2
        BY <1>1 DEF ActiveRuns, RowsOK, Row
      <4>. DEFINE x == [Off EXCEPT !.pc = "probe", !.run = r, !.state = run[r].state,
                                   !.count = run[r].count]
      <4>3. x \in Pass /\ x.pc = "probe" /\ x.run = r /\ x.state = run[r].state
        BY <4>2, OffTyped, Zenon DEF Pass
      <4>. HIDE DEF x
      <4>4. Working(x)
        BY <4>2, <4>3 DEF Working
      <4>. QED  BY <4>1, <4>3, <4>4, Zenon DEF x
    <3>. QED  BY <3>1, <3>2
  <2>4. CASE RecheckActive(w)
    <3>1. worker[w].pc \notin {"probe", "write"}
      BY <2>4 DEF RecheckActive
    <3>2. \/ worker' = [worker EXCEPT ![w] = [worker[w] EXCEPT !.pc = "finish"]]
          \/ worker' = [worker EXCEPT ![w]
                   = [Off EXCEPT !.pc = IF w = Scanner THEN "off" ELSE "done"]]
      BY <2>4 DEF RecheckActive, PassEnds
    <3>. QED  BY <2>1, <2>2, <3>1, <3>2, Zenon
  <2>5. CASE w = Scanner /\ ScanFinishes
    <3>1. worker' = [worker EXCEPT ![w] = Off]
      BY <2>5 DEF ScanFinishes
    <3>2. Off.pc = "off" /\ Off.run = NoRun
      BY OffTyped
    <3>. QED  BY <3>1, <3>2, OffTyped, Zenon DEF Working
  <2>6. CASE RescheduleFails(w) \/ PassDies(w)
    <3>1. worker' = [worker EXCEPT ![w]
                = [Off EXCEPT !.pc = IF w = Scanner THEN "off" ELSE "done"]]
      BY <2>6 DEF RescheduleFails, PassDies, PassEnds
    <3>. QED  BY <2>1, <3>1, Zenon
  <2>. QED  BY <2>3, <2>4, <2>5, <2>6
<1>8. PassesOK'
  BY <1>1, <1>7, PassMoves, Zenon
<1>. QED  BY <1>1, <1>4, <1>6, <1>7, <1>8 DEF TypeInv, PassesOK

Acts(w) == Probe(w) \/ Write(w) \/ MarkFails(w) \/ WriteFails(w)

\* A pass comes to call RAGFlow by its guarded update only.
LEMMA PassGoesOn ==
    ASSUME TypeInv, NEW w \in Workers, Acts(w)
    PROVE  /\ worker[w].pc \in {"probe", "write"}
           /\ \E plan : /\ GoesOn(w, plan) /\ Shaped(plan)
                        /\ Needs(plan, "verify") => worker[w].state \in Sent
                        /\ plan # << >> /\ Head(plan) = "ingest"
                              => MarkDispatched(w) /\ Markable(run[worker[w].run].state)
<1>. DEFINE p == worker[w].plan
            G(plan) == /\ GoesOn(w, plan) /\ Shaped(plan)
                       /\ Needs(plan, "verify") => worker[w].state \in Sent
                       /\ plan # << >> /\ Head(plan) = "ingest"
                             => MarkDispatched(w) /\ Markable(run[worker[w].run].state)
<1>1. worker[w] \in Pass /\ Working(worker[w])
  BY DEF TypeInv, PassesOK
<1>2. \A q : GoesOn(w, q) /\ Begins(q, worker[w].state) => G(q)
  BY DEF Begins
<1>3. /\ {"mark", "verify", "dispatched", "unknown", "confirmed", "stale", "drift", "project"}
            \subseteq Steps
  BY DEF Steps, Stores
<1>4. Begins(<<"unknown">>, worker[w].state) /\ Begins(<<"confirmed">>, worker[w].state)
  BY <1>3, OneStep, CalmBegins DEF Plain
<1>5. Begins(<< >>, worker[w].state)
  BY DEF Begins, Shaped, Needs
<1>6. ASSUME worker[w].pc = "write"
      PROVE  /\ p # << >> /\ Shaped(p) /\ Shaped(Tail(p))
             /\ Needs(Tail(p), "verify") => worker[w].state \in Sent
             /\ Head(p) # "mark" => Begins(Tail(p), worker[w].state)
  <2>1. p # << >> /\ Shaped(p) /\ (Needs(p, "verify") => worker[w].state \in Sent)
    BY <1>1, <1>6 DEF Working
  <2>. QED  BY <2>1, RestOfPlan, CalmBegins
<1>. HIDE DEF p, G
<1>7. CASE Probe(w)
  <2>1. worker[w].pc = "probe" /\ worker[w].state \in Active
    BY <1>1, <1>7 DEF Probe, Working
  <2>2. \E plan : GoesOn(w, plan) /\ Begins(plan, worker[w].state)
    BY <1>7, <2>1, PlansBegin DEF Probe
  <2>. QED  BY <1>2, <2>1, <2>2 DEF G
<1>8. CASE MarkFails(w)
  <2>1. worker[w].pc = "write" /\ GoesOn(w, <<"unknown">>)
    BY <1>8 DEF MarkFails, IsNext
  <2>. QED  BY <1>2, <1>4, <2>1 DEF G
<1>9. CASE WriteFails(w)
  <2>1. worker[w].pc = "write" /\ GoesOn(w, << >>)
    BY <1>9 DEF WriteFails, IsNext
  <2>. QED  BY <1>2, <1>5, <2>1 DEF G
<1>10. CASE MarkDispatched(w)
  <2>1. worker[w].pc = "write"
    BY <1>10 DEF MarkDispatched, IsNext
  <2>2. CASE Markable(run[worker[w].run].state)
    <3>1. GoesOn(w, Tail(p))
      BY <1>10, <2>2 DEF MarkDispatched, p
    <3>. QED  BY <1>6, <1>10, <2>1, <2>2, <3>1
  <2>3. CASE ~ Markable(run[worker[w].run].state)
    <3>1. GoesOn(w, << >>)
      BY <1>10, <2>3 DEF MarkDispatched
    <3>. QED  BY <1>2, <1>5, <2>1, <3>1 DEF G
  <2>. QED  BY <2>2, <2>3
<1>11. CASE IngestDocuments(w)
  <2>1. /\ worker[w].pc = "write" /\ Head(p) = "ingest"
        /\ GoesOn(w, Tail(p)) \/ GoesOn(w, <<"unknown">>)
    BY <1>11 DEF IngestDocuments, IsNext, p
  <2>. QED  BY <1>2, <1>4, <1>6, <2>1 DEF G
<1>12. CASE RecordCostMetric(w) \/ SaveRecoveryEvidence(w) \/ MarkArtifactsStale(w)
  <2>1. worker[w].pc = "write" /\ Head(p) # "mark" /\ GoesOn(w, Tail(p))
    BY <1>12, Zenon
       DEF RecordCostMetric, SaveRecoveryEvidence, MarkArtifactsStale, IsNext, Verdicts, p
  <2>. QED  BY <1>2, <1>6, <2>1 DEF G
<1>13. CASE StoreCompilationAudit(w)
  <2>1. /\ worker[w].pc = "write" /\ Head(p) # "mark"
        /\ GoesOn(w, Tail(p)) \/ GoesOn(w, << >>)
    BY <1>13, Zenon DEF StoreCompilationAudit, IsNext, Stores, p
  <2>. QED  BY <1>2, <1>5, <1>6, <2>1 DEF G
<1>14. CASE VerifyPostRunSource(w)
  <2>1. worker[w].pc = "write" /\ Head(p) = "verify"
    BY <1>14 DEF VerifyPostRunSource, IsNext, p
  <2>2. worker[w].state \in Sent
    <3>1. p # << >> /\ p \in Seq(Steps) /\ (Needs(p, "verify") => worker[w].state \in Sent)
      BY <1>1, <2>1 DEF Working, Shaped, p
    <3>. QED  BY <2>1, <3>1 DEF Needs
  <2>3. /\ Plain(Drift) /\ Plain(<<worker[w].state>>) /\ Plain(<<"project">>)
        /\ Plain(<<"unknown", "project">>)
    BY <1>3, <2>2, OneStep, TwoSteps DEF Drift, Sent
  <2>4. /\ Plain(Drift \o <<"project">>) /\ Plain(<<worker[w].state>> \o <<"project">>)
    BY <2>3, PlainJoins
  <2>5. \/ GoesOn(w, Drift \o <<"project">>)
        \/ GoesOn(w, <<worker[w].state>> \o <<"project">>)
        \/ GoesOn(w, <<"unknown", "project">>)
    BY <1>14 DEF VerifyPostRunSource
  <2>6. \A q : Plain(q) => Begins(q, worker[w].state)
    BY CalmBegins DEF Plain
  <2>. QED  BY <1>2, <2>1, <2>3, <2>4, <2>5, <2>6 DEF G
<1>15. CASE ProjectArtifacts(w)
  <2>1. /\ worker[w].pc = "write"
        /\ GoesOn(w, <<"confirmed">>) \/ GoesOn(w, <<"unknown">>)
    BY <1>15 DEF ProjectArtifacts, IsNext
  <2>. QED  BY <1>2, <1>4, <2>1 DEF G
<1>16. \/ Probe(w) \/ MarkFails(w) \/ WriteFails(w) \/ MarkDispatched(w) \/ IngestDocuments(w)
       \/ RecordCostMetric(w) \/ SaveRecoveryEvidence(w) \/ MarkArtifactsStale(w)
       \/ StoreCompilationAudit(w) \/ VerifyPostRunSource(w) \/ ProjectArtifacts(w)
  BY DEF Acts, Write
<1>. QED
  BY <1>7, <1>8, <1>9, <1>10, <1>11, <1>12, <1>13, <1>14, <1>15, <1>16, Zenon

\* saveCompilationRecoveryEvidence and storeCompilationAudit, as changes of a row.
SavedAs(r, n, e) ==
    /\ n \in 0..2 /\ e \in Recovery
    /\ run[r].state = "unknown"
    /\ run' = [run EXCEPT ![r] = [run[r] EXCEPT !.count = n, !.recovery = e]]
    /\ \/ n = 0 /\ seen' = Saw(r, 0)
       \/ seen' = Saw(r, 3)
       \/ /\ n = 1 \/ (n = 2 /\ run[r].count # 0)
          /\ seen' = Saw(r, IF seen[r] = 0 THEN 1 ELSE 2)

StoredAs(r, to, b) ==
    /\ to \in Sent \union {"confirmed", "failed"} /\ b \in BOOLEAN
    /\ Storable(run[r].state)
    /\ run' = [run EXCEPT ![r] = [run[r] EXCEPT !.changed = b, !.state = to]]
    /\ \/ reservation' = reservation
       \/ to = "failed" /\ reservation' = ReleasedBy(r, TRUE)
    /\ \/ seen' = seen \/ seen' = Saw(r, 3)
       \/ ~ (run[r].count > 0) /\ seen' = Saw(r, 0)

LEMMA SaveWrites ==
    ASSUME NEW w, SaveRecoveryEvidence(w)
    PROVE  \/ run' = run /\ seen' = seen
           \/ \E n, e : SavedAs(worker[w].run, n, e)
<1>. DEFINE r == worker[w].run
            verdict == Head(worker[w].plan)
<1>1. CASE run[r].state # "unknown"
  BY <1>1 DEF SaveRecoveryEvidence
<1>2. CASE run[r].state = "unknown"
  <2>1. PICK n \in NextCount(worker[w].count, verdict) :
           /\ run' = [run EXCEPT ![r] = [run[r] EXCEPT !.count = n,
                !.recovery = IF HasConsistentNoMatch(n) THEN "needs_approval" ELSE "open"]]
           /\ seen' = CASE verdict = "matched" -> Saw(r, 0)
                        [] verdict = "no_match" /\ worker[w].count = run[r].count ->
                               Saw(r, IF seen[r] = 0 THEN 1 ELSE 2)
                        [] OTHER -> Outdated(r)
    BY <1>2, Zenon DEF SaveRecoveryEvidence
  <2>2. verdict \in Verdicts
    BY Zenon DEF SaveRecoveryEvidence, IsNext
  <2>. DEFINE e == IF HasConsistentNoMatch(n) THEN "needs_approval" ELSE "open"
  <2>3. n \in 0..2 /\ e \in Recovery
    BY DEF Recovery, NextCount
  <2>4. \/ n = 0 /\ seen' = Saw(r, 0)
        \/ seen' = Saw(r, 3)
        \/ /\ n = 1 \/ (n = 2 /\ run[r].count # 0)
           /\ seen' = Saw(r, IF seen[r] = 0 THEN 1 ELSE 2)
    BY <2>1, <2>2 DEF NextCount, Verdicts, Outdated
  <2>. HIDE DEF e, r
  <2>5. SavedAs(r, n, e)
    BY <1>2, <2>1, <2>3, <2>4 DEF SavedAs, e
  <2>. QED  BY <2>5 DEF r
<1>. QED  BY <1>1, <1>2

LEMMA StoreWrites ==
    ASSUME NEW w, StoreCompilationAudit(w)
    PROVE  \/ run' = run /\ reservation' = reservation /\ seen' = seen
           \/ \E to, b : StoredAs(worker[w].run, to, b)
<1>. DEFINE r == worker[w].run
            hd == Head(worker[w].plan)
            to == IF hd = "drift" THEN "failed" ELSE hd
            ch == run[r].changed \/ hd = "drift"
<1>1. to \in Sent \union {"confirmed", "failed"}
  BY DEF StoreCompilationAudit, IsNext, Stores, Sent
<1>2. CASE ~ Storable(run[r].state) \/ (to \in Active /\ ActiveRuns \ {r} # {})
  BY <1>2, Zenon DEF StoreCompilationAudit
<1>3. CASE ~ (~ Storable(run[r].state) \/ (to \in Active /\ ActiveRuns \ {r} # {}))
  <2>1. run' = [run EXCEPT ![r] = [run[r] EXCEPT !.changed = ch, !.state = to]]
    BY <1>3, Zenon DEF StoreCompilationAudit
  <2>2. reservation' = IF to = "failed" THEN ReleasedBy(r, TRUE) ELSE reservation
    BY <1>3, Zenon DEF StoreCompilationAudit, GivesBack
  <2>3. ch \in BOOLEAN /\ Storable(run[r].state)
    BY <1>3
  <2>4. seen' = IF to # "dispatched" THEN seen
                ELSE IF run[r].count > 0 THEN Outdated(r) ELSE Saw(r, 0)
    BY <1>3, Zenon DEF StoreCompilationAudit
  <2>5. \/ seen' = seen \/ seen' = Saw(r, 3)
        \/ ~ (run[r].count > 0) /\ seen' = Saw(r, 0)
    BY <2>4 DEF Outdated
  <2>. HIDE DEF ch, to, r
  <2>6. StoredAs(r, to, ch)
    BY <1>1, <2>1, <2>2, <2>3, <2>5, Zenon DEF StoredAs
  <2>. QED  BY <2>6 DEF r
<1>. QED  BY <1>2, <1>3

\* The rows, by the writes of a pass.
LEMMA WriteKeepsRows ==
    ASSUME TypeInv, NEW w \in Workers, Acts(w)
    PROVE  RowsOK'
<1>. DEFINE r == worker[w].run
<1>1. RowsOK /\ PassesOK /\ RestOK /\ upstream.done \subseteq Runs
  BY DEF TypeInv, RestOK, Upstream
<1>2. r \in Runs /\ run[r] \in Row
  BY <1>1, PassGoesOn DEF PassesOK, Working, RowsOK
<1>3. \A q \in Runs : trigger'[q].pc \in {"todo", "create"}
            => trigger[q].pc \in {"todo", "create"}
  BY Zenon DEF Acts, Write, Probe, MarkFails, WriteFails, MarkDispatched, IngestDocuments,
     RecordCostMetric, SaveRecoveryEvidence, MarkArtifactsStale, StoreCompilationAudit,
     VerifyPostRunSource, ProjectArtifacts
<1>4. CASE \/ Probe(w) \/ MarkFails(w) \/ WriteFails(w) \/ MarkArtifactsStale(w)
           \/ VerifyPostRunSource(w) \/ ProjectArtifacts(w)
  <2>1. run' = run /\ reservation' = reservation /\ upstream' = upstream
    BY <1>4
       DEF Probe, MarkFails, WriteFails, MarkArtifactsStale, VerifyPostRunSource,
           ProjectArtifacts
  <2>. QED  BY <1>1, <1>3, <2>1, RowsKept
<1>5. CASE IngestDocuments(w)
  <2>1. run' = run /\ reservation' = reservation
    BY <1>5 DEF IngestDocuments
  <2>2. upstream'.done = upstream.done
    BY <1>1, <1>5 DEF IngestDocuments, RestOK, Upstream
  <2>. QED  BY <1>1, <1>3, <2>1, <2>2, RowsKept
<1>6. CASE RecordCostMetric(w)
  <2>1. run' = run /\ upstream' = upstream /\ trigger' = trigger
    BY <1>6 DEF RecordCostMetric
  <2>2. /\ reservation' \in [Runs -> Reservations]
        /\ \A q \in Runs : /\ reservation[q] = "none" => reservation'[q] = "none"
                           /\ reservation'[q] = "none" => reservation[q] = "none"
    BY <1>1, <1>2, <1>6 DEF RecordCostMetric, RowsOK, Reservations
  <2>. QED  BY <1>1, <2>1, <2>2 DEF RowsOK
<1>7. CASE MarkDispatched(w)
  <2>. DEFINE x == [run[r] EXCEPT !.state = "dispatched", !.sent = TRUE]
  <2>1. x \in Row /\ x.state = "dispatched" /\ x.sent
    BY <1>2, Zenon DEF Row, RunStates, Active
  <2>2. IF run[r].state = "accepted" THEN run' = [run EXCEPT ![r] = x] ELSE run' = run
    BY <1>7 DEF MarkDispatched, Markable
  <2>3. reservation' = reservation /\ upstream' = upstream
    BY <1>7 DEF MarkDispatched
  <2>4. reservation' \in [Runs -> Reservations]
    BY <1>1, <2>3 DEF RowsOK
  <2>. HIDE DEF x, r
  <2>5. CASE run[r].state = "accepted"
    <3>1. x.state \notin Fresh
      BY <2>1 DEF Fresh
    <3>. QED  BY <1>1, <1>2, <1>3, <2>1, <2>2, <2>3, <2>4, <2>5, <3>1, RowStored
  <2>6. CASE run[r].state # "accepted"
    BY <1>1, <1>3, <2>2, <2>3, <2>6, RowsKept
  <2>. QED  BY <2>5, <2>6
<1>8. CASE SaveRecoveryEvidence(w)
  <2>1. UNCHANGED <<reservation, upstream>>
    BY <1>8, Zenon DEF SaveRecoveryEvidence
  <2>2. reservation' \in [Runs -> Reservations]
    BY <1>1, <2>1 DEF RowsOK
  <2>4. ASSUME NEW n, NEW e, SavedAs(r, n, e) PROVE RowsOK'
    <3>. DEFINE x == [run[r] EXCEPT !.count = n, !.recovery = e]
    <3>0. /\ n \in 0..2 /\ e \in Recovery /\ run[r].state = "unknown"
          /\ run' = [run EXCEPT ![r] = x]
      BY <2>4 DEF SavedAs
    <3>1. x \in Row /\ x.state = run[r].state /\ (run[r].sent => x.sent)
      BY <1>2, <3>0, Zenon DEF Row
    <3>. HIDE DEF x, r
    <3>2. x.state \notin Fresh
      BY <3>0, <3>1 DEF Fresh
    <3>. QED  BY <1>1, <1>2, <1>3, <2>1, <2>2, <3>0, <3>1, <3>2, RowStored, Zenon
  <2>. QED  BY <1>1, <1>3, <1>8, <2>1, <2>4, SaveWrites, RowsKept
<1>9. CASE StoreCompilationAudit(w)
  <2>1. upstream' = upstream
    BY <1>9 DEF StoreCompilationAudit
  <2>3. ASSUME NEW to, NEW b, StoredAs(r, to, b) PROVE RowsOK'
    <3>. DEFINE x == [run[r] EXCEPT !.changed = b, !.state = to]
    <3>2. /\ run' = [run EXCEPT ![r] = x] /\ Storable(run[r].state)
          /\ to \in Sent \union {"confirmed", "failed"} /\ b \in BOOLEAN
          /\ reservation' = reservation \/ reservation' = ReleasedBy(r, TRUE)
      BY <2>3, Zenon DEF StoredAs
    <3>1. x \in Row /\ x.state = to /\ (run[r].sent => x.sent)
      BY <1>2, <3>2, Zenon DEF Row, RunStates, Active, Ended, Sent
    <3>. HIDE DEF x, r
    <3>3. /\ run[r].state # "none" /\ x.state # "none" /\ x.state \notin Fresh
      BY <3>1, <3>2 DEF Fresh, Sent, Storable, Active
    <3>4. /\ reservation' \in [Runs -> Reservations]
          /\ \A q \in Runs : /\ reservation[q] = "none" => reservation'[q] = "none"
                             /\ reservation'[q] = "none" => reservation[q] = "none"
      BY <1>1, <1>2, <3>2, ReleaseTyped, Zenon DEF RowsOK
    <3>. QED  BY <1>1, <1>2, <1>3, <2>1, <3>1, <3>2, <3>3, <3>4, RowStored, Zenon
  <2>. QED  BY <1>1, <1>3, <1>9, <2>1, <2>3, StoreWrites, RowsKept
<1>. QED
  BY <1>4, <1>5, <1>6, <1>7, <1>8, <1>9 DEF Acts, Write

LEMMA WriteKeepsRest ==
    ASSUME TypeInv, NEW w \in Workers, Acts(w)
    PROVE  RestOK'
<1>. DEFINE r == worker[w].run
<1>1. RowsOK /\ PassesOK /\ RestOK
  BY DEF TypeInv
<1>2. r \in Runs
  BY <1>1, PassGoesOn DEF PassesOK, Working
<1>3. /\ source' = source /\ (faults' = faults \/ Fault)
      /\ trigger' = trigger /\ cancel' = cancel
  BY Zenon DEF Acts, Write, Probe, MarkFails, WriteFails, MarkDispatched, IngestDocuments,
     RecordCostMetric, SaveRecoveryEvidence, MarkArtifactsStale, StoreCompilationAudit,
     VerifyPostRunSource, ProjectArtifacts
<1>4. faults' \in 0..MaxFaults /\ source' <= faults'
  BY <1>1, <1>3, CompilationAssumption DEF RestOK, Fault
<1>5. ready' \subseteq Runs
  <2>1. ready' \subseteq ready \union {r}
    BY Zenon
       DEF Acts, Write, Probe, MarkFails, WriteFails, MarkDispatched, IngestDocuments,
       RecordCostMetric, SaveRecoveryEvidence, MarkArtifactsStale, StoreCompilationAudit,
       VerifyPostRunSource, ProjectArtifacts
  <2>. QED  BY <1>1, <1>2, <2>1 DEF RestOK
<1>6. upstream' \in Upstream /\ ingests' \in [Runs -> Nat]
  <2>1. CASE IngestDocuments(w)
    <3>1. ingests' = [ingests EXCEPT ![r] = @ + 1]
      BY <2>1 DEF IngestDocuments
    <3>2. upstream' = upstream \/ upstream' = [upstream EXCEPT !.queue = @ \union {r}]
      BY <2>1 DEF IngestDocuments
    <3>. QED  BY <1>1, <1>2, <3>1, <3>2 DEF RestOK, Upstream
  <2>2. CASE ~ IngestDocuments(w)
    <3>1. upstream' = upstream /\ ingests' = ingests
      BY <2>2, Zenon
         DEF Acts, Write, Probe, MarkFails, WriteFails, MarkDispatched, history,
         RecordCostMetric, SaveRecoveryEvidence, MarkArtifactsStale, StoreCompilationAudit,
         VerifyPostRunSource, ProjectArtifacts
    <3>. QED  BY <1>1, <3>1 DEF RestOK
  <2>. QED  BY <2>1, <2>2
<1>7. seen' \in [Runs -> 0..3]
  <2>1. \/ seen' = seen
        \/ \E n \in 0..3 : seen' = Saw(r, n)
    <3>1. CASE StoreCompilationAudit(w)
      <4>1. seen' = seen \/ seen' = Saw(r, 3) \/ seen' = Saw(r, 0)
        BY <3>1, StoreWrites, Zenon DEF StoredAs
      <4>. QED  BY <4>1
    <3>2. CASE SaveRecoveryEvidence(w)
      <4>1. \/ seen' = seen \/ seen' = Saw(r, 3) \/ seen' = Saw(r, 0)
            \/ seen' = Saw(r, 1) \/ seen' = Saw(r, 2)
        BY <3>2, SaveWrites, Zenon DEF SavedAs
      <4>. QED  BY <4>1
    <3>3. CASE ~ StoreCompilationAudit(w) /\ ~ SaveRecoveryEvidence(w)
      BY <3>3
         DEF Acts, Write, Probe, MarkFails, WriteFails, MarkDispatched, IngestDocuments,
         RecordCostMetric, MarkArtifactsStale, VerifyPostRunSource, ProjectArtifacts, history
    <3>. QED  BY <3>1, <3>2, <3>3
  <2>. QED  BY <1>1, <1>2, <2>1 DEF RestOK, Saw
<1>. QED  BY <1>1, <1>3, <1>4, <1>5, <1>6, <1>7 DEF RestOK

\* The steps, grouped.
Moves(w) == \/ PassStarts(w) \/ RecheckActive(w) \/ (w = Scanner /\ ScanFinishes)
            \/ RescheduleFails(w) \/ PassDies(w)
Outside == UpstreamStarts \/ UpstreamCompletes \/ UpstreamIdles \/ EditSource \/ ScanIsRefused

LEMMA StepsGrouped ==
    ASSUME Next
    PROVE  \/ \E r \in Runs : Trigger(r) \/ Recover(r)
           \/ \E c \in Cancels : CancelReads(c) \/ CancelCompilationRun(c)
           \/ \E w \in Workers : Acts(w) \/ Moves(w)
           \/ Outside
BY DEF Next, PassSteps, Acts, Moves, Outside, Workers

LEMMA NextTyped == TypeInv /\ [Next]_vars => TypeInv'
<1>. SUFFICES ASSUME TypeInv, [Next]_vars PROVE TypeInv'
  OBVIOUS
<1>1. CASE UNCHANGED vars
  <2>1. UNCHANGED <<run, reservation, ready, source, upstream, worker, trigger, cancel,
                    ingests, seen, faults>>
    BY <1>1 DEF vars, history
  <2>2. RowsOK'
    BY <2>1 DEF TypeInv, RowsOK
  <2>3. PassesOK'
    BY <2>1 DEF TypeInv, PassesOK
  <2>4. RestOK'
    BY <2>1 DEF TypeInv, RestOK
  <2>. QED  BY <2>2, <2>3, <2>4 DEF TypeInv
<1>2. ASSUME NEW w \in Workers, Acts(w) PROVE TypeInv'
  <2>1. PassesOK'
    BY <1>2, PassGoesOn, GoesOnKeeps DEF TypeInv
  <2>2. RowsOK' /\ RestOK'
    BY <1>2, WriteKeepsRows, WriteKeepsRest
  <2>. QED  BY <2>1, <2>2 DEF TypeInv
<1>3. ASSUME NEW w \in Workers, Moves(w) PROVE TypeInv'
  BY <1>3, PassTyped DEF Moves
<1>4. ASSUME Outside PROVE TypeInv'
  BY <1>4, UpstreamTyped DEF Outside
<1>. QED
  BY <1>1, <1>2, <1>3, <1>4, StepsGrouped, TriggerTyped, RecoverTyped, CancelTyped

(***************************************************************************)
(* A run exists exactly with its reservation, RAGFlow completes only what  *)
(* was marked dispatched, and a pass holds a run exactly while it works on *)
(* it (CompilationTypeOK), for any number of runs, passes and faults.      *)
(***************************************************************************)
THEOREM CompilationTypesHold == Spec => []CompilationTypeOK
<1>1. Spec => []TypeInv
  BY InitTyped, NextTyped, PTL DEF Spec
<1>. QED  BY <1>1, TypeInvImplies, PTL

-----------------------------------------------------------------------------
(***************************************************************************)
(* RAGFlow is called once for a run: the pass that calls it has won the    *)
(* update that marks the run, and no other pass has.                       *)
(***************************************************************************)
Calling(w) == worker[w].pc = "write" /\ Head(worker[w].plan) = "ingest"

IngestInv ==
    /\ \A r \in Runs : ingests[r] <= 1
    /\ \A r \in Runs : ~ run[r].sent => ingests[r] = 0
    /\ \A w \in Workers : Calling(w) => /\ run[worker[w].run].sent
                                        /\ ingests[worker[w].run] = 0
    /\ \A v, w \in Workers : Calling(v) /\ Calling(w) /\ worker[v].run = worker[w].run => v = w

\* No step but the update marks a run.
SentKept == \A q \in Runs : (run'[q].sent => run[q].sent) /\ (run[q].sent => run'[q].sent)

LEMMA IngestKept ==
    ASSUME TypeInv, IngestInv, SentKept, ingests' = ingests,
           \A w \in Workers : Calling(w)' => Calling(w) /\ worker'[w] = worker[w]
    PROVE  IngestInv'
<1>1. \A w \in Workers : Calling(w) => worker[w].run \in Runs
  BY DEF Calling, TypeInv, PassesOK, Working
<1>. QED  BY <1>1 DEF IngestInv, SentKept

LEMMA SentKeptBy ==
    ASSUME TypeInv, Next, \A w \in Workers : ~ MarkDispatched(w)
    PROVE  SentKept
<1>1. run \in [Runs -> Row]
  BY DEF TypeInv, RowsOK
<1>2. ASSUME NEW r \in Runs, Trigger(r) PROVE SentKept
  <2>1. CASE CreateCompilationRun(r)
    <3>1. ~ run[r].sent
      BY <2>1 DEF CreateCompilationRun, TypeInv, RowsOK, Fresh
    <3>. DEFINE x == [NoRow EXCEPT !.state = "accepted", !.manifest = trigger[r].manifest,
                                   !.of = trigger[r].of]
                y(q) == [run[q] EXCEPT !.recovery = "replacement"]
    <3>2. \/ run' = run
          \/ run' = [q \in Runs |-> IF q = r THEN x
                                 ELSE IF q = trigger[r].of THEN y(q) ELSE run[q]]
      BY <2>1 DEF CreateCompilationRun
    <3>3. ~ x.sent
      BY DEF NoRow
    <3>4. \A q \in Runs : (y(q).sent => run[q].sent) /\ (run[q].sent => y(q).sent)
      BY <1>1 DEF Row
    <3>. HIDE DEF x, y
    <3>. QED  BY <3>1, <3>2, <3>3, <3>4 DEF SentKept
  <2>2. CASE CancelRunAfterSchedulingFailure(r)
    <3>1. PICK s : run' = [run EXCEPT ![r].state = s]
      BY <2>2, Zenon DEF CancelRunAfterSchedulingFailure
    <3>. QED  BY <1>1, <3>1 DEF SentKept, Row
  <2>3. CASE \/ \E of \in Runs \union {NoRun} : TriggerReads(r, of)
             \/ TriggerSchedules(r) \/ TriggerDies(r)
    BY <2>3 DEF TriggerReads, TriggerSchedules, TriggerDies, SentKept
  <2>. QED  BY <1>2, <2>1, <2>2, <2>3 DEF Trigger
<1>3. ASSUME NEW r \in Runs, Recover(r) PROVE SentKept
  <2>1. \/ run' = run
        \/ \E e : run' = [run EXCEPT ![r].recovery = e]
        \/ run' = [run EXCEPT ![r] = [@ EXCEPT !.state = "reconciled", !.recovery = "absent"]]
    BY <1>3 DEF Recover, ConfirmIsRequested, ConfirmIsRecorded, ConfirmReads,
       ConfirmDownstreamAbsent, ReplacementIsApproved
  <2>. QED  BY <1>1, <2>1, Zenon DEF SentKept, Row
<1>4. ASSUME NEW c \in Cancels, CancelReads(c) \/ CancelCompilationRun(c) PROVE SentKept
  <2>1. run' = run \/ \E r, s : run' = [run EXCEPT ![r].state = s]
    BY <1>4, Zenon DEF CancelReads, CancelCompilationRun
  <2>. QED  BY <1>1, <2>1 DEF SentKept, Row
<1>5. ASSUME NEW w \in Workers, Acts(w) PROVE SentKept
  <2>. DEFINE r == worker[w].run
  <2>1. CASE SaveRecoveryEvidence(w)
    <3>1. ASSUME NEW n, NEW e, SavedAs(r, n, e) PROVE SentKept
      <4>1. run' = [run EXCEPT ![r] = [run[r] EXCEPT !.count = n, !.recovery = e]]
        BY <3>1 DEF SavedAs
      <4>. QED  BY <1>1, <4>1 DEF SentKept, Row
    <3>2. run' = run => SentKept
      BY DEF SentKept
    <3>. QED  BY <2>1, <3>1, <3>2, SaveWrites
  <2>2. CASE StoreCompilationAudit(w)
    <3>1. \/ run' = run
          \/ \E to, b : run' = [run EXCEPT ![r] = [run[r] EXCEPT !.changed = b, !.state = to]]
      BY <2>2, StoreWrites, Zenon DEF StoredAs
    <3>2. CASE run' = run
      BY <3>2 DEF SentKept
    <3>3. ASSUME NEW to, NEW b,
                 run' = [run EXCEPT ![r] = [run[r] EXCEPT !.changed = b, !.state = to]]
          PROVE  SentKept
      BY <1>1, <3>3 DEF SentKept, Row
    <3>. QED  BY <3>1, <3>2, <3>3, Zenon
  <2>3. CASE ~ SaveRecoveryEvidence(w) /\ ~ StoreCompilationAudit(w)
    <3>1. run' = run
      BY <1>5, <2>3 DEF Acts, Write, Probe, MarkFails, WriteFails, IngestDocuments,
         RecordCostMetric, MarkArtifactsStale, VerifyPostRunSource, ProjectArtifacts
    <3>. QED  BY <3>1 DEF SentKept
  <2>. QED  BY <2>1, <2>2, <2>3
<1>6. ASSUME NEW w \in Workers, Moves(w) PROVE SentKept
  BY <1>6, Zenon
     DEF Moves, PassStarts, RecheckActive, ScanFinishes, RescheduleFails, PassDies,
         SentKept
<1>7. CASE Outside
  BY <1>7, Zenon
     DEF Outside, UpstreamStarts, UpstreamCompletes, UpstreamIdles, EditSource, ScanIsRefused,
         SentKept
<1>. QED  BY <1>2, <1>3, <1>4, <1>5, <1>6, <1>7, StepsGrouped

\* Which passes are about to call RAGFlow after a step.
LEMMA ActsCall ==
    ASSUME TypeInv, NEW w \in Workers, Acts(w)
    PROVE  /\ \A v \in Workers \ {w} : worker'[v] = worker[v]
           /\ Calling(w)' => /\ MarkDispatched(w) /\ Markable(run[worker[w].run].state)
                             /\ worker'[w].run = worker[w].run
<1>1. worker[w].pc \in {"probe", "write"}
  BY PassGoesOn
<1>2. PICK plan : /\ GoesOn(w, plan) /\ Shaped(plan)
                  /\ Needs(plan, "verify") => worker[w].state \in Sent
                  /\ plan # << >> /\ Head(plan) = "ingest"
                        => MarkDispatched(w) /\ Markable(run[worker[w].run].state)
  BY PassGoesOn
<1>3. /\ PassesOK' /\ \A v \in Workers \ {w} : worker'[v] = worker[v]
      /\ worker'[w].pc = "write" => worker'[w].plan = plan /\ worker'[w].run = worker[w].run
  BY <1>1, <1>2, GoesOnKeeps DEF TypeInv
<1>4. worker'[w].pc = "write" => worker'[w].plan # << >>
  BY <1>3 DEF PassesOK, Working
<1>. QED  BY <1>2, <1>3, <1>4 DEF Calling

LEMMA NextIngests == TypeInv /\ IngestInv /\ [Next]_vars => IngestInv'
<1>. SUFFICES ASSUME TypeInv, IngestInv, [Next]_vars PROVE IngestInv'
  OBVIOUS
<1>1. run \in [Runs -> Row] /\ ingests \in [Runs -> Nat]
  BY DEF TypeInv, RowsOK, RestOK
<1>2. CASE UNCHANGED vars
  <2>1. run' = run /\ worker' = worker /\ ingests' = ingests
    BY <1>2 DEF vars, history
  <2>. QED  BY <2>1 DEF IngestInv, Calling
<1>3. ASSUME NEW w \in Workers, MarkDispatched(w), Markable(run[worker[w].run].state)
      PROVE  IngestInv'
  <2>. DEFINE r == worker[w].run
              x == [run[r] EXCEPT !.state = "dispatched", !.sent = TRUE]
  <2>1. Acts(w) /\ r \in Runs
    BY <1>3 DEF Acts, Write, MarkDispatched, IsNext, TypeInv, PassesOK, Working
  <2>2. run' = [run EXCEPT ![r] = x] /\ ingests' = ingests
    BY <1>3 DEF MarkDispatched, history
  <2>3. x.sent
    BY <1>1, <2>1 DEF Row
  <2>4. ~ run[r].sent /\ ingests[r] = 0
    BY <1>3, <2>1, Zenon DEF TypeInv, RowsOK, Fresh, Markable, IngestInv
  <2>5. /\ \A v \in Workers \ {w} : worker'[v] = worker[v]
        /\ Calling(w)' => worker'[w].run = r
    BY <2>1, ActsCall
  <2>6. \A v \in Workers \ {w} : Calling(v) => worker[v].run # r /\ worker[v].run \in Runs
    BY <2>4 DEF IngestInv, Calling, TypeInv, PassesOK, Working
  <2>. HIDE DEF x, r
  <2>7. \A v \in Workers \ {w} : Calling(v)' => Calling(v)
    BY <2>5 DEF Calling
  <2>8. run'[r].sent /\ \A q \in Runs \ {r} : run'[q] = run[q]
    BY <1>1, <2>1, <2>2, <2>3
  <2>9. \A v \in Workers : Calling(v)' => /\ run'[worker'[v].run].sent
                                          /\ ingests'[worker'[v].run] = 0
    <3>1. Calling(w)' => run'[worker'[w].run].sent /\ ingests'[worker'[w].run] = 0
      BY <2>2, <2>4, <2>5, <2>8
    <3>2. ASSUME NEW v \in Workers \ {w}, Calling(v)'
          PROVE  run'[worker'[v].run].sent /\ ingests'[worker'[v].run] = 0
      <4>1. worker'[v] = worker[v] /\ Calling(v) /\ worker[v].run \in Runs \ {r}
        BY <2>5, <2>6, <2>7, <3>2
      <4>2. run[worker[v].run].sent /\ ingests[worker[v].run] = 0
        BY <4>1 DEF IngestInv
      <4>. QED  BY <2>2, <2>8, <4>1, <4>2
    <3>. QED  BY <3>1, <3>2
  <2>10. \A u, v \in Workers : Calling(u)' /\ Calling(v)' /\ worker'[u].run = worker'[v].run
               => u = v
    BY <2>5, <2>6, <2>7 DEF IngestInv
  <2>11. \A q \in Runs : ~ run'[q].sent => ingests'[q] = 0
    BY <2>2, <2>8 DEF IngestInv
  <2>. QED  BY <2>2, <2>9, <2>10, <2>11 DEF IngestInv
<1>4. ASSUME NEW w \in Workers, IngestDocuments(w)
      PROVE  IngestInv'
  <2>. DEFINE r == worker[w].run
  <2>1. Acts(w) /\ r \in Runs /\ Calling(w)
    BY <1>4 DEF Acts, Write, IngestDocuments, IsNext, TypeInv, PassesOK, Working, Calling
  <2>2. run[r].sent /\ ingests[r] = 0
    BY <2>1 DEF IngestInv
  <2>3. run' = run /\ ingests' = [ingests EXCEPT ![r] = @ + 1]
    BY <1>4 DEF IngestDocuments
  <2>4. ~ Calling(w)'
    <3>1. ~ MarkDispatched(w)
      BY <1>4 DEF MarkDispatched, IngestDocuments, IsNext
    <3>. QED  BY <2>1, <3>1, ActsCall
  <2>5. \A v \in Workers \ {w} : worker'[v] = worker[v]
    BY <2>1, ActsCall
  <2>6. \A v \in Workers \ {w} : Calling(v) => worker[v].run # r /\ worker[v].run \in Runs
    BY <2>1, Zenon DEF IngestInv, Calling, TypeInv, PassesOK, Working
  <2>. HIDE DEF r
  <2>7. \A v \in Workers : Calling(v)' => v # w /\ Calling(v)
    BY <2>4, <2>5 DEF Calling
  <2>8. ingests'[r] = 1 /\ \A q \in Runs \ {r} : ingests'[q] = ingests[q]
    BY <1>1, <2>1, <2>2, <2>3
  <2>9. \A v \in Workers : Calling(v)' => /\ run'[worker'[v].run].sent
                                          /\ ingests'[worker'[v].run] = 0
    BY <2>3, <2>5, <2>6, <2>7, <2>8 DEF IngestInv
  <2>10. \A u, v \in Workers : Calling(u)' /\ Calling(v)' /\ worker'[u].run = worker'[v].run
               => u = v
    BY <2>5, <2>7 DEF IngestInv
  <2>11. \A q \in Runs : (~ run'[q].sent => ingests'[q] = 0) /\ ingests'[q] <= 1
    BY <2>2, <2>3, <2>8 DEF IngestInv
  <2>. QED  BY <2>9, <2>10, <2>11 DEF IngestInv
<1>5. ASSUME Next,
             \A w \in Workers : ~ (MarkDispatched(w) /\ Markable(run[worker[w].run].state)),
             \A w \in Workers : ~ IngestDocuments(w)
      PROVE  IngestInv'
  <2>1. \A w \in Workers : Calling(w)' => Calling(w) /\ worker'[w] = worker[w]
    <3>1. ASSUME NEW w \in Workers, Acts(w)
          PROVE  \A v \in Workers : Calling(v)' => Calling(v) /\ worker'[v] = worker[v]
      BY <1>5, <3>1, ActsCall DEF Calling
    <3>2. ASSUME NEW w \in Workers, Moves(w)
          PROVE  \A v \in Workers : Calling(v)' => Calling(v) /\ worker'[v] = worker[v]
      BY <3>2, PassTyped DEF Moves, Calling
    <3>3. ASSUME worker' = worker
          PROVE  \A v \in Workers : Calling(v)' => Calling(v) /\ worker'[v] = worker[v]
      BY <3>3 DEF Calling
    <3>4. \/ worker' = worker \/ \E w \in Workers : Acts(w) \/ Moves(w)
      <4>1. \A r \in Runs : Trigger(r) => worker' = worker
        BY DEF Trigger, TriggerReads, CreateCompilationRun, TriggerSchedules, TriggerDies,
           CancelRunAfterSchedulingFailure
      <4>2. \A r \in Runs : Recover(r) => worker' = worker
        BY DEF Recover, ConfirmIsRequested, ConfirmIsRecorded, ConfirmReads,
           ConfirmDownstreamAbsent, ReplacementIsApproved
      <4>3. \A c \in Cancels : CancelReads(c) \/ CancelCompilationRun(c) => worker' = worker
        BY DEF CancelReads, CancelCompilationRun
      <4>4. Outside => worker' = worker
        BY Zenon
           DEF Outside, UpstreamStarts, UpstreamCompletes, UpstreamIdles, EditSource,
               ScanIsRefused
      <4>. QED  BY <1>5, <4>1, <4>2, <4>3, <4>4, StepsGrouped
    <3>. QED  BY <3>1, <3>2, <3>3, <3>4
  <2>2. ingests' = ingests
    BY <1>5, ZenonT(60)
       DEF Next, Trigger, TriggerReads, CreateCompilationRun, TriggerSchedules,
       CancelRunAfterSchedulingFailure, Recover, ConfirmIsRequested, ConfirmIsRecorded,
       ConfirmReads, ConfirmDownstreamAbsent, ReplacementIsApproved, CancelReads,
       CancelCompilationRun, PassStarts, PassSteps, Probe, Write, MarkDispatched,
       RecordCostMetric, StoreCompilationAudit, SaveRecoveryEvidence, MarkArtifactsStale,
       VerifyPostRunSource, ProjectArtifacts, RecheckActive, MarkFails, WriteFails,
       RescheduleFails, PassDies, ScanFinishes, UpstreamStarts, UpstreamCompletes,
       UpstreamIdles, EditSource, ScanIsRefused, TriggerDies, history
  <2>3. CASE \E w \in Workers : MarkDispatched(w)
    <3>1. run' = run
      BY <1>5, <2>3, Zenon DEF MarkDispatched
    <3>2. SentKept
      BY <3>1 DEF SentKept
    <3>. QED  BY <2>1, <2>2, <3>2, IngestKept
  <2>4. CASE \A w \in Workers : ~ MarkDispatched(w)
    BY <1>5, <2>1, <2>2, <2>4, SentKeptBy, IngestKept
  <2>. QED  BY <2>3, <2>4
<1>. QED  BY <1>2, <1>3, <1>4, <1>5

LEMMA InitIngests == Init => IngestInv
<1>. SUFFICES ASSUME Init PROVE IngestInv
  OBVIOUS
<1>1. \A w \in Workers : ~ Calling(w)
  <2>1. \A w \in Workers : worker[w].pc = "off"
    BY OffTyped DEF Init
  <2>. QED  BY <2>1 DEF Calling
<1>. QED  BY <1>1 DEF Init, IngestInv

(***************************************************************************)
(* RAGFlow is asked to ingest a run's documents once at most (the guarded  *)
(* update of dispatchCompilationRun), for any number of passes that work   *)
(* on the run at once and fail or die anywhere.                            *)
(***************************************************************************)
THEOREM RunsAreIngestedOnce == Spec => []IngestedOnce
<1>1. TypeInv /\ IngestInv => IngestedOnce
  BY DEF IngestInv, IngestedOnce
<1>. QED
  BY <1>1, InitTyped, NextTyped, InitIngests, NextIngests, PTL DEF Spec

(***************************************************************************)
(* A cancelled run is never ingested: CancelCompilationRun, the cancel     *)
(* after a scheduling failure and the dispatch compete for the accepted    *)
(* state, and one of them wins.                                            *)
(***************************************************************************)
THEOREM CancelledRunsStayOut == Spec => []CancelledIsNeverIngested
<1>1. TypeInv /\ IngestInv => CancelledIsNeverIngested
  BY DEF TypeInv, RowsOK, Fresh, IngestInv, CancelledIsNeverIngested
<1>. QED
  BY <1>1, InitTyped, NextTyped, InitIngests, NextIngests, PTL DEF Spec

-----------------------------------------------------------------------------
(***************************************************************************)
(* What every step keeps of a row, and the evidence behind its count.      *)
(***************************************************************************)
RowKept(q) ==
    /\ run[q].state \in Ended => run'[q].state = run[q].state
    /\ run[q].state = "reconciled" /\ run[q].recovery # "absent" => run'[q].recovery # "absent"
    /\ reservation'[q] = "released" => reservation[q] = "released" \/ run'[q].state \in Ended
    /\ run'[q].of \in {run[q].of, NoRun}
          \/ (run'[run'[q].of].state = "reconciled" /\ run'[run'[q].of].recovery # "absent")

Evident(q) ==
    /\ run[q].count = 1 => seen[q] \in {1, 2, 3}
    /\ run[q].count = 2 => seen[q] \in {2, 3}
    /\ run[q].state = "reconciled" => seen[q] \in {2, 3}

EvidenceInv == \A q \in Runs : Evident(q)

\* A step that changes one row, or only its reservation.
LEMMA OneRow ==
    ASSUME TypeInv, EvidenceInv, NEW r \in Runs, NEW x, run' = [run EXCEPT ![r] = x],
           \A q \in Runs \ {r} : reservation'[q] = reservation[q] /\ seen'[q] = seen[q],
           RowKept(r), Evident(r)'
    PROVE  (\A q \in Runs : RowKept(q)) /\ EvidenceInv'
<1>1. \A q \in Runs \ {r} : run'[q] = run[q]
  BY DEF TypeInv, RowsOK
<1>2. \A q \in Runs \ {r} : RowKept(q)
  BY <1>1 DEF RowKept
<1>3. \A q \in Runs \ {r} : Evident(q)'
  BY <1>1 DEF EvidenceInv, Evident
<1>. QED  BY <1>2, <1>3 DEF EvidenceInv

LEMMA NoRowChanges ==
    ASSUME EvidenceInv, run' = run, reservation' = reservation, seen' = seen
    PROVE  (\A q \in Runs : RowKept(q)) /\ EvidenceInv'
BY DEF EvidenceInv, Evident, RowKept

LEMMA SawTyped ==
    ASSUME TypeInv, NEW r \in Runs, NEW n \in 0..3
    PROVE  /\ Saw(r, n)[r] = IF seen[r] = 3 THEN 3 ELSE n
           /\ \A q \in Runs \ {r} : Saw(r, n)[q] = seen[q]
BY DEF TypeInv, RestOK, Saw

LEMMA ReleasedOnly ==
    ASSUME TypeInv, NEW r \in Runs, NEW won \in BOOLEAN
    PROVE  /\ \A q \in Runs \ {r} : ReleasedBy(r, won)[q] = reservation[q]
           /\ ReleasedBy(r, won)[r] = "released" => reservation[r] = "released" \/ won
BY DEF TypeInv, RowsOK, ReleasedBy

\* Cancelling.
LEMMA CancelKeeps ==
    ASSUME TypeInv, EvidenceInv, NEW r \in Runs, NEW won \in BOOLEAN,
           won => run[r].state = "accepted",
           run' = [run EXCEPT ![r].state = IF won THEN "cancelled" ELSE @],
           reservation' = ReleasedBy(r, won), seen' = seen
    PROVE  (\A q \in Runs : RowKept(q)) /\ EvidenceInv'
<1>1. run \in [Runs -> Row] /\ run[r] \in Row
  BY DEF TypeInv, RowsOK
<1>. DEFINE x == [run[r] EXCEPT !.state = IF won THEN "cancelled" ELSE run[r].state]
<1>2. run' = [run EXCEPT ![r] = x]
  OBVIOUS
<1>3. /\ x.state = IF won THEN "cancelled" ELSE run[r].state
      /\ x.recovery = run[r].recovery /\ x.count = run[r].count /\ x.of = run[r].of
  BY <1>1 DEF Row
<1>. HIDE DEF x
<1>4. run'[r] = x
  BY <1>1, <1>2
<1>6. /\ \A q \in Runs \ {r} : reservation'[q] = reservation[q] /\ seen'[q] = seen[q]
      /\ reservation'[r] = "released" => reservation[r] = "released" \/ won
  BY ReleasedOnly
<1>7. RowKept(r)
  BY <1>3, <1>4, <1>6 DEF RowKept, Ended
<1>8. Evident(r)'
  BY <1>3, <1>4 DEF EvidenceInv, Evident
<1>. QED  BY <1>2, <1>6, <1>7, <1>8, OneRow, Zenon

LEMMA RecoverKeeps ==
    ASSUME TypeInv, EvidenceInv, NEW r \in Runs, Recover(r)
    PROVE  (\A q \in Runs : RowKept(q)) /\ EvidenceInv'
<1>1. run \in [Runs -> Row] /\ run[r] \in Row
  BY DEF TypeInv, RowsOK
<1>2. CASE ConfirmIsRequested(r) \/ ConfirmReads(r)
  BY <1>2, NoRowChanges DEF ConfirmIsRequested, ConfirmReads, history
<1>3. ASSUME NEW e, run' = [run EXCEPT ![r] = [run[r] EXCEPT !.recovery = e]],
             run[r].state = "reconciled" /\ run[r].recovery # "absent" => e # "absent",
             reservation' = reservation, seen' = seen
      PROVE  (\A q \in Runs : RowKept(q)) /\ EvidenceInv'
  <2>. DEFINE x == [run[r] EXCEPT !.recovery = e]
  <2>1. /\ x.state = run[r].state /\ x.recovery = e
        /\ x.count = run[r].count /\ x.of = run[r].of
    BY <1>1 DEF Row
  <2>2. run' = [run EXCEPT ![r] = x] /\ run'[r] = x
    BY <1>1, <1>3
  <2>. HIDE DEF x
  <2>3. RowKept(r) /\ Evident(r)'
    BY <1>3, <2>1, <2>2 DEF RowKept, EvidenceInv, Evident
  <2>. QED  BY <1>3, <2>2, <2>3, OneRow, Zenon
<1>4. CASE ConfirmIsRecorded(r)
  <2>. DEFINE e == IF run[r].state = "unknown" THEN "needs_approval" ELSE run[r].recovery
  <2>1. run' = [run EXCEPT ![r] = [run[r] EXCEPT !.recovery = e]]
    BY <1>4 DEF ConfirmIsRecorded
  <2>2. reservation' = reservation /\ seen' = seen
    BY <1>4 DEF ConfirmIsRecorded, history
  <2>. QED  BY <1>3, <2>1, <2>2, Zenon
<1>5. CASE ReplacementIsApproved(r)
  BY <1>3, <1>5, Zenon DEF ReplacementIsApproved, history
<1>6. CASE ConfirmDownstreamAbsent(r)
  <2>0. PICK won \in BOOLEAN : /\ reservation' = ReleasedBy(r, won)
                               /\ won => run[r].state = "unknown"
    BY <1>6, Zenon DEF ConfirmDownstreamAbsent
  <2>1. /\ \A q \in Runs \ {r} : reservation'[q] = reservation[q]
        /\ reservation'[r] = "released" => reservation[r] = "released" \/ run[r].state = "unknown"
    BY <2>0, ReleasedOnly
  <2>2. CASE run[r].state # "unknown"
    <3>1. run' = run /\ seen' = seen
      BY <1>6, <2>2 DEF ConfirmDownstreamAbsent
    <3>2. EvidenceInv'
      BY <3>1 DEF EvidenceInv, Evident
    <3>. QED  BY <2>1, <2>2, <3>1, <3>2 DEF RowKept
  <2>3. CASE run[r].state = "unknown"
    <3>. DEFINE x == [run[r] EXCEPT !.state = "reconciled", !.recovery = "absent"]
    <3>1. x.state = "reconciled" /\ x.count = run[r].count /\ x.of = run[r].of
      BY <1>1 DEF Row
    <3>2. run' = [run EXCEPT ![r] = x] /\ run'[r] = x
      BY <1>1, <1>6, <2>3 DEF ConfirmDownstreamAbsent
    <3>. HIDE DEF x
    <3>3. seen' = IF run[r].count = 2 THEN seen ELSE Saw(r, 3)
      BY <1>6, <2>3 DEF ConfirmDownstreamAbsent, HasConsistentNoMatch, Outdated
    <3>4. /\ \A q \in Runs \ {r} : seen'[q] = seen[q]
          /\ run[r].count # 2 => seen'[r] = 3
          /\ run[r].count = 2 => seen'[r] = seen[r]
      BY <3>3, SawTyped
    <3>5. Evident(r)'
      BY <3>1, <3>2, <3>4 DEF EvidenceInv, Evident
    <3>6. RowKept(r)
      BY <2>3, <3>1, <3>2 DEF RowKept, Ended
    <3>. QED  BY <2>1, <3>2, <3>4, <3>5, <3>6, OneRow, Zenon
  <2>. QED  BY <2>2, <2>3
<1>. QED  BY <1>2, <1>4, <1>5, <1>6 DEF Recover

LEMMA TriggerKeeps ==
    ASSUME TypeInv, EvidenceInv, NEW r \in Runs, Trigger(r)
    PROVE  (\A q \in Runs : RowKept(q)) /\ EvidenceInv'
<1>1. run \in [Runs -> Row]
  BY DEF TypeInv, RowsOK
<1>2. CASE \/ \E of \in Runs \union {NoRun} : TriggerReads(r, of)
           \/ TriggerSchedules(r) \/ TriggerDies(r)
  BY <1>2, NoRowChanges DEF TriggerReads, TriggerSchedules, TriggerDies, history
<1>3. CASE CancelRunAfterSchedulingFailure(r)
  <2>1. PICK won \in BOOLEAN :
              /\ won => run[r].state = "accepted"
              /\ run' = [run EXCEPT ![r].state = IF won THEN "cancelled" ELSE @]
              /\ reservation' = ReleasedBy(r, won)
    BY <1>3, Zenon DEF CancelRunAfterSchedulingFailure
  <2>2. seen' = seen
    BY <1>3 DEF CancelRunAfterSchedulingFailure
  <2>. QED  BY <2>1, <2>2, CancelKeeps, Zenon
<1>4. CASE CreateCompilationRun(r)
  <2>. DEFINE x == [NoRow EXCEPT !.state = "accepted", !.manifest = trigger[r].manifest,
                                 !.of = trigger[r].of]
              y(q) == [run[q] EXCEPT !.recovery = "replacement"]
  <2>1. run[r].state = "none" /\ reservation[r] = "none" /\ seen' = seen
    BY <1>4 DEF CreateCompilationRun, TypeInv, RowsOK, history
  <2>2. \/ run' = run /\ reservation' = reservation
        \/ /\ run' = [q \in Runs |-> IF q = r THEN x
                                  ELSE IF q = trigger[r].of THEN y(q) ELSE run[q]]
           /\ reservation' = [reservation EXCEPT ![r] = "pending"]
           /\ trigger[r].of # NoRun => run[trigger[r].of].state = "reconciled"
    BY <1>4 DEF CreateCompilationRun, Reserved
  <2>3. x.state = "accepted" /\ x.count = 0 /\ x.of = trigger[r].of
    BY DEF NoRow
  <2>4. \A q \in Runs : /\ y(q).state = run[q].state /\ y(q).count = run[q].count
                        /\ y(q).recovery = "replacement" /\ y(q).of = run[q].of
    BY <1>1 DEF Row
  <2>. HIDE DEF x, y
  <2>5. ASSUME run' = [q \in Runs |-> IF q = r THEN x
                                   ELSE IF q = trigger[r].of THEN y(q) ELSE run[q]],
               reservation' = [reservation EXCEPT ![r] = "pending"],
               trigger[r].of # NoRun => run[trigger[r].of].state = "reconciled"
        PROVE  (\A q \in Runs : RowKept(q)) /\ EvidenceInv'
    <3>0. /\ trigger[r].of \in Runs \union {NoRun}
          /\ \A q \in Runs : q # r => reservation'[q] = reservation[q]
          /\ reservation'[r] = "pending"
      BY <2>5 DEF TypeInv, RestOK, Call, RowsOK
    <3>1. \A q \in Runs : RowKept(q)
      <4>1. \A q \in Runs \ {r} : /\ run'[q].state = run[q].state /\ run'[q].of = run[q].of
                                  /\ run'[q].recovery \in {run[q].recovery, "replacement"}
        BY <2>4, <2>5, Zenon
      <4>2. run'[r].of = trigger[r].of
        BY <2>3, <2>5, Zenon
      <4>3. trigger[r].of # NoRun => /\ run'[trigger[r].of].state = "reconciled"
                                     /\ run'[trigger[r].of].recovery # "absent"
        BY <2>1, <2>4, <2>5, <3>0
      <4>. QED  BY <2>1, <3>0, <4>1, <4>2, <4>3 DEF RowKept, Ended
    <3>2. EvidenceInv'
      <4>1. ASSUME NEW q \in Runs PROVE Evident(q)'
        <5>1. CASE q = r
          BY <2>1, <2>3, <2>5, <5>1 DEF EvidenceInv, Evident
        <5>2. CASE q # r
          BY <2>1, <2>4, <2>5, <5>2 DEF EvidenceInv, Evident
        <5>. QED  BY <5>1, <5>2
      <4>. QED  BY <4>1 DEF EvidenceInv
    <3>. QED  BY <3>1, <3>2
  <2>. QED  BY <2>1, <2>2, <2>5, NoRowChanges
<1>. QED  BY <1>2, <1>3, <1>4 DEF Trigger

LEMMA ActsKeep ==
    ASSUME TypeInv, EvidenceInv, NEW w \in Workers, Acts(w)
    PROVE  (\A q \in Runs : RowKept(q)) /\ EvidenceInv'
<1>0. PICK r \in Runs : r = worker[w].run
  BY PassGoesOn, Zenon DEF TypeInv, PassesOK, Working
<1>1. run \in [Runs -> Row] /\ run[r] \in Row
  BY Zenon DEF TypeInv, RowsOK
<1>2. CASE \/ Probe(w) \/ MarkFails(w) \/ WriteFails(w) \/ MarkArtifactsStale(w)
           \/ VerifyPostRunSource(w) \/ ProjectArtifacts(w) \/ IngestDocuments(w)
  BY <1>2, NoRowChanges DEF Probe, MarkFails, WriteFails, MarkArtifactsStale,
     VerifyPostRunSource, ProjectArtifacts, IngestDocuments, history
<1>3. CASE RecordCostMetric(w)
  <2>1. run' = run /\ seen' = seen
    BY <1>3 DEF RecordCostMetric, history
  <2>2. \A q \in Runs : reservation'[q] = "released" => reservation[q] = "released"
    BY <1>0, <1>3, Zenon DEF RecordCostMetric, TypeInv, RowsOK
  <2>. QED  BY <2>1, <2>2 DEF RowKept, EvidenceInv, Evident
<1>4. CASE MarkDispatched(w)
  <2>1. reservation' = reservation /\ seen' = seen
    BY <1>4 DEF MarkDispatched, history
  <2>. DEFINE x == [run[r] EXCEPT !.state = "dispatched", !.sent = TRUE]
  <2>2. x.state = "dispatched" /\ x.count = run[r].count /\ x.of = run[r].of
    BY <1>1 DEF Row
  <2>3. run' = run \/ (run[r].state = "accepted" /\ run' = [run EXCEPT ![r] = x])
    BY <1>0, <1>4 DEF MarkDispatched, Markable
  <2>. HIDE DEF x
  <2>4. ASSUME run[r].state = "accepted", run' = [run EXCEPT ![r] = x]
        PROVE  (\A q \in Runs : RowKept(q)) /\ EvidenceInv'
    <3>1. run'[r] = x
      BY <1>1, <2>4
    <3>2. RowKept(r) /\ Evident(r)'
      BY <1>1, <2>1, <2>2, <2>4, <3>1 DEF RowKept, Ended, EvidenceInv, Evident
    <3>. QED  BY <1>1, <2>1, <2>4, <3>2, OneRow, Zenon
  <2>. QED  BY <2>1, <2>3, <2>4, NoRowChanges
<1>5. CASE SaveRecoveryEvidence(w)
  <2>1. reservation' = reservation
    BY <1>5, Zenon DEF SaveRecoveryEvidence
  <2>2. ASSUME NEW n, NEW e, SavedAs(r, n, e)
        PROVE  (\A q \in Runs : RowKept(q)) /\ EvidenceInv'
    <3>. DEFINE x == [run[r] EXCEPT !.count = n, !.recovery = e]
    <3>1. run' = [run EXCEPT ![r] = x] /\ run[r].state = "unknown" /\ n \in 0..2
      BY <2>2 DEF SavedAs
    <3>2. x.state = "unknown" /\ x.count = n /\ x.of = run[r].of
      BY <1>1, <3>1 DEF Row
    <3>. HIDE DEF x
    <3>3. run'[r] = x /\ seen[r] \in 0..3
      BY <1>1, <3>1 DEF TypeInv, RestOK
    <3>4. \/ n = 0 /\ seen' = Saw(r, 0)
          \/ seen' = Saw(r, 3)
          \/ /\ n = 1 \/ (n = 2 /\ run[r].count # 0)
             /\ seen' = Saw(r, IF seen[r] = 0 THEN 1 ELSE 2)
      BY <2>2 DEF SavedAs
    <3>5. /\ \A q \in Runs \ {r} : seen'[q] = seen[q]
          /\ \/ n = 0
             \/ seen'[r] = 3
             \/ /\ n = 1 \/ (n = 2 /\ run[r].count # 0)
                /\ seen'[r] = IF seen[r] = 3 THEN 3 ELSE IF seen[r] = 0 THEN 1 ELSE 2
      BY <1>1, <3>4, SawTyped
    <3>6. run[r].count \in 0..2 /\ (run[r].count # 0 => seen[r] # 0)
      BY <1>1 DEF Row, EvidenceInv, Evident
    <3>7. Evident(r)'
      BY <3>1, <3>2, <3>3, <3>5, <3>6 DEF Evident
    <3>8. RowKept(r)
      BY <2>1, <3>1, <3>2, <3>3 DEF RowKept, Ended
    <3>. QED  BY <1>1, <2>1, <3>1, <3>5, <3>7, <3>8, OneRow, Zenon
  <2>. QED  BY <1>0, <1>5, <2>1, <2>2, SaveWrites, NoRowChanges
<1>6. CASE StoreCompilationAudit(w)
  <2>2. ASSUME NEW to, NEW b, StoredAs(r, to, b)
        PROVE  (\A q \in Runs : RowKept(q)) /\ EvidenceInv'
    <3>. DEFINE x == [run[r] EXCEPT !.changed = b, !.state = to]
    <3>1. /\ run' = [run EXCEPT ![r] = x] /\ run[r].state \notin Ended
          /\ to \in {"dispatched", "unknown", "confirmed", "failed"}
      BY <2>2 DEF StoredAs, Storable, Active, Ended, Sent
    <3>2. x.state = to /\ x.count = run[r].count /\ x.of = run[r].of
      BY <1>1 DEF Row
    <3>. HIDE DEF x
    <3>3. run'[r] = x
      BY <1>1, <3>1
    <3>4. \/ seen' = seen \/ seen' = Saw(r, 3)
          \/ ~ (run[r].count > 0) /\ seen' = Saw(r, 0)
      BY <2>2 DEF StoredAs
    <3>5. /\ \A q \in Runs \ {r} : seen'[q] = seen[q]
          /\ seen'[r] = seen[r] \/ seen'[r] = 3 \/ ~ (run[r].count > 0)
      BY <1>1, <3>4, SawTyped
    <3>6. /\ \A q \in Runs \ {r} : reservation'[q] = reservation[q]
          /\ reservation'[r] = "released" => reservation[r] = "released" \/ to = "failed"
      <4>1. \/ reservation' = reservation
            \/ to = "failed" /\ reservation' = ReleasedBy(r, TRUE)
        BY <2>2, Zenon DEF StoredAs
      <4>2. CASE reservation' = reservation
        BY <4>2
      <4>3. CASE to = "failed" /\ reservation' = ReleasedBy(r, TRUE)
        <5>1. \A q \in Runs \ {r} : ReleasedBy(r, TRUE)[q] = reservation[q]
          BY <1>1, ReleasedOnly, Zenon
        <5>. QED  BY <4>3, <5>1, Zenon
      <4>. QED  BY <4>1, <4>2, <4>3, Zenon
    <3>7. run[r].count \in 0..2
      BY <1>1 DEF Row
    <3>8. Evident(r)'
      BY <1>1, <3>1, <3>2, <3>3, <3>5, <3>7 DEF EvidenceInv, Evident
    <3>9. RowKept(r)
      BY <3>1, <3>2, <3>3, <3>6 DEF RowKept, Ended
    <3>. QED  BY <1>1, <3>1, <3>5, <3>6, <3>8, <3>9, OneRow, Zenon
  <2>. QED  BY <1>0, <1>6, <2>2, StoreWrites, NoRowChanges
<1>. QED  BY <1>2, <1>3, <1>4, <1>5, <1>6 DEF Acts, Write

LEMMA StepsKeepRows ==
    TypeInv /\ EvidenceInv /\ [Next]_vars => (\A q \in Runs : RowKept(q)) /\ EvidenceInv'
<1>. SUFFICES ASSUME TypeInv, EvidenceInv, [Next]_vars
              PROVE  (\A q \in Runs : RowKept(q)) /\ EvidenceInv'
  OBVIOUS
<1>1. CASE UNCHANGED vars
  BY <1>1, NoRowChanges DEF vars, history
<1>2. ASSUME NEW c \in Cancels, CancelReads(c)
      PROVE  (\A q \in Runs : RowKept(q)) /\ EvidenceInv'
  BY <1>2, NoRowChanges DEF CancelReads, history
<1>3. ASSUME NEW c \in Cancels, CancelCompilationRun(c)
      PROVE  (\A q \in Runs : RowKept(q)) /\ EvidenceInv'
  <2>1. cancel[c].run \in Runs
    BY <1>3 DEF CancelCompilationRun, TypeInv, RestOK
  <2>2. /\ run' = [run EXCEPT ![cancel[c].run].state =
                       IF run[cancel[c].run].state = "accepted" THEN "cancelled" ELSE @]
        /\ reservation' = ReleasedBy(cancel[c].run, run[cancel[c].run].state = "accepted")
        /\ seen' = seen
    BY <1>3 DEF CancelCompilationRun, Cancellable
  <2>3. PICK won \in BOOLEAN : won = (run[cancel[c].run].state = "accepted")
    BY Zenon
  <2>. QED  BY <2>1, <2>2, <2>3, CancelKeeps, Zenon
<1>4. ASSUME NEW w \in Workers, Moves(w)
      PROVE  (\A q \in Runs : RowKept(q)) /\ EvidenceInv'
  BY <1>4, NoRowChanges, Zenon
  DEF Moves, PassStarts, RecheckActive, ScanFinishes, RescheduleFails, PassDies, history
<1>5. ASSUME Outside
      PROVE  (\A q \in Runs : RowKept(q)) /\ EvidenceInv'
  BY <1>5, NoRowChanges, Zenon
  DEF Outside, UpstreamStarts, UpstreamCompletes, UpstreamIdles, EditSource, ScanIsRefused, history
<1>. QED
  BY <1>1, <1>2, <1>3, <1>4, <1>5, StepsGrouped, TriggerKeeps, RecoverKeeps, ActsKeep

LEMMA InitEvident == Init => EvidenceInv /\ ReleasedHasEnded /\ ReplacementStandsAlone
<1>1. NoRow.count = 0 /\ NoRow.state = "none" /\ NoRow.of = NoRun
  BY DEF NoRow
<1>. SUFFICES ASSUME Init PROVE EvidenceInv /\ ReleasedHasEnded /\ ReplacementStandsAlone
  OBVIOUS
<1>2. EvidenceInv
  BY <1>1 DEF Init, EvidenceInv, Evident
<1>3. ReleasedHasEnded
  BY DEF Init, ReleasedHasEnded
<1>4. ReplacementStandsAlone
  BY <1>1 DEF Init, ReplacementStandsAlone
<1>. QED  BY <1>2, <1>3, <1>4

(***************************************************************************)
(* A run is given up only after two no-match probes on end, unless one of  *)
(* those who wrote its row went by an outdated copy                        *)
(* (saveCompilationRecoveryEvidence, executeCompilationRecoveryConfirm).   *)
(***************************************************************************)
THEOREM AbsenceIsSeenTwice == Spec => []AbsenceSeenTwice
<1>1. EvidenceInv => AbsenceSeenTwice
  BY DEF EvidenceInv, Evident, AbsenceSeenTwice
<1>2. Init => TypeInv /\ EvidenceInv
  BY InitTyped, InitEvident
<1>3. TypeInv /\ EvidenceInv /\ [Next]_vars => TypeInv' /\ EvidenceInv'
  BY NextTyped, StepsKeepRows
<1>. QED  BY <1>1, <1>2, <1>3, PTL DEF Spec

(***************************************************************************)
(* A reservation that was given back by the call that ended its run        *)
(* (storeCompilationAudit, a cancel or the recovery whose guarded update   *)
(* changed the row) belongs to a run that failed, was cancelled or was     *)
(* given up, and stays so.  Reservations given back by a call whose update *)
(* failed or changed nothing are not meant.                                *)
(***************************************************************************)
THEOREM ReleasesFollowEnds == Spec => []ReleasedHasEnded
<1>1. Init => TypeInv /\ EvidenceInv /\ ReleasedHasEnded
  BY InitTyped, InitEvident
<1>2. TypeInv /\ EvidenceInv /\ ReleasedHasEnded /\ [Next]_vars
         => TypeInv' /\ EvidenceInv' /\ ReleasedHasEnded'
  <2>. SUFFICES ASSUME TypeInv, EvidenceInv, ReleasedHasEnded, [Next]_vars
                PROVE  ReleasedHasEnded'
    BY NextTyped, StepsKeepRows
  <2>1. \A q \in Runs : RowKept(q)
    BY StepsKeepRows
  <2>. QED  BY <2>1 DEF RowKept, ReleasedHasEnded
<1>. QED  BY <1>1, <1>2, PTL DEF Spec

(***************************************************************************)
(* A run that has a replacement stays given up: storeCompilationAudit      *)
(* writes over no ended run, and no second recovery undoes the first.      *)
(***************************************************************************)
THEOREM ReplacementsStandAlone == Spec => []ReplacementStandsAlone
<1>1. Init => TypeInv /\ EvidenceInv /\ ReplacementStandsAlone
  BY InitTyped, InitEvident
<1>2. TypeInv /\ EvidenceInv /\ ReplacementStandsAlone /\ [Next]_vars
         => TypeInv' /\ EvidenceInv' /\ ReplacementStandsAlone'
  <2>. SUFFICES ASSUME TypeInv, EvidenceInv, ReplacementStandsAlone, [Next]_vars
                PROVE  ReplacementStandsAlone'
    BY NextTyped, StepsKeepRows
  <2>1. \A q \in Runs : RowKept(q)
    BY StepsKeepRows
  <2>2. \A q \in Runs : run[q].of \in Runs \union {NoRun}
    BY DEF TypeInv, RowsOK, Row
  <2>3. ASSUME NEW q \in Runs, run'[q].of # NoRun
        PROVE  run'[run'[q].of].state = "reconciled" /\ run'[run'[q].of].recovery # "absent"
    <3>1. CASE run'[q].of = run[q].of
      <4>1. PICK o \in Runs : o = run[q].of /\ o = run'[q].of
        BY <2>2, <2>3, <3>1
      <4>2. run[o].state = "reconciled" /\ run[o].recovery # "absent"
        BY <2>3, <4>1, Zenon DEF ReplacementStandsAlone
      <4>. QED  BY <2>1, <4>1, <4>2 DEF RowKept, Ended
    <3>2. CASE run'[q].of # run[q].of
      BY <2>1, <2>3, <3>2 DEF RowKept
    <3>. QED  BY <3>1, <3>2
  <2>. QED  BY <2>3 DEF ReplacementStandsAlone
<1>. QED  BY <1>1, <1>2, PTL DEF Spec

(***************************************************************************)
(* A run that failed, was cancelled or was given up is never moved again,  *)
(* whatever a slow pass, a late cancel or a recovery still writes.         *)
(***************************************************************************)
THEOREM EndsAreFinal == Spec => EndedStaysEnded
<1>1. Init => TypeInv /\ EvidenceInv
  BY InitTyped, InitEvident
<1>2. TypeInv /\ EvidenceInv /\ [Next]_vars => TypeInv' /\ EvidenceInv'
  BY NextTyped, StepsKeepRows
<1>3. TypeInv /\ EvidenceInv /\ [Next]_vars
         => [\A r \in Runs : run[r].state \in Ended => run'[r].state = run[r].state]_vars
  BY StepsKeepRows DEF RowKept
<1>. QED  BY <1>1, <1>2, <1>3, PTL DEF Spec, EndedStaysEnded

=============================================================================
