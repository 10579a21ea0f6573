---------------------------- MODULE GatewayQuota ----------------------------
(***************************************************************************)
(* The quota gate of the API gateway (service/gateway_quota.go,            *)
(* gateway_quota_bucket.go and their repositories).  A request reserves an *)
(* estimate, first in the ledger of its key and then in the bucket of its  *)
(* model or tenant; after the provider's answer both reservations are      *)
(* finalized with the actual tokens or released.  Reservations that are    *)
(* still pending after a minute are reaped.                                *)
(*                                                                         *)
(* A handler serves a request id; a retry is a second handler with the     *)
(* same id.  Finalize, Release and Reap read the reservation and write it  *)
(* in one transaction, but at READ COMMITTED and without a lock: reading   *)
(* and writing are two steps.                                              *)
(*                                                                         *)
(* The balances are the token columns of a ledger.  Every reservation adds *)
(* its estimate to them, whichever quota its key has.  The request columns *)
(* are not modelled: a key without a request quota adds nothing to them    *)
(* when it reserves, and yet is subtracted when it settles.  What is said  *)
(* here of the tokens does not hold of them.                               *)
(***************************************************************************)
EXTENDS Integers, Sequences, FiniteSets

CONSTANTS Handlers,     \* goroutines that serve gateway requests
          Requests,     \* request ids
          KeyLimit, BucketLimit, \* configured budgets
          Estimate,     \* estimated tokens of a request
          Actuals,      \* tokens a request can turn out to have used
          NoRequest,    \* the request of an idle handler
          MaxTries,     \* bound: calls, retries included
          MaxFaults     \* bound: handlers lost in a crash and database errors

ASSUME QuotaAssumption ==
    /\ IsFiniteSet(Requests) /\ NoRequest \notin Requests
    /\ {KeyLimit, BucketLimit, Estimate} \subseteq Nat \ {0}
    /\ Actuals \subseteq Nat
    /\ {MaxTries, MaxFaults} \subseteq Nat

VARIABLES used, pending, \* the balances of each ledger
          res,      \* res[l][q]: the reservation of request q in ledger l
          handler,  \* handler[h]: what h is doing
          charges,  \* history: how often ledger l was charged for request q
          excess,   \* history: tokens charged in ledger l beyond the estimates
          torn,     \* history: ledgers in which a write met what it had not read
          misread,  \* history: ledgers that reaped a reservation never applied
          tries, faults

ledgers == <<used, pending, res>>
history == <<charges, excess, torn, misread>>
vars == <<ledgers, handler, history, tries, faults>>

Ledgers == {"key", "bucket"}
Limit == [key |-> KeyLimit, bucket |-> BucketLimit]

Status == {"none", "pending", "finalized", "released"}
Reservation == [status : Status, applied : BOOLEAN, old : BOOLEAN]

Handler == [pc : {"idle", "reap", "reaping", "insert", "reserve", "provider", "settle", "settling"},
            request : Requests \cup {NoRequest}, ledger : Ledgers, stale : SUBSET (Requests \X BOOLEAN),
            read : [status : Status, applied : BOOLEAN], actual : Actuals \cup {0},
            plan : Seq({"finalize", "release"} \X Ledgers)]

Idle == [pc |-> "idle", request |-> NoRequest, ledger |-> "key",
         stale |-> {}, read |-> [status |-> "none", applied |-> FALSE], actual |-> 0,
         plan |-> <<>>]

Init ==
    /\ used = [l \in Ledgers |-> 0]
    /\ pending = [l \in Ledgers |-> 0]
    /\ res = [l \in Ledgers |->
                [q \in Requests |-> [status |-> "none", applied |-> FALSE, old |-> FALSE]]]
    /\ handler = [h \in Handlers |-> Idle]
    /\ charges = [l \in Ledgers |-> [q \in Requests |-> 0]]
    /\ excess = [l \in Ledgers |-> 0]
    /\ torn = {} /\ misread = {}
    /\ tries = 0 /\ faults = 0

\* Seeded fault: the balance is not kept from falling below zero.
Minus_Plain(balance, n) == balance - n

\* CASE WHEN pending - n < 0 THEN 0 ELSE pending - n END
Minus(balance, n) == IF balance < n THEN 0 ELSE balance - n

-----------------------------------------------------------------------------
(***************************************************************************)
(* PreauthorizeGatewayQuotaWithBucket: the key's gate, then the bucket's.  *)
(***************************************************************************)
Arrive(h, q) ==
    /\ handler[h].pc = "idle"
    /\ tries < MaxTries
    /\ tries' = tries + 1
    /\ handler' = [handler EXCEPT ![h] = [Idle EXCEPT !.pc = "reap", !.request = q]]
    /\ UNCHANGED <<ledgers, history, faults>>

\* The key's ledger is swept at most once a minute in each process.
SkipReap(h) ==
    /\ handler[h].pc = "reap"
    /\ handler[h].ledger = "key"
    /\ handler' = [handler EXCEPT ![h].pc = "insert"]
    /\ UNCHANGED <<ledgers, history, tries, faults>>

Stale(l) == {q \in Requests : res[l][q].status = "pending" /\ res[l][q].old}

ReapReads(h) ==
    LET l == handler[h].ledger
    IN /\ handler[h].pc = "reap"
       /\ handler' = [handler EXCEPT
             ![h].pc = IF Stale(l) = {} THEN "insert" ELSE "reaping",
             ![h].stale = {<<q, res[l][q].applied>> : q \in Stale(l)}]
       /\ UNCHANGED <<ledgers, history, tries, faults>>

\* Seeded fault: the key's sweep gives back what was never reserved.
Reaped_All(l, stale) == {s[1] : s \in stale}

\* Whose estimates a sweep gives back: the key's ledger looks at applied, the
\* bucket's does not.
Reaped(l, stale) == {s[1] : s \in {r \in stale : r[2] \/ l = "bucket"}}

ReapStaleQuotaReservations(h) ==
    LET l == handler[h].ledger
        stale == handler[h].stale
        rows == {s[1] : s \in stale}
    IN /\ handler[h].pc = "reaping"
       /\ res' = [res EXCEPT ![l] = [q \in Requests |->
                    IF q \in rows THEN [@[q] EXCEPT !.status = "released"] ELSE @[q]]]
       /\ pending' = [pending EXCEPT ![l] = Minus(@, Estimate * Cardinality(Reaped(l, stale)))]
       /\ torn' = IF \A s \in stale : /\ res[l][s[1]].status = "pending"
                                      /\ res[l][s[1]].applied = s[2]
                  THEN torn ELSE torn \cup {l}
       /\ misread' = IF l = "bucket" /\ \E s \in stale : ~s[2] THEN misread \cup {l} ELSE misread
       /\ handler' = [handler EXCEPT ![h].pc = "insert", ![h].stale = {}]
       /\ UNCHANGED <<used, charges, excess, tries, faults>>

\* The gate of the next ledger, or the provider once both are passed.
Passed(h) == IF handler[h].ledger = "key"
             THEN handler' = [handler EXCEPT ![h].pc = "reap", ![h].ledger = "bucket"]
             ELSE handler' = [handler EXCEPT ![h].pc = "provider"]

\* A request id that is retried finds its row and passes without reserving.
AddQuotaReservation(h) ==
    LET l == handler[h].ledger
        q == handler[h].request
    IN /\ handler[h].pc = "insert"
       /\ IF res[l][q].status = "none"
          THEN /\ res' = [res EXCEPT ![l][q].status = "pending"]
               /\ handler' = [handler EXCEPT ![h].pc = "reserve"]
          ELSE Passed(h) /\ UNCHANGED res
       /\ UNCHANGED <<used, pending, history, tries, faults>>

\* What a refused request gives back: in the bucket's gate the reservation of
\* the bucket first, and then the one of the key.
Refund(l) == IF l = "key" THEN <<<<"release", "key">>>>
             ELSE <<<<"release", "bucket">>, <<"release", "key">>>>

Settles(h, plan, actual) ==
    handler' = [handler EXCEPT ![h].pc = "settle", ![h].plan = plan, ![h].actual = actual]

\* Seeded fault: reservations in flight are not counted.
Fits_Used(l) == used[l] + Estimate <= Limit[l]

\* The guard of the UPDATE on the tokens, evaluated under the lock of the row.
Fits(l) == used[l] + pending[l] + Estimate <= Limit[l]

\* The same guard covers the request columns of the row, so it may refuse a
\* request whose tokens fit.
ReserveQuotaTokens(h) ==
    LET l == handler[h].ledger
        q == handler[h].request
    IN /\ handler[h].pc = "reserve"
       /\ \/ /\ Fits(l)
             /\ pending' = [pending EXCEPT ![l] = @ + Estimate]
             /\ res' = [res EXCEPT ![l][q].applied = TRUE]
             /\ Passed(h)
          \/ Settles(h, Refund(l), 0) /\ UNCHANGED <<pending, res>>
       /\ UNCHANGED <<used, history, tries, faults>>

-----------------------------------------------------------------------------
(***************************************************************************)
(* The provider's answer, and what is done with the reservations.          *)
(***************************************************************************)
Both(op) == <<<<op, "key">>, <<op, "bucket">>>>

\* An answer that is metered, one that is not, or a stream that the provider
\* refused, which leaves the reservations to the reaper.
Provider(h) ==
    /\ handler[h].pc = "provider"
    /\ \/ \E n \in Actuals : Settles(h, Both("finalize"), n)
       \/ Settles(h, Both("release"), 0)
       \/ handler' = [handler EXCEPT ![h] = Idle]
    /\ UNCHANGED <<ledgers, history, tries, faults>>

Op(h) == Head(handler[h].plan)[1]
Target(h) == Head(handler[h].plan)[2]
Row(h) == res[Target(h)][handler[h].request]

Seen(h) == [status |-> Row(h).status, applied |-> Row(h).applied]

\* The plan without its first item; the handler is done after the last one.
Settled(h) == handler' = [handler EXCEPT ![h] =
                 IF Len(@.plan) = 1 THEN Idle
                 ELSE [@ EXCEPT !.pc = "settle", !.read = Idle.read,
                                !.plan = Tail(handler[h].plan)]]

\* Seeded fault: a reservation that is no longer pending is settled again.
Settleable_Any(op, row) == row.status # "none" /\ (op = "finalize" => row.applied)

Settleable(op, row) == row.status = "pending" /\ (op = "finalize" => row.applied)

SettleReads(h) ==
    /\ handler[h].pc = "settle"
    /\ IF Settleable(Op(h), Row(h))
       THEN handler' = [handler EXCEPT ![h].pc = "settling", ![h].read = Seen(h)]
       ELSE Settled(h)
    /\ UNCHANGED <<ledgers, history, tries, faults>>

Tears(h) == IF Seen(h) = handler[h].read THEN torn ELSE torn \cup {Target(h)}

FinalizeQuotaReservation(h) ==
    LET l == Target(h)
        q == handler[h].request
        n == handler[h].actual
    IN /\ handler[h].pc = "settling" /\ Op(h) = "finalize"
       /\ res' = [res EXCEPT ![l][q].status = "finalized"]
       /\ used' = [used EXCEPT ![l] = @ + n]
       /\ pending' = [pending EXCEPT ![l] = Minus(@, Estimate)]
       /\ charges' = [charges EXCEPT ![l][q] = @ + 1]
       /\ excess' = [excess EXCEPT ![l] = @ + (IF n > Estimate THEN n - Estimate ELSE 0)]
       /\ torn' = Tears(h)
       /\ Settled(h)
       /\ UNCHANGED <<misread, tries, faults>>

ReleaseQuotaReservation(h) ==
    LET l == Target(h)
        q == handler[h].request
    IN /\ handler[h].pc = "settling" /\ Op(h) = "release"
       /\ res' = [res EXCEPT ![l][q].status = "released"]
       /\ pending' = IF handler[h].read.applied
                     THEN [pending EXCEPT ![l] = Minus(@, Estimate)] ELSE pending
       /\ torn' = Tears(h)
       /\ Settled(h)
       /\ UNCHANGED <<used, charges, excess, misread, tries, faults>>

-----------------------------------------------------------------------------
(***************************************************************************)
(* Faults and the clock.                                                   *)
(***************************************************************************)
\* A statement of a gate fails and the request is refused.  The key's gate
\* leaves its reservation as it is, the bucket's gives back what it holds;
\* when only reading the balance failed, the reservation has been applied.
\* Errors of the key's sweep and of a settlement are logged and ignored.
LedgerFails(h) ==
    LET l == handler[h].ledger
        q == handler[h].request
        refused(held) == IF l = "key" THEN handler' = [handler EXCEPT ![h] = Idle]
                         ELSE Settles(h, Refund(held), 0)
    IN /\ faults < MaxFaults
       /\ faults' = faults + 1
       /\ \/ /\ handler[h].pc = "insert" /\ refused("key")
             /\ UNCHANGED ledgers
          \/ /\ handler[h].pc = "reserve" /\ refused("bucket")
             /\ UNCHANGED ledgers
          \/ /\ handler[h].pc = "reserve" /\ Fits(l)
             /\ pending' = [pending EXCEPT ![l] = @ + Estimate]
             /\ res' = [res EXCEPT ![l][q].applied = TRUE]
             /\ refused("bucket")
             /\ UNCHANGED used
          \/ /\ handler[h].pc \in {"reap", "reaping"}
             /\ IF l = "key" THEN handler' = [handler EXCEPT ![h].pc = "insert", ![h].stale = {}]
                ELSE Settles(h, Refund("key"), 0)
             /\ UNCHANGED ledgers
          \/ /\ handler[h].pc \in {"settle", "settling"}
             /\ Settled(h)
             /\ UNCHANGED ledgers
       /\ UNCHANGED <<history, tries>>

Crash(h) ==
    /\ handler[h].pc # "idle"
    /\ faults < MaxFaults
    /\ faults' = faults + 1
    /\ handler' = [handler EXCEPT ![h] = Idle]
    /\ UNCHANGED <<ledgers, history, tries>>

\* staleQuotaReapInterval passes for a reservation, for the key's before the
\* bucket's, which is inserted later.
Ages(l, q) ==
    /\ res[l][q].status = "pending" /\ ~res[l][q].old
    /\ l = "bucket" => res["key"][q].old \/ res["key"][q].status # "pending"
    /\ res' = [res EXCEPT ![l][q].old = TRUE]
    /\ UNCHANGED <<used, pending, handler, history, tries, faults>>

Next ==
    \/ \E h \in Handlers :
          \/ \E q \in Requests : Arrive(h, q)
          \/ SkipReap(h) \/ ReapReads(h) \/ ReapStaleQuotaReservations(h)
          \/ AddQuotaReservation(h) \/ ReserveQuotaTokens(h) \/ Provider(h)
          \/ SettleReads(h) \/ FinalizeQuotaReservation(h) \/ ReleaseQuotaReservation(h)
          \/ LedgerFails(h) \/ Crash(h)
    \/ \E l \in Ledgers, q \in Requests : Ages(l, q)

Spec == Init /\ [][Next]_vars

-----------------------------------------------------------------------------
Outstanding(l) == {q \in Requests : res[l][q].status = "pending" /\ res[l][q].applied}
Sound(l) == l \notin torn \cup misread

QuotaTypeOK ==
    /\ used \in [Ledgers -> Nat] /\ pending \in [Ledgers -> Nat]
    /\ res \in [Ledgers -> [Requests -> Reservation]]
    /\ handler \in [Handlers -> Handler]
    /\ \A l \in Ledgers, q \in Requests : res[l][q].applied => res[l][q].status # "none"
    /\ charges \in [Ledgers -> [Requests -> Nat]] /\ excess \in [Ledgers -> Nat]
    /\ torn \subseteq Ledgers /\ misread \subseteq Ledgers
    /\ tries \in 0..MaxTries /\ faults \in 0..MaxFaults

(***************************************************************************)
(* Every reservation that may still be finalized is covered by the pending *)
(* tokens: retries, refusals, crashes, failing statements and late reapers *)
(* give back no estimate twice and none that was not reserved.  Excepted   *)
(* are a ledger in which a settlement wrote over one it raced with         *)
(* (ReconciledOnce shows what follows) and a bucket whose sweep met a      *)
(* reservation that was never applied (BalancesAreNotDrained).             *)
(***************************************************************************)
PendingCovers ==
    \A l \in Ledgers : Sound(l) => pending[l] >= Estimate * Cardinality(Outstanding(l))

(***************************************************************************)
(* Concurrent requests do not exceed the token budget together: what is    *)
(* used and reserved stays within the limit, up to the tokens by which     *)
(* finalized requests exceeded their own estimates.  The two exceptions of *)
(* PendingCovers apply.                                                    *)
(***************************************************************************)
BudgetKept ==
    \A l \in Ledgers : Sound(l) => used[l] + pending[l] <= Limit[l] + excess[l]

(***************************************************************************)
(* A request is charged once if its reservation is finalized and never if  *)
(* it is not: a retry that settles after the first handler, a release and  *)
(* a sweep charge nothing.  The two exceptions of PendingCovers apply:     *)
(* settlements of one request that overlap do charge it twice.             *)
(***************************************************************************)
ChargedOnce ==
    \A l \in Ledgers : Sound(l) =>
        \A q \in Requests : charges[l][q] = IF res[l][q].status = "finalized" THEN 1 ELSE 0

\* "It prevents release/reconciliation from draining balances for a request
\* rejected before reservation or interrupted before it could reserve" (Applied,
\* model/metrics.go and model/quota_bucket.go): unless settlements raced, the
\* pending balance covers what is reserved.
BalancesAreNotDrained ==
    \A l \in Ledgers : l \notin torn => pending[l] >= Estimate * Cardinality(Outstanding(l))

\* "exactly once for a given request_id" (FinalizeQuotaReservation,
\* repository/quota.go): a request is charged at most once, without exception.
ReconciledOnce ==
    \A l \in Ledgers, q \in Requests : charges[l][q] <= 1
=============================================================================
