-------------------------- MODULE GatewayQuotaProof --------------------------
(***************************************************************************)
(* Proofs about GatewayQuota, for any handlers, any finite set of request  *)
(* ids, any limits, estimate, actual tokens and bounds.                    *)
(***************************************************************************)
EXTENDS GatewayQuota, FiniteSetTheorems, TLAPS

(***************************************************************************)
(* The part of the state that only handlers own.  A handler that is not    *)
(* idle serves a request; one about to reserve has inserted its row; one   *)
(* that settles has something left to settle, and what it read before it   *)
(* writes could be settled.                                                *)
(***************************************************************************)
LocalOK(x, r) ==
    /\ x.pc # "idle" => x.request \in Requests
    /\ x.pc = "reserve" => r[x.ledger][x.request].status # "none"
    /\ x.pc \in {"settle", "settling"} => x.plan # <<>>
    /\ x.pc = "settling" => Settleable(Head(x.plan)[1], x.read)

HandlersOK ==
    /\ handler \in [Handlers -> Handler]
    /\ \A h \in Handlers : LocalOK(handler[h], res)

RowsOK ==
    /\ res \in [Ledgers -> [Requests -> Reservation]]
    /\ \A l \in Ledgers, q \in Requests : res[l][q].applied => res[l][q].status # "none"

BalancesOK ==
    /\ used \in [Ledgers -> Nat] /\ pending \in [Ledgers -> Nat]
    /\ charges \in [Ledgers -> [Requests -> Nat]] /\ excess \in [Ledgers -> Nat]
    /\ torn \subseteq Ledgers /\ misread \subseteq Ledgers

CountsOK == tries \in 0..MaxTries /\ faults \in 0..MaxFaults

\* No row is ever taken out again.
RowsStay == \A l \in Ledgers, q \in Requests :
               res[l][q].status # "none" => res'[l][q].status # "none"

LEMMA Bounds ==
    /\ KeyLimit \in Nat /\ BucketLimit \in Nat /\ Estimate \in Nat /\ Estimate > 0
    /\ Actuals \subseteq Nat /\ MaxTries \in Nat /\ MaxFaults \in Nat
    /\ IsFiniteSet(Requests)
<1>1. KeyLimit \in Nat \ {0} /\ BucketLimit \in Nat \ {0} /\ Estimate \in Nat \ {0}
  BY QuotaAssumption, Zenon
<1>2. Actuals \subseteq Nat /\ MaxTries \in Nat /\ MaxFaults \in Nat /\ IsFiniteSet(Requests)
  BY QuotaAssumption, Zenon
<1>. QED  BY <1>1, <1>2

-----------------------------------------------------------------------------
(***************************************************************************)
(* Handlers.                                                               *)
(***************************************************************************)
LEMMA HandlerMoves ==
    ASSUME HandlersOK, RowsStay, NEW h \in Handlers, NEW x \in Handler, LocalOK(x, res'),
           handler' = [handler EXCEPT ![h] = x]
    PROVE  HandlersOK'
<1>1. /\ handler' \in [Handlers -> Handler]
      /\ \A k \in Handlers : handler'[k] = IF k = h THEN x ELSE handler[k]
  BY DEF HandlersOK
<1>2. ASSUME NEW k \in Handlers, k # h PROVE LocalOK(handler[k], res')
  <2>1. LocalOK(handler[k], res) /\ handler[k] \in Handler
    BY DEF HandlersOK
  <2>2. handler[k].ledger \in Ledgers
    BY <2>1 DEF Handler
  <2>3. handler[k].pc = "reserve"
           => res'[handler[k].ledger][handler[k].request].status # "none"
    BY <2>1, <2>2 DEF LocalOK, RowsStay
  <2>. QED  BY <2>1, <2>3 DEF LocalOK
<1>. QED  BY <1>1, <1>2 DEF HandlersOK

LEMMA IdleOK == Idle \in Handler /\ \A r : LocalOK(Idle, r)
BY DEF Idle, Handler, LocalOK, Ledgers, Status

LEMMA GoesIdle ==
    ASSUME HandlersOK, RowsStay, NEW h \in Handlers, handler' = [handler EXCEPT ![h] = Idle]
    PROVE  HandlersOK'
BY IdleOK, HandlerMoves, Zenon

\* Starting to settle.
LEMMA SettlesMoves ==
    ASSUME HandlersOK, RowsStay, NEW h \in Handlers, handler[h].pc # "idle",
           NEW plan \in Seq({"finalize", "release"} \X Ledgers), plan # <<>>,
           NEW n \in Actuals \union {0}, Settles(h, plan, n)
    PROVE  HandlersOK'
<1>. DEFINE x == [handler[h] EXCEPT !.pc = "settle", !.plan = plan, !.actual = n]
<1>1. handler[h] \in Handler /\ LocalOK(handler[h], res)
  BY DEF HandlersOK
<1>2. x \in Handler /\ x.pc = "settle" /\ x.plan = plan /\ x.request = handler[h].request
  BY <1>1, Zenon DEF Handler
<1>3. handler' = [handler EXCEPT ![h] = x]
  BY Zenon DEF Settles
<1>. HIDE DEF x
<1>4. LocalOK(x, res')
  BY <1>1, <1>2 DEF LocalOK
<1>. QED  BY <1>2, <1>3, <1>4, HandlerMoves, Zenon

\* The plans are sequences of something to do.
LEMMA PlansOK ==
    /\ \A l \in Ledgers : /\ Refund(l) \in Seq({"finalize", "release"} \X Ledgers)
                          /\ Refund(l) # <<>>
    /\ \A op \in {"finalize", "release"} : /\ Both(op) \in Seq({"finalize", "release"} \X Ledgers)
                                           /\ Both(op) # <<>>
BY DEF Refund, Both, Ledgers

LEMMA TailOK ==
    ASSUME NEW S, NEW s \in Seq(S), s # <<>>, Len(s) # 1
    PROVE  Tail(s) \in Seq(S) /\ Tail(s) # <<>>
<1>1. Len(s) \in Nat /\ Len(s) # 0
  OBVIOUS
<1>2. Tail(s) \in Seq(S) /\ Len(Tail(s)) = Len(s) - 1
  BY <1>1
<1>3. Len(Tail(s)) # 0
  BY <1>1, <1>2
<1>4. Len(<<>>) = 0
  OBVIOUS
<1>5. Tail(s) # <<>>
  BY ONLY <1>3, <1>4, Zenon
<1>. QED  BY ONLY <1>2, <1>5

\* One item of the plan is done.
LEMMA SettledMoves ==
    ASSUME HandlersOK, RowsStay, NEW h \in Handlers, handler[h].pc \in {"settle", "settling"},
           Settled(h)
    PROVE  HandlersOK'
<1>. DEFINE x == [handler[h] EXCEPT !.pc = "settle", !.read = Idle.read,
                                    !.plan = Tail(handler[h].plan)]
<1>1. handler[h] \in Handler /\ LocalOK(handler[h], res)
  BY DEF HandlersOK
<1>2. handler[h].plan \in Seq({"finalize", "release"} \X Ledgers) /\ handler[h].plan # <<>>
  BY <1>1 DEF Handler, LocalOK
<1>3. CASE Len(handler[h].plan) = 1
  BY <1>3, GoesIdle, Zenon DEF Settled, HandlersOK
<1>4. CASE Len(handler[h].plan) # 1
  <2>1. handler' = [handler EXCEPT ![h] = x]
    <3>1. handler' = [handler EXCEPT ![h] = IF Len(handler[h].plan) = 1 THEN Idle ELSE x]
      BY DEF Settled
    <3>. QED  BY <1>4, <3>1
  <2>2. /\ Tail(handler[h].plan) \in Seq({"finalize", "release"} \X Ledgers)
        /\ Tail(handler[h].plan) # <<>>
    BY <1>2, <1>4, TailOK
  <2>3. Idle.read \in [status : Status, applied : BOOLEAN]
    BY DEF Idle, Status
  <2>4. /\ x \in Handler /\ x.pc = "settle" /\ x.plan = Tail(handler[h].plan)
        /\ x.request = handler[h].request
    BY <1>1, <2>2, <2>3, Zenon DEF Handler
  <2>. HIDE DEF x
  <2>5. LocalOK(x, res')
    BY <1>1, <2>2, <2>4 DEF LocalOK
  <2>. QED  BY <2>1, <2>4, <2>5, HandlerMoves, Zenon
<1>. QED  BY <1>3, <1>4

-----------------------------------------------------------------------------
(***************************************************************************)
(* Rows and balances.                                                      *)
(***************************************************************************)
LEMMA RowMoves ==
    ASSUME RowsOK, NEW l \in Ledgers, NEW q \in Requests, NEW x \in Reservation,
           x.status # "none", res' = [res EXCEPT ![l][q] = x]
    PROVE  /\ RowsOK' /\ RowsStay
           /\ \A m \in Ledgers, r \in Requests :
                 res'[m][r] = IF m = l /\ r = q THEN x ELSE res[m][r]
           /\ \A m \in Ledgers : m # l => res'[m] = res[m]
<1>1. res' \in [Ledgers -> [Requests -> Reservation]]
  BY DEF RowsOK
<1>2. /\ \A m \in Ledgers, r \in Requests :
            res'[m][r] = IF m = l /\ r = q THEN x ELSE res[m][r]
      /\ \A m \in Ledgers : m # l => res'[m] = res[m]
  BY DEF RowsOK
<1>3. \A m \in Ledgers, r \in Requests : res'[m][r].applied => res'[m][r].status # "none"
  BY <1>2 DEF RowsOK
<1>4. RowsStay
  BY <1>2 DEF RowsStay
<1>. QED  BY <1>1, <1>2, <1>3, <1>4 DEF RowsOK

LEMMA MinusOK ==
    ASSUME NEW b \in Nat, NEW n \in Nat
    PROVE  Minus(b, n) \in Nat /\ (b >= n => Minus(b, n) = b - n)
BY DEF Minus

LEMMA Products ==
    ASSUME NEW a \in Nat, NEW b \in Nat
    PROVE  Estimate * a \in Nat /\ Estimate * (a + b) = Estimate * a + Estimate * b
BY Bounds

LEMMA OutstandingFinite ==
    ASSUME NEW l \in Ledgers
    PROVE  IsFiniteSet(Outstanding(l)) /\ Cardinality(Outstanding(l)) \in Nat
<1>1. Outstanding(l) \subseteq Requests
  BY DEF Outstanding
<1>. QED  BY <1>1, Bounds, FS_Subset, FS_CardinalityType

\* A sweep gives back the estimates of finitely many requests.
LEMMA ReapedFinite ==
    ASSUME NEW l \in Ledgers, NEW T \in SUBSET (Requests \X BOOLEAN)
    PROVE  /\ Reaped(l, T) \subseteq Requests /\ IsFiniteSet(Reaped(l, T))
           /\ Cardinality(Reaped(l, T)) \in Nat /\ Estimate * Cardinality(Reaped(l, T)) \in Nat
<1>1. Reaped(l, T) \subseteq Requests
  BY DEF Reaped
<1>2. IsFiniteSet(Reaped(l, T)) /\ Cardinality(Reaped(l, T)) \in Nat
  BY <1>1, Bounds, FS_Subset, FS_CardinalityType
<1>. QED  BY <1>1, <1>2, Bounds

-----------------------------------------------------------------------------
(***************************************************************************)
(* The balances of a ledger in which no write met what it had not read and *)
(* no sweep gave back what was never reserved.  The three properties are   *)
(* inductive together: a settlement gives back no more than the pending    *)
(* balance because the balance covers it, and charges a request that was   *)
(* not charged because its row was pending.                                *)
(***************************************************************************)
Balanced(l) ==
    /\ pending[l] >= Estimate * Cardinality(Outstanding(l))
    /\ used[l] + pending[l] <= Limit[l] + excess[l]
    /\ \A q \in Requests : charges[l][q] = IF res[l][q].status = "finalized" THEN 1 ELSE 0

BalanceInv == \A l \in Ledgers : Sound(l) => Balanced(l)

\* A step that leaves a ledger alone, or touches only its handlers.
SameLedger(m) ==
    /\ res'[m] = res[m] /\ used'[m] = used[m] /\ pending'[m] = pending[m]
    /\ charges'[m] = charges[m] /\ excess'[m] = excess[m]

Grows == torn \subseteq torn' /\ misread \subseteq misread'

LEMMA OneLedger ==
    ASSUME BalanceInv, Grows, NEW l \in Ledgers,
           \A m \in Ledgers : m # l => SameLedger(m),
           Sound(l)' /\ Sound(l) /\ Balanced(l) => Balanced(l)'
    PROVE  BalanceInv'
<1>1. SUFFICES ASSUME NEW m \in Ledgers, Sound(m)' PROVE Balanced(m)'
  BY DEF BalanceInv
<1>2. Sound(m) /\ Balanced(m)
  BY <1>1 DEF Sound, Grows, BalanceInv
<1>3. CASE m = l
  BY <1>1, <1>2, <1>3
<1>4. CASE m # l
  <2>1. SameLedger(m)
    BY <1>4
  <2>2. Outstanding(m)' = Outstanding(m)
    BY <2>1 DEF SameLedger, Outstanding
  <2>. QED  BY <1>2, <2>1, <2>2 DEF SameLedger, Balanced
<1>. QED  BY <1>3, <1>4

LEMMA NoLedger ==
    ASSUME BalanceInv, UNCHANGED <<ledgers, history>>
    PROVE  BalanceInv'
<1>1. \A m \in Ledgers : Outstanding(m)' = Outstanding(m) /\ (Sound(m)' <=> Sound(m))
  BY DEF Outstanding, Sound, ledgers, history
<1>. QED  BY <1>1 DEF BalanceInv, Balanced, ledgers, history

-----------------------------------------------------------------------------
(***************************************************************************)
(* What the steps do to a ledger, whoever takes them.                      *)
(***************************************************************************)
LedgersOK == RowsOK /\ BalancesOK /\ BalanceInv

LEMMA QuietLedgers ==
    ASSUME LedgersOK, UNCHANGED <<ledgers, history>>
    PROVE  LedgersOK' /\ RowsStay
<1>1. RowsOK' /\ BalancesOK' /\ RowsStay
  BY DEF LedgersOK, RowsOK, BalancesOK, RowsStay, ledgers, history
<1>. QED  BY <1>1, NoLedger DEF LedgersOK

\* A reservation is inserted: it is not applied yet.
LEMMA RowInserted ==
    ASSUME LedgersOK, NEW l \in Ledgers, NEW q \in Requests, res[l][q].status = "none",
           res' = [res EXCEPT ![l][q].status = "pending"], UNCHANGED <<used, pending, history>>
    PROVE  LedgersOK' /\ RowsStay /\ res'[l][q].status # "none"
<1>. DEFINE x == [res[l][q] EXCEPT !.status = "pending"]
<1>0. res[l][q] \in Reservation /\ ~res[l][q].applied
  BY DEF LedgersOK, RowsOK
<1>1. /\ x \in Reservation /\ x.status = "pending" /\ x.applied = res[l][q].applied
      /\ ~res[l][q].applied
  BY <1>0 DEF Reservation, Status
<1>2. res' = [res EXCEPT ![l][q] = x]
  BY DEF LedgersOK, RowsOK
<1>. HIDE DEF x
<1>3. /\ RowsOK' /\ RowsStay
      /\ \A m \in Ledgers, r \in Requests :
            res'[m][r] = IF m = l /\ r = q THEN x ELSE res[m][r]
      /\ \A m \in Ledgers : m # l => res'[m] = res[m]
  BY <1>1, <1>2, RowMoves, Zenon DEF LedgersOK
<1>4. BalancesOK' /\ Grows
  BY DEF LedgersOK, BalancesOK, history, Grows
<1>5. \A m \in Ledgers : m # l => SameLedger(m)
  BY <1>3 DEF SameLedger, history
<1>6. Outstanding(l)' = Outstanding(l)
  BY <1>1, <1>3 DEF Outstanding
<1>7. Balanced(l) => Balanced(l)'
  BY <1>1, <1>3, <1>6 DEF Balanced, history
<1>8. BalanceInv'
  BY <1>4, <1>5, <1>7, OneLedger DEF LedgersOK
<1>. QED  BY <1>1, <1>3, <1>4, <1>8 DEF LedgersOK

\* The estimate of an inserted reservation is reserved, if it fits.
LEMMA RowApplied ==
    ASSUME LedgersOK, NEW l \in Ledgers, NEW q \in Requests, res[l][q].status # "none", Fits(l),
           pending' = [pending EXCEPT ![l] = @ + Estimate],
           res' = [res EXCEPT ![l][q].applied = TRUE], UNCHANGED <<used, history>>
    PROVE  LedgersOK' /\ RowsStay
<1>. DEFINE x == [res[l][q] EXCEPT !.applied = TRUE]
<1>0. res[l][q] \in Reservation
  BY DEF LedgersOK, RowsOK
<1>1. x \in Reservation /\ x.status = res[l][q].status /\ x.status # "none"
  BY <1>0, Zenon DEF Reservation
<1>2. RowsOK /\ res' = [res EXCEPT ![l][q] = x]
  BY DEF LedgersOK, RowsOK
<1>. HIDE DEF x
<1>3. /\ RowsOK' /\ RowsStay
      /\ \A m \in Ledgers, r \in Requests :
            res'[m][r] = IF m = l /\ r = q THEN x ELSE res[m][r]
      /\ \A m \in Ledgers : m # l => res'[m] = res[m]
  <2>1. x \in Reservation /\ x.status # "none"
    BY <1>1
  <2>2. RowsOK /\ res' = [res EXCEPT ![l][q] = x]
    BY <1>2, Zenon
  <2>. QED  BY ONLY <2>1, <2>2, RowMoves, l \in Ledgers, q \in Requests, Zenon
<1>4. /\ BalancesOK' /\ Grows /\ pending'[l] = pending[l] + Estimate
      /\ pending[l] \in Nat /\ used[l] \in Nat /\ excess[l] \in Nat
  BY Bounds DEF LedgersOK, BalancesOK, history, Grows
<1>5. \A m \in Ledgers : m # l => SameLedger(m)
  BY <1>3 DEF SameLedger, history, LedgersOK, BalancesOK
<1>6. Cardinality(Outstanding(l)') <= Cardinality(Outstanding(l)) + 1
      /\ Cardinality(Outstanding(l)') \in Nat
  <2>1. Outstanding(l)' \subseteq Outstanding(l) \union {q}
    BY <1>3 DEF Outstanding
  <2>2. /\ IsFiniteSet(Outstanding(l) \union {q})
        /\ Cardinality(Outstanding(l) \union {q}) <= Cardinality(Outstanding(l)) + 1
        /\ Cardinality(Outstanding(l) \union {q}) \in Nat
    <3>1. /\ IsFiniteSet(Outstanding(l) \union {q})
          /\ \/ Cardinality(Outstanding(l) \union {q}) = Cardinality(Outstanding(l))
             \/ Cardinality(Outstanding(l) \union {q}) = Cardinality(Outstanding(l)) + 1
      BY OutstandingFinite, FS_AddElement, Zenon
    <3>. QED  BY <3>1, OutstandingFinite
  <2>3. /\ Cardinality(Outstanding(l)') \in Nat
        /\ Cardinality(Outstanding(l)') <= Cardinality(Outstanding(l) \union {q})
    BY <2>1, <2>2, FS_Subset, FS_CardinalityType
  <2>. QED  BY <2>2, <2>3, OutstandingFinite
<1>7. ASSUME Balanced(l) PROVE Balanced(l)'
  <2>1. pending'[l] >= Estimate * Cardinality(Outstanding(l)')
    <3>. DEFINE a == Cardinality(Outstanding(l))
                b == Cardinality(Outstanding(l)')
    <3>1. a \in Nat /\ b \in Nat /\ b <= a + 1 /\ pending[l] >= Estimate * a
      BY <1>6, <1>7, OutstandingFinite DEF Balanced
    <3>. HIDE DEF a, b
    <3>. DEFINE d == (a + 1) - b
    <3>2. d \in Nat /\ b + d = a + 1
      BY <3>1
    <3>. HIDE DEF d
    <3>3. Estimate * b + Estimate * d = Estimate * a + Estimate
      BY <3>1, <3>2, Products, Bounds
    <3>4. Estimate * b \in Nat /\ Estimate * d \in Nat /\ Estimate * a \in Nat
      BY <3>1, <3>2, Products
    <3>. QED  BY <1>4, <3>1, <3>3, <3>4, Bounds DEF b
  <2>2. used'[l] + pending'[l] <= Limit[l] + excess'[l]
    <3>1. Limit[l] \in Nat
      BY Bounds DEF Limit, Ledgers
    <3>. QED  BY <3>1, <1>4, Bounds DEF Fits, history
  <2>3. \A r \in Requests : charges'[l][r] = IF res'[l][r].status = "finalized" THEN 1 ELSE 0
    BY <1>1, <1>3, <1>7 DEF Balanced, history
  <2>. QED  BY <2>1, <2>2, <2>3 DEF Balanced
<1>8. BalanceInv'
  BY <1>4, <1>5, <1>7, OneLedger DEF LedgersOK
<1>. QED  BY <1>3, <1>4, <1>8 DEF LedgersOK

\* A reservation turns old.
LEMMA RowAges ==
    ASSUME LedgersOK, NEW l \in Ledgers, NEW q \in Requests, res[l][q].status = "pending",
           res' = [res EXCEPT ![l][q].old = TRUE], UNCHANGED <<used, pending, history>>
    PROVE  LedgersOK' /\ RowsStay
<1>. DEFINE x == [res[l][q] EXCEPT !.old = TRUE]
<1>0. res[l][q] \in Reservation
  BY DEF LedgersOK, RowsOK
<1>1. /\ x \in Reservation /\ x.status = "pending" /\ x.applied = res[l][q].applied
  BY <1>0, Zenon DEF Reservation
<1>2. res' = [res EXCEPT ![l][q] = x] /\ RowsOK
  BY DEF LedgersOK, RowsOK
<1>. HIDE DEF x
<1>3. /\ RowsOK' /\ RowsStay
      /\ \A m \in Ledgers, r \in Requests :
            res'[m][r] = IF m = l /\ r = q THEN x ELSE res[m][r]
      /\ \A m \in Ledgers : m # l => res'[m] = res[m]
  BY ONLY <1>1, <1>2, RowMoves, l \in Ledgers, q \in Requests, Zenon
<1>4. BalancesOK' /\ Grows
  BY DEF LedgersOK, BalancesOK, history, Grows
<1>5. \A m \in Ledgers : m # l => SameLedger(m)
  BY <1>3 DEF SameLedger, history
<1>6. Outstanding(l)' = Outstanding(l)
  BY <1>1, <1>3 DEF Outstanding
<1>7. Balanced(l) => Balanced(l)'
  BY <1>1, <1>3, <1>6 DEF Balanced, history
<1>8. BalanceInv'
  BY <1>4, <1>5, <1>7, OneLedger DEF LedgersOK
<1>. QED  BY <1>3, <1>4, <1>8 DEF LedgersOK

\* Settling one request of those outstanding lowers their number by one, and
\* the pending balance covers its estimate.
LEMMA OneSettled ==
    ASSUME NEW l \in Ledgers, BalancesOK, NEW q \in Requests, Balanced(l), q \in Outstanding(l),
           Outstanding(l)' = Outstanding(l) \ {q}, pending'[l] = Minus(pending[l], Estimate)
    PROVE  /\ pending'[l] = pending[l] - Estimate
           /\ pending'[l] >= Estimate * Cardinality(Outstanding(l)')
<1>. DEFINE a == Cardinality(Outstanding(l)')
<1>1. a \in Nat /\ Cardinality(Outstanding(l)) = a + 1
  <2>1. /\ IsFiniteSet(Outstanding(l) \ {q})
        /\ Cardinality(Outstanding(l) \ {q}) = Cardinality(Outstanding(l)) - 1
    BY OutstandingFinite, FS_RemoveElement
  <2>2. a \in Nat
    BY <2>1, FS_CardinalityType
  <2>. QED  BY <2>1, <2>2, OutstandingFinite
<1>. HIDE DEF a
<1>2. Estimate * (a + 1) = Estimate * a + Estimate /\ Estimate * a \in Nat
  BY <1>1, Products, Bounds
<1>3. pending[l] >= Estimate * a + Estimate /\ pending[l] \in Nat
  BY <1>1, <1>2 DEF Balanced, BalancesOK
<1>4. pending'[l] = pending[l] - Estimate
  <2>1. pending[l] >= Estimate
    BY <1>2, <1>3, Bounds
  <2>. QED  BY <1>3, <2>1, Bounds, MinusOK
<1>. QED  BY <1>2, <1>3, <1>4, Bounds DEF a

\* A reservation is finalized: if the row is as it was read, it is outstanding.
LEMMA RowFinalized ==
    ASSUME LedgersOK, NEW l \in Ledgers, NEW q \in Requests, NEW n \in Nat,
           res' = [res EXCEPT ![l][q].status = "finalized"],
           used' = [used EXCEPT ![l] = @ + n],
           pending' = [pending EXCEPT ![l] = Minus(@, Estimate)],
           charges' = [charges EXCEPT ![l][q] = @ + 1],
           excess' = [excess EXCEPT ![l] = @ + (IF n > Estimate THEN n - Estimate ELSE 0)],
           torn' \in {torn, torn \union {l}}, misread' = misread,
           l \notin torn' => q \in Outstanding(l)
    PROVE  LedgersOK' /\ RowsStay
<1>. DEFINE x == [res[l][q] EXCEPT !.status = "finalized"]
            e == IF n > Estimate THEN n - Estimate ELSE 0
<1>0. res[l][q] \in Reservation
  BY DEF LedgersOK, RowsOK
<1>1. x \in Reservation /\ x.status = "finalized"
  BY <1>0 DEF Reservation, Status
<1>2. res' = [res EXCEPT ![l][q] = x] /\ RowsOK
  BY DEF LedgersOK, RowsOK
<1>. HIDE DEF x
<1>3. /\ RowsOK' /\ RowsStay
      /\ \A m \in Ledgers, r \in Requests :
            res'[m][r] = IF m = l /\ r = q THEN x ELSE res[m][r]
      /\ \A m \in Ledgers : m # l => res'[m] = res[m]
  BY ONLY <1>1, <1>2, RowMoves, l \in Ledgers, q \in Requests, Zenon
<1>4. /\ e \in Nat /\ n - Estimate <= e
      /\ Minus(pending[l], Estimate) \in Nat /\ pending[l] \in Nat
      /\ used[l] \in Nat /\ excess[l] \in Nat
  BY Bounds, MinusOK DEF LedgersOK, BalancesOK
<1>5. excess' = [excess EXCEPT ![l] = excess[l] + e]
  OBVIOUS
<1>. HIDE DEF e
<1>6. /\ used'[l] = used[l] + n /\ pending'[l] = Minus(pending[l], Estimate)
      /\ excess'[l] = excess[l] + e
      /\ \A r \in Requests : charges'[l][r] = charges[l][r] + (IF r = q THEN 1 ELSE 0)
  BY <1>5 DEF LedgersOK, BalancesOK
<1>7. BalancesOK'
  <2>1. used' \in [Ledgers -> Nat] /\ excess' \in [Ledgers -> Nat]
    BY <1>4, <1>5 DEF LedgersOK, BalancesOK
  <2>2. pending' \in [Ledgers -> Nat]
    BY <1>4 DEF LedgersOK, BalancesOK
  <2>3. charges' \in [Ledgers -> [Requests -> Nat]]
    BY DEF LedgersOK, BalancesOK
  <2>4. torn' \subseteq Ledgers /\ misread' \subseteq Ledgers
    BY DEF LedgersOK, BalancesOK
  <2>. QED  BY <2>1, <2>2, <2>3, <2>4 DEF BalancesOK
<1>8. Grows /\ \A m \in Ledgers : m # l => SameLedger(m)
  BY <1>3, <1>5 DEF Grows, SameLedger, LedgersOK, BalancesOK
<1>9. ASSUME Sound(l)', Balanced(l) PROVE Balanced(l)'
  <2>1. q \in Outstanding(l)
    BY <1>9 DEF Sound
  <2>2. Outstanding(l)' = Outstanding(l) \ {q}
    BY <1>1, <1>3 DEF Outstanding
  <2>3. /\ pending'[l] = pending[l] - Estimate
        /\ pending'[l] >= Estimate * Cardinality(Outstanding(l)')
    BY <1>6, <1>9, <2>1, <2>2, OneSettled, Zenon DEF LedgersOK
  <2>4. used'[l] + pending'[l] <= Limit[l] + excess'[l]
    <3>1. Limit[l] \in Nat
      BY Bounds DEF Limit, Ledgers
    <3>2. used[l] + pending[l] <= Limit[l] + excess[l]
      BY <1>9 DEF Balanced
    <3>. QED  BY <3>1, <3>2, <1>4, <1>6, <2>3, Bounds
  <2>5. charges[l][q] = 0
    BY <1>9, <2>1 DEF Balanced, Outstanding
  <2>6. \A r \in Requests : charges'[l][r] = IF res'[l][r].status = "finalized" THEN 1 ELSE 0
    BY <1>1, <1>3, <1>6, <1>9, <2>5 DEF Balanced, LedgersOK, BalancesOK
  <2>. QED  BY <2>3, <2>4, <2>6 DEF Balanced
<1>10. BalanceInv'
  BY <1>8, <1>9, OneLedger DEF LedgersOK
<1>. QED  BY <1>3, <1>7, <1>10 DEF LedgersOK

\* A reservation is released: a row that is as it was read is pending, and
\* outstanding if it was read as applied.
LEMMA RowReleased ==
    ASSUME LedgersOK, NEW l \in Ledgers, NEW q \in Requests, NEW applied \in BOOLEAN,
           res' = [res EXCEPT ![l][q].status = "released"],
           pending' = IF applied THEN [pending EXCEPT ![l] = Minus(@, Estimate)] ELSE pending,
           torn' \in {torn, torn \union {l}}, UNCHANGED <<used, charges, excess, misread>>,
           l \notin torn' => res[l][q].status = "pending" /\ res[l][q].applied = applied
    PROVE  LedgersOK' /\ RowsStay
<1>. DEFINE x == [res[l][q] EXCEPT !.status = "released"]
<1>0. res[l][q] \in Reservation
  BY DEF LedgersOK, RowsOK
<1>1. x \in Reservation /\ x.status = "released"
  BY <1>0 DEF Reservation, Status
<1>2. res' = [res EXCEPT ![l][q] = x] /\ RowsOK
  BY DEF LedgersOK, RowsOK
<1>. HIDE DEF x
<1>3. /\ RowsOK' /\ RowsStay
      /\ \A m \in Ledgers, r \in Requests :
            res'[m][r] = IF m = l /\ r = q THEN x ELSE res[m][r]
      /\ \A m \in Ledgers : m # l => res'[m] = res[m]
  BY ONLY <1>1, <1>2, RowMoves, l \in Ledgers, q \in Requests, Zenon
<1>4. /\ Minus(pending[l], Estimate) \in Nat /\ pending[l] \in Nat
      /\ used[l] \in Nat /\ excess[l] \in Nat
  BY Bounds, MinusOK DEF LedgersOK, BalancesOK
<1>5. /\ pending' \in [Ledgers -> Nat]
      /\ pending'[l] = IF applied THEN Minus(pending[l], Estimate) ELSE pending[l]
      /\ \A m \in Ledgers : m # l => pending'[m] = pending[m]
  BY <1>4 DEF LedgersOK, BalancesOK
<1>6. BalancesOK' /\ Grows
  BY <1>5 DEF LedgersOK, BalancesOK, Grows
<1>7. \A m \in Ledgers : m # l => SameLedger(m)
  BY <1>3, <1>5 DEF SameLedger
<1>8. ASSUME Sound(l)', Balanced(l) PROVE Balanced(l)'
  <2>1. res[l][q].status = "pending" /\ res[l][q].applied = applied
    BY <1>8 DEF Sound
  <2>2. Outstanding(l)' = Outstanding(l) \ {q}
    BY <1>1, <1>3 DEF Outstanding
  <2>3. /\ pending'[l] <= pending[l] /\ pending'[l] \in Nat
        /\ pending'[l] >= Estimate * Cardinality(Outstanding(l)')
    <3>1. CASE applied
      <4>1. q \in Outstanding(l)
        BY <2>1, <3>1, Zenon DEF Outstanding
      <4>2. /\ pending'[l] = pending[l] - Estimate
            /\ pending'[l] >= Estimate * Cardinality(Outstanding(l)')
        BY <1>5, <1>8, <2>2, <3>1, <4>1, OneSettled, Zenon DEF LedgersOK
      <4>. QED  BY <1>4, <1>5, <4>2, Bounds
    <3>2. CASE ~applied
      <4>1. Outstanding(l)' = Outstanding(l)
        BY <2>1, <2>2, <3>2 DEF Outstanding
      <4>. QED  BY <1>4, <1>5, <1>8, <3>2, <4>1 DEF Balanced
    <3>. QED  BY <3>1, <3>2
  <2>4. used'[l] + pending'[l] <= Limit[l] + excess'[l]
    <3>1. Limit[l] \in Nat
      BY Bounds DEF Limit, Ledgers
    <3>2. used[l] + pending[l] <= Limit[l] + excess[l]
      BY <1>8 DEF Balanced
    <3>. QED  BY <3>1, <3>2, <1>4, <2>3
  <2>5. \A r \in Requests : charges'[l][r] = IF res'[l][r].status = "finalized" THEN 1 ELSE 0
    BY <1>1, <1>3, <1>8, <2>1 DEF Balanced
  <2>. QED  BY <2>3, <2>4, <2>5 DEF Balanced
<1>9. BalanceInv'
  BY <1>6, <1>7, <1>8, OneLedger DEF LedgersOK
<1>. QED  BY <1>3, <1>6, <1>9 DEF LedgersOK

\* A sweep: if every row is as it was read, and a row of the bucket was read as
\* applied, then what is given back is exactly what was outstanding.
Swept(l, stale) ==
    [res EXCEPT ![l] = [q \in Requests |->
        IF q \in {s[1] : s \in stale} THEN [res[l][q] EXCEPT !.status = "released"]
        ELSE res[l][q]]]

LEMMA RowsReaped ==
    ASSUME LedgersOK, NEW l \in Ledgers, NEW stale \in SUBSET (Requests \X BOOLEAN),
           res' = Swept(l, stale),
           pending' = [pending EXCEPT ![l] = Minus(@, Estimate * Cardinality(Reaped(l, stale)))],
           torn' \in {torn, torn \union {l}}, misread' \in {misread, misread \union {l}},
           UNCHANGED <<used, charges, excess>>,
           Sound(l)' => /\ \A s \in stale : /\ res[l][s[1]].status = "pending"
                                            /\ res[l][s[1]].applied = s[2]
                        /\ l = "bucket" => \A s \in stale : s[2]
    PROVE  LedgersOK' /\ RowsStay
<1>. DEFINE rows == {s[1] : s \in stale}
            R == Reaped(l, stale)
<1>1. /\ rows \subseteq Requests /\ R \subseteq Requests /\ IsFiniteSet(R)
      /\ Cardinality(R) \in Nat /\ Estimate * Cardinality(R) \in Nat
  BY ReapedFinite
<1>2. /\ \A r \in Requests : res'[l][r] = IF r \in rows
                                         THEN [res[l][r] EXCEPT !.status = "released"]
                                         ELSE res[l][r]
      /\ \A m \in Ledgers : m # l => res'[m] = res[m]
  BY DEF LedgersOK, RowsOK, Swept
<1>3. /\ \A r \in Requests : /\ res'[l][r] \in Reservation
                             /\ res'[l][r].applied = res[l][r].applied
                             /\ r \notin rows => res'[l][r] = res[l][r]
                             /\ r \in rows => res'[l][r].status = "released"
  <2>. HIDE DEF rows
  <2>1. \A r \in Requests : res[l][r] \in Reservation
    BY DEF LedgersOK, RowsOK
  <2>2. SUFFICES ASSUME NEW r \in Requests
                 PROVE  /\ res'[l][r] \in Reservation
                        /\ res'[l][r].applied = res[l][r].applied
                        /\ r \notin rows => res'[l][r] = res[l][r]
                        /\ r \in rows => res'[l][r].status = "released"
    OBVIOUS
  <2>3. CASE r \in rows
    <3>. DEFINE x == [res[l][r] EXCEPT !.status = "released"]
    <3>1. res'[l][r] = x
      BY <1>2, <2>3
    <3>2. res[l][r] \in Reservation
      BY <2>1
    <3>3. x \in Reservation /\ x.applied = res[l][r].applied /\ x.status = "released"
      BY <3>2 DEF Reservation, Status
    <3>. HIDE DEF x
    <3>. QED  BY <2>3, <3>1, <3>3
  <2>4. CASE r \notin rows
    <3>1. res'[l][r] = res[l][r]
      BY <1>2, <2>4, Zenon
    <3>. QED  BY <2>1, <2>4, <3>1
  <2>. QED  BY <2>3, <2>4
<1>4. RowsOK' /\ RowsStay
  <2>1. res' \in [Ledgers -> [Requests -> Reservation]]
    BY <1>3 DEF LedgersOK, RowsOK, Swept
  <2>2. ASSUME NEW m \in Ledgers, NEW r \in Requests
        PROVE  /\ res'[m][r].applied => res'[m][r].status # "none"
               /\ res[m][r].status # "none" => res'[m][r].status # "none"
    BY <1>2, <1>3 DEF LedgersOK, RowsOK
  <2>. QED  BY <2>1, <2>2 DEF RowsOK, RowsStay
<1>5. /\ Minus(pending[l], Estimate * Cardinality(R)) \in Nat /\ pending[l] \in Nat
      /\ used[l] \in Nat /\ excess[l] \in Nat
  BY <1>1, MinusOK DEF LedgersOK, BalancesOK
<1>6. /\ pending' \in [Ledgers -> Nat]
      /\ pending'[l] = Minus(pending[l], Estimate * Cardinality(R))
      /\ \A m \in Ledgers : m # l => pending'[m] = pending[m]
  BY <1>5 DEF LedgersOK, BalancesOK
<1>. HIDE DEF R, rows
<1>7. BalancesOK' /\ Grows
  BY <1>6 DEF LedgersOK, BalancesOK, Grows
<1>8. \A m \in Ledgers : m # l => SameLedger(m)
  BY <1>2, <1>6 DEF SameLedger
<1>9. ASSUME Sound(l)', Balanced(l) PROVE Balanced(l)'
  <2>1. /\ \A s \in stale : res[l][s[1]].status = "pending" /\ res[l][s[1]].applied = s[2]
        /\ R = {s[1] : s \in {t \in stale : t[2]}}
    BY <1>9 DEF R, Reaped
  <2>2. Outstanding(l)' = Outstanding(l) \ R /\ R \subseteq Outstanding(l)
    <3>1. R \subseteq Outstanding(l)
      BY <2>1 DEF Outstanding
    <3>2. \A r \in Outstanding(l) : r \in rows <=> r \in R
      BY <2>1 DEF Outstanding, rows
    <3>3. ASSUME NEW r \in Requests
          PROVE  res'[l][r].status = "pending" /\ res'[l][r].applied
                   <=> res[l][r].status = "pending" /\ res[l][r].applied /\ r \notin R
      BY <1>3, <2>1, <3>1, <3>2 DEF Outstanding, rows
    <3>. QED  BY <3>1, <3>3 DEF Outstanding
  <2>3. /\ pending'[l] <= pending[l] /\ pending'[l] \in Nat
        /\ pending'[l] >= Estimate * Cardinality(Outstanding(l)')
    <3>. DEFINE a == Cardinality(Outstanding(l)')
                b == Cardinality(R)
    <3>1. a \in Nat /\ b \in Nat /\ Cardinality(Outstanding(l)) = a + b
      <4>1. Outstanding(l) \cap R = R
        BY <2>2
      <4>2. /\ IsFiniteSet(Outstanding(l) \ R)
            /\ Cardinality(Outstanding(l) \ R) = Cardinality(Outstanding(l)) - Cardinality(R)
        <5>1. /\ IsFiniteSet(Outstanding(l) \ R)
              /\ Cardinality(Outstanding(l) \ R)
                    = Cardinality(Outstanding(l)) - Cardinality(Outstanding(l) \cap R)
          BY OutstandingFinite, FS_Difference, Zenon
        <5>. QED  BY ONLY <4>1, <5>1
      <4>3. a \in Nat
        BY <2>2, <4>2, FS_CardinalityType
      <4>. QED  BY <1>1, <2>2, <4>2, <4>3, OutstandingFinite
    <3>. HIDE DEF a, b
    <3>2. /\ Estimate * (a + b) = Estimate * a + Estimate * b
          /\ Estimate * a \in Nat /\ Estimate * b \in Nat
      BY <3>1, Products, Zenon
    <3>3. pending[l] >= Estimate * a + Estimate * b
      BY <1>9, <3>1, <3>2 DEF Balanced
    <3>4. pending[l] >= Estimate * b
      BY <1>5, <3>2, <3>3
    <3>5. pending'[l] = pending[l] - Estimate * b
      BY <1>5, <1>6, <3>2, <3>4, MinusOK DEF b
    <3>. QED  BY <1>5, <1>6, <3>2, <3>3, <3>5 DEF a
  <2>4. used'[l] + pending'[l] <= Limit[l] + excess'[l]
    <3>1. Limit[l] \in Nat
      BY Bounds DEF Limit, Ledgers
    <3>2. used[l] + pending[l] <= Limit[l] + excess[l]
      BY <1>9 DEF Balanced
    <3>. QED  BY <3>1, <3>2, <1>5, <2>3
  <2>5. \A r \in Requests : charges'[l][r] = IF res'[l][r].status = "finalized" THEN 1 ELSE 0
    <3>1. \A r \in rows : res[l][r].status = "pending"
      BY <2>1 DEF rows
    <3>. QED  BY <1>1, <1>3, <1>9, <3>1 DEF Balanced
  <2>. QED  BY <2>3, <2>4, <2>5 DEF Balanced
<1>10. BalanceInv'
  BY <1>7, <1>8, <1>9, OneLedger DEF LedgersOK
<1>. QED  BY <1>4, <1>7, <1>10 DEF LedgersOK

-----------------------------------------------------------------------------
(***************************************************************************)
(* The steps of a handler.                                                 *)
(***************************************************************************)
QuotaInv == HandlersOK /\ LedgersOK /\ CountsOK

LEMMA HandlerFacts ==
    ASSUME HandlersOK, NEW h \in Handlers
    PROVE  /\ handler[h] \in Handler /\ LocalOK(handler[h], res)
           /\ handler[h].ledger \in Ledgers /\ handler[h].actual \in Nat
           /\ handler[h].stale \in SUBSET (Requests \X BOOLEAN)
           /\ handler[h].pc # "idle" => handler[h].request \in Requests
<1>1. handler[h] \in Handler /\ LocalOK(handler[h], res)
  BY DEF HandlersOK
<1>2. /\ handler[h].ledger \in Ledgers /\ handler[h].actual \in Actuals \union {0}
      /\ handler[h].stale \in SUBSET (Requests \X BOOLEAN)
  BY <1>1 DEF Handler
<1>3. handler[h].actual \in Nat
  <2>1. Actuals \subseteq Nat
    BY Bounds
  <2>2. handler[h].actual \in Actuals \/ handler[h].actual = 0
    BY <1>2, Zenon
  <2>3. ASSUME handler[h].actual \in Actuals PROVE handler[h].actual \in Nat
    BY <2>1, <2>3, Zenon
  <2>. QED  BY ONLY <2>2, <2>3
<1>. QED  BY <1>1, <1>2, <1>3 DEF LocalOK

\* A handler goes on within the gate it is in.
LEMMA GateGoesOn ==
    ASSUME HandlersOK, RowsStay, NEW h \in Handlers, handler[h].pc # "idle",
           NEW p \in {"reap", "reaping", "insert", "reserve", "provider"},
           p = "reserve" => res'[handler[h].ledger][handler[h].request].status # "none",
           handler' = [handler EXCEPT ![h].pc = p]
    PROVE  HandlersOK'
<1>. DEFINE x == [handler[h] EXCEPT !.pc = p]
<1>1. handler[h] \in Handler /\ LocalOK(handler[h], res)
  BY HandlerFacts
<1>2. /\ x \in Handler /\ x.pc = p
      /\ x.ledger = handler[h].ledger /\ x.request = handler[h].request
  BY <1>1, Zenon DEF Handler
<1>3. handler' = [handler EXCEPT ![h] = x]
  OBVIOUS
<1>. HIDE DEF x
<1>4. LocalOK(x, res')
  BY <1>1, <1>2 DEF LocalOK
<1>. QED  BY <1>2, <1>3, <1>4, HandlerMoves, Zenon

\* The stale rows are read, or a sweep is over.
LEMMA SweepGoesOn ==
    ASSUME HandlersOK, RowsStay, NEW h \in Handlers, handler[h].pc # "idle",
           NEW p \in {"reaping", "insert"}, NEW T \in SUBSET (Requests \X BOOLEAN),
           handler' = [handler EXCEPT ![h].pc = p, ![h].stale = T]
    PROVE  HandlersOK'
<1>. DEFINE x == [handler[h] EXCEPT !.pc = p, !.stale = T]
<1>1. handler[h] \in Handler /\ LocalOK(handler[h], res)
  BY HandlerFacts
<1>2. x \in Handler /\ x.pc = p /\ x.request = handler[h].request
  BY <1>1, Zenon DEF Handler
<1>3. handler' = [handler EXCEPT ![h] = x]
  BY Zenon DEF HandlersOK
<1>. HIDE DEF x
<1>4. LocalOK(x, res')
  BY <1>1, <1>2 DEF LocalOK
<1>. QED  BY <1>2, <1>3, <1>4, HandlerMoves, Zenon

LEMMA GatePassed ==
    ASSUME HandlersOK, RowsStay, NEW h \in Handlers, handler[h].pc # "idle", Passed(h)
    PROVE  HandlersOK'
<1>1. CASE handler[h].ledger = "key"
  <2>. DEFINE x == [handler[h] EXCEPT !.pc = "reap", !.ledger = "bucket"]
  <2>1. handler[h] \in Handler /\ LocalOK(handler[h], res)
    BY HandlerFacts
  <2>2. x \in Handler /\ x.pc = "reap" /\ x.request = handler[h].request
    BY <2>1, Zenon DEF Handler, Ledgers
  <2>3. handler' = [handler EXCEPT ![h] = x]
    BY <1>1, Zenon DEF HandlersOK, Passed
  <2>. HIDE DEF x
  <2>4. LocalOK(x, res')
    BY <2>1, <2>2 DEF LocalOK
  <2>. QED  BY <2>2, <2>3, <2>4, HandlerMoves, Zenon
<1>2. CASE handler[h].ledger # "key"
  BY <1>2, GateGoesOn DEF Passed
<1>. QED  BY <1>1, <1>2

LEMMA ArriveKeeps ==
    ASSUME QuotaInv, NEW h \in Handlers, NEW q \in Requests, Arrive(h, q)
    PROVE  QuotaInv'
<1>. DEFINE x == [Idle EXCEPT !.pc = "reap", !.request = q]
<1>1. LedgersOK' /\ RowsStay
  BY QuietLedgers DEF QuotaInv, Arrive
<1>2. x \in Handler /\ x.pc = "reap" /\ x.request = q
  BY IdleOK, Zenon DEF Handler
<1>3. handler' = [handler EXCEPT ![h] = x]
  BY DEF Arrive
<1>. HIDE DEF x
<1>4. HandlersOK'
  <2>1. LocalOK(x, res')
    BY <1>2 DEF LocalOK
  <2>. QED  BY <1>1, <1>2, <1>3, <2>1, HandlerMoves, Zenon DEF QuotaInv
<1>5. CountsOK'
  BY Bounds DEF QuotaInv, CountsOK, Arrive
<1>. QED  BY <1>1, <1>4, <1>5 DEF QuotaInv

LEMMA SweepKeeps ==
    ASSUME QuotaInv, NEW h \in Handlers,
           SkipReap(h) \/ ReapReads(h) \/ ReapStaleQuotaReservations(h)
    PROVE  QuotaInv'
<1>1. CountsOK'
  BY Zenon DEF QuotaInv, CountsOK, SkipReap, ReapReads, ReapStaleQuotaReservations
<1>2. CASE SkipReap(h)
  <2>1. LedgersOK' /\ RowsStay
    BY <1>2, QuietLedgers DEF QuotaInv, SkipReap
  <2>2. HandlersOK'
    BY <1>2, <2>1, GateGoesOn, Zenon DEF QuotaInv, SkipReap
  <2>. QED  BY <1>1, <2>1, <2>2 DEF QuotaInv
<1>3. CASE ReapReads(h)
  <2>. DEFINE l == handler[h].ledger
              T == {<<q, res[l][q].applied>> : q \in Stale(l)}
  <2>1. LedgersOK' /\ RowsStay
    BY <1>3, QuietLedgers DEF QuotaInv, ReapReads
  <2>2. T \in SUBSET (Requests \X BOOLEAN)
    <3>1. l \in Ledgers
      BY HandlerFacts DEF QuotaInv
    <3>2. \A q \in Requests : res[l][q].applied \in BOOLEAN
      BY <3>1 DEF QuotaInv, LedgersOK, RowsOK, Reservation
    <3>. QED  BY <3>2 DEF Stale
  <2>3. PICK p \in {"reaping", "insert"} : p = IF Stale(l) = {} THEN "insert" ELSE "reaping"
    OBVIOUS
  <2>4. handler[h].pc = "reap" /\ handler' = [handler EXCEPT ![h].pc = p, ![h].stale = T]
    BY <1>3, <2>3 DEF ReapReads
  <2>. HIDE DEF T
  <2>5. HandlersOK'
    BY <2>1, <2>2, <2>4, SweepGoesOn, Zenon DEF QuotaInv
  <2>. QED  BY <1>1, <2>1, <2>5 DEF QuotaInv
<1>4. CASE ReapStaleQuotaReservations(h)
  <2>1. PICK l \in Ledgers, stale \in SUBSET (Requests \X BOOLEAN) :
           l = handler[h].ledger /\ stale = handler[h].stale
    BY HandlerFacts, Zenon DEF QuotaInv
  <2>2. res' = Swept(l, stale)
    BY <1>4, <2>1 DEF ReapStaleQuotaReservations, Swept
  <2>3. /\ pending' = [pending EXCEPT ![l] = Minus(@, Estimate * Cardinality(Reaped(l, stale)))]
        /\ UNCHANGED <<used, charges, excess>>
    BY <1>4, <2>1 DEF ReapStaleQuotaReservations
  <2>4. /\ torn' \in {torn, torn \union {l}}
        /\ l \notin torn' => \A s \in stale : /\ res[l][s[1]].status = "pending"
                                              /\ res[l][s[1]].applied = s[2]
    BY <1>4, <2>1 DEF ReapStaleQuotaReservations
  <2>5. /\ misread' \in {misread, misread \union {l}}
        /\ l \notin misread' => (l = "bucket" => \A s \in stale : s[2])
    BY <1>4, <2>1 DEF ReapStaleQuotaReservations
  <2>6. handler[h].pc = "reaping" /\ handler' = [handler EXCEPT ![h].pc = "insert", ![h].stale = {}]
    BY <1>4, <2>1 DEF ReapStaleQuotaReservations
  <2>7. Sound(l)' => /\ \A s \in stale : /\ res[l][s[1]].status = "pending"
                                         /\ res[l][s[1]].applied = s[2]
                     /\ l = "bucket" => \A s \in stale : s[2]
    BY <2>4, <2>5 DEF Sound
  <2>8. LedgersOK' /\ RowsStay
    BY <2>1, <2>2, <2>3, <2>4, <2>5, <2>7, RowsReaped, Zenon DEF QuotaInv
  <2>9. HandlersOK'
    <3>1. {} \in SUBSET (Requests \X BOOLEAN)
      OBVIOUS
    <3>. QED  BY <2>6, <2>8, <3>1, SweepGoesOn, Zenon DEF QuotaInv
  <2>. QED  BY <1>1, <2>8, <2>9 DEF QuotaInv
<1>. QED  BY <1>2, <1>3, <1>4

LEMMA GateKeeps ==
    ASSUME QuotaInv, NEW h \in Handlers, AddQuotaReservation(h) \/ ReserveQuotaTokens(h)
    PROVE  QuotaInv'
<1>1. CountsOK' /\ HandlersOK
  BY Zenon DEF QuotaInv, CountsOK, AddQuotaReservation, ReserveQuotaTokens
<1>2. handler[h].pc \in {"insert", "reserve"}
  BY Zenon DEF AddQuotaReservation, ReserveQuotaTokens
<1>3. PICK l \in Ledgers, q \in Requests : l = handler[h].ledger /\ q = handler[h].request
  BY <1>1, <1>2, HandlerFacts
<1>4. CASE AddQuotaReservation(h) /\ res[l][q].status = "none"
  <2>1. LedgersOK' /\ RowsStay /\ res'[l][q].status # "none"
    BY <1>3, <1>4, RowInserted DEF QuotaInv, AddQuotaReservation
  <2>2. handler' = [handler EXCEPT ![h].pc = "reserve"]
    BY <1>3, <1>4 DEF AddQuotaReservation
  <2>3. HandlersOK'
    BY <1>1, <1>2, <1>3, <2>1, <2>2, GateGoesOn, Zenon
  <2>. QED  BY <1>1, <2>1, <2>3 DEF QuotaInv
<1>5. CASE AddQuotaReservation(h) /\ res[l][q].status # "none"
  <2>1. Passed(h) /\ UNCHANGED <<ledgers, history>>
    BY <1>3, <1>5 DEF AddQuotaReservation, ledgers, history
  <2>2. LedgersOK' /\ RowsStay
    BY <2>1, QuietLedgers DEF QuotaInv
  <2>3. HandlersOK'
    BY <1>1, <1>2, <2>1, <2>2, GatePassed
  <2>. QED  BY <1>1, <2>2, <2>3 DEF QuotaInv
<1>6. CASE ReserveQuotaTokens(h) /\ ~(Settles(h, Refund(l), 0) /\ UNCHANGED <<pending, res>>)
  <2>1. res[l][q].status # "none"
    BY <1>1, <1>3, <1>6, HandlerFacts, Zenon DEF LocalOK, ReserveQuotaTokens
  <2>2. /\ pending' = [pending EXCEPT ![l] = @ + Estimate]
        /\ res' = [res EXCEPT ![l][q].applied = TRUE]
        /\ UNCHANGED <<used, history>> /\ Passed(h) /\ Fits(l)
    BY <1>3, <1>6 DEF ReserveQuotaTokens
  <2>3. LedgersOK' /\ RowsStay
    BY <2>1, <2>2, RowApplied, Zenon DEF QuotaInv
  <2>4. HandlersOK'
    BY <1>1, <1>2, <2>2, <2>3, GatePassed
  <2>. QED  BY <1>1, <2>3, <2>4 DEF QuotaInv
<1>7. CASE ReserveQuotaTokens(h) /\ Settles(h, Refund(l), 0) /\ UNCHANGED <<pending, res>>
  <2>1. Settles(h, Refund(l), 0) /\ UNCHANGED <<ledgers, history>>
    BY <1>3, <1>7 DEF ReserveQuotaTokens, ledgers, history
  <2>2. LedgersOK' /\ RowsStay
    BY <2>1, QuietLedgers DEF QuotaInv
  <2>3. HandlersOK'
    BY <1>1, <1>2, <2>1, <2>2, PlansOK, SettlesMoves, Zenon
  <2>. QED  BY <1>1, <2>2, <2>3 DEF QuotaInv
<1>. QED  BY <1>4, <1>5, <1>6, <1>7

LEMMA ProviderKeeps ==
    ASSUME QuotaInv, NEW h \in Handlers, Provider(h)
    PROVE  QuotaInv'
<1>1. CountsOK' /\ HandlersOK /\ handler[h].pc # "idle"
  BY DEF QuotaInv, CountsOK, Provider
<1>2. LedgersOK' /\ RowsStay
  BY QuietLedgers DEF QuotaInv, Provider
<1>3. ASSUME NEW n \in Actuals, Settles(h, Both("finalize"), n) PROVE HandlersOK'
  BY <1>1, <1>2, <1>3, PlansOK, SettlesMoves, Zenon
<1>4. ASSUME Settles(h, Both("release"), 0) PROVE HandlersOK'
  BY <1>1, <1>2, <1>4, PlansOK, SettlesMoves, Zenon
<1>5. ASSUME handler' = [handler EXCEPT ![h] = Idle] PROVE HandlersOK'
  BY <1>1, <1>2, <1>5, GoesIdle, Zenon
<1>6. HandlersOK'
  BY <1>3, <1>4, <1>5 DEF Provider
<1>. QED  BY <1>1, <1>2, <1>6 DEF QuotaInv

\* The item of the plan that is being settled.
LEMMA PlanFacts ==
    ASSUME HandlersOK, NEW h \in Handlers, handler[h].pc \in {"settle", "settling"}
    PROVE  /\ handler[h].request \in Requests
           /\ Op(h) \in {"finalize", "release"} /\ Target(h) \in Ledgers
           /\ handler[h].read.applied \in BOOLEAN
           /\ handler[h].pc = "settling" => Settleable(Op(h), handler[h].read)
<1>1. handler[h] \in Handler /\ LocalOK(handler[h], res)
  BY HandlerFacts
<1>2. /\ handler[h].plan \in Seq({"finalize", "release"} \X Ledgers) /\ handler[h].plan # <<>>
      /\ handler[h].read \in [status : Status, applied : BOOLEAN]
  BY <1>1 DEF Handler, LocalOK
<1>3. Head(handler[h].plan) \in {"finalize", "release"} \X Ledgers
  BY <1>2
<1>4. Op(h) \in {"finalize", "release"} /\ Target(h) \in Ledgers
  BY <1>3 DEF Op, Target
<1>. QED  BY <1>1, <1>2, <1>4 DEF LocalOK, Op

LEMMA SettleKeeps ==
    ASSUME QuotaInv, NEW h \in Handlers,
           SettleReads(h) \/ FinalizeQuotaReservation(h) \/ ReleaseQuotaReservation(h)
    PROVE  QuotaInv'
<1>1. CountsOK' /\ HandlersOK
  BY DEF QuotaInv, CountsOK, SettleReads, FinalizeQuotaReservation, ReleaseQuotaReservation
<1>2. handler[h].pc \in {"settle", "settling"}
  BY DEF SettleReads, FinalizeQuotaReservation, ReleaseQuotaReservation
<1>3. PICK l \in Ledgers, q \in Requests : l = Target(h) /\ q = handler[h].request
  BY <1>1, <1>2, PlanFacts
<1>4. CASE SettleReads(h)
  <2>1. LedgersOK' /\ RowsStay
    BY <1>4, QuietLedgers DEF QuotaInv, SettleReads
  <2>2. CASE Settled(h)
    BY <1>1, <1>2, <2>1, <2>2, SettledMoves DEF QuotaInv
  <2>3. CASE Settleable(Op(h), Row(h))
    <3>. DEFINE x == [handler[h] EXCEPT !.pc = "settling", !.read = Seen(h)]
    <3>1. handler' = [handler EXCEPT ![h] = x]
      BY <1>1, <1>4, <2>3, Zenon DEF SettleReads, HandlersOK
    <3>2. handler[h] \in Handler /\ LocalOK(handler[h], res)
      BY <1>1, HandlerFacts
    <3>3. Row(h) \in Reservation
      BY <1>3 DEF QuotaInv, LedgersOK, RowsOK, Row
    <3>4. /\ Seen(h) \in [status : Status, applied : BOOLEAN]
          /\ Settleable(Op(h), Seen(h))
      BY <2>3, <3>3 DEF Seen, Reservation, Settleable
    <3>5. /\ x \in Handler /\ x.pc = "settling" /\ x.read = Seen(h)
          /\ x.request = handler[h].request /\ x.plan = handler[h].plan
      BY <3>2, <3>4, Zenon DEF Handler
    <3>. HIDE DEF x
    <3>6. LocalOK(x, res')
      BY <1>2, <3>2, <3>4, <3>5 DEF LocalOK, Op
    <3>7. HandlersOK'
      BY <1>1, <2>1, <3>1, <3>5, <3>6, HandlerMoves, Zenon
    <3>. QED  BY <1>1, <2>1, <3>7 DEF QuotaInv
  <2>. QED  BY <1>4, <2>2, <2>3 DEF SettleReads
<1>5. ASSUME handler[h].pc = "settling", l \notin torn', torn' = Tears(h)
      PROVE  /\ res[l][q].status = "pending" /\ res[l][q].applied = handler[h].read.applied
             /\ Op(h) = "finalize" => q \in Outstanding(l)
  <2>1. Seen(h) = handler[h].read
    BY <1>3, <1>5 DEF Tears
  <2>2. Settleable(Op(h), Seen(h))
    BY <1>1, <1>2, <1>5, <2>1, PlanFacts
  <2>3. Seen(h).status = res[l][q].status /\ Seen(h).applied = res[l][q].applied
    BY <1>3 DEF Seen, Row
  <2>. QED  BY <2>1, <2>2, <2>3 DEF Settleable, Outstanding
<1>6. ASSUME torn' = Tears(h) PROVE torn' \in {torn, torn \union {l}}
  BY <1>3, <1>6 DEF Tears
<1>7. CASE FinalizeQuotaReservation(h)
  <2>1. PICK n \in Nat : n = handler[h].actual
    BY <1>1, HandlerFacts
  <2>2. /\ res' = [res EXCEPT ![l][q].status = "finalized"]
        /\ used' = [used EXCEPT ![l] = @ + n]
        /\ pending' = [pending EXCEPT ![l] = Minus(@, Estimate)]
        /\ charges' = [charges EXCEPT ![l][q] = @ + 1]
        /\ excess' = [excess EXCEPT ![l] = @ + (IF n > Estimate THEN n - Estimate ELSE 0)]
        /\ misread' = misread /\ torn' = Tears(h) /\ Settled(h)
    BY <1>3, <1>7, <2>1 DEF FinalizeQuotaReservation
  <2>3. l \notin torn' => q \in Outstanding(l)
    BY <1>5, <1>7, <2>2 DEF FinalizeQuotaReservation
  <2>4. torn' \in {torn, torn \union {l}}
    BY <1>6, <2>2
  <2>5. LedgersOK' /\ RowsStay
    BY <2>2, <2>3, <2>4, RowFinalized, Zenon DEF QuotaInv
  <2>6. HandlersOK'
    BY <1>1, <1>2, <2>2, <2>5, SettledMoves
  <2>. QED  BY <1>1, <2>5, <2>6 DEF QuotaInv
<1>8. CASE ReleaseQuotaReservation(h)
  <2>1. PICK a \in BOOLEAN : a = handler[h].read.applied
    BY <1>1, <1>2, PlanFacts
  <2>2. /\ res' = [res EXCEPT ![l][q].status = "released"]
        /\ pending' = IF a THEN [pending EXCEPT ![l] = Minus(@, Estimate)] ELSE pending
        /\ UNCHANGED <<used, charges, excess, misread>>
        /\ torn' = Tears(h) /\ Settled(h)
    BY <1>3, <1>8, <2>1 DEF ReleaseQuotaReservation
  <2>3. l \notin torn' => res[l][q].status = "pending" /\ res[l][q].applied = a
    BY <1>5, <1>8, <2>1, <2>2 DEF ReleaseQuotaReservation
  <2>4. torn' \in {torn, torn \union {l}}
    BY <1>6, <2>2
  <2>5. LedgersOK' /\ RowsStay
    BY <2>2, <2>3, <2>4, RowReleased, Zenon DEF QuotaInv
  <2>6. HandlersOK'
    BY <1>1, <1>2, <2>2, <2>5, SettledMoves
  <2>. QED  BY <1>1, <2>5, <2>6 DEF QuotaInv
<1>. QED  BY <1>4, <1>7, <1>8

-----------------------------------------------------------------------------
(***************************************************************************)
(* Faults and the clock.                                                   *)
(***************************************************************************)
\* A gate that fails: the key's leaves what it has, the bucket's refunds it.
Refuses(h, l, held) ==
    IF l = "key" THEN handler' = [handler EXCEPT ![h] = Idle] ELSE Settles(h, Refund(held), 0)

LEMMA RefusesMoves ==
    ASSUME HandlersOK, RowsStay, NEW h \in Handlers, handler[h].pc # "idle",
           NEW l, NEW held \in Ledgers, Refuses(h, l, held)
    PROVE  HandlersOK'
<1>1. CASE l = "key"
  BY <1>1, GoesIdle DEF Refuses
<1>2. CASE l # "key"
  BY <1>2, PlansOK, SettlesMoves, Zenon DEF Refuses
<1>. QED  BY <1>1, <1>2

LEMMA FaultKeeps ==
    ASSUME QuotaInv, NEW h \in Handlers, LedgerFails(h) \/ Crash(h)
    PROVE  QuotaInv'
<1>1. CountsOK' /\ HandlersOK /\ LedgersOK
  <2>1. faults < MaxFaults /\ faults' = faults + 1 /\ tries' = tries
    BY DEF LedgerFails, Crash
  <2>2. CountsOK'
    BY <2>1, Bounds DEF QuotaInv, CountsOK
  <2>. QED  BY <2>2 DEF QuotaInv
<1>2. UNCHANGED history
  BY DEF LedgerFails, Crash
<1>3. SUFFICES LedgersOK' /\ HandlersOK'
  BY <1>1 DEF QuotaInv
<1>4. ASSUME UNCHANGED ledgers PROVE LedgersOK' /\ RowsStay
  BY <1>1, <1>2, <1>4, QuietLedgers
<1>5. ASSUME NEW held \in Ledgers, handler[h].pc # "idle",
             Refuses(h, handler[h].ledger, held), RowsStay
      PROVE  HandlersOK'
  BY <1>1, <1>5, RefusesMoves
<1>6. CASE Crash(h)
  BY <1>1, <1>4, <1>6, GoesIdle, Zenon DEF Crash
<1>7. CASE handler[h].pc = "insert" /\ Refuses(h, handler[h].ledger, "key") /\ UNCHANGED ledgers
  BY <1>4, <1>5, <1>7 DEF Ledgers
<1>8. CASE /\ handler[h].pc = "reserve" /\ Refuses(h, handler[h].ledger, "bucket")
           /\ UNCHANGED ledgers
  BY <1>4, <1>5, <1>8 DEF Ledgers
<1>9. CASE /\ handler[h].pc = "reserve" /\ Fits(handler[h].ledger)
           /\ pending' = [pending EXCEPT ![handler[h].ledger] = @ + Estimate]
           /\ res' = [res EXCEPT ![handler[h].ledger][handler[h].request].applied = TRUE]
           /\ Refuses(h, handler[h].ledger, "bucket") /\ UNCHANGED used
  <2>1. PICK l \in Ledgers, q \in Requests : l = handler[h].ledger /\ q = handler[h].request
    BY <1>1, <1>9, HandlerFacts
  <2>2. res[l][q].status # "none"
    BY <1>1, <1>9, <2>1, HandlerFacts DEF LocalOK
  <2>3. /\ Fits(l) /\ pending' = [pending EXCEPT ![l] = @ + Estimate]
        /\ res' = [res EXCEPT ![l][q].applied = TRUE]
    BY <1>9, <2>1
  <2>4. LedgersOK' /\ RowsStay
    BY <1>1, <1>2, <1>9, <2>2, <2>3, RowApplied, Zenon
  <2>. QED  BY <1>5, <1>9, <2>4 DEF Ledgers
<1>10. CASE /\ handler[h].pc \in {"reap", "reaping"}
            /\ IF handler[h].ledger = "key"
               THEN handler' = [handler EXCEPT ![h].pc = "insert", ![h].stale = {}]
               ELSE Settles(h, Refund("key"), 0)
            /\ UNCHANGED ledgers
  <2>1. CASE handler[h].ledger = "key"
    <3>1. {} \in SUBSET (Requests \X BOOLEAN)
      OBVIOUS
    <3>. QED  BY <1>1, <1>4, <1>10, <2>1, <3>1, SweepGoesOn, Zenon
  <2>2. CASE handler[h].ledger # "key"
    BY <1>4, <1>5, <1>10, <2>2 DEF Refuses, Ledgers
  <2>. QED  BY <2>1, <2>2
<1>11. CASE handler[h].pc \in {"settle", "settling"} /\ Settled(h) /\ UNCHANGED ledgers
  BY <1>1, <1>4, <1>11, SettledMoves
<1>. QED  BY <1>6, <1>7, <1>8, <1>9, <1>10, <1>11 DEF LedgerFails, Refuses

LEMMA AgesKeeps ==
    ASSUME QuotaInv, NEW l \in Ledgers, NEW q \in Requests, Ages(l, q)
    PROVE  QuotaInv'
<1>1. LedgersOK' /\ RowsStay
  BY RowAges, Zenon DEF QuotaInv, Ages
<1>2. HandlersOK'
  <2>1. handler' = handler
    BY DEF Ages
  <2>2. ASSUME NEW h \in Handlers PROVE LocalOK(handler[h], res')
    <3>1. /\ LocalOK(handler[h], res) /\ handler[h].ledger \in Ledgers
      BY HandlerFacts DEF QuotaInv
    <3>. QED  BY <1>1, <3>1 DEF LocalOK, RowsStay
  <2>. QED  BY <2>1, <2>2 DEF QuotaInv, HandlersOK
<1>3. CountsOK'
  BY DEF QuotaInv, CountsOK, Ages
<1>. QED  BY <1>1, <1>2, <1>3 DEF QuotaInv

-----------------------------------------------------------------------------
LEMMA QuotaInvInit == Init => QuotaInv
<1>. SUFFICES ASSUME Init PROVE QuotaInv
  OBVIOUS
<1>1. HandlersOK
  BY IdleOK DEF Init, HandlersOK
<1>2. RowsOK
  BY DEF Init, RowsOK, Reservation, Status
<1>3. BalancesOK /\ CountsOK
  BY Bounds DEF Init, BalancesOK, CountsOK
<1>4. ASSUME NEW l \in Ledgers PROVE Balanced(l)
  <2>1. Outstanding(l) = {}
    BY DEF Init, Outstanding
  <2>2. Cardinality(Outstanding(l)) = 0
    BY <2>1, FS_EmptySet
  <2>3. Limit[l] \in Nat /\ Estimate * 0 = 0
    BY Bounds DEF Limit, Ledgers
  <2>4. /\ pending[l] = 0 /\ used[l] = 0 /\ excess[l] = 0
        /\ \A q \in Requests : charges[l][q] = 0 /\ res[l][q].status = "none"
    BY DEF Init
  <2>. QED  BY <2>2, <2>3, <2>4 DEF Balanced
<1>. QED  BY <1>1, <1>2, <1>3, <1>4 DEF QuotaInv, LedgersOK, BalanceInv

LEMMA QuotaInvNext == QuotaInv /\ [Next]_vars => QuotaInv'
<1>. SUFFICES ASSUME QuotaInv, [Next]_vars PROVE QuotaInv'
  OBVIOUS
<1>1. CASE UNCHANGED vars
  <2>1. LedgersOK'
    BY <1>1, QuietLedgers DEF QuotaInv, vars
  <2>2. HandlersOK' /\ CountsOK'
    BY <1>1 DEF QuotaInv, HandlersOK, CountsOK, vars, ledgers
  <2>. QED  BY <2>1, <2>2 DEF QuotaInv
<1>2. ASSUME NEW h \in Handlers,
             \/ \E q \in Requests : Arrive(h, q)
             \/ SkipReap(h) \/ ReapReads(h) \/ ReapStaleQuotaReservations(h)
             \/ AddQuotaReservation(h) \/ ReserveQuotaTokens(h) \/ Provider(h)
             \/ SettleReads(h) \/ FinalizeQuotaReservation(h) \/ ReleaseQuotaReservation(h)
             \/ LedgerFails(h) \/ Crash(h)
      PROVE  QuotaInv'
  BY <1>2, ArriveKeeps, SweepKeeps, GateKeeps, ProviderKeeps, SettleKeeps, FaultKeeps
<1>. QED  BY <1>1, <1>2, AgesKeeps DEF Next

LEMMA QuotaInvHolds == Spec => []QuotaInv
BY QuotaInvInit, QuotaInvNext, PTL DEF Spec

(***************************************************************************)
(* Every variable keeps its type, balances never fall below zero, and a    *)
(* reservation is applied only after its row was inserted                  *)
(* (AddQuotaReservation before ReserveQuotaTokens).                        *)
(***************************************************************************)
THEOREM QuotaTypesHold == Spec => []QuotaTypeOK
<1>1. QuotaInv => QuotaTypeOK
  BY DEF QuotaInv, LedgersOK, HandlersOK, RowsOK, BalancesOK, CountsOK, QuotaTypeOK
<1>. QED  BY <1>1, QuotaInvHolds, PTL

(***************************************************************************)
(* While settlements do not race and no sweep of the bucket meets a row    *)
(* that was never applied, the pending tokens of a ledger cover every      *)
(* reservation that may still be finalized, for any number of concurrent   *)
(* requests, retries, failing statements and lost handlers.                *)
(***************************************************************************)
THEOREM PendingAlwaysCovers == Spec => []PendingCovers
<1>1. QuotaInv => PendingCovers
  BY DEF QuotaInv, LedgersOK, BalanceInv, Balanced, PendingCovers
<1>. QED  BY <1>1, QuotaInvHolds, PTL

(***************************************************************************)
(* Under the same condition, the guard of the UPDATE keeps the tokens that *)
(* are used and reserved within the token limit of the ledger, up to those *)
(* by which finalized requests exceeded their estimates.                   *)
(***************************************************************************)
THEOREM BudgetAlwaysKept == Spec => []BudgetKept
<1>1. QuotaInv => BudgetKept
  BY DEF QuotaInv, LedgersOK, BalanceInv, Balanced, BudgetKept
<1>. QED  BY <1>1, QuotaInvHolds, PTL

(***************************************************************************)
(* Under the same condition, a request is charged once if its reservation  *)
(* is finalized and never otherwise, however often its id is retried.      *)
(***************************************************************************)
THEOREM RequestsChargedOnce == Spec => []ChargedOnce
<1>1. QuotaInv => ChargedOnce
  BY DEF QuotaInv, LedgersOK, BalanceInv, Balanced, ChargedOnce
<1>. QED  BY <1>1, QuotaInvHolds, PTL
=============================================================================
