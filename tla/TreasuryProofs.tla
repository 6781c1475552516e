--------------------------- MODULE TreasuryProofs ---------------------------
(***************************************************************************)
(* The counters of routes and treasuries, for every number of pools,       *)
(* buckets and recipients, every amount, and whatever calls fail halfway.  *)
(***************************************************************************)
EXTENDS Treasury, AmountProofs

(***************************************************************************)
(* Neither invariant is inductive alone: that the second addition of       *)
(* TreasuryAccount::receive cannot overflow (TypeOK) rests on              *)
(* NothingOverdrawn, which needs the counters to be numbers.               *)
(***************************************************************************)
IInv == TypeOK /\ NothingOverdrawn

LEMMA AmountIsNat == Amount \subseteq Nat /\ 0 \in Amount
BY AmountsAssumption DEF Amount

LEMMA ReceivedInBounds ==
    ASSUME NEW t \in TreasuryAccount, NEW x \in Amount,
           t.pending_distribution <= t.balance, ReceiveFits(t, x)
    PROVE  /\ Received(t, x) \in TreasuryAccount
           /\ Received(t, x).pending_distribution <= Received(t, x).balance
<1> DEFINE held == t.balance + x
           owed == t.pending_distribution + x
<1>1. t.balance \in Nat /\ t.pending_distribution \in Nat /\ x \in Nat /\ MaxAmount \in Nat
  BY AmountsAssumption DEF TreasuryAccount, Amount
<1>2. held \in Amount /\ owed \in Amount /\ owed <= held
  BY <1>1 DEF ReceiveFits, Fits, Amount
<1>3. Received(t, x) = [balance |-> held, pending_distribution |-> owed]
  <2> HIDE DEF held, owed
  <2>1. [t EXCEPT !.balance = held, !.pending_distribution = owed]
          = [balance |-> held, pending_distribution |-> owed]
    <3> DEFINE b == [t EXCEPT !.balance = held]
    <3>1. b = [balance |-> held, pending_distribution |-> t.pending_distribution]
      BY DEF TreasuryAccount
    <3>2. [b EXCEPT !.pending_distribution = owed]
            = [balance |-> held, pending_distribution |-> owed]
      <4> HIDE DEF b
      <4> QED BY <3>1
    <3>3. [t EXCEPT !.balance = held, !.pending_distribution = owed]
            = [b EXCEPT !.pending_distribution = owed]
      BY DEF TreasuryAccount
    <3> QED BY <3>2, <3>3
  <2> QED BY <2>1 DEF Received, held, owed
<1> HIDE DEF held, owed
<1> QED BY <1>2, <1>3 DEF TreasuryAccount

LEMMA MarkedInBounds ==
    ASSUME NEW t \in TreasuryAccount, NEW x \in Amount,
           x <= t.pending_distribution, t.pending_distribution <= t.balance
    PROVE  LET m == [t EXCEPT !.pending_distribution = @ - x]
           IN  m \in TreasuryAccount /\ m.pending_distribution <= m.balance
<1> DEFINE owed == t.pending_distribution - x
<1>1. t.balance \in Amount /\ t.pending_distribution \in Amount
  BY DEF TreasuryAccount
<1>2. owed \in Amount /\ owed <= t.balance
  BY <1>1, AmountsAssumption DEF Amount
<1>3. [t EXCEPT !.pending_distribution = owed]
        = [balance |-> t.balance, pending_distribution |-> owed]
  BY DEF TreasuryAccount
<1> HIDE DEF owed
<1>4. [t EXCEPT !.pending_distribution = owed] \in TreasuryAccount
  BY <1>1, <1>2, <1>3 DEF TreasuryAccount
<1> QED BY <1>2, <1>3, <1>4 DEF owed

LEMMA UpsertKeeps ==
    ASSUME IInv, NEW k \in RouteKeys, NEW r \in Route, UpsertRoute(k, r)
    PROVE  IInv'
<1>1. /\ r.accrued \in Nat /\ r.distributed \in Nat /\ TreasuryOf(r) \in TreasuryKeys
      /\ routes'[k] = r /\ \A i \in RouteKeys : i # k => routes'[i] = routes[i]
  BY AmountIsNat DEF Route, TreasuryOf, TreasuryKeys, UpsertRoute, IInv, TypeOK
<1>2. TypeOK'
  BY <1>1 DEF IInv, TypeOK, UpsertRoute
<1>3. orphaned \subseteq orphaned' /\ (Overdrawn(r) => TreasuryOf(r) \in orphaned')
  BY DEF UpsertRoute
<1>4. ASSUME NEW i \in RouteKeys, Configured(i)'
      PROVE  routes'[i].distributed <= routes'[i].accrued \/ TreasuryOf(routes'[i]) \in orphaned'
  <2>1. CASE i = k
    BY <1>1, <1>3, <2>1 DEF Overdrawn
  <2>2. CASE i # k
    BY <1>1, <1>3, <1>4, <2>2 DEF IInv, NothingOverdrawn, Configured
  <2> QED BY <2>1, <2>2
<1>5. NothingOverdrawn'
  <2>1. treasuries' = treasuries  BY DEF UpsertRoute
  <2>2. \A i \in RouteKeys : Configured(i)' =>
          \/ routes[i].distributed' <= routes[i].accrued'
          \/ TreasuryOf(routes[i])' \in orphaned'
    BY <1>4 DEF TreasuryOf
  <2> QED BY <2>1, <2>2 DEF IInv, NothingOverdrawn
<1> QED BY <1>2, <1>5 DEF IInv

LEMMA AccrueKeeps ==
    ASSUME IInv, NEW k \in RouteKeys, NEW x \in Fees, Accrue(k, x)
    PROVE  IInv'
<1> DEFINE t == TreasuryOf(routes[k])
           treasury == IF treasuries[t] = Absent THEN NewTreasury ELSE treasuries[t]
<1>1. x \in Amount /\ routes[k] \in Route /\ t \in TreasuryKeys
  BY TreasuryAssumption DEF IInv, TypeOK, Accrue, Configured, TreasuryOf, TreasuryKeys, Route
<1>2. treasury \in TreasuryAccount /\ treasury.pending_distribution <= treasury.balance
  BY <1>1, AmountIsNat DEF IInv, TypeOK, NothingOverdrawn, NewTreasury, TreasuryAccount
<1>3. routes' \in [RouteKeys -> Route \cup {Absent}]
  <2>1. [routes[k] EXCEPT !.accrued = @ + x] \in Route
    BY <1>1, AmountIsNat DEF Accrue, Fits, Route, Amount
  <2> QED BY <2>1 DEF IInv, TypeOK, Accrue
<1>4. \A i \in RouteKeys : Configured(i)' =>
        \/ routes[i].distributed' <= routes[i].accrued'
        \/ TreasuryOf(routes[i])' \in orphaned'
  BY <1>1, AmountIsNat
     DEF IInv, TypeOK, NothingOverdrawn, Accrue, Configured, Route, TreasuryOf
<1>5. CASE ReceiveFits(treasury, x)
  <2>1. treasuries' = [treasuries EXCEPT ![t] = Received(treasury, x)]
        /\ unfunded' = unfunded /\ orphaned' = orphaned
    BY <1>5 DEF Accrue
  <2>2. /\ Received(treasury, x) \in TreasuryAccount
        /\ Received(treasury, x).pending_distribution <= Received(treasury, x).balance
    BY <1>1, <1>2, <1>5, ReceivedInBounds
  <2> HIDE DEF treasury, t
  <2> QED BY <1>1, <1>3, <1>4, <2>1, <2>2 DEF IInv, TypeOK, NothingOverdrawn
<1>6. CASE ~ReceiveFits(treasury, x)
  <2>1. treasuries' = treasuries /\ unfunded' = unfunded \cup {t} /\ orphaned' = orphaned
    BY <1>6 DEF Accrue
  <2> QED BY <1>1, <1>3, <1>4, <2>1 DEF IInv, TypeOK, NothingOverdrawn
<1> QED BY <1>5, <1>6

LEMMA DistributeKeeps ==
    ASSUME IInv, NEW k \in RouteKeys, NEW x \in Fees, Distribute(k, x)
    PROVE  IInv'
<1> DEFINE t == TreasuryOf(routes[k])
           marked == /\ treasuries[t] # Absent
                     /\ x <= treasuries[t].pending_distribution
<1>1. x \in Amount /\ routes[k] \in Route /\ t \in TreasuryKeys
  BY TreasuryAssumption DEF IInv, TypeOK, Distribute, Configured, TreasuryOf, TreasuryKeys, Route
<1>2. routes' \in [RouteKeys -> Route \cup {Absent}]
  <2>1. [routes[k] EXCEPT !.distributed = @ + x] \in Route
    BY <1>1, AmountIsNat DEF Distribute, Fits, Route, Amount
  <2> QED BY <2>1 DEF IInv, TypeOK, Distribute
<1>3. x = 0 \/ routes[k].distributed + x <= routes[k].accrued
  BY <1>1, AmountIsNat
     DEF IInv, Distribute, Distributable, Undistributed, SaturatingSub, Configured, Route
<1>4. \A i \in RouteKeys : Configured(i)' =>
        \/ routes[i].distributed' <= routes[i].accrued'
        \/ TreasuryOf(routes[i])' \in orphaned'
  <2> SUFFICES ASSUME NEW i \in RouteKeys, Configured(i)'
               PROVE  \/ routes'[i].distributed <= routes'[i].accrued
                      \/ TreasuryOf(routes'[i]) \in orphaned'
    BY DEF TreasuryOf
  <2>1. orphaned \subseteq orphaned'  BY DEF Distribute
  <2>2. CASE i = k
    <3>1. /\ routes'[k].accrued = routes[k].accrued
          /\ routes'[k].distributed = routes[k].distributed + x
          /\ TreasuryOf(routes'[k]) = TreasuryOf(routes[k])
      BY <1>1 DEF Distribute, IInv, TypeOK, Route, TreasuryOf
    <3>2. routes[k].distributed <= routes[k].accrued \/ TreasuryOf(routes[k]) \in orphaned
      BY DEF IInv, NothingOverdrawn, Distribute
    <3>3. x \in Nat /\ routes[k].accrued \in Nat /\ routes[k].distributed \in Nat
      BY <1>1, AmountIsNat DEF Route
    <3>4. routes[k].distributed + x <= routes[k].accrued \/ TreasuryOf(routes[k]) \in orphaned
      BY <1>3, <3>2, <3>3
    <3> HIDE DEF t, marked
    <3> QED BY <2>1, <2>2, <3>1, <3>4
  <2>3. CASE i # k
    BY <2>1, <2>3 DEF Distribute, IInv, TypeOK, NothingOverdrawn, Configured
  <2> QED BY <2>2, <2>3
<1>5. CASE marked
  <2>1. /\ treasuries' = [treasuries EXCEPT ![t].pending_distribution = @ - x]
        /\ unfunded' = unfunded /\ orphaned' = orphaned
    BY <1>5 DEF Distribute
  <2>2. treasuries[t] \in TreasuryAccount
    BY <1>1, <1>5 DEF IInv, TypeOK
  <2>3. treasuries[t].pending_distribution <= treasuries[t].balance
    BY <1>1, <1>5 DEF IInv, NothingOverdrawn
  <2> DEFINE m == [treasuries[t] EXCEPT !.pending_distribution = @ - x]
  <2>4. m \in TreasuryAccount /\ m.pending_distribution <= m.balance
    BY <1>1, <1>5, <2>2, <2>3, MarkedInBounds
  <2>5. treasuries' = [treasuries EXCEPT ![t] = m]
    BY <2>1
  <2> HIDE DEF marked, t, m
  <2> QED BY <1>1, <1>2, <1>4, <2>1, <2>4, <2>5 DEF IInv, TypeOK, NothingOverdrawn
<1>6. CASE ~marked
  <2>1. treasuries' = treasuries /\ unfunded' = unfunded /\ orphaned' \subseteq orphaned \cup {t}
    BY <1>6 DEF Distribute
  <2> QED BY <1>1, <1>2, <1>4, <2>1 DEF IInv, TypeOK, NothingOverdrawn
<1> QED BY <1>5, <1>6

(***************************************************************************)
(* Every reachable state satisfies the inductive invariant.                *)
(***************************************************************************)
THEOREM Inductive == Spec => []IInv
<1>1. Init => IInv
  BY DEF Init, IInv, TypeOK, NothingOverdrawn, Configured
<1>2. IInv /\ [Next]_vars => IInv'
  <2> SUFFICES ASSUME IInv, [Next]_vars PROVE IInv'
    OBVIOUS
  <2>1. ASSUME NEW k \in RouteKeys, NEW r \in Route, UpsertRoute(k, r)
        PROVE  IInv'
    BY <2>1, UpsertKeeps
  <2>2. ASSUME NEW k \in RouteKeys, NEW x \in Fees, Accrue(k, x)
        PROVE  IInv'
    BY <2>2, AccrueKeeps
  <2>3. ASSUME NEW k \in RouteKeys, NEW x \in Fees, Distribute(k, x)
        PROVE  IInv'
    BY <2>3, DistributeKeeps
  <2>4. CASE UNCHANGED vars
    BY <2>4 DEF vars, IInv, TypeOK, NothingOverdrawn, Configured, TreasuryOf
  <2> QED BY <2>1, <2>2, <2>3, <2>4 DEF Next
<1> QED BY <1>1, <1>2, PTL DEF Spec

(***************************************************************************)
(* Every counter of every route and treasury stays within u128, calls that *)
(* fail after their first assignment included (src/treasury).              *)
(***************************************************************************)
THEOREM TypeCorrect == Spec => []TypeOK
BY Inductive, PTL DEF IInv

(***************************************************************************)
(* No route distributes more than it accrued unless it was put in with     *)
(* such counters, and no treasury owes more than it received               *)
(* (FeeRoute::distribute, TreasuryAccount).                                *)
(***************************************************************************)
THEOREM CountersCovered == Spec => []NothingOverdrawn
BY Inductive, PTL DEF IInv

---------------------------------------------------------------------------
\* Routes and treasuries

TermsNat == \A k \in RouteKeys, t \in TreasuryKeys : ClaimOn(routes[k], t) \in Nat

LEMMA ClaimNat ==
    ASSUME NEW r \in Route \cup {Absent}, NEW t \in TreasuryKeys
    PROVE  ClaimOn(r, t) \in Nat
<1>1. r # Absent => r.accrued \in Nat /\ r.distributed \in Nat
  BY AmountIsNat DEF Route
<1> QED  BY <1>1 DEF ClaimOn, Undistributed, SaturatingSub

LEMMA TermsAreNat == TypeOK => TermsNat
BY ClaimNat DEF TermsNat, TypeOK

LEMMA TermsAreNatNext == TypeOK' => TermsNat'
  BY TermsAreNat, PTL

LEMMA PendingNat ==
    ASSUME TypeOK, NEW t \in TreasuryKeys
    PROVE  Pending(t) \in Nat
BY AmountIsNat DEF Pending, TypeOK, TreasuryAccount

\* When one route changes, the open fees of every treasury move by the change
\* of its claim.
LEMMA OneRouteMoves ==
    ASSUME TypeOK, TypeOK', NEW k \in RouteKeys, NEW t \in TreasuryKeys,
           \A i \in RouteKeys : i # k => routes'[i] = routes[i]
    PROVE  /\ OpenFees(t) \in Nat /\ OpenFees(t)' \in Nat
           /\ ClaimOn(routes[k], t) \in Nat /\ ClaimOn(routes'[k], t) \in Nat
           /\ OpenFees(t)' + ClaimOn(routes[k], t) = OpenFees(t) + ClaimOn(routes'[k], t)
<1> DEFINE f == [i \in RouteKeys |-> ClaimOn(routes[i], t)]
           g == [i \in RouteKeys |-> ClaimOn(routes'[i], t)]
<1>1. OpenFees(t) = SumOver(f, RouteKeys)  BY DEF OpenFees
<1>2. OpenFees(t)' = SumOver(g, RouteKeys)  BY DEF OpenFees, ClaimOn, TreasuryOf, Undistributed
<1>3. \A i \in RouteKeys : f[i] \in Nat /\ g[i] \in Nat
  BY ClaimNat DEF TypeOK
<1>4. \A i \in RouteKeys : i # k => g[i] = f[i]
  OBVIOUS
<1>5. f[k] = ClaimOn(routes[k], t) /\ g[k] = ClaimOn(routes'[k], t)  OBVIOUS
<1>6. IsFiniteSet(RouteKeys)  BY TreasuryAssumption, FS_Product DEF RouteKeys
<1> HIDE DEF f, g
<1>7. /\ SumOver(f, RouteKeys) \in Nat /\ SumOver(g, RouteKeys) \in Nat
      /\ SumOver(g, RouteKeys) + f[k] = SumOver(f, RouteKeys) + g[k]
  BY <1>3, <1>4, <1>6, SumOverNat, SumUpdate
<1> QED  BY <1>1, <1>2, <1>3, <1>5, <1>7

\* A step that changes one route keeps every treasury covered if the claim of
\* the route rises no more than what is pending, or marks it unfunded, and
\* falls no more than that, or marks it orphaned.
LEMMA OneChangeCovers ==
    ASSUME IInv, IInv', PendingCoversRoutes, NEW k \in RouteKeys,
           \A i \in RouteKeys : i # k => routes'[i] = routes[i],
           unfunded \subseteq unfunded', orphaned \subseteq orphaned',
           \A t \in TreasuryKeys : t \notin unfunded' =>
             ClaimOn(routes'[k], t) + Pending(t) <= ClaimOn(routes[k], t) + Pending(t)',
           \A t \in TreasuryKeys : t \notin orphaned' =>
             ClaimOn(routes'[k], t) + Pending(t) >= ClaimOn(routes[k], t) + Pending(t)'
    PROVE  PendingCoversRoutes'
<1> SUFFICES ASSUME NEW t \in TreasuryKeys
             PROVE  /\ t \notin unfunded' => OpenFees(t)' <= Pending(t)'
                    /\ t \notin orphaned' => OpenFees(t)' >= Pending(t)'
  BY DEF PendingCoversRoutes
<1>1. /\ OpenFees(t) \in Nat /\ OpenFees(t)' \in Nat
      /\ ClaimOn(routes[k], t) \in Nat /\ ClaimOn(routes'[k], t) \in Nat
      /\ OpenFees(t)' + ClaimOn(routes[k], t) = OpenFees(t) + ClaimOn(routes'[k], t)
  BY OneRouteMoves DEF IInv
<1>2. /\ t \notin unfunded => OpenFees(t) <= Pending(t)
      /\ t \notin orphaned => OpenFees(t) >= Pending(t)
  BY DEF PendingCoversRoutes
<1>3. Pending(t) \in Nat /\ Pending(t)' \in Nat
  BY AmountIsNat DEF Pending, IInv, TypeOK, TreasuryAccount
<1>4. CASE t \notin unfunded'
  BY <1>1, <1>2, <1>3, <1>4
<1>5. CASE t \notin orphaned'
  BY <1>1, <1>2, <1>3, <1>5
<1> QED  BY <1>4, <1>5

\* A route that is put in changes its claim on a treasury, never the treasury.
LEMMA UpsertCovers ==
    ASSUME IInv, IInv', PendingCoversRoutes, NEW k \in RouteKeys, NEW r \in Route,
           UpsertRoute(k, r)
    PROVE  PendingCoversRoutes'
<1>1. /\ routes'[k] = r /\ \A i \in RouteKeys : i # k => routes'[i] = routes[i]
      /\ treasuries' = treasuries
      /\ unfunded \subseteq unfunded' /\ orphaned \subseteq orphaned'
  BY DEF UpsertRoute, IInv, TypeOK
<1>2. ASSUME NEW t \in TreasuryKeys
      PROVE  /\ ClaimOn(r, t) \in Nat /\ ClaimOn(routes[k], t) \in Nat
             /\ Pending(t) \in Nat /\ Pending(t)' = Pending(t)
             /\ t \notin unfunded' => ClaimOn(r, t) <= ClaimOn(routes[k], t)
             /\ t \notin orphaned' => ClaimOn(r, t) >= ClaimOn(routes[k], t)
  <2>1. ClaimOn(r, t) \in Nat /\ ClaimOn(routes[k], t) \in Nat
    BY ClaimNat DEF IInv, TypeOK
  <2>2. Pending(t) \in Nat  BY PendingNat DEF IInv
  <2>3. Pending(t)' = Pending(t)  BY <1>1 DEF Pending
  <2>4. /\ t \notin unfunded' => ~(ClaimOn(r, t) > ClaimOn(routes[k], t))
        /\ t \notin orphaned' => ~(ClaimOn(r, t) < ClaimOn(routes[k], t))
    BY DEF UpsertRoute
  <2> QED  BY <2>1, <2>2, <2>3, <2>4
<1>3. \A t \in TreasuryKeys : t \notin unfunded' =>
        ClaimOn(routes'[k], t) + Pending(t) <= ClaimOn(routes[k], t) + Pending(t)'
  BY <1>1, <1>2
<1>4. \A t \in TreasuryKeys : t \notin orphaned' =>
        ClaimOn(routes'[k], t) + Pending(t) >= ClaimOn(routes[k], t) + Pending(t)'
  BY <1>1, <1>2
<1> QED  BY <1>1, <1>3, <1>4, OneChangeCovers

\* What a route accrues is pending in its treasury, if the call succeeds; an
\* overdrawn route may distribute less of it.
LEMMA AccrueCovers ==
    ASSUME IInv, IInv', PendingCoversRoutes, NEW k \in RouteKeys, NEW x \in Fees,
           Accrue(k, x)
    PROVE  PendingCoversRoutes'
<1>1. PICK t \in TreasuryKeys, r \in Route :
        r = routes[k] /\ t = TreasuryOf(r) /\ Configured(k)
  BY DEF IInv, TypeOK, Accrue, Configured, TreasuryOf, TreasuryKeys, Route
<1>2. /\ x \in Nat /\ r.accrued \in Nat /\ r.distributed \in Nat
      /\ r.distributed <= r.accrued \/ t \in orphaned
  BY <1>1, TreasuryAssumption, AmountIsNat DEF Route, IInv, NothingOverdrawn
<1>3. /\ routes'[k] = [r EXCEPT !.accrued = @ + x]
      /\ \A i \in RouteKeys : i # k => routes'[i] = routes[i]
      /\ unfunded \subseteq unfunded' /\ orphaned' = orphaned
  BY <1>1 DEF Accrue, IInv, TypeOK
<1>4. /\ TreasuryOf(routes'[k]) = t
      /\ Undistributed(r) \in Nat /\ Undistributed(routes'[k]) \in Nat
      /\ Undistributed(r) <= Undistributed(routes'[k])
      /\ Undistributed(routes'[k]) <= Undistributed(r) + x
      /\ t \notin orphaned => Undistributed(routes'[k]) = Undistributed(r) + x
  BY <1>1, <1>2, <1>3 DEF TreasuryOf, Undistributed, SaturatingSub, Route
<1>5. routes'[k] # Absent
  <2>1. r.accrued + x \in Amount
    BY <1>1, <1>2, AmountsAssumption DEF Accrue, Fits, Amount
  <2>2. routes'[k] \in Route  BY <1>3, <2>1 DEF Route
  <2> QED  BY <2>2, AbsentTreasury
<1>6. \A u \in TreasuryKeys :
        /\ ClaimOn(routes[k], u) = IF u = t THEN Undistributed(r) ELSE 0
        /\ ClaimOn(routes'[k], u) = IF u = t THEN Undistributed(routes'[k]) ELSE 0
  BY <1>1, <1>4, <1>5 DEF ClaimOn, Configured
<1> DEFINE found == IF treasuries[t] = Absent THEN NewTreasury ELSE treasuries[t]
<1>7. CASE ~ReceiveFits(found, x)
  <2>1. treasuries' = treasuries /\ t \in unfunded'
    BY <1>1, <1>7 DEF Accrue
  <2>2. \A u \in TreasuryKeys : Pending(u) \in Nat /\ Pending(u)' = Pending(u)
    BY <2>1, PendingNat DEF IInv, Pending
  <2>3. \A u \in TreasuryKeys : u \notin unfunded' =>
          ClaimOn(routes'[k], u) + Pending(u) <= ClaimOn(routes[k], u) + Pending(u)'
    BY <1>6, <2>1, <2>2
  <2>4. \A u \in TreasuryKeys : u \notin orphaned' =>
          ClaimOn(routes'[k], u) + Pending(u) >= ClaimOn(routes[k], u) + Pending(u)'
    BY <1>4, <1>6, <2>2
  <2> QED  BY <1>3, <2>3, <2>4, OneChangeCovers
<1>8. CASE ReceiveFits(found, x)
  <2>1. treasuries' = [treasuries EXCEPT ![t] = Received(found, x)]
    BY <1>1, <1>8 DEF Accrue
  <2>2. Pending(t)' = Pending(t) + x /\ Pending(t) \in Nat
    <3>1. PICK old \in TreasuryAccount : old = found
      <4>1. NewTreasury \in TreasuryAccount
        BY AmountsAssumption DEF NewTreasury, TreasuryAccount, Amount
      <4>2. treasuries[t] \in TreasuryAccount \cup {Absent}
        BY DEF IInv, TypeOK
      <4>3. found \in TreasuryAccount  BY <4>1, <4>2
      <4> QED  BY <4>3
    <3>2. treasuries'[t] = Received(old, x)
      BY <2>1, <3>1 DEF IInv, TypeOK
    <3>3. Received(old, x).pending_distribution = old.pending_distribution + x
      BY DEF Received, TreasuryAccount
    <3>4. treasuries'[t] # Absent
      <4>1. old.pending_distribution <= old.balance
        BY <3>1 DEF IInv, NothingOverdrawn, NewTreasury
      <4>2. Received(old, x) \in TreasuryAccount
        BY <1>8, <3>1, <4>1, ReceivedInBounds, TreasuryAssumption
      <4> QED  BY <3>2, <4>2, AbsentTreasury
    <3>5. old.pending_distribution = Pending(t) /\ old.pending_distribution \in Nat
      BY <3>1, AmountIsNat DEF Pending, NewTreasury, TreasuryAccount
    <3> QED  BY <3>2, <3>3, <3>4, <3>5 DEF Pending
  <2>3. \A u \in TreasuryKeys : u # t => Pending(u)' = Pending(u)
    BY <2>1 DEF IInv, TypeOK, Pending
  <2>4. \A u \in TreasuryKeys : Pending(u) \in Nat  BY PendingNat DEF IInv
  <2>5. \A u \in TreasuryKeys :
          ClaimOn(routes'[k], u) + Pending(u) <= ClaimOn(routes[k], u) + Pending(u)'
    BY <1>2, <1>4, <1>6, <2>2, <2>3, <2>4
  <2>6. \A u \in TreasuryKeys : u \notin orphaned' =>
          ClaimOn(routes'[k], u) + Pending(u) >= ClaimOn(routes[k], u) + Pending(u)'
    BY <1>2, <1>3, <1>4, <1>6, <2>2, <2>3, <2>4
  <2> QED  BY <1>3, <2>5, <2>6, OneChangeCovers
<1> QED  BY <1>7, <1>8

\* What a route distributes leaves the treasury, if the call succeeds.
LEMMA DistributeCovers ==
    ASSUME IInv, IInv', PendingCoversRoutes, NEW k \in RouteKeys, NEW x \in Fees,
           Distribute(k, x)
    PROVE  PendingCoversRoutes'
<1>1. PICK t \in TreasuryKeys, r \in Route :
        r = routes[k] /\ t = TreasuryOf(r) /\ Configured(k)
  BY DEF IInv, TypeOK, Distribute, Configured, TreasuryOf, TreasuryKeys, Route
<1>2. x \in Nat /\ r.accrued \in Nat /\ r.distributed \in Nat
  BY <1>1, TreasuryAssumption, AmountIsNat DEF Route
<1>3. /\ routes'[k] = [r EXCEPT !.distributed = @ + x]
      /\ \A i \in RouteKeys : i # k => routes'[i] = routes[i]
      /\ unfunded' = unfunded /\ orphaned \subseteq orphaned'
      /\ x <= Undistributed(r)
  BY <1>1 DEF Distribute, IInv, TypeOK, Distributable
<1>4. /\ TreasuryOf(routes'[k]) = t
      /\ Undistributed(routes'[k]) + x = Undistributed(r)
      /\ Undistributed(routes'[k]) \in Nat
  BY <1>1, <1>2, <1>3 DEF TreasuryOf, Undistributed, SaturatingSub, Route
<1>5. routes'[k] # Absent
  <2>1. r.distributed + x \in Amount
    BY <1>1, <1>2, AmountsAssumption DEF Distribute, Fits, Amount
  <2>2. routes'[k] \in Route  BY <1>3, <2>1 DEF Route
  <2> QED  BY <2>2, AbsentTreasury
<1>6. \A u \in TreasuryKeys :
        /\ ClaimOn(routes[k], u) = IF u = t THEN Undistributed(r) ELSE 0
        /\ ClaimOn(routes'[k], u) = IF u = t THEN Undistributed(routes'[k]) ELSE 0
  BY <1>1, <1>4, <1>5 DEF ClaimOn, Configured
<1>7. CASE treasuries[t] # Absent /\ x <= treasuries[t].pending_distribution
  <2>1. treasuries[t] \in TreasuryAccount  BY <1>7 DEF IInv, TypeOK
  <2>2. treasuries' = [treasuries EXCEPT ![t].pending_distribution = @ - x]
    BY <1>1, <1>7 DEF Distribute
  <2>3. /\ treasuries'[t] = [treasuries[t] EXCEPT !.pending_distribution = @ - x]
        /\ \A u \in TreasuryKeys : u # t => treasuries'[u] = treasuries[u]
    BY <2>2 DEF IInv, TypeOK
  <2>4. treasuries'[t] \in TreasuryAccount
    BY <1>7, <2>1, <2>3, MarkedInBounds, TreasuryAssumption DEF IInv, NothingOverdrawn
  <2>5. /\ Pending(t)' + x = Pending(t) /\ Pending(t)' \in Nat
    BY <1>2, <1>7, <2>1, <2>3, <2>4, AmountIsNat, AbsentTreasury
    DEF Pending, TreasuryAccount
  <2>6. \A u \in TreasuryKeys :
          Pending(u) \in Nat /\ (u # t => Pending(u)' = Pending(u))
    BY <2>3, PendingNat DEF IInv, Pending
  <2>7. \A u \in TreasuryKeys :
          ClaimOn(routes'[k], u) + Pending(u) = ClaimOn(routes[k], u) + Pending(u)'
    BY <1>2, <1>4, <1>6, <2>5, <2>6
  <2>8. \A u \in TreasuryKeys :
          ClaimOn(routes[k], u) + Pending(u)' \in Nat
    BY <1>4, <1>2, <1>6, <2>5, <2>6
  <2>9. \A u \in TreasuryKeys :
          /\ ClaimOn(routes'[k], u) + Pending(u) <= ClaimOn(routes[k], u) + Pending(u)'
          /\ ClaimOn(routes'[k], u) + Pending(u) >= ClaimOn(routes[k], u) + Pending(u)'
    BY <2>7, <2>8
  <2> QED  BY <1>3, <2>9, OneChangeCovers
<1>8. CASE ~(treasuries[t] # Absent /\ x <= treasuries[t].pending_distribution)
  <2>1. treasuries' = treasuries /\ (x > 0 => t \in orphaned')
    BY <1>1, <1>8 DEF Distribute
  <2>2. \A u \in TreasuryKeys : Pending(u) \in Nat /\ Pending(u)' = Pending(u)
    BY <2>1, PendingNat DEF IInv, Pending
  <2>3. \A u \in TreasuryKeys :
          ClaimOn(routes'[k], u) + Pending(u) <= ClaimOn(routes[k], u) + Pending(u)'
    BY <1>2, <1>4, <1>6, <2>2
  <2>4. \A u \in TreasuryKeys : u \notin orphaned' =>
          ClaimOn(routes'[k], u) + Pending(u) >= ClaimOn(routes[k], u) + Pending(u)'
    BY <1>2, <1>4, <1>6, <2>1, <2>2
  <2> QED  BY <1>3, <2>3, <2>4, OneChangeCovers
<1> QED  BY <1>7, <1>8

(***************************************************************************)
(* What a treasury has pending and what its routes may still distribute    *)
(* differ only by what failed halfway and what routes were put in with,    *)
(* accruals and insertions in one direction, distributions and insertions  *)
(* in the other.                                                           *)
(***************************************************************************)
THEOREM RoutesCovered == Spec => []PendingCoversRoutes
<1>1. Init => PendingCoversRoutes
  <2> SUFFICES ASSUME Init, NEW t \in TreasuryKeys PROVE OpenFees(t) = 0 /\ Pending(t) = 0
    BY DEF PendingCoversRoutes
  <2> DEFINE f == [i \in RouteKeys |-> ClaimOn(routes[i], t)]
  <2>1. OpenFees(t) = SumOver(f, RouteKeys)  BY DEF OpenFees
  <2>2. \A i \in RouteKeys : f[i] = 0  BY DEF Init, ClaimOn
  <2>3. IsFiniteSet(RouteKeys)  BY TreasuryAssumption, FS_Product DEF RouteKeys
  <2>4. Pending(t) = 0  BY DEF Init, Pending
  <2> HIDE DEF f
  <2>5. SumOver(f, RouteKeys) = 0  BY <2>2, <2>3, SumZero
  <2> QED  BY <2>1, <2>4, <2>5
<1>2. IInv /\ IInv' /\ PendingCoversRoutes /\ [Next]_vars => PendingCoversRoutes'
  <2> SUFFICES ASSUME IInv, IInv', PendingCoversRoutes, [Next]_vars
               PROVE  PendingCoversRoutes'
    OBVIOUS
  <2>1. CASE UNCHANGED vars
    BY <2>1 DEF vars, PendingCoversRoutes, OpenFees, Pending, ClaimOn, TreasuryOf, Undistributed
  <2> QED  BY <2>1, UpsertCovers, AccrueCovers, DistributeCovers DEF Next
<1> QED  BY <1>1, <1>2, Inductive, PTL DEF Spec
=============================================================================
