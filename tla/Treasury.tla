------------------------------ MODULE Treasury ------------------------------
(***************************************************************************)
(* FeeRouter of src/treasury: fee routes, one per pool and bucket, accrue  *)
(* fees into the treasury of their recipient and distribute them out of    *)
(* it.  Route and treasury are changed one after the other: an error in    *)
(* the second leaves the first changed.                                    *)
(***************************************************************************)
EXTENDS Amounts

CONSTANTS
    PoolIds, Buckets, Assets, Owners,
    Fees,      \* amounts that a run accrues and distributes
    Absent     \* value of a route or a treasury that does not exist

ASSUME TreasuryAssumption ==
    /\ IsFiniteSet(PoolIds) /\ IsFiniteSet(Buckets)
    /\ Fees \subseteq Amount

VARIABLES
    routes,      \* FeeRouter::routes
    treasuries,  \* FeeRouter::treasuries
    \* history, for the properties only
    unfunded,    \* treasuries whose routes were given fees they never received
    orphaned     \* treasuries that hold fees which no route will distribute

vars == <<routes, treasuries, unfunded, orphaned>>

RouteKeys == PoolIds \X Buckets
TreasuryKeys == Owners \X Assets

Route == [asset : Assets, recipient : Owners, accrued : Amount, distributed : Amount]

TreasuryAccount == [balance : Amount, pending_distribution : Amount]
NewTreasury == [balance |-> 0, pending_distribution |-> 0]

ASSUME AbsentTreasury == Absent \notin Route /\ Absent \notin TreasuryAccount

Configured(k) == routes[k] # Absent
TreasuryOf(route) == <<route.recipient, route.asset>>

\* FeeRoute::undistributed
Undistributed(route) == SaturatingSub(route.accrued, route.distributed)

Init ==
    /\ routes = [k \in RouteKeys |-> Absent]
    /\ treasuries = [t \in TreasuryKeys |-> Absent]
    /\ unfunded = {}
    /\ orphaned = {}

\* What a route may still distribute out of treasury t.
ClaimOn(route, t) ==
    IF route # Absent /\ TreasuryOf(route) = t THEN Undistributed(route) ELSE 0
Overdrawn(route) == route.distributed > route.accrued

\* upsert_route replaces the route of a key by whatever route it is given,
\* counters included: a new one, or the copy of a route() with another
\* recipient.  No treasury is told of it.
UpsertRoute(k, route) ==
    /\ routes' = [routes EXCEPT ![k] = route]
    /\ unfunded' = unfunded \cup
         {t \in TreasuryKeys : ClaimOn(route, t) > ClaimOn(routes[k], t)}
    /\ orphaned' = orphaned \cup
         {t \in TreasuryKeys : ClaimOn(route, t) < ClaimOn(routes[k], t)} \cup
         {t \in {TreasuryOf(route)} : Overdrawn(route)}
    /\ UNCHANGED treasuries

\* Mutant: what is received is not marked as pending.
Received_balance(treasury, amount) == [treasury EXCEPT !.balance = @ + amount]

\* TreasuryAccount::receive; the second addition succeeds if the first does,
\* see NothingOverdrawn.
Received(treasury, amount) ==
    [treasury EXCEPT !.balance = @ + amount, !.pending_distribution = @ + amount]
ReceiveFits(treasury, amount) == Fits(treasury.balance + amount)

\* accrue: the route first, then the treasury, created when missing.
Accrue(k, amount) ==
    LET t        == TreasuryOf(routes[k])
        treasury == IF treasuries[t] = Absent THEN NewTreasury ELSE treasuries[t]
    IN  /\ Configured(k)
        /\ Fits(routes[k].accrued + amount)
        /\ routes' = [routes EXCEPT ![k].accrued = @ + amount]
        /\ \/ /\ ReceiveFits(treasury, amount)
              /\ treasuries' = [treasuries EXCEPT ![t] = Received(treasury, amount)]
              /\ UNCHANGED unfunded
           \/ /\ ~ReceiveFits(treasury, amount)
              /\ unfunded' = unfunded \cup {t}
              /\ UNCHANGED treasuries
        /\ UNCHANGED orphaned

\* Mutant: what is left of the route is not compared with the amount.
Distributable_any(route, amount) == TRUE

\* FeeRoute::distribute
Distributable(route, amount) == amount <= Undistributed(route)

\* distribute: the route first, then the treasury, which may be missing.
Distribute(k, amount) ==
    LET t      == TreasuryOf(routes[k])
        marked == /\ treasuries[t] # Absent
                  /\ amount <= treasuries[t].pending_distribution
    IN  /\ Configured(k)
        /\ Distributable(routes[k], amount)
        /\ Fits(routes[k].distributed + amount)
        /\ routes' = [routes EXCEPT ![k].distributed = @ + amount]
        /\ \/ /\ marked
              /\ treasuries' = [treasuries EXCEPT ![t].pending_distribution = @ - amount]
              /\ UNCHANGED orphaned
           \/ /\ ~marked
              /\ orphaned' = IF amount > 0 THEN orphaned \cup {t} ELSE orphaned
              /\ UNCHANGED treasuries
        /\ UNCHANGED unfunded

Next ==
    \/ \E k \in RouteKeys, route \in Route : UpsertRoute(k, route)
    \/ \E k \in RouteKeys, x \in Fees : Accrue(k, x)
    \/ \E k \in RouteKeys, x \in Fees : Distribute(k, x)

Spec == Init /\ [][Next]_vars

---------------------------------------------------------------------------
\* Properties

TypeOK ==
    /\ routes \in [RouteKeys -> Route \cup {Absent}]
    /\ treasuries \in [TreasuryKeys -> TreasuryAccount \cup {Absent}]
    /\ unfunded \subseteq TreasuryKeys
    /\ orphaned \subseteq TreasuryKeys

\* A treasury owes no more than it has received, even after calls that failed
\* halfway, which is why the second addition of TreasuryAccount::receive never
\* fails after the first.  And no sequence of accruals and distributions takes
\* more out of a route than it accrued: a route that shows it was put in that
\* way, and then its treasury holds fees it cannot distribute.
NothingOverdrawn ==
    /\ \A k \in RouteKeys : Configured(k) =>
         \/ routes[k].distributed <= routes[k].accrued
         \/ TreasuryOf(routes[k]) \in orphaned
    /\ \A t \in TreasuryKeys : treasuries[t] # Absent =>
         treasuries[t].pending_distribution <= treasuries[t].balance

\* Fees that the routes into a treasury can still distribute.
OpenFees(t) == SumOver([k \in RouteKeys |-> ClaimOn(routes[k], t)], RouteKeys)
Pending(t) == IF treasuries[t] = Absent THEN 0 ELSE treasuries[t].pending_distribution

\* What a treasury has pending is what the routes into it may still distribute,
\* over all pools and buckets that share it.  It holds less only if an accrual
\* failed halfway or a route was put in with open fees of its own; it holds
\* more only if a distribution failed halfway or a route was put in that
\* dropped, moved away or had overdrawn its fees.  So FeeRouter::distribute
\* never fails halfway on a treasury that none of the first two befell.
PendingCoversRoutes ==
    \A t \in TreasuryKeys :
        /\ t \notin unfunded => OpenFees(t) <= Pending(t)
        /\ t \notin orphaned => OpenFees(t) >= Pending(t)
=============================================================================
