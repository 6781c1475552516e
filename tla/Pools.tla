------------------------------- MODULE Pools -------------------------------
(***************************************************************************)
(* The credit pool of src/pools.  The methods of PoolState assign their    *)
(* fields one after another and return at the first checked operation that *)
(* fails, so an error may leave the earlier assignments in place.  Every   *)
(* method is an outcome [ok, pool]: whether it returned Ok, and the pool   *)
(* it leaves behind.                                                       *)
(***************************************************************************)
EXTENDS Amounts

CONSTANTS
    ReserveFactor,     \* PoolConfig::reserve_factor_bps
    MaxUtilization     \* PoolConfig::max_utilization_bps

ASSUME PoolsAssumption ==
    /\ ReserveFactor \in Nat /\ ReserveFactor <= BPS_DENOMINATOR
    /\ MaxUtilization \in Nat /\ MaxUtilization <= BPS_DENOMINATOR

PoolStatus == {"Open", "DepositsOnly", "RepayOnly", "Paused"}

Pool == [status : PoolStatus,
         liquidity_available : Amount,
         principal_outstanding : Amount,
         collateral_locked : Amount,
         interest_collected : Amount,
         penalty_collected : Amount,
         reserve_balance : Amount,
         lifetime_deposits : Amount]

NewPool == [status |-> "Open",
            liquidity_available |-> 0,
            principal_outstanding |-> 0,
            collateral_locked |-> 0,
            interest_collected |-> 0,
            penalty_collected |-> 0,
            reserve_balance |-> 0,
            lifetime_deposits |-> 0]

CanBorrow(q)  == q.status = "Open"
CanDeposit(q) == q.status \in {"Open", "DepositsOnly"}
CanRepay(q)   == q.status # "Paused"

\* liquidity_available + principal_outstanding, the base of the utilization.
Funds(q) == q.liquidity_available + q.principal_outstanding

Utilization(q) ==
    IF Funds(q) = 0 THEN 0
    ELSE (q.principal_outstanding * BPS_DENOMINATOR) \div Funds(q)
UtilizationFits(q) ==
    Fits(Funds(q)) /\ Fits(q.principal_outstanding * BPS_DENOMINATOR)

Done(q)   == [ok |-> TRUE,  pool |-> q]
Failed(q) == [ok |-> FALSE, pool |-> q]

\* PoolState::deposit_liquidity
DepositInto(q, amount) ==
    LET funded == [q EXCEPT !.liquidity_available = @ + amount]
        logged == [funded EXCEPT !.lifetime_deposits = @ + amount]
    IN  IF amount = 0 \/ ~CanDeposit(q) \/ ~Fits(funded.liquidity_available)
          THEN Failed(q)
        ELSE IF ~Fits(logged.lifetime_deposits) THEN Failed(funded)
        ELSE Done(logged)

\* PoolState::borrow
Borrow(q, principal, collateral) ==
    LET lent    == [q EXCEPT !.liquidity_available = @ - principal]
        owed    == [lent EXCEPT !.principal_outstanding = @ + principal]
        secured == [owed EXCEPT !.collateral_locked = @ + collateral]
    IN  IF principal = 0 \/ ~CanBorrow(q) \/ q.liquidity_available < principal
          THEN Failed(q)
        ELSE IF ~Fits(owed.principal_outstanding) THEN Failed(lent)
        ELSE IF ~Fits(secured.collateral_locked) THEN Failed(owed)
        ELSE Done(secured)

\* PoolState::repay.  The whole of principal and charges goes to the
\* liquidity; the reserve cut is booked on top of it.
Repay(q, principal, interest, penalty, collateral) ==
    LET charges  == interest + penalty
        returned == [q EXCEPT !.principal_outstanding = @ - principal]
        paid     == [returned EXCEPT !.liquidity_available = @ + principal + charges]
        earned   == [paid EXCEPT !.interest_collected = @ + interest]
        fined    == [earned EXCEPT !.penalty_collected = @ + penalty]
        reserved == [fined EXCEPT !.reserve_balance = @ + MulBps(charges, ReserveFactor)]
    IN  IF \/ ~CanRepay(q)
           \/ q.principal_outstanding < principal
           \/ ~Fits(charges)
           \/ ~MulBpsFits(charges, ReserveFactor)
          THEN Failed(q)
        ELSE IF ~Fits(paid.liquidity_available) THEN Failed(returned)
        ELSE IF ~Fits(earned.interest_collected) THEN Failed(paid)
        ELSE IF ~Fits(fined.penalty_collected) THEN Failed(earned)
        ELSE IF ~Fits(reserved.reserve_balance) THEN Failed(fined)
        ELSE Done([reserved EXCEPT !.collateral_locked = SaturatingSub(@, collateral)])

\* Mutant: the collateral taken stays in the books of the pool.
ChargeOff_secured(q, principal, penalty, collateral) ==
    IF q.principal_outstanding < principal THEN Failed(q)
    ELSE Done([q EXCEPT !.principal_outstanding = @ - principal,
                        !.penalty_collected = @ + penalty,
                        !.reserve_balance = @ + collateral + penalty])

\* Mutant: what the sweep takes is not booked as a reserve.
ChargeOff_unreserved(q, principal, penalty, collateral) ==
    IF q.principal_outstanding < principal \/ q.collateral_locked < collateral
    THEN Failed(q)
    ELSE Done([q EXCEPT !.principal_outstanding = @ - principal,
                        !.collateral_locked = @ - collateral,
                        !.penalty_collected = @ + penalty])

\* PoolState::charge_off
ChargeOff(q, principal, penalty, collateral) ==
    LET written == [q EXCEPT !.principal_outstanding = @ - principal,
                             !.collateral_locked = @ - collateral]
        fined   == [written EXCEPT !.penalty_collected = @ + penalty]
        kept    == [fined EXCEPT !.reserve_balance = @ + collateral + penalty]
    IN  IF \/ q.principal_outstanding < principal
           \/ q.collateral_locked < collateral
          THEN Failed(q)
        ELSE IF ~Fits(fined.penalty_collected) THEN Failed(written)
        ELSE IF ~Fits(kept.reserve_balance) THEN Failed(fined)
        ELSE Done(kept)
=============================================================================
