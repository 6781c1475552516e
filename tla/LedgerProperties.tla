-------------------------- MODULE LedgerProperties --------------------------
(***************************************************************************)
(* What the ledger promises.  The books are compared with the positions    *)
(* they stand for; where a statement is about regular histories only, it   *)
(* says which anomalies it excludes, and the runs that expect a violation  *)
(* show that the code reaches each of them.                                *)
(***************************************************************************)
EXTENDS Ledger

---------------------------------------------------------------------------
\* Types

\* Every stored amount and index stays inside u128: the checked arithmetic
\* of src/amount and the error paths of the ledger let nothing else be saved.
TypeOK ==
    /\ now \in Nat /\ accruing \in Nat
    /\ live \subseteq PoolIds /\ todo \subseteq live /\ visiting \subseteq todo
    /\ asset \in [Assets -> AssetConfig]
    /\ balance \in [Holdings -> Amount] /\ held \in [Holdings -> Amount]
    /\ pools \in [PoolIds -> Pool]
    /\ rates \in [PoolIds -> Accrual]
    /\ positions \in [PositionIds -> Position \cup {Absent}]
    /\ locks \in [LockIds -> Lock \cup {Absent}]
    /\ deposited \in [Assets -> Nat]
    /\ anomaly \subseteq Anomalies

---------------------------------------------------------------------------
\* Accounts

\* No account ever has more on hold than it owns, even after a call that
\* failed halfway: AccountState::available saturates, so an excess would go
\* unnoticed and debit_reserved would fail between its two assignments.
HeldWithinBalance == \A h \in Holdings : held[h] <= balance[h]

\* A position holds its collateral from its opening until it is closed or
\* swept (PositionIds and the amounts they have locked in holding h).
Secures(p, h) ==
    /\ Known(p) /\ positions[p].state \in {"Active", "Locked"}
    /\ positions[p].borrower = h[1] /\ AssetOf(p) = h[2]
CollateralIn(h) ==
    SumOver([p \in PositionIds |-> IF Secures(p, h) THEN positions[p].collateral ELSE 0],
            PositionIds)

\* In a regular history the holds of an account are exactly the collateral
\* of its open positions, over all pools of the asset.
HoldsMatchCollateral ==
    anomaly \subseteq {"stalled"} => \A h \in Holdings : held[h] = CollateralIn(h)

---------------------------------------------------------------------------
\* Pools

Funded(p, pool) ==
    Known(p) /\ positions[p].pool = pool /\ positions[p].state \in {"Active", "Locked"}
PrincipalIn(pool) ==
    SumOver([p \in PositionIds |-> IF Funded(p, pool) THEN positions[p].principal ELSE 0],
            PositionIds)
SecurityIn(pool) ==
    SumOver([p \in PositionIds |-> IF Funded(p, pool) THEN positions[p].collateral ELSE 0],
            PositionIds)

\* In a regular history the aggregates that a pool keeps (and that repay and
\* charge_off check before they subtract) are the sums over its open positions.
PoolMatchesPositions ==
    anomaly \subseteq {"stalled"} =>
        \A pool \in PoolIds :
            /\ pools[pool].principal_outstanding = PrincipalIn(pool)
            /\ pools[pool].collateral_locked = SecurityIn(pool)

\* Cash: what deposit brought in is in an account, in a pool's liquidity, or
\* was taken from a borrower by a sweep.
Swept(s) ==
    SumOver([p \in PositionIds |->
               IF Known(p) /\ AssetOf(p) = s /\ positions[p].state = "Expired"
               THEN positions[p].collateral ELSE 0], PositionIds)
CashOf(s) ==
    SumOver([a \in Accounts |-> balance[<<a, s>>]], Accounts)
      + SumOver([p \in PoolIds |->
                   IF PoolAsset[p] = s THEN pools[p].liquidity_available ELSE 0], PoolIds)

\* No regular call creates or destroys cash: opening, settling and moving
\* liquidity only pass it between accounts and pools.
CashConserved ==
    anomaly \subseteq {"stalled"} =>
        \A s \in Assets : CashOf(s) + Swept(s) = deposited[s]

\* ConservationReport::observed_supply of the audit, and the findings that
\* AuditReport::validate_pool_bounds has for a pool.
PoolSum(f, s) ==
    SumOver([p \in PoolIds |-> IF PoolAsset[p] = s THEN f[p] ELSE 0], PoolIds)
ReservesOf(s) == PoolSum([p \in PoolIds |-> pools[p].reserve_balance], s)
ChargesOf(s) ==
    PoolSum([p \in PoolIds |-> pools[p].interest_collected + pools[p].penalty_collected], s)
ObservedSupply(s) == CashOf(s) + ReservesOf(s)
PoolFindings(q) ==
    (IF Utilization(q) > BPS_DENOMINATOR THEN {"pool.utilization"} ELSE {})
      \cup (IF q.principal_outstanding = 0 /\ q.collateral_locked # 0
            THEN {"pool.collateral"} ELSE {})

\* What an auditor sees of a regular history: the supply never falls below
\* what was deposited, since a sweep books what it takes; reserves, which are
\* booked on top of the liquidity, raise it by no more than the charges
\* collected; and no pool has a finding.
AuditBalanced ==
    anomaly \subseteq {"stalled"} =>
        /\ \A s \in Assets :
             ObservedSupply(s) \in deposited[s] .. deposited[s] + ChargesOf(s)
        /\ \A p \in live : PoolFindings(pools[p]) = {}

\* Nothing the ledger does takes the utilization of a pool above the limit
\* that open_position checks: deposits, repayments and write-offs only lower
\* it, and the narrowing to 32 bits cannot let a loan through, because the
\* pool itself refuses to lend more than its liquidity.
UtilizationWithinLimit ==
    \A p \in live : Utilization(pools[p]) <= MaxUtilization

---------------------------------------------------------------------------
\* Rates and debt

\* Unless an advance was aborted, every pool has accrued exactly up to the
\* epoch of the clock whenever a call can observe it.
RatesFollowClockUnlessStalled ==
    Idle /\ "stalled" \notin anomaly => \A p \in live : rates[p].epoch = now

\* Accrual never rewrites the past: checkpoints taken in a pool at the same
\* epoch hold the same indices, and none is ahead of the pool.
Precedes(c, r) ==
    /\ c.epoch <= r.epoch
    /\ c.interest_index <= r.interest_index /\ c.penalty_index <= r.penalty_index
    /\ c.epoch = r.epoch => c = r
CheckpointsAgree ==
    \A p \in PositionIds : Known(p) =>
        /\ Precedes(positions[p].opened, positions[p].checkpoint)
        /\ Precedes(positions[p].checkpoint, RateOf(p))
        /\ \A q \in PositionIds :
             /\ Known(q) /\ positions[q].pool = positions[p].pool
             /\ positions[q].checkpoint.epoch = positions[p].checkpoint.epoch
             => positions[q].checkpoint = positions[p].checkpoint

\* Locks of p, and those created within one epoch of p's maturity.
LocksOf(p) == {l \in LockIds : locks[l] # Absent /\ locks[l].position = p}
BoundaryLocksOf(p) ==
    {l \in LocksOf(p) : IsBoundary(locks[l].created_epoch, locks[l].previous_maturity)}

\* The interest that a position owes is the growth of its pool's index since
\* it was opened, however often it has been locked and its debt materialized:
\* each materialization may only lose the fraction of a unit it rounds off.
\* (A boundary lock loses more: see LockKeepsDebt.)
InterestFullyAccounted ==
    \A p \in PositionIds :
        Known(p) /\ positions[p].state # "Closed" /\ BoundaryLocksOf(p) = {} =>
            LET full == AmountDelta(RateOf(p).interest_index, positions[p].principal,
                                    positions[p].opened.interest_index)
                owed == Interest(positions[p], RateOf(p))
            IN  owed <= full /\ full <= owed + Cardinality(LocksOf(p))

Owed(p) == TotalDue(positions[p], RateOf(p), now)

\* The debt of a position never falls while it stays open, whatever the order
\* of advances, locks and releases; only a lock taken within one epoch of the
\* maturity can reduce it.
DebtNeverFallsOffBoundary ==
    [][\A p \in PositionIds :
          Known(p) /\ AdmitsClose(positions[p]) /\ AdmitsClose(positions'[p]) =>
             \/ Owed(p)' >= Owed(p)
             \/ /\ LocksOf(p)' # LocksOf(p)
                /\ IsBoundary(now, positions[p].effective_maturity_epoch)]_vars

---------------------------------------------------------------------------
\* Locks

\* A position is Locked exactly while it carries a lock; that lock is Active,
\* belongs to it, fixes its maturity, and was taken at the version just
\* before the present one; and every lock names a position that exists.  It
\* survives orphaned locks being released, and positions swept or closed
\* under a lock.
CarriesLock(p, l) ==
    /\ locks[l] # Absent
    /\ locks[l].position = p /\ locks[l].status = "Active"
    /\ locks[l].release_epoch = positions[p].effective_maturity_epoch
    /\ locks[l].state_version + 1 = positions[p].state_version
LockBinding ==
    /\ \A l \in LockIds : locks[l] # Absent => Known(locks[l].position)
    /\ \A p \in PositionIds : Known(p) =>
         /\ positions[p].state = "Locked" <=> positions[p].active_lock # NoLock
         /\ positions[p].active_lock # NoLock => CarriesLock(p, positions[p].active_lock)

\* Whoever compares state_version sees every change of a position's state,
\* maturity, lock or recorded debt.
VersionDetectsChange ==
    [][\A p \in PositionIds : Known(p) =>
          LET old == positions[p]  new == positions'[p]
          IN  new = old \/ new.state_version = old.state_version + 1]_vars

\* The collateral of a position is not taken before the lock it carries can
\* be released, and the grace of that release has passed: a sweep never
\* overtakes a lock.
NoSweepUnderLock ==
    [][\A p \in PositionIds :
          Known(p) /\ positions[p].state = "Locked" /\ positions'[p].state = "Expired" =>
             now >= locks[positions[p].active_lock].release_epoch + LockGrace + SweepDelay
    ]_vars

\* What a sweep takes, a quote calls Expired or Locked: the two computations
\* of the grace (DebtCalculator::classify, ExpiryEngine::decision) agree that
\* nothing is swept while the borrower may still repay in time.  They share
\* one epoch, the last of the grace, under a sweep delay of zero, which
\* EpochPolicy::validate admits: sweep_epoch is inclusive, and so is InGrace.
SweepAfterGrace ==
    [][\A p \in PositionIds :
          Known(p) /\ positions[p].state # "Expired" /\ positions'[p].state = "Expired" =>
             \/ Classify(positions[p], now) \in {"Expired", "Locked"}
             \/ /\ SweepDelay = 0
                /\ now = positions[p].effective_maturity_epoch + LockGrace]_vars

\* A closed position is final, and a position never changes its parties or
\* its terms.
ClosedIsFinal ==
    [][\A p \in PositionIds : Known(p) =>
          LET old == positions[p]  new == positions'[p]
          IN  /\ old.state = "Closed" => new = old
              /\ <<new.borrower, new.pool, new.principal, new.collateral>>
                   = <<old.borrower, old.pool, old.principal, old.collateral>>]_vars

\* advance_epochs always comes to an end, with pools lagging or not.
AdvanceReturns == (todo # {}) ~> (todo = {})

---------------------------------------------------------------------------
\* Statements of the documents that the code does not keep.  Each is checked
\* by a run that expects a violation.

\* docs/debt-and-epochs.md: materializing moves the observed delta to the
\* pending charges; so taking a lock leaves the debt as it was.
LockKeepsDebt ==
    [][\A p \in PositionIds :
          Known(p) /\ LocksOf(p)' # LocksOf(p) => Owed(p)' >= Owed(p)]_vars

\* SECURITY.md: collateral stays on hold until its own position is closed or
\* validly expired; so holds always cover the collateral of open positions.
CollateralStaysHeld == \A h \in Holdings : held[h] >= CollateralIn(h)

\* docs/debt-and-epochs.md, states of a quote: a position with a lock is
\* quoted Locked; so no position leaves Locked, other than by its end, before
\* each lock that was taken on it can be released.
LockedUnderLock ==
    \A l \in LockIds :
        /\ locks[l] # Absent /\ locks[l].status = "Active"
        /\ now < locks[l].release_epoch
        /\ positions[locks[l].position].state \notin {"Closed", "Expired"}
        => Classify(positions[locks[l].position], now) = "Locked"

\* docs/debt-and-epochs.md: the rate is min(curve, max_bps), which is defined
\* for every utilization; so an advance always brings the rates to the clock.
RatesFollowClock == Idle => \A p \in live : rates[p].epoch = now

\* docs/operations.md, opening: liquidity, utilization and limits are
\* validated (2) before the collateral is reserved (5); so every hold belongs
\* to an open position.
HoldsHavePositions == \A h \in Holdings : held[h] <= CollateralIn(h)
=============================================================================
