------------------------------- MODULE Ledger -------------------------------
(***************************************************************************)
(* The façade ChronosLedger of src/ledger: one action per public operation *)
(* that changes state, over the account, pool, rate, position and lock     *)
(* books it coordinates.                                                   *)
(*                                                                         *)
(* An operation that fails before it has changed anything is not a step.   *)
(* One that fails halfway (the code rolls nothing back) is: it leaves the  *)
(* changes made so far and is recorded in `anomaly`.                       *)
(***************************************************************************)
EXTENDS Pools, Debt

CONSTANTS
    Assets,
    PoolAsset,          \* [PoolIds -> Assets], the `asset` given to create_pool
    RateModelOf,        \* [PoolIds -> RateModel], its `rate_model`
    AssetConfigs,       \* configurations that register_asset_config may install
    Absent,             \* value of an unused entry of a book
    \* policy of the ledger (LedgerConfig)
    SweepDelay,         \* EpochPolicy::expiry_sweep_delay_epochs
    MinSweepDelay,      \* ExpiryPolicy::minimum_sweep_delay_epochs
    CollateralPenalty,  \* ExpiryPolicy::collateral_penalty_bps
    MaxPrincipal,       \* RiskLimits::max_position_principal
    MinCollateral,      \* RiskLimits::min_collateral_bps
    MaxOpen,            \* RiskLimits::max_open_positions_per_account
    MinLockSpan, MaxLockSpan, \* RiskLimits::min_lock_epochs, max_lock_epochs
    \* the ledger after its set-up
    SetupPools,         \* pools created at the genesis epoch
    SetupBalance,       \* [Accounts \X Assets -> Amount] deposited there
    SetupLiquidity,     \* [PoolIds -> Amount] provided there
    SetupAsset,         \* [Assets -> AssetConfigs]
    \* inputs of the calls, and the bounds of a run
    DepositAmounts, Principals, Collaterals, DueLimits,
    Maturities, Releases, Advances,
    MaxEpoch, MaxPositions, MaxMinted

PositionIds == 1 .. MaxPositions
Holdings == Accounts \X Assets

AssetStatus == {"Enabled", "DepositsOnly", "Disabled"}
AssetConfig == [status : AssetStatus, min_deposit : Nat, debt_ceiling : Nat]

ASSUME LedgerAssumption ==
    /\ IsFiniteSet(Accounts) /\ IsFiniteSet(Assets) /\ IsFiniteSet(PoolIds)
    /\ PoolAsset \in [PoolIds -> Assets]
    /\ RateModelOf \in [PoolIds -> RateModel]
    /\ AssetConfigs \subseteq AssetConfig
    /\ SetupPools \subseteq PoolIds
    /\ SetupBalance \in [Holdings -> Amount]
    /\ SetupLiquidity \in [PoolIds -> Amount]
    /\ SetupAsset \in [Assets -> AssetConfigs]
    /\ {SweepDelay, MinSweepDelay, CollateralPenalty, MaxPrincipal, MinCollateral,
        MaxOpen, MinLockSpan, MaxLockSpan} \subseteq Nat
    /\ DepositAmounts \subseteq Nat /\ Principals \subseteq Nat
    /\ Collaterals \subseteq Nat /\ DueLimits \subseteq Nat
    /\ Maturities \subseteq Nat /\ Releases \subseteq Nat /\ Advances \subseteq Nat
    /\ MaxEpoch \in Nat /\ MaxPositions \in Nat /\ MaxMinted \in Nat

Lock == [position : PositionIds, created_epoch : Nat, release_epoch : Nat,
         status : {"Active", "Released"},
         previous_state : StoredState, previous_maturity : Nat,
         quoted_interest : Amount, quoted_penalty : Amount,
         state_version : Nat]

ASSUME AbsentAssumption == Absent \notin Position /\ Absent \notin Lock

VARIABLES
    now,        \* EpochClock::current_epoch
    accruing,   \* epoch the loop of advance_epochs is at; `now` outside it
    todo,       \* pools the loop has still to visit in that epoch
    visiting,   \* the pool being caught up, if the loop is inside one
    live,       \* pools created so far
    asset,      \* AssetBook
    balance,    \* AccountState::balances, per account and asset
    held,       \* AccountState::holds
    pools,      \* PoolBook
    rates,      \* RateBook: the current accrual state of each pool
    positions,  \* PositionBook
    locks,      \* LockBook
    \* history, for the properties only
    deposited,  \* what deposit has brought in, per asset
    anomaly     \* kinds of irregular steps taken so far

loopVars == <<accruing, todo, visiting>>
bookVars == <<balance, held, pools, positions, locks>>
vars == <<now, accruing, todo, visiting, live, asset, balance, held, pools,
          rates, positions, locks, deposited, anomaly>>

Anomalies == {"partial",  \* a call returned an error after changing state
              "stalled",  \* advance_epochs gave up with rates behind the clock
              "replay"}   \* a position already swept was locked, settled, swept

---------------------------------------------------------------------------
\* Views

Idle == todo = {}

Known(p) == positions[p] # Absent
AssetOf(p) == PoolAsset[positions[p].pool]
RateOf(p) == rates[positions[p].pool]

\* Mutant: holds are not deducted.
Available_gross(h) == balance[h]

\* AccountState::available
Available(h) == SaturatingSub(balance[h], held[h])

\* The methods of AccountState, for account and asset h.
Credit(h, amount) ==
    /\ amount > 0 /\ Fits(balance[h] + amount)
    /\ balance' = [balance EXCEPT ![h] = @ + amount]
DebitAvailable(h, amount) ==
    /\ amount > 0 /\ Available(h) >= amount
    /\ balance' = [balance EXCEPT ![h] = @ - amount]
Reserve(h, amount) ==
    /\ amount > 0 /\ Available(h) >= amount
    /\ held' = [held EXCEPT ![h] = @ + amount]
Release(h, amount) ==
    /\ amount > 0 /\ held[h] >= amount
    /\ held' = [held EXCEPT ![h] = @ - amount]

\* Mutant: the hold on what is debited stays.
DebitReserved_kept(h, amount, rest) ==
    /\ amount > 0 /\ held[h] >= amount
    /\ held' = [held EXCEPT ![h] = @ - rest]
    /\ balance' = [balance EXCEPT ![h] = @ - amount]

\* debit_reserved of an amount, with the release of a rest after it.
DebitReserved(h, amount, rest) ==
    /\ amount > 0 /\ held[h] >= amount
    /\ held' = [held EXCEPT ![h] = @ - amount - rest]
    /\ balance' = [balance EXCEPT ![h] = @ - amount]

\* PositionBook::open_positions_for: Expired counts as open.
OpenPositionsFor(a) ==
    { p \in PositionIds : Known(p) /\ positions[p].borrower = a
                                   /\ positions[p].state # "Closed" }

\* AssetConfig::validate_deposit and validate_borrow
AcceptsDeposit(s, amount) ==
    /\ amount > 0 /\ amount >= asset[s].min_deposit
    /\ asset[s].status \in {"Enabled", "DepositsOnly"}
AcceptsBorrow(s, amount) ==
    /\ amount > 0 /\ amount <= asset[s].debt_ceiling
    /\ asset[s].status = "Enabled"

\* Mutant: the utilization before the loan is compared with the limit.
UtilizationAfter_before(q, principal) ==
    (q.principal_outstanding * BPS_DENOMINATOR)
        \div (IF Funds(q) = 0 THEN 1 ELSE Funds(q))

\* RiskEngine::evaluate_open.  The utilization is narrowed to 32 bits
\* before it is compared.
UtilizationAfter(q, principal) ==
    ((q.principal_outstanding + principal) * BPS_DENOMINATOR)
        \div (IF Funds(q) = 0 THEN 1 ELSE Funds(q))
RiskAcceptsOpen(a, q, principal, collateral) ==
    /\ principal <= MaxPrincipal
    /\ Cardinality(OpenPositionsFor(a)) < MaxOpen
    /\ MulBpsFits(principal, MinCollateral)
    /\ collateral >= MulBps(principal, MinCollateral)
    /\ Fits(Funds(q))
    /\ Fits((q.principal_outstanding + principal) * BPS_DENOMINATOR)
    /\ AsU32(UtilizationAfter(q, principal)) <= MaxUtilization

\* RiskEngine::evaluate_lock (the owner check leaves the borrower only)
RiskAcceptsLock(release) ==
    /\ release > now
    /\ release - now \in MinLockSpan .. MaxLockSpan

\* Mutant: only the minimum delay counts, not the grace.
SweepDue_nograce(pos) == now >= pos.effective_maturity_epoch + MinSweepDelay

\* ExpiryEngine::decision for a position that is not terminal
SweepDue(pos) ==
    /\ now >= pos.effective_maturity_epoch + LockGrace + SweepDelay
    /\ now >= pos.effective_maturity_epoch + MinSweepDelay

\* ExpiryEngine::collateral_absorption: min(c, max(penalty, c)) is always c.
Absorbed(pos) ==
    LET penalty == MulBps(pos.collateral, CollateralPenalty)
        floor   == IF penalty > pos.collateral THEN penalty ELSE pos.collateral
    IN  IF pos.collateral <= floor THEN pos.collateral ELSE floor

\* Locking, settling or sweeping a position whose collateral is gone.
Replay(p) == IF positions[p].state = "Expired" THEN {"replay"} ELSE {}

---------------------------------------------------------------------------
\* The ledger after set-up: accounts, assets and the set-up pools exist,
\* and have been funded by deposit and deposit_liquidity.

Init ==
    /\ now = 0 /\ accruing = 0 /\ todo = {} /\ visiting = {}
    /\ live = SetupPools
    /\ asset = SetupAsset
    /\ balance = SetupBalance
    /\ held = [h \in Holdings |-> 0]
    /\ pools = [p \in PoolIds |->
                  IF p \in SetupPools
                  THEN [NewPool EXCEPT !.liquidity_available = SetupLiquidity[p],
                                       !.lifetime_deposits = SetupLiquidity[p]]
                  ELSE NewPool]
    /\ rates = [p \in PoolIds |-> InitialAccrual(0)]
    /\ positions = [p \in PositionIds |-> Absent]
    /\ locks = [l \in LockIds |-> Absent]
    /\ deposited =
         [s \in Assets |->
            SumOver([a \in Accounts |-> SetupBalance[<<a, s>>]], Accounts)
              + SumOver(SetupLiquidity, {p \in SetupPools : PoolAsset[p] = s})]
    /\ anomaly = {}

---------------------------------------------------------------------------
\* Operations on assets, pools and accounts

\* register_asset_config: the new configuration replaces the one installed
\* under the same id.
RegisterAssetConfig(s, config) ==
    /\ Idle
    /\ asset' = [asset EXCEPT ![s] = config]
    /\ UNCHANGED <<now, loopVars, live, bookVars, rates, deposited, anomaly>>

CreatePool(p) ==
    /\ Idle /\ p \notin live
    /\ live' = live \cup {p}
    /\ pools' = [pools EXCEPT ![p] = NewPool]
    /\ rates' = [rates EXCEPT ![p] = InitialAccrual(now)]
    /\ UNCHANGED <<now, loopVars, asset, balance, held, positions, locks,
                   deposited, anomaly>>

Deposit(a, s, amount) ==
    /\ Idle
    /\ AcceptsDeposit(s, amount)
    /\ deposited[s] + amount <= MaxMinted
    /\ Credit(<<a, s>>, amount)
    /\ deposited' = [deposited EXCEPT ![s] = @ + amount]
    /\ UNCHANGED <<now, loopVars, live, asset, held, pools, rates, positions,
                   locks, anomaly>>

\* The provider is debited before the pool is credited.
DepositLiquidity(a, p, amount) ==
    LET h      == <<a, PoolAsset[p]>>
        funded == DepositInto(pools[p], amount)
    IN  /\ Idle /\ p \in live
        /\ AcceptsDeposit(PoolAsset[p], amount)
        /\ DebitAvailable(h, amount)
        /\ pools' = [pools EXCEPT ![p] = funded.pool]
        /\ anomaly' = anomaly \cup (IF funded.ok THEN {} ELSE {"partial"})
        /\ UNCHANGED <<now, loopVars, live, asset, held, rates, positions,
                       locks, deposited>>

---------------------------------------------------------------------------
\* Time: advance_epochs moves the clock, then visits every pool once per
\* crossed epoch, in the order of a HashMap.

AdvanceEpochs(n) ==
    /\ Idle /\ n > 0 /\ now + n <= MaxEpoch
    /\ now' = now + n
    /\ accruing' = IF live = {} THEN now + n ELSE now + 1
    /\ todo' = live
    /\ UNCHANGED <<visiting, live, asset, bookVars, rates, deposited, anomaly>>

AccrualSucceeds(p) ==
    /\ UtilizationFits(pools[p])
    /\ AdvanceFits(rates[p], Utilization(pools[p]), RateModelOf[p])

\* Mutant: an advance by several epochs stops after the first.
LeavePool_once(p) ==
    /\ visiting' = {}
    /\ todo' = todo \ {p}
    /\ accruing' = IF todo = {p} THEN now ELSE accruing

\* The loop leaves pool p, and the epoch when p was its last pool.
LeavePool(p) ==
    LET lastPool == todo = {p}
        more     == accruing < now
    IN  /\ visiting' = {}
        /\ todo' = IF ~lastPool THEN todo \ {p} ELSE IF more THEN live ELSE {}
        /\ accruing' = IF lastPool /\ more THEN accruing + 1 ELSE accruing

\* One round of RateTrack::advance_to for pool p.
AccruePool(p) ==
    /\ p \in todo /\ visiting \subseteq {p}
    /\ AccrualSucceeds(p)
    /\ rates' = [rates EXCEPT
                   ![p] = AdvanceOne(@, Utilization(pools[p]), RateModelOf[p])]
    /\ \/ /\ rates[p].epoch + 1 < accruing
          /\ visiting' = {p}
          /\ UNCHANGED <<accruing, todo>>
       \/ /\ rates[p].epoch + 1 >= accruing
          /\ LeavePool(p)
    /\ UNCHANGED <<now, live, asset, bookVars, deposited, anomaly>>

\* Mutant: the failed pool is tried again instead of giving up.
StallAdvance_retry(p) ==
    /\ p \in todo /\ visiting \subseteq {p}
    /\ ~AccrualSucceeds(p)
    /\ anomaly' = anomaly \cup {"stalled"}
    /\ UNCHANGED <<now, loopVars, live, asset, bookVars, rates, deposited>>

\* An error of the rate or of an index aborts the loop: the clock has moved,
\* the pools not yet visited have not.
StallAdvance(p) ==
    /\ p \in todo /\ visiting \subseteq {p}
    /\ ~AccrualSucceeds(p)
    /\ todo' = {} /\ visiting' = {} /\ accruing' = now
    /\ anomaly' = anomaly \cup {"stalled"}
    /\ UNCHANGED <<now, live, asset, bookVars, rates, deposited>>

---------------------------------------------------------------------------
\* Positions

\* open_position: the collateral is reserved before the pool is asked for
\* the principal, and the pool has lent before the borrower is credited.
OpenPosition(a, p, principal, collateral, maturity) ==
    LET h       == <<a, PoolAsset[p]>>
        lent    == Borrow(pools[p], principal, collateral)
        granted == lent.ok /\ Fits(balance[h] + principal)
    IN  /\ Idle /\ p \in live
        /\ AcceptsBorrow(PoolAsset[p], principal)
        /\ RiskAcceptsOpen(a, pools[p], principal, collateral)
        /\ maturity > now
        /\ Reserve(h, collateral)
        /\ pools' = [pools EXCEPT ![p] = lent.pool]
        /\ \E id \in NextId(positions, Absent) :
              \/ /\ granted
                 /\ Credit(h, principal)
                 /\ positions' = [positions EXCEPT ![id] =
                      NewPosition(a, p, principal, collateral, maturity, rates[p])]
                 /\ UNCHANGED anomaly
              \/ /\ ~granted
                 /\ anomaly' = anomaly \cup {"partial"}
                 /\ UNCHANGED <<balance, positions>>
        /\ UNCHANGED <<now, loopVars, live, asset, rates, locks, deposited>>

\* lock_position: the accrued debt is materialized unless the call comes
\* within one epoch of the maturity; the checkpoint is replaced either way.
LockPosition(p, release) ==
    LET pos     == positions[p]
        carried == IF IsBoundary(now, pos.effective_maturity_epoch) THEN pos
                   ELSE Materialize(pos, RateOf(p), now)
    IN  /\ Idle /\ Known(p)
        /\ RiskAcceptsLock(release)
        /\ AdmitsClose(pos) /\ QuoteFits(pos, RateOf(p), now)
        /\ \E l \in NextId(locks, Absent) :
             /\ locks' = [locks EXCEPT ![l] =
                  [position |-> p, created_epoch |-> now, release_epoch |-> release,
                   status |-> "Active", previous_state |-> pos.state,
                   previous_maturity |-> pos.effective_maturity_epoch,
                   quoted_interest |-> Interest(pos, RateOf(p)),
                   quoted_penalty |-> Penalty(pos, RateOf(p), now),
                   state_version |-> pos.state_version]]
             /\ positions' = [positions EXCEPT ![p] =
                  AttachLock(carried, l, release, RateOf(p))]
        /\ anomaly' = anomaly \cup Replay(p)
        /\ UNCHANGED <<now, loopVars, live, asset, balance, held, pools, rates,
                       deposited>>

\* LockRecord::decision_at
Releasable(lock) == lock.status = "Active" /\ now >= lock.release_epoch

\* release_lock: any lock still marked Active whose release epoch has come,
\* whether or not it is the one its position carries.
ReleaseLock(l) ==
    /\ Idle /\ locks[l] # Absent
    /\ Releasable(locks[l])
    /\ locks' = [locks EXCEPT ![l].status = "Released"]
    /\ positions' = [positions EXCEPT ![locks[l].position] = DetachLock(@)]
    /\ UNCHANGED <<now, loopVars, live, asset, balance, held, pools, rates,
                   deposited, anomaly>>

\* settle_position: debit the payer, repay the pool, release the collateral,
\* release the carried lock, close.  The second and third may fail.
SettlePosition(p, payer, limit) ==
    LET pos     == positions[p]
        h       == <<pos.borrower, AssetOf(p)>>
        due     == TotalDue(pos, RateOf(p), now)
        repaid  == Repay(pools[pos.pool], pos.principal,
                         Interest(pos, RateOf(p)) + Fee(pos),
                         Penalty(pos, RateOf(p), now), pos.collateral)
        settled == repaid.ok /\ held[h] >= pos.collateral
    IN  /\ Idle /\ Known(p)
        /\ AdmitsClose(pos) /\ DueFits(pos, RateOf(p), now)
        /\ due <= limit /\ due >= pos.principal
        /\ DebitAvailable(<<payer, AssetOf(p)>>, due)
        /\ pools' = [pools EXCEPT ![pos.pool] = repaid.pool]
        /\ \/ /\ settled
              /\ Release(h, pos.collateral)
              /\ locks' = [l \in LockIds |->
                             IF l = pos.active_lock
                             THEN [locks[l] EXCEPT !.status = "Released"]
                             ELSE locks[l]]
              /\ positions' = [positions EXCEPT ![p] = Close(@)]
              /\ anomaly' = anomaly \cup Replay(p)
           \/ /\ ~settled
              /\ anomaly' = anomaly \cup {"partial"}
              /\ UNCHANGED <<held, locks, positions>>
        /\ UNCHANGED <<now, loopVars, live, asset, rates, deposited>>

\* expire_position: take the reserved collateral, release what is not
\* absorbed, then write the loan off.  The second and third may fail.
ExpirePosition(p) ==
    LET pos     == positions[p]
        h       == <<pos.borrower, AssetOf(p)>>
        taken   == Absorbed(pos)
        rest    == SaturatingSub(pos.collateral, taken)
        freed   == held[h] - taken >= rest
        written == ChargeOff(pools[pos.pool], pos.principal,
                             Penalty(pos, RateOf(p), now), taken)
    IN  /\ Idle /\ Known(p)
        /\ AdmitsClose(pos) /\ QuoteFits(pos, RateOf(p), now)
        /\ SweepDue(pos)
        /\ MulBpsFits(pos.collateral, CollateralPenalty)
        /\ DebitReserved(h, taken, IF freed THEN rest ELSE 0)
        /\ pools' = IF freed THEN [pools EXCEPT ![pos.pool] = written.pool] ELSE pools
        /\ \/ /\ freed /\ written.ok
              /\ positions' = [positions EXCEPT ![p] = Expire(@)]
              /\ anomaly' = anomaly \cup Replay(p)
           \/ /\ ~(freed /\ written.ok)
              /\ anomaly' = anomaly \cup {"partial"}
              /\ UNCHANGED positions
        /\ UNCHANGED <<now, loopVars, live, asset, rates, locks, deposited>>

---------------------------------------------------------------------------

AdvanceLoop == \E p \in PoolIds : AccruePool(p) \/ StallAdvance(p)

Next ==
    \/ \E s \in Assets, config \in AssetConfigs : RegisterAssetConfig(s, config)
    \/ \E p \in PoolIds : CreatePool(p)
    \/ \E a \in Accounts, s \in Assets, x \in DepositAmounts : Deposit(a, s, x)
    \/ \E a \in Accounts, p \in PoolIds, x \in DepositAmounts : DepositLiquidity(a, p, x)
    \/ \E n \in Advances : AdvanceEpochs(n)
    \/ AdvanceLoop
    \/ \E a \in Accounts, p \in PoolIds, x \in Principals, c \in Collaterals,
          m \in Maturities : OpenPosition(a, p, x, c, m)
    \/ \E p \in PositionIds, r \in Releases : LockPosition(p, r)
    \/ \E l \in LockIds : ReleaseLock(l)
    \/ \E p \in PositionIds, a \in Accounts, d \in DueLimits : SettlePosition(p, a, d)
    \/ \E p \in PositionIds : ExpirePosition(p)

Spec == Init /\ [][Next]_vars

\* advance_epochs runs its loop to the end within one call.
FairSpec == Spec /\ WF_vars(AdvanceLoop)
=============================================================================
