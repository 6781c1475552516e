---------------------------- MODULE LedgerProofs ----------------------------
(***************************************************************************)
(* The books of the ledger stay well-typed, no account has more on hold    *)
(* than it owns, and positions and locks stay bound to each other: proved  *)
(* for every set of accounts, pools and assets and every policy, over      *)
(* unbounded time.  The sections before that say of every operator of      *)
(* Pools and Debt which record it leaves, in whatever way it ends.         *)
(***************************************************************************)
EXTENDS LedgerProperties, AmountProofs

---------------------------------------------------------------------------
\* Pools

\* Whatever a pool method does, also if it fails halfway, the pool it leaves
\* can be stored: PoolState::deposit_liquidity.
LEMMA DepositIntoTyped ==
    ASSUME NEW q \in Pool, NEW amount \in Nat
    PROVE  DepositInto(q, amount).pool \in Pool
<1> DEFINE funded == [q EXCEPT !.liquidity_available = @ + amount]
           logged == [funded EXCEPT !.lifetime_deposits = @ + amount]
<1>1. Fits(funded.liquidity_available) => funded \in Pool
  BY AmountsAssumption DEF Pool, Amount, Fits
<1>2. funded \in Pool /\ Fits(logged.lifetime_deposits) => logged \in Pool
  <2> HIDE DEF funded
  <2> QED  BY AmountsAssumption DEF Pool, Amount, Fits
<1> QED  BY <1>1, <1>2 DEF DepositInto, Done, Failed

\* PoolState::borrow
LEMMA BorrowTyped ==
    ASSUME NEW q \in Pool, NEW principal \in Nat, NEW collateral \in Nat
    PROVE  Borrow(q, principal, collateral).pool \in Pool
<1> DEFINE lent    == [q EXCEPT !.liquidity_available = @ - principal]
           owed    == [lent EXCEPT !.principal_outstanding = @ + principal]
           secured == [owed EXCEPT !.collateral_locked = @ + collateral]
<1>1. q.liquidity_available >= principal => lent \in Pool
  BY AmountsAssumption DEF Pool, Amount
<1>2. lent \in Pool /\ Fits(owed.principal_outstanding) => owed \in Pool
  <2> HIDE DEF lent
  <2> QED  BY AmountsAssumption DEF Pool, Amount, Fits
<1>3. owed \in Pool /\ Fits(secured.collateral_locked) => secured \in Pool
  <2> HIDE DEF owed
  <2> QED  BY AmountsAssumption DEF Pool, Amount, Fits
<1>4. q.liquidity_available \in Nat  BY AmountIffFits DEF Pool
<1> QED  BY <1>1, <1>2, <1>3, <1>4 DEF Borrow, Done, Failed

\* PoolState::repay
LEMMA RepayTyped ==
    ASSUME NEW q \in Pool, NEW principal \in Nat, NEW interest \in Nat,
           NEW penalty \in Nat, NEW collateral \in Nat
    PROVE  Repay(q, principal, interest, penalty, collateral).pool \in Pool
<1> DEFINE charges  == interest + penalty
           returned == [q EXCEPT !.principal_outstanding = @ - principal]
           paid     == [returned EXCEPT !.liquidity_available = @ + principal + charges]
           earned   == [paid EXCEPT !.interest_collected = @ + interest]
           fined    == [earned EXCEPT !.penalty_collected = @ + penalty]
           reserved == [fined EXCEPT !.reserve_balance = @ + MulBps(charges, ReserveFactor)]
           freed    == [reserved EXCEPT !.collateral_locked = SaturatingSub(@, collateral)]
<1>1. q.principal_outstanding >= principal => returned \in Pool
  BY AmountsAssumption DEF Pool, Amount
<1>2. returned \in Pool /\ Fits(paid.liquidity_available) => paid \in Pool
  <2> HIDE DEF returned
  <2> QED  BY AmountsAssumption DEF Pool, Amount, Fits
<1>3. paid \in Pool /\ Fits(earned.interest_collected) => earned \in Pool
  <2> HIDE DEF paid
  <2> QED  BY AmountsAssumption DEF Pool, Amount, Fits
<1>4. earned \in Pool /\ Fits(fined.penalty_collected) => fined \in Pool
  <2> HIDE DEF earned
  <2> QED  BY AmountsAssumption DEF Pool, Amount, Fits
<1>5. fined \in Pool /\ Fits(reserved.reserve_balance) => reserved \in Pool
  <2>1. charges \in Nat  OBVIOUS
  <2> HIDE DEF fined, charges
  <2>2. MulBps(charges, ReserveFactor) \in Nat
    BY <2>1, MulBpsNat, PoolsAssumption
  <2> QED  BY <2>2, AmountsAssumption DEF Pool, Amount, Fits
<1>6. reserved \in Pool => freed \in Pool
  <2>1. \A x \in Amount : SaturatingSub(x, collateral) \in Amount
    BY AmountsAssumption DEF SaturatingSub, Amount
  <2> HIDE DEF reserved
  <2> QED  BY <2>1 DEF Pool
<1>7. q.principal_outstanding \in Nat  BY AmountIffFits DEF Pool
<1> DEFINE R == Repay(q, principal, interest, penalty, collateral).pool
<1>8. \/ R = q
      \/ q.principal_outstanding >= principal /\ R = returned
      \/ q.principal_outstanding >= principal /\ Fits(paid.liquidity_available)
         /\ \/ R = paid
            \/ Fits(earned.interest_collected)
               /\ \/ R = earned
                  \/ Fits(fined.penalty_collected)
                     /\ (R = fined \/ (Fits(reserved.reserve_balance) /\ R = freed))
  BY <1>7 DEF Repay, Done, Failed
<1> HIDE DEF returned, paid, earned, fined, reserved, freed, R
<1>9. R \in Pool  BY <1>1, <1>2, <1>3, <1>4, <1>5, <1>6, <1>8
<1> QED  BY <1>9 DEF R

\* PoolState::charge_off
LEMMA ChargeOffTyped ==
    ASSUME NEW q \in Pool, NEW principal \in Nat, NEW penalty \in Nat,
           NEW collateral \in Nat
    PROVE  ChargeOff(q, principal, penalty, collateral).pool \in Pool
<1> DEFINE repaid  == [q EXCEPT !.principal_outstanding = @ - principal]
           written == [repaid EXCEPT !.collateral_locked = @ - collateral]
           fined   == [written EXCEPT !.penalty_collected = @ + penalty]
           kept    == [fined EXCEPT !.reserve_balance = @ + collateral + penalty]
<1>1. q.principal_outstanding >= principal
        => repaid \in Pool /\ repaid.collateral_locked = q.collateral_locked
  BY AmountsAssumption DEF Pool, Amount
<1>2. repaid \in Pool /\ repaid.collateral_locked >= collateral => written \in Pool
  <2> HIDE DEF repaid
  <2> QED  BY AmountsAssumption DEF Pool, Amount
<1>3. written \in Pool /\ Fits(fined.penalty_collected) => fined \in Pool
  <2> HIDE DEF written
  <2> QED  BY AmountsAssumption DEF Pool, Amount, Fits
<1>4. fined \in Pool /\ Fits(kept.reserve_balance) => kept \in Pool
  <2> HIDE DEF fined
  <2> QED  BY AmountsAssumption DEF Pool, Amount, Fits
<1>5. /\ q.principal_outstanding \in Nat /\ q.collateral_locked \in Nat
      /\ [q EXCEPT !.principal_outstanding = @ - principal,
                   !.collateral_locked = @ - collateral] = written
  BY AmountIffFits DEF Pool
<1> QED  BY <1>1, <1>2, <1>3, <1>4, <1>5 DEF ChargeOff, Done, Failed

---------------------------------------------------------------------------
\* Rates, positions and debt

\* A rate is a natural number of basis points.
LEMMA QuoteBpsNat ==
    ASSUME NEW m \in RateModel, NEW utilization \in Nat
    PROVE  QuoteBps(m, utilization) \in Nat
<1>1. m.utilization_slope_bps * utilization \in Nat  BY TimesNat DEF RateModel
<1>2. (m.utilization_slope_bps * utilization) \div BPS_DENOMINATOR \in Nat
  BY <1>1, DivNat, AmountsAssumption
<1>3. RawRate(m, utilization) \in Nat  BY <1>2 DEF RawRate, RateModel
<1> QED  BY <1>3 DEF QuoteBps, RateModel

\* A successful AccrualState::advance_one keeps both indices inside u128.
LEMMA AdvanceOneTyped ==
    ASSUME NEW accrual \in Accrual, NEW m \in RateModel, NEW utilization \in Nat,
           AdvanceFits(accrual, utilization, m)
    PROVE  AdvanceOne(accrual, utilization, m) \in Accrual
<1>1. QuoteBps(m, utilization) \in Nat /\ m.penalty_bps \in Nat
  BY QuoteBpsNat DEF RateModel
<1>2. accrual.interest_index \in Nat /\ accrual.penalty_index \in Nat
  BY AmountIffFits DEF Accrual
<1>3. CompoundBps(accrual.interest_index, QuoteBps(m, utilization)) \in Amount
  BY <1>1, <1>2, CompoundGrows, AmountIffFits DEF AdvanceFits, CompoundFits
<1>4. CompoundBps(accrual.penalty_index, m.penalty_bps) \in Amount
  BY <1>1, <1>2, CompoundGrows, AmountIffFits DEF AdvanceFits, CompoundFits
<1> QED  BY <1>3, <1>4 DEF AdvanceOne, Accrual

\* The parts of a quote are naturals.
LEMMA DebtNat ==
    ASSUME NEW pos \in Position, NEW accrual \in Accrual, NEW epoch \in Nat
    PROVE  /\ Interest(pos, accrual) \in Nat
           /\ Penalty(pos, accrual, epoch) \in Nat
           /\ Fee(pos) \in Nat
           /\ TotalDue(pos, accrual, epoch) \in Nat
<1>1. /\ accrual.interest_index \in Nat /\ accrual.penalty_index \in Nat
      /\ pos.checkpoint.interest_index \in Nat /\ pos.checkpoint.penalty_index \in Nat
      /\ pos.principal \in Nat /\ pos.pending_interest \in Nat
      /\ pos.pending_penalty \in Nat
  BY AmountIffFits DEF Accrual, Position
<1>a. AmountDelta(accrual.interest_index, pos.principal,
                  pos.checkpoint.interest_index) \in Nat
  BY <1>1, AmountDeltaNat
<1>b. AmountDelta(accrual.penalty_index, pos.principal,
                  pos.checkpoint.penalty_index) \in Nat
  BY <1>1, AmountDeltaNat
<1>2. Interest(pos, accrual) \in Nat  BY <1>1, <1>a DEF Interest
<1>3. Penalty(pos, accrual, epoch) \in Nat  BY <1>1, <1>b DEF Penalty
<1>4. Fee(pos) \in Nat  BY <1>1, MulBpsNat, DebtAssumption DEF Fee
<1> QED  BY <1>1, <1>2, <1>3, <1>4 DEF TotalDue

\* Once a quote has been computed, its charges fit the fields of a position,
\* and PositionRecord::materialize leaves exactly those charges pending.
LEMMA MaterializeTyped ==
    ASSUME NEW pos \in Position, NEW accrual \in Accrual, NEW epoch \in Nat,
           QuoteFits(pos, accrual, epoch)
    PROVE  /\ Interest(pos, accrual) \in Amount
           /\ Penalty(pos, accrual, epoch) \in Amount
           /\ Materialize(pos, accrual, epoch) \in Position
<1>1. Interest(pos, accrual) \in Amount /\ Penalty(pos, accrual, epoch) \in Amount
  BY DebtNat, AmountIffFits DEF QuoteFits
<1>2. \A x, y \in Amount : x + SaturatingSub(y, x) \in Amount
  BY AmountsAssumption DEF SaturatingSub, Amount
<1>3. pos.pending_interest + SaturatingSub(Interest(pos, accrual), pos.pending_interest)
        \in Amount
  BY <1>1, <1>2 DEF Position
<1>4. pos.pending_penalty + SaturatingSub(Penalty(pos, accrual, epoch), pos.pending_penalty)
        \in Amount
  BY <1>1, <1>2 DEF Position
<1> DEFINE one == [pos EXCEPT !.pending_interest =
                      @ + SaturatingSub(Interest(pos, accrual), @)]
           two == [one EXCEPT !.pending_penalty =
                      pos.pending_penalty
                        + SaturatingSub(Penalty(pos, accrual, epoch), pos.pending_penalty)]
<1>5. one \in Position  BY <1>3 DEF Position
<1>6. two \in Position
  <2> HIDE DEF one
  <2> QED  BY <1>4, <1>5 DEF Position
<1>7. [two EXCEPT !.checkpoint = accrual] \in Position
  <2> HIDE DEF two
  <2> QED  BY <1>6 DEF Position
<1>8. Materialize(pos, accrual, epoch) = [two EXCEPT !.checkpoint = accrual]
  BY DEF Materialize, Position
<1> QED  BY <1>1, <1>7, <1>8

\* What the state changes of a position leave behind is a position.
LEMMA TransitionTyped ==
    ASSUME NEW pos \in Position, NEW state \in StoredState
    PROVE  TransitionTo(pos, state) \in Position
<1> DEFINE moved == [pos EXCEPT !.state = state]
<1>1. moved \in Position  BY DEF Position
<1>2. [moved EXCEPT !.state_version = pos.state_version + 1] \in Position
  <2>1. pos.state_version + 1 \in Nat  BY DEF Position
  <2> HIDE DEF moved
  <2> QED  BY <1>1, <2>1 DEF Position
<1> QED  BY <1>2 DEF TransitionTo

LEMMA PositionSteps ==
    ASSUME NEW pos \in Position
    PROVE  /\ DetachLock(pos) \in Position
           /\ Close(pos) \in Position
           /\ Expire(pos) \in Position
<1>1. [pos EXCEPT !.active_lock = NoLock] \in Position  BY DEF Position
<1> QED  BY <1>1, TransitionTyped DEF DetachLock, Close, Expire, StoredState

LEMMA AttachLockTyped ==
    ASSUME NEW pos \in Position, NEW lock \in LockIds, NEW release \in Nat,
           NEW accrual \in Accrual
    PROVE  AttachLock(pos, lock, release, accrual) \in Position
<1> DEFINE carrying == [pos EXCEPT !.active_lock = lock]
           extended == [carrying EXCEPT !.effective_maturity_epoch = release]
           accrued  == [extended EXCEPT !.checkpoint = accrual]
<1>1. carrying \in Position  BY DEF Position
<1>2. extended \in Position
  <2> HIDE DEF carrying
  <2> QED  BY <1>1 DEF Position
<1>3. accrued \in Position
  <2> HIDE DEF extended
  <2> QED  BY <1>2 DEF Position
<1> QED  BY <1>3, TransitionTyped DEF AttachLock, StoredState

---------------------------------------------------------------------------
\* The invariant

\* The three invariants are inductive together: the types of the balances
\* after a settlement or a sweep need HeldWithinBalance (the code subtracts
\* what it has only compared with the hold), and the lock that a settlement
\* releases exists because of LockBinding.
IInv == TypeOK /\ HeldWithinBalance /\ LockBinding

---------------------------------------------------------------------------
\* Consequences of the types

\* What the books hold for known ids.
LEMMA BookTypes ==
    ASSUME TypeOK
    PROVE  /\ \A p \in PositionIds : Known(p) => positions[p] \in Position
           /\ \A p \in PositionIds : Known(p) =>
                /\ positions[p].pool \in PoolIds
                /\ positions[p].borrower \in Accounts
                /\ positions[p].principal \in Nat /\ positions[p].collateral \in Nat
                /\ positions[p].effective_maturity_epoch \in Nat
                /\ positions[p].state_version \in Nat
                /\ positions[p].state \in StoredState
                /\ RateOf(p) \in Accrual /\ AssetOf(p) \in Assets
           /\ \A l \in LockIds : locks[l] # Absent => locks[l] \in Lock
           /\ \A h \in Holdings : balance[h] \in Nat /\ held[h] \in Nat
           /\ now \in Nat
<1>1. \A p \in PositionIds : Known(p) => positions[p] \in Position
  BY DEF TypeOK, Known
<1>2. ASSUME NEW p \in PositionIds, Known(p)
      PROVE  /\ positions[p].pool \in PoolIds
             /\ positions[p].borrower \in Accounts
             /\ positions[p].principal \in Amount /\ positions[p].collateral \in Amount
             /\ positions[p].effective_maturity_epoch \in Nat
             /\ positions[p].state_version \in Nat
             /\ positions[p].state \in StoredState
  BY <1>1, <1>2 DEF Position
<1>3. ASSUME NEW p \in PositionIds, Known(p)
      PROVE  RateOf(p) \in Accrual /\ AssetOf(p) \in Assets
  BY <1>2, <1>3, LedgerAssumption DEF TypeOK, RateOf, AssetOf
<1>4. \A l \in LockIds : locks[l] # Absent => locks[l] \in Lock
  BY DEF TypeOK
<1>5. \A h \in Holdings : balance[h] \in Nat /\ held[h] \in Nat
  BY AmountIffFits DEF TypeOK
<1>6. now \in Nat  BY DEF TypeOK
<1> QED  BY <1>1, <1>2, <1>3, <1>4, <1>5, <1>6, AmountIffFits

\* AccountState::available is what is left over the hold, so taking no more
\* than that keeps the hold covered.
LEMMA AvailableCovers ==
    ASSUME TypeOK, HeldWithinBalance, NEW h \in Holdings, NEW x \in Nat,
           Available(h) >= x
    PROVE  held[h] + x <= balance[h]
  BY BookTypes DEF Available, SaturatingSub, HeldWithinBalance

\* The fields that the state changes of a position set, and the version that
\* materialization leaves alone.
LEMMA PositionEffects ==
    ASSUME NEW pos \in Position
    PROVE  /\ Close(pos).state = "Closed" /\ Close(pos).active_lock = NoLock
           /\ Expire(pos).state = "Expired" /\ Expire(pos).active_lock = NoLock
           /\ DetachLock(pos).active_lock = NoLock /\ DetachLock(pos).state # "Locked"
           /\ \A lock \in LockIds, release \in Nat, accrual \in Accrual :
                LET new == AttachLock(pos, lock, release, accrual)
                IN  /\ new.state = "Locked" /\ new.active_lock = lock
                    /\ new.effective_maturity_epoch = release
                    /\ new.state_version = pos.state_version + 1
           /\ \A accrual \in Accrual, n \in Nat :
                Materialize(pos, accrual, n).state_version = pos.state_version
<1>1. /\ Close(pos).state = "Closed" /\ Close(pos).active_lock = NoLock
      /\ Expire(pos).state = "Expired" /\ Expire(pos).active_lock = NoLock
  BY DEF Close, Expire, TransitionTo, Position
<1>2. DetachLock(pos).active_lock = NoLock /\ DetachLock(pos).state # "Locked"
  BY DEF DetachLock, TransitionTo, Position
<1>3. ASSUME NEW lock \in LockIds, NEW release \in Nat, NEW accrual \in Accrual
      PROVE  LET new == AttachLock(pos, lock, release, accrual)
             IN  /\ new.state = "Locked" /\ new.active_lock = lock
                 /\ new.effective_maturity_epoch = release
                 /\ new.state_version = pos.state_version + 1
  BY DEF AttachLock, TransitionTo, Position
<1>4. ASSUME NEW accrual \in Accrual, NEW n \in Nat
      PROVE  Materialize(pos, accrual, n).state_version = pos.state_version
  BY DEF Materialize, Position
<1> QED  BY <1>1, <1>2, <1>3, <1>4

---------------------------------------------------------------------------
\* Operations that leave positions and locks alone

\* The binding of locks and positions depends on nothing else.
LEMMA LockBindingUnchanged ==
    ASSUME LockBinding, UNCHANGED <<positions, locks>>
    PROVE  LockBinding'
  BY DEF LockBinding, CarriesLock, Known

LEMMA RegisterAssetConfigInv ==
    ASSUME IInv, NEW s \in Assets, NEW config \in AssetConfigs,
           RegisterAssetConfig(s, config)
    PROVE  IInv'
<1>1. LockBinding'
  BY LockBindingUnchanged DEF IInv, RegisterAssetConfig, bookVars
<1>2. HeldWithinBalance'
  BY DEF IInv, RegisterAssetConfig, bookVars, HeldWithinBalance
<1>3. TypeOK'
  BY LedgerAssumption DEF IInv, TypeOK, RegisterAssetConfig, bookVars, loopVars
<1> QED  BY <1>1, <1>2, <1>3 DEF IInv

LEMMA CreatePoolInv ==
    ASSUME IInv, NEW p \in PoolIds, CreatePool(p)
    PROVE  IInv'
<1>1. LockBinding'
  BY LockBindingUnchanged DEF IInv, CreatePool
<1>2. HeldWithinBalance'
  BY DEF IInv, CreatePool, HeldWithinBalance
<1>3. NewPool \in Pool
  BY AmountsAssumption DEF NewPool, Pool, PoolStatus, Amount
<1>4. InitialAccrual(now) \in Accrual
  BY AmountsAssumption DEF InitialAccrual, Accrual, Amount, IInv, TypeOK
<1>5. TypeOK'
  BY <1>3, <1>4 DEF IInv, TypeOK, CreatePool, loopVars, Idle
<1> QED  BY <1>1, <1>2, <1>5 DEF IInv

LEMMA DepositInv ==
    ASSUME IInv, NEW a \in Accounts, NEW s \in Assets, NEW amount \in Nat,
           Deposit(a, s, amount)
    PROVE  IInv'
<1>1. <<a, s>> \in Holdings  BY DEF Holdings
<1>2. LockBinding'
  BY LockBindingUnchanged DEF IInv, Deposit
<1>3. balance' = [balance EXCEPT ![<<a, s>>] = @ + amount] /\ held' = held
  BY DEF Deposit, Credit
<1>4. HeldWithinBalance'
  BY <1>1, <1>3, BookTypes DEF IInv, HeldWithinBalance, TypeOK
<1>5. balance[<<a, s>>] + amount \in Amount
  BY <1>1, BookTypes, AmountIffFits DEF IInv, Deposit, Credit
<1>6. deposited[s] + amount \in Nat  BY DEF IInv, TypeOK
<1>7. TypeOK'
  BY <1>3, <1>5, <1>6 DEF IInv, TypeOK, Deposit, loopVars
<1> QED  BY <1>2, <1>4, <1>7 DEF IInv

LEMMA DepositLiquidityInv ==
    ASSUME IInv, NEW a \in Accounts, NEW p \in PoolIds, NEW amount \in Nat,
           DepositLiquidity(a, p, amount)
    PROVE  IInv'
<1> DEFINE h == <<a, PoolAsset[p]>>
<1>1. h \in Holdings  BY LedgerAssumption DEF Holdings
<1>2. LockBinding'
  BY LockBindingUnchanged DEF IInv, DepositLiquidity
<1>3. balance' = [balance EXCEPT ![h] = @ - amount] /\ held' = held
  BY DEF DepositLiquidity, DebitAvailable
<1>4. held[h] + amount <= balance[h]
  BY <1>1, AvailableCovers DEF IInv, DepositLiquidity, DebitAvailable
<1>5. balance[h] \in Amount /\ held[h] \in Nat
  BY <1>1, BookTypes DEF IInv, TypeOK
<1> HIDE DEF h
<1>6. HeldWithinBalance'
  BY <1>1, <1>3, <1>4, <1>5, BookTypes DEF IInv, HeldWithinBalance, TypeOK
<1>7. balance[h] - amount \in Amount
  BY <1>4, <1>5, AmountsAssumption DEF Amount
<1>8. DepositInto(pools[p], amount).pool \in Pool
  BY DepositIntoTyped DEF IInv, TypeOK
<1>9. TypeOK'
  <2>1. balance' \in [Holdings -> Amount]
    BY <1>3, <1>7 DEF IInv, TypeOK
  <2>2. pools' \in [PoolIds -> Pool]
    BY <1>8 DEF IInv, TypeOK, DepositLiquidity
  <2>3. anomaly' \subseteq Anomalies
    BY DEF IInv, TypeOK, DepositLiquidity, Anomalies
  <2> QED  BY <2>1, <2>2, <2>3 DEF IInv, TypeOK, DepositLiquidity, loopVars
<1> QED  BY <1>2, <1>6, <1>9 DEF IInv

---------------------------------------------------------------------------
\* Time

LEMMA AdvanceEpochsInv ==
    ASSUME IInv, NEW n \in Nat, AdvanceEpochs(n)
    PROVE  IInv'
<1>1. LockBinding'
  BY LockBindingUnchanged DEF IInv, AdvanceEpochs, bookVars
<1>2. HeldWithinBalance'
  BY DEF IInv, AdvanceEpochs, bookVars, HeldWithinBalance
<1>3. TypeOK'
  BY DEF IInv, TypeOK, AdvanceEpochs, bookVars, Idle
<1> QED  BY <1>1, <1>2, <1>3 DEF IInv

\* The utilization that the loop quotes a rate for is a natural.
LEMMA UtilizationNat ==
    ASSUME NEW q \in Pool
    PROVE  Utilization(q) \in Nat
<1>1. q.principal_outstanding \in Nat /\ q.liquidity_available \in Nat
  BY AmountIffFits DEF Pool
<1>2. q.principal_outstanding * BPS_DENOMINATOR \in Nat
  BY <1>1, TimesNat, AmountsAssumption
<1>3. Funds(q) \in Nat  BY <1>1 DEF Funds
<1> QED  BY <1>2, <1>3, DivNat DEF Utilization

LEMMA AccruePoolInv ==
    ASSUME IInv, NEW p \in PoolIds, AccruePool(p)
    PROVE  IInv'
<1>1. LockBinding'
  BY LockBindingUnchanged DEF IInv, AccruePool, bookVars
<1>2. HeldWithinBalance'
  BY DEF IInv, AccruePool, bookVars, HeldWithinBalance
<1>3. AdvanceOne(rates[p], Utilization(pools[p]), RateModelOf[p]) \in Accrual
  BY AdvanceOneTyped, UtilizationNat, LedgerAssumption
  DEF IInv, TypeOK, AccruePool, AccrualSucceeds
<1>4. rates' \in [PoolIds -> Accrual]
  BY <1>3 DEF IInv, TypeOK, AccruePool
<1>5. accruing' \in Nat /\ todo' \subseteq live /\ visiting' \subseteq todo'
  BY DEF IInv, TypeOK, AccruePool, LeavePool
<1>6. TypeOK'
  BY <1>4, <1>5 DEF IInv, TypeOK, AccruePool, bookVars
<1> QED  BY <1>1, <1>2, <1>6 DEF IInv

LEMMA StallAdvanceInv ==
    ASSUME IInv, NEW p \in PoolIds, StallAdvance(p)
    PROVE  IInv'
<1>1. LockBinding'
  BY LockBindingUnchanged DEF IInv, StallAdvance, bookVars
<1>2. HeldWithinBalance'
  BY DEF IInv, StallAdvance, bookVars, HeldWithinBalance
<1>3. TypeOK'
  BY DEF IInv, TypeOK, StallAdvance, bookVars, Anomalies
<1> QED  BY <1>1, <1>2, <1>3 DEF IInv

---------------------------------------------------------------------------
\* Operations on positions

\* A fresh position carries no lock, so opening it binds none.
LEMMA OpenPositionInv ==
    ASSUME IInv, NEW a \in Accounts, NEW p \in PoolIds, NEW principal \in Nat,
           NEW collateral \in Nat, NEW maturity \in Nat,
           OpenPosition(a, p, principal, collateral, maturity)
    PROVE  IInv'
<1> DEFINE h    == <<a, PoolAsset[p]>>
           lent == Borrow(pools[p], principal, collateral)
           new  == NewPosition(a, p, principal, collateral, maturity, rates[p])
<1>1. h \in Holdings  BY LedgerAssumption DEF Holdings
<1>2. /\ held' = [held EXCEPT ![h] = @ + collateral]
      /\ pools' = [pools EXCEPT ![p] = lent.pool]
      /\ Available(h) >= collateral
      /\ UNCHANGED <<now, loopVars, live, asset, rates, locks, deposited>>
  BY DEF OpenPosition, Reserve
<1>3. PICK id \in NextId(positions, Absent) :
        \/ /\ lent.ok /\ Fits(balance[h] + principal)
           /\ balance' = [balance EXCEPT ![h] = @ + principal]
           /\ positions' = [positions EXCEPT ![id] = new]
           /\ UNCHANGED anomaly
        \/ /\ anomaly' = anomaly \cup {"partial"}
           /\ UNCHANGED <<balance, positions>>
  BY DEF OpenPosition, Credit
<1>4. id \in PositionIds /\ positions[id] = Absent
  BY <1>3 DEF NextId, IInv, TypeOK
<1>5. held[h] + collateral <= balance[h]
  BY <1>1, <1>2, AvailableCovers DEF IInv
<1>6. balance[h] \in Amount /\ held[h] \in Nat
  BY <1>1, BookTypes DEF IInv, TypeOK
<1>7. held[h] + collateral \in Amount
  BY <1>5, <1>6, AmountsAssumption DEF Amount
<1>8. CASE lent.ok /\ Fits(balance[h] + principal)
           /\ balance' = [balance EXCEPT ![h] = @ + principal]
           /\ positions' = [positions EXCEPT ![id] = new]
           /\ UNCHANGED anomaly
  <2>1. balance[h] + principal \in Amount
    BY <1>6, <1>8, AmountIffFits
  <2>2. lent.ok => principal \in Amount /\ collateral \in Amount
    <3>1. pools[p] \in Pool  BY DEF IInv, TypeOK
    <3>2. lent.ok => /\ principal <= pools[p].liquidity_available
                     /\ pools[p].collateral_locked + collateral <= MaxAmount
      BY <3>1, AmountIffFits DEF Borrow, Done, Failed, Fits, Pool
    <3> QED  BY <3>1, <3>2, AmountsAssumption DEF Pool, Amount
  <2>3. new \in Position
    BY <1>8, <2>2, AmountsAssumption
    DEF NewPosition, Position, StoredState, Amount, IInv, TypeOK
  <2>4. new.state = "Active" /\ new.active_lock = NoLock
    BY DEF NewPosition
  <2> HIDE DEF h, lent, new
  <2>5. HeldWithinBalance'
    BY <1>1, <1>2, <1>5, <1>6, <1>8, BookTypes DEF IInv, HeldWithinBalance, TypeOK
  <2>6. LockBinding'
    <3>1. \A q \in PositionIds : q # id => positions'[q] = positions[q]
      BY <1>4, <1>8 DEF IInv, TypeOK
    <3>2. positions'[id] = new  BY <1>4, <1>8 DEF IInv, TypeOK
    <3>3. locks' = locks  BY <1>2
    <3>4. \A l \in LockIds : locks[l] # Absent => locks[l].position \in PositionIds
      BY BookTypes DEF IInv, Lock
    <3>5. new # Absent  BY <2>3, AbsentAssumption
    <3> QED
      BY <3>1, <3>2, <3>3, <3>4, <3>5, <2>4, <1>4 DEF IInv, LockBinding, CarriesLock, Known
  <2>7. TypeOK'
    <3>1. balance' \in [Holdings -> Amount] /\ held' \in [Holdings -> Amount]
      BY <1>2, <1>7, <1>8, <2>1 DEF IInv, TypeOK
    <3>2. pools' \in [PoolIds -> Pool]
      BY <1>2, BorrowTyped DEF IInv, TypeOK, lent
    <3>3. positions' \in [PositionIds -> Position \cup {Absent}]
      BY <1>8, <2>3 DEF IInv, TypeOK
    <3> QED  BY <1>2, <1>8, <3>1, <3>2, <3>3 DEF IInv, TypeOK, loopVars
  <2> QED  BY <2>5, <2>6, <2>7 DEF IInv
<1>9. CASE anomaly' = anomaly \cup {"partial"} /\ UNCHANGED <<balance, positions>>
  <2>1. pools' \in [PoolIds -> Pool]
    BY <1>2, BorrowTyped DEF IInv, TypeOK
  <2> HIDE DEF h, lent, new
  <2>2. HeldWithinBalance'
    BY <1>1, <1>2, <1>5, <1>6, <1>9, BookTypes DEF IInv, HeldWithinBalance, TypeOK
  <2>3. LockBinding'
    BY <1>2, <1>9, LockBindingUnchanged DEF IInv
  <2>4. held' \in [Holdings -> Amount]
    BY <1>2, <1>7 DEF IInv, TypeOK
  <2>5. TypeOK'
    BY <1>2, <1>9, <2>1, <2>4 DEF IInv, TypeOK, loopVars, Anomalies
  <2> QED  BY <2>2, <2>3, <2>5 DEF IInv
<1> QED  BY <1>3, <1>8, <1>9

\* The new lock becomes the one that the position carries.  No position
\* carries it already, because its id was free.
LEMMA LockPositionInv ==
    ASSUME IInv, NEW p \in PositionIds, NEW release \in Nat,
           LockPosition(p, release)
    PROVE  IInv'
<1> DEFINE pos     == positions[p]
           carried == IF IsBoundary(now, pos.effective_maturity_epoch) THEN pos
                      ELSE Materialize(pos, RateOf(p), now)
           lock    == [position |-> p, created_epoch |-> now, release_epoch |-> release,
                       status |-> "Active", previous_state |-> pos.state,
                       previous_maturity |-> pos.effective_maturity_epoch,
                       quoted_interest |-> Interest(pos, RateOf(p)),
                       quoted_penalty |-> Penalty(pos, RateOf(p), now),
                       state_version |-> pos.state_version]
<1>1. /\ Known(p) /\ QuoteFits(pos, RateOf(p), now)
      /\ anomaly' = anomaly \cup Replay(p)
      /\ UNCHANGED <<now, loopVars, live, asset, balance, held, pools, rates, deposited>>
  BY DEF LockPosition
<1>2. PICK l \in NextId(locks, Absent) :
        /\ locks' = [locks EXCEPT ![l] = lock]
        /\ positions' = [positions EXCEPT ![p] = AttachLock(carried, l, release, RateOf(p))]
  BY DEF LockPosition
<1>3. l \in LockIds /\ locks[l] = Absent
  BY <1>2 DEF NextId, IInv, TypeOK
<1>4. pos \in Position /\ RateOf(p) \in Accrual /\ now \in Nat
  BY <1>1, BookTypes DEF IInv
<1>5. /\ Interest(pos, RateOf(p)) \in Amount /\ Penalty(pos, RateOf(p), now) \in Amount
      /\ Materialize(pos, RateOf(p), now) \in Position
  BY <1>1, <1>4, MaterializeTyped
<1>6. carried \in Position /\ carried.state_version = pos.state_version
  BY <1>4, <1>5, PositionEffects
<1>7. lock \in Lock
  BY <1>4, <1>5 DEF Lock, Position
<1>8. /\ lock.position = p /\ lock.status = "Active" /\ lock.release_epoch = release
      /\ lock.state_version = pos.state_version
  OBVIOUS
<1> DEFINE new == AttachLock(carried, l, release, RateOf(p))
<1> HIDE DEF carried, lock
<1>9. /\ new \in Position /\ new.state = "Locked" /\ new.active_lock = l
      /\ new.effective_maturity_epoch = release
      /\ new.state_version = pos.state_version + 1
  <2>1. new \in Position  BY <1>3, <1>4, <1>6, AttachLockTyped
  <2>2. /\ new.state = "Locked" /\ new.active_lock = l
        /\ new.effective_maturity_epoch = release
        /\ new.state_version = carried.state_version + 1
    BY <1>3, <1>4, <1>6, PositionEffects
  <2> QED  BY <1>6, <2>1, <2>2
<1> HIDE DEF new, pos
<1>10. LockBinding'
  <2>1. /\ \A q \in PositionIds : q # p => positions'[q] = positions[q]
        /\ \A m \in LockIds : m # l => locks'[m] = locks[m]
        /\ positions'[p] = new /\ locks'[l] = lock
    BY <1>2, <1>3 DEF IInv, TypeOK, new
  <2>2. new # Absent /\ lock # Absent  BY <1>7, <1>9, AbsentAssumption
  <2>3. l # NoLock  BY <1>3 DEF LockIds, NoLock
  <2>4. ASSUME NEW m \in LockIds, (locks[m] # Absent)'
        PROVE  Known(locks[m].position)'
    BY <2>1, <2>2, <2>4, <1>1, <1>8, BookTypes DEF IInv, LockBinding, Known, Lock
  <2>5. ASSUME NEW q \in PositionIds, Known(q)'
        PROVE  /\ positions'[q].state = "Locked" <=> positions'[q].active_lock # NoLock
               /\ positions'[q].active_lock # NoLock
                    => CarriesLock(q, positions[q].active_lock)'
    <3>1. CASE q = p
      BY <3>1, <2>1, <2>2, <2>3, <1>8, <1>9 DEF CarriesLock
    <3>2. CASE q # p
      <4>1. Known(q) /\ positions'[q] = positions[q]  BY <3>2, <2>1, <2>5 DEF Known
      <4>2. positions[q].active_lock \in LockIds \cup {NoLock}
        BY <4>1, BookTypes DEF IInv, Position
      <4>3. positions[q].active_lock # NoLock => locks'[positions[q].active_lock]
                                                  = locks[positions[q].active_lock]
        BY <4>1, <4>2, <2>1, <1>3 DEF IInv, LockBinding, CarriesLock
      <4> QED  BY <4>1, <4>3 DEF IInv, LockBinding, CarriesLock
    <3> QED  BY <3>1, <3>2
  <2> QED  BY <2>4, <2>5 DEF LockBinding
<1>11. HeldWithinBalance'  BY <1>1 DEF IInv, HeldWithinBalance
<1>12. TypeOK'
  <2>1. positions' \in [PositionIds -> Position \cup {Absent}]
    BY <1>2, <1>9 DEF IInv, TypeOK, new
  <2>2. locks' \in [LockIds -> Lock \cup {Absent}]
    BY <1>2, <1>7 DEF IInv, TypeOK
  <2>3. anomaly' \subseteq Anomalies
    BY <1>1 DEF IInv, TypeOK, Anomalies, Replay
  <2> QED  BY <1>1, <2>1, <2>2, <2>3 DEF IInv, TypeOK, loopVars
<1> QED  BY <1>10, <1>11, <1>12 DEF IInv

\* Whichever lock is released, the position it names ends up without one;
\* no other position carries it.
LEMMA ReleaseLockInv ==
    ASSUME IInv, NEW l \in LockIds, ReleaseLock(l)
    PROVE  IInv'
<1> DEFINE p == locks[l].position
<1>1. /\ locks[l] # Absent
      /\ locks' = [locks EXCEPT ![l].status = "Released"]
      /\ positions' = [positions EXCEPT ![p] = DetachLock(@)]
      /\ UNCHANGED <<now, loopVars, live, asset, balance, held, pools, rates,
                     deposited, anomaly>>
  BY DEF ReleaseLock
<1>2. locks[l] \in Lock /\ p \in PositionIds /\ Known(p)
  BY <1>1, BookTypes DEF IInv, LockBinding, Lock
<1>3. positions[p] \in Position  BY <1>2, BookTypes DEF IInv
<1> DEFINE new  == DetachLock(positions[p])
           lock == [locks[l] EXCEPT !.status = "Released"]
<1>4. new \in Position /\ new.active_lock = NoLock /\ new.state # "Locked"
  BY <1>3, PositionSteps, PositionEffects
<1>5. lock \in Lock /\ lock.position = p
  BY <1>2 DEF Lock
<1>6. /\ \A q \in PositionIds : q # p => positions'[q] = positions[q]
      /\ \A m \in LockIds : m # l => locks'[m] = locks[m]
      /\ positions'[p] = new /\ locks'[l] = lock
  BY <1>1, <1>2 DEF IInv, TypeOK
<1>7. new # Absent /\ lock # Absent  BY <1>4, <1>5, AbsentAssumption
<1> HIDE DEF new, lock
<1>8. LockBinding'
  <2>1. ASSUME NEW m \in LockIds, (locks[m] # Absent)'
        PROVE  Known(locks[m].position)'
    BY <2>1, <1>1, <1>5, <1>6, <1>7, BookTypes DEF IInv, LockBinding, Known, Lock
  <2>2. ASSUME NEW q \in PositionIds, Known(q)'
        PROVE  /\ positions'[q].state = "Locked" <=> positions'[q].active_lock # NoLock
               /\ positions'[q].active_lock # NoLock
                    => CarriesLock(q, positions[q].active_lock)'
    <3>1. CASE q = p
      BY <3>1, <1>4, <1>6
    <3>2. CASE q # p
      <4>1. Known(q) /\ positions'[q] = positions[q]  BY <3>2, <1>6, <2>2 DEF Known
      <4>2. positions[q].active_lock \in LockIds \cup {NoLock}
        BY <4>1, BookTypes DEF IInv, Position
      <4>3. positions[q].active_lock # l
        BY <3>2, <4>1, <1>2 DEF IInv, LockBinding, CarriesLock, LockIds, NoLock
      <4> QED  BY <4>1, <4>2, <4>3, <1>6 DEF IInv, LockBinding, CarriesLock
    <3> QED  BY <3>1, <3>2
  <2> QED  BY <2>1, <2>2 DEF LockBinding
<1>9. HeldWithinBalance'  BY <1>1 DEF IInv, HeldWithinBalance
<1>10. TypeOK'
  <2>1. positions' \in [PositionIds -> Position \cup {Absent}]
    BY <1>1, <1>4 DEF IInv, TypeOK, new
  <2>2. locks' \in [LockIds -> Lock \cup {Absent}]
    BY <1>1, <1>5 DEF IInv, TypeOK, lock
  <2> QED  BY <1>1, <2>1, <2>2 DEF IInv, TypeOK, loopVars
<1> QED  BY <1>8, <1>9, <1>10 DEF IInv

\* Closing or sweeping a position takes its lock with it, and the other
\* positions keep theirs.
LEMMA LeavingKeepsBinding ==
    ASSUME IInv, NEW p \in PositionIds, Known(p), NEW new \in Position,
           new.state # "Locked", new.active_lock = NoLock,
           positions' = [positions EXCEPT ![p] = new],
           \A m \in LockIds :
              \/ locks'[m] = locks[m]
              \/ /\ m = positions[p].active_lock /\ locks'[m] # Absent
                 /\ locks[m] # Absent /\ locks'[m].position = locks[m].position
    PROVE  LockBinding'
<1>1. /\ \A q \in PositionIds : q # p => positions'[q] = positions[q]
      /\ positions'[p] = new /\ new # Absent
  BY AbsentAssumption DEF IInv, TypeOK
<1>2. ASSUME NEW m \in LockIds, (locks[m] # Absent)'
      PROVE  Known(locks[m].position)'
  <2>1. locks[m] # Absent /\ locks'[m].position = locks[m].position
    BY <1>2
  <2>2. Known(locks[m].position) /\ locks[m].position \in PositionIds
    BY <2>1, BookTypes DEF IInv, LockBinding, Lock
  <2> QED  BY <2>1, <2>2, <1>1 DEF Known
<1>3. ASSUME NEW q \in PositionIds, Known(q)'
      PROVE  /\ positions'[q].state = "Locked" <=> positions'[q].active_lock # NoLock
             /\ positions'[q].active_lock # NoLock
                  => CarriesLock(q, positions[q].active_lock)'
  <2>1. CASE q = p  BY <2>1, <1>1
  <2>2. CASE q # p
    <3>1. Known(q) /\ positions'[q] = positions[q]  BY <2>2, <1>1, <1>3 DEF Known
    <3>2. positions[q].active_lock \in LockIds \cup {NoLock}
      BY <3>1, BookTypes DEF IInv, Position
    <3>3. positions[q].active_lock # NoLock
            => positions[q].active_lock # positions[p].active_lock
      BY <2>2, <3>1 DEF IInv, LockBinding, CarriesLock
    <3> QED  BY <3>1, <3>2, <3>3 DEF IInv, LockBinding, CarriesLock
  <2> QED  BY <2>1, <2>2
<1> QED  BY <1>2, <1>3 DEF LockBinding

LEMMA SettlePositionInv ==
    ASSUME IInv, NEW p \in PositionIds, NEW payer \in Accounts, NEW limit \in Nat,
           SettlePosition(p, payer, limit)
    PROVE  IInv'
<1> DEFINE pos    == positions[p]
           h      == <<pos.borrower, AssetOf(p)>>
           g      == <<payer, AssetOf(p)>>
           due    == TotalDue(pos, RateOf(p), now)
           repaid == Repay(pools[pos.pool], pos.principal,
                           Interest(pos, RateOf(p)) + Fee(pos),
                           Penalty(pos, RateOf(p), now), pos.collateral)
<1>1. /\ Known(p) /\ Available(g) >= due
      /\ balance' = [balance EXCEPT ![g] = @ - due]
      /\ pools' = [pools EXCEPT ![pos.pool] = repaid.pool]
      /\ UNCHANGED <<now, loopVars, live, asset, rates, deposited>>
  BY DEF SettlePosition, DebitAvailable
<1>2. \/ /\ held[h] >= pos.collateral
         /\ held' = [held EXCEPT ![h] = @ - pos.collateral]
         /\ locks' = [l \in LockIds |->
                        IF l = pos.active_lock
                        THEN [locks[l] EXCEPT !.status = "Released"]
                        ELSE locks[l]]
         /\ positions' = [positions EXCEPT ![p] = Close(@)]
         /\ anomaly' = anomaly \cup Replay(p)
      \/ /\ anomaly' = anomaly \cup {"partial"}
         /\ UNCHANGED <<held, locks, positions>>
  BY DEF SettlePosition, Release
<1>3. /\ pos \in Position /\ RateOf(p) \in Accrual /\ AssetOf(p) \in Assets
      /\ pos.pool \in PoolIds /\ pos.borrower \in Accounts
      /\ pos.principal \in Nat /\ pos.collateral \in Nat /\ now \in Nat
  BY <1>1, BookTypes DEF IInv
<1>4. h \in Holdings /\ g \in Holdings  BY <1>3 DEF Holdings
<1>5. /\ due \in Nat /\ Interest(pos, RateOf(p)) \in Nat /\ Fee(pos) \in Nat
      /\ Penalty(pos, RateOf(p), now) \in Nat
  BY <1>3, DebtNat
<1>6. repaid.pool \in Pool
  <2>1. Interest(pos, RateOf(p)) + Fee(pos) \in Nat  BY <1>5
  <2>2. pools[pos.pool] \in Pool  BY <1>3 DEF IInv, TypeOK
  <2> QED  BY <1>3, <1>5, <2>1, <2>2, RepayTyped
<1>7. held[g] + due <= balance[g]
  <2> HIDE DEF due, g
  <2> QED  BY <1>1, <1>4, <1>5, AvailableCovers DEF IInv
<1>8. balance[g] \in Amount /\ held[g] \in Nat /\ held[h] \in Amount
  BY <1>4, BookTypes DEF IInv, TypeOK
<1> HIDE DEF pos, h, g, due, repaid
<1>9. balance[g] - due \in Amount
  BY <1>5, <1>7, <1>8, AmountsAssumption DEF Amount
<1>10. balance' \in [Holdings -> Amount] /\ pools' \in [PoolIds -> Pool]
  BY <1>1, <1>6, <1>9 DEF IInv, TypeOK
<1>11. CASE /\ held[h] >= pos.collateral
            /\ held' = [held EXCEPT ![h] = @ - pos.collateral]
            /\ locks' = [l \in LockIds |->
                           IF l = pos.active_lock
                           THEN [locks[l] EXCEPT !.status = "Released"]
                           ELSE locks[l]]
            /\ positions' = [positions EXCEPT ![p] = Close(@)]
            /\ anomaly' = anomaly \cup Replay(p)
  <2>1. held[h] - pos.collateral \in Amount
    BY <1>3, <1>8, <1>11, AmountsAssumption DEF Amount
  <2>2. HeldWithinBalance'
    BY <1>1, <1>3, <1>4, <1>5, <1>7, <1>8, <1>11, BookTypes
    DEF IInv, HeldWithinBalance, TypeOK
  <2>3. Close(pos) \in Position /\ Close(pos).state # "Locked"
        /\ Close(pos).active_lock = NoLock
    BY <1>3, PositionSteps, PositionEffects
  <2>4. ASSUME NEW l \in LockIds, l = pos.active_lock
        PROVE  /\ locks[l] \in Lock /\ locks[l] # Absent
               /\ [locks[l] EXCEPT !.status = "Released"] \in Lock
               /\ [locks[l] EXCEPT !.status = "Released"].position = locks[l].position
    <3>1. locks[l] # Absent
      BY <1>1, <2>4 DEF IInv, LockBinding, CarriesLock, LockIds, NoLock, pos
    <3>2. locks[l] \in Lock  BY <3>1, BookTypes DEF IInv
    <3> QED  BY <3>1, <3>2 DEF Lock
  <2>5. locks' \in [LockIds -> Lock \cup {Absent}]
    BY <1>11, <2>4 DEF IInv, TypeOK
  <2>6. LockBinding'
    <3>1. positions' = [positions EXCEPT ![p] = Close(pos)]  BY <1>11 DEF pos
    <3>2. \A m \in LockIds :
             \/ locks'[m] = locks[m]
             \/ /\ m = positions[p].active_lock /\ locks'[m] # Absent
                /\ locks[m] # Absent /\ locks'[m].position = locks[m].position
      BY <1>11, <2>4, AbsentAssumption DEF pos
    <3> QED  BY <1>1, <2>3, <3>1, <3>2, LeavingKeepsBinding
  <2>7. TypeOK'
    <3>1. positions' \in [PositionIds -> Position \cup {Absent}]
      BY <1>11, <2>3 DEF IInv, TypeOK, pos
    <3>2. held' \in [Holdings -> Amount]  BY <1>11, <2>1 DEF IInv, TypeOK
    <3>3. anomaly' \subseteq Anomalies
      BY <1>11 DEF IInv, TypeOK, Anomalies, Replay
    <3> QED  BY <1>1, <1>10, <2>5, <3>1, <3>2, <3>3 DEF IInv, TypeOK, loopVars
  <2> QED  BY <2>2, <2>6, <2>7 DEF IInv
<1>12. CASE anomaly' = anomaly \cup {"partial"} /\ UNCHANGED <<held, locks, positions>>
  <2>1. HeldWithinBalance'
    BY <1>1, <1>4, <1>5, <1>7, <1>8, <1>12, BookTypes DEF IInv, HeldWithinBalance, TypeOK
  <2>2. LockBinding'  BY <1>12, LockBindingUnchanged DEF IInv
  <2>3. TypeOK'
    BY <1>1, <1>10, <1>12 DEF IInv, TypeOK, loopVars, Anomalies
  <2> QED  BY <2>1, <2>2, <2>3 DEF IInv
<1> QED  BY <1>2, <1>11, <1>12 DEF pos, h

\* ExpiryEngine::collateral_absorption takes the whole collateral, whatever
\* penalty is configured: no remainder is ever released to the borrower.
LEMMA AbsorbsAll ==
    ASSUME NEW pos \in Position
    PROVE  Absorbed(pos) = pos.collateral
<1>1. pos.collateral \in Nat  BY AmountIffFits DEF Position
<1>2. MulBps(pos.collateral, CollateralPenalty) \in Nat
  BY <1>1, MulBpsNat, LedgerAssumption
<1> QED  BY <1>1, <1>2 DEF Absorbed

\* What expire_position comes to: the collateral is taken whole, and the
\* release after it never runs.
SweepsWhole(p) ==
    LET pos     == positions[p]
        h       == <<pos.borrower, AssetOf(p)>>
        written == ChargeOff(pools[pos.pool], pos.principal,
                             Penalty(pos, RateOf(p), now), pos.collateral)
    IN  /\ Known(p) /\ held[h] >= pos.collateral
        /\ held' = [held EXCEPT ![h] = @ - pos.collateral]
        /\ balance' = [balance EXCEPT ![h] = @ - pos.collateral]
        /\ pools' = [pools EXCEPT ![pos.pool] = written.pool]
        /\ \/ /\ written.ok
              /\ positions' = [positions EXCEPT ![p] = Expire(@)]
              /\ anomaly' = anomaly \cup Replay(p)
           \/ /\ anomaly' = anomaly \cup {"partial"}
              /\ UNCHANGED positions

LEMMA ExpireTakesAll ==
    ASSUME TypeOK, NEW p \in PositionIds, ExpirePosition(p)
    PROVE  SweepsWhole(p)
<1> DEFINE pos   == positions[p]
           h     == <<pos.borrower, AssetOf(p)>>
           c     == pos.collateral
           taken == Absorbed(pos)
           rest  == SaturatingSub(c, taken)
           freed == held[h] - taken >= rest
<1>1. /\ Known(p) /\ held[h] >= taken
      /\ held' = [held EXCEPT ![h] = @ - taken - (IF freed THEN rest ELSE 0)]
      /\ balance' = [balance EXCEPT ![h] = @ - taken]
  BY DEF ExpirePosition, DebitReserved
<1>2. pos \in Position /\ h \in Holdings
  BY <1>1, BookTypes DEF Holdings
<1>3. taken = c /\ c \in Nat /\ held[h] \in Nat
  BY <1>2, AbsorbsAll, BookTypes, AmountIffFits DEF Position
<1>4. rest = 0  BY <1>3 DEF SaturatingSub
<1>5. freed  BY <1>1, <1>3, <1>4
<1>6. held' = [held EXCEPT ![h] = @ - c]
  <2>1. held[h] - taken - (IF freed THEN rest ELSE 0) = held[h] - c
    BY <1>3, <1>4, <1>5
  <2> QED  BY <1>1, <2>1
<1>7. /\ pools' = [pools EXCEPT ![pos.pool] =
                     ChargeOff(pools[pos.pool], pos.principal,
                               Penalty(pos, RateOf(p), now), c).pool]
      /\ \/ /\ ChargeOff(pools[pos.pool], pos.principal,
                         Penalty(pos, RateOf(p), now), c).ok
            /\ positions' = [positions EXCEPT ![p] = Expire(@)]
            /\ anomaly' = anomaly \cup Replay(p)
         \/ /\ anomaly' = anomaly \cup {"partial"}
            /\ UNCHANGED positions
  BY <1>3, <1>5 DEF ExpirePosition
<1> QED  BY <1>1, <1>3, <1>6, <1>7 DEF SweepsWhole

LEMMA ExpirePositionInv ==
    ASSUME IInv, NEW p \in PositionIds, ExpirePosition(p)
    PROVE  IInv'
<1> DEFINE pos     == positions[p]
           h       == <<pos.borrower, AssetOf(p)>>
           taken   == pos.collateral
           written == ChargeOff(pools[pos.pool], pos.principal,
                                Penalty(pos, RateOf(p), now), taken)
<1>a. SweepsWhole(p)  BY ExpireTakesAll DEF IInv
<1>1. /\ Known(p) /\ held[h] >= taken
      /\ held' = [held EXCEPT ![h] = @ - taken]
      /\ balance' = [balance EXCEPT ![h] = @ - taken]
      /\ pools' = [pools EXCEPT ![pos.pool] = written.pool]
      /\ UNCHANGED <<now, loopVars, live, asset, rates, locks, deposited>>
  BY <1>a DEF SweepsWhole, ExpirePosition
<1>2. \/ positions' = [positions EXCEPT ![p] = Expire(@)] /\ anomaly' = anomaly \cup Replay(p)
      \/ anomaly' = anomaly \cup {"partial"} /\ UNCHANGED positions
  BY <1>a DEF SweepsWhole
<1>3. /\ pos \in Position /\ RateOf(p) \in Accrual /\ AssetOf(p) \in Assets
      /\ pos.pool \in PoolIds /\ pos.borrower \in Accounts
      /\ pos.principal \in Nat /\ pos.collateral \in Nat /\ now \in Nat
  BY <1>1, BookTypes DEF IInv
<1>4. h \in Holdings  BY <1>3 DEF Holdings
<1>5. taken \in Nat /\ Penalty(pos, RateOf(p), now) \in Nat
  BY <1>3, DebtNat
<1>6. written.pool \in Pool
  <2>1. pools[pos.pool] \in Pool  BY <1>3 DEF IInv, TypeOK
  <2> QED  BY <1>3, <1>5, <2>1, ChargeOffTyped
<1>7. balance[h] \in Amount /\ held[h] \in Amount /\ held[h] <= balance[h]
  BY <1>4 DEF IInv, TypeOK, HeldWithinBalance
<1> HIDE DEF pos, h, taken, written
<1>8. held[h] - taken \in Amount /\ balance[h] - taken \in Amount
  BY <1>1, <1>5, <1>7, AmountsAssumption DEF Amount
<1>9. HeldWithinBalance'
  BY <1>1, <1>4, <1>5, <1>7, BookTypes DEF IInv, HeldWithinBalance, TypeOK
<1>10. Expire(pos) \in Position /\ Expire(pos).state # "Locked"
       /\ Expire(pos).active_lock = NoLock
  BY <1>3, PositionSteps, PositionEffects
<1>11. LockBinding'
  <2>1. CASE positions' = [positions EXCEPT ![p] = Expire(@)]
    <3>1. positions' = [positions EXCEPT ![p] = Expire(pos)]  BY <2>1 DEF pos
    <3>2. \A m \in LockIds : locks'[m] = locks[m]  BY <1>1
    <3> QED  BY <1>1, <1>10, <3>1, <3>2, LeavingKeepsBinding
  <2>2. CASE UNCHANGED positions
    BY <1>1, <2>2, LockBindingUnchanged DEF IInv
  <2> QED  BY <1>2, <2>1, <2>2
<1>12. TypeOK'
  <2>1. positions' \in [PositionIds -> Position \cup {Absent}]
    BY <1>2, <1>10 DEF IInv, TypeOK, pos
  <2>2. anomaly' \subseteq Anomalies
    BY <1>2 DEF IInv, TypeOK, Anomalies, Replay
  <2>3. /\ balance' \in [Holdings -> Amount] /\ held' \in [Holdings -> Amount]
        /\ pools' \in [PoolIds -> Pool]
    BY <1>1, <1>6, <1>8 DEF IInv, TypeOK
  <2> QED  BY <1>1, <2>1, <2>2, <2>3 DEF IInv, TypeOK, loopVars
<1> QED  BY <1>9, <1>11, <1>12 DEF IInv

---------------------------------------------------------------------------
\* The invariants

LEMMA InitInv == Init => IInv
<1> SUFFICES ASSUME Init PROVE IInv  OBVIOUS
<1>1. [h \in Holdings |-> 0] \in [Holdings -> Amount] /\ 0 \in Amount
  BY AmountsAssumption DEF Amount
<1>2. pools \in [PoolIds -> Pool]
  <2>1. NewPool \in Pool  BY <1>1 DEF NewPool, Pool, PoolStatus
  <2>2. ASSUME NEW p \in PoolIds
        PROVE  [NewPool EXCEPT !.liquidity_available = SetupLiquidity[p],
                               !.lifetime_deposits = SetupLiquidity[p]] \in Pool
    <3>1. SetupLiquidity[p] \in Amount  BY LedgerAssumption
    <3> QED  BY <1>1, <3>1 DEF NewPool, Pool, PoolStatus
  <2> QED  BY <2>1, <2>2 DEF Init
<1>3. rates \in [PoolIds -> Accrual]
  <2>1. InitialAccrual(0) \in Accrual
    BY AmountsAssumption DEF InitialAccrual, Accrual, Amount
  <2> QED  BY <2>1 DEF Init
<1>4. deposited \in [Assets -> Nat]
  <2>1. ASSUME NEW s \in Assets
        PROVE  SumOver([a \in Accounts |-> SetupBalance[<<a, s>>]], Accounts) \in Nat
    <3> DEFINE f == [a \in Accounts |-> SetupBalance[<<a, s>>]]
    <3>1. \A a \in Accounts : f[a] \in Nat
      BY LedgerAssumption, AmountIffFits DEF Holdings
    <3> HIDE DEF f
    <3>2. SumOver(f, Accounts) \in Nat
      BY <3>1, LedgerAssumption, SumOverNat
    <3> QED  BY <3>2 DEF f
  <2>2. ASSUME NEW s \in Assets
        PROVE  SumOver(SetupLiquidity, {p \in SetupPools : PoolAsset[p] = s}) \in Nat
    <3> DEFINE T == {p \in SetupPools : PoolAsset[p] = s}
    <3>1. T \in SUBSET PoolIds  BY LedgerAssumption
    <3>2. IsFiniteSet(T)  BY <3>1, LedgerAssumption, FS_Subset
    <3>3. \A p \in T : SetupLiquidity[p] \in Nat
      BY <3>1, LedgerAssumption, AmountIffFits
    <3> HIDE DEF T
    <3>4. SumOver(SetupLiquidity, T) \in Nat  BY <3>2, <3>3, SumOverNat
    <3> QED  BY <3>4 DEF T
  <2> DEFINE owned(s) == SumOver([a \in Accounts |-> SetupBalance[<<a, s>>]], Accounts)
             lent(s)  == SumOver(SetupLiquidity, {p \in SetupPools : PoolAsset[p] = s})
  <2>3. \A s \in Assets : owned(s) \in Nat /\ lent(s) \in Nat  BY <2>1, <2>2
  <2>4. deposited = [s \in Assets |-> owned(s) + lent(s)]  BY DEF Init
  <2> HIDE DEF owned, lent
  <2> QED  BY <2>3, <2>4
<1>5. TypeOK
  BY <1>1, <1>2, <1>3, <1>4, LedgerAssumption DEF Init, TypeOK
<1>6. HeldWithinBalance
  <2>1. \A h \in Holdings : balance[h] \in Nat  BY <1>5, BookTypes
  <2>2. \A h \in Holdings : held[h] = 0  BY DEF Init
  <2> QED  BY <2>1, <2>2 DEF HeldWithinBalance
<1>7. LockBinding
  BY DEF Init, LockBinding, Known
<1> QED  BY <1>5, <1>6, <1>7 DEF IInv

LEMMA NextInv == IInv /\ [Next]_vars => IInv'
<1> SUFFICES ASSUME IInv, [Next]_vars PROVE IInv'  OBVIOUS
<1>1. ASSUME NEW s \in Assets, NEW config \in AssetConfigs,
             RegisterAssetConfig(s, config)
      PROVE  IInv'
  BY <1>1, RegisterAssetConfigInv
<1>2. ASSUME NEW p \in PoolIds, CreatePool(p) PROVE IInv'
  BY <1>2, CreatePoolInv
<1>3. ASSUME NEW a \in Accounts, NEW s \in Assets, NEW x \in DepositAmounts,
             Deposit(a, s, x)
      PROVE  IInv'
  BY <1>3, DepositInv, LedgerAssumption
<1>4. ASSUME NEW a \in Accounts, NEW p \in PoolIds, NEW x \in DepositAmounts,
             DepositLiquidity(a, p, x)
      PROVE  IInv'
  BY <1>4, DepositLiquidityInv, LedgerAssumption
<1>5. ASSUME NEW n \in Advances, AdvanceEpochs(n) PROVE IInv'
  BY <1>5, AdvanceEpochsInv, LedgerAssumption
<1>6. CASE AdvanceLoop
  BY <1>6, AccruePoolInv, StallAdvanceInv DEF AdvanceLoop
<1>7. ASSUME NEW a \in Accounts, NEW p \in PoolIds, NEW x \in Principals,
             NEW c \in Collaterals, NEW m \in Maturities, OpenPosition(a, p, x, c, m)
      PROVE  IInv'
  BY <1>7, OpenPositionInv, LedgerAssumption
<1>8. ASSUME NEW p \in PositionIds, NEW r \in Releases, LockPosition(p, r)
      PROVE  IInv'
  BY <1>8, LockPositionInv, LedgerAssumption
<1>9. ASSUME NEW l \in LockIds, ReleaseLock(l) PROVE IInv'
  BY <1>9, ReleaseLockInv
<1>10. ASSUME NEW p \in PositionIds, NEW a \in Accounts, NEW d \in DueLimits,
              SettlePosition(p, a, d)
       PROVE  IInv'
  BY <1>10, SettlePositionInv, LedgerAssumption
<1>11. ASSUME NEW p \in PositionIds, ExpirePosition(p) PROVE IInv'
  BY <1>11, ExpirePositionInv
<1>12. CASE UNCHANGED vars
  BY <1>12
  DEF IInv, TypeOK, HeldWithinBalance, LockBinding, CarriesLock, Known, vars
<1> QED
  BY <1>1, <1>2, <1>3, <1>4, <1>5, <1>6, <1>7, <1>8, <1>9, <1>10, <1>11, <1>12
  DEF Next

\* The three invariants hold together in every reachable state.
THEOREM Inductive == Spec => []IInv
  BY InitInv, NextInv, PTL DEF Spec

\* Every balance, pool, index, debt and lock that the ledger stores has its
\* type: no error path saves an amount or an index outside u128.
THEOREM TypeCorrect == Spec => []TypeOK
<1>1. IInv => TypeOK  BY DEF IInv
<1> QED  BY <1>1, Inductive, PTL

\* No account has more on hold than it owns, so AccountState::debit_reserved
\* cannot fail between its two assignments.
THEOREM HoldsCovered == Spec => []HeldWithinBalance
<1>1. IInv => HeldWithinBalance  BY DEF IInv
<1> QED  BY <1>1, Inductive, PTL

\* A position is Locked exactly while it carries a lock of its own, however
\* locks and releases of orphaned locks interleave with sweeps and
\* settlements.
THEOREM LocksBound == Spec => []LockBinding
<1>1. IInv => LockBinding  BY DEF IInv
<1> QED  BY <1>1, Inductive, PTL

---------------------------------------------------------------------------
\* What a step may do to a position

\* Materialization changes the recorded debt only.
SameCourse(c, pos) ==
    /\ c \in Position
    /\ c.state_version = pos.state_version
    /\ <<c.borrower, c.pool, c.principal, c.collateral>>
         = <<pos.borrower, pos.pool, pos.principal, pos.collateral>>

\* Every step leaves a known position alone or takes it through one of the
\* four changes of src/position, each under the guard of its caller.
PositionMoves(p) ==
    LET pos == positions[p]  new == positions'[p]
    IN  \/ new = pos
        \/ /\ pos.state # "Closed"
           /\ \E c \in Position, l \in LockIds, r \in Nat, accrual \in Accrual :
                 SameCourse(c, pos) /\ new = AttachLock(c, l, r, accrual)
        \/ pos.state # "Closed" /\ new = DetachLock(pos)
        \/ pos.state # "Closed" /\ new = Close(pos)
        \/ pos.state # "Closed" /\ SweepDue(pos) /\ new = Expire(pos)

LEMMA LockPositionMoves ==
    ASSUME IInv, NEW q \in PositionIds, Known(q), NEW p \in PositionIds,
           NEW release \in Nat, LockPosition(p, release)
    PROVE  PositionMoves(q)
<1> DEFINE pos     == positions[p]
           carried == IF IsBoundary(now, pos.effective_maturity_epoch) THEN pos
                      ELSE Materialize(pos, RateOf(p), now)
<1>1. Known(p) /\ QuoteFits(pos, RateOf(p), now) /\ pos.state # "Closed"
  BY DEF LockPosition, AdmitsClose
<1>2. PICK l \in NextId(locks, Absent) :
        positions' = [positions EXCEPT ![p] = AttachLock(carried, l, release, RateOf(p))]
  BY DEF LockPosition
<1>3. l \in LockIds  BY <1>2 DEF NextId, IInv, TypeOK
<1>4. pos \in Position /\ RateOf(p) \in Accrual /\ now \in Nat
  BY <1>1, BookTypes DEF IInv
<1>5. SameCourse(carried, pos)
  <2>1. SameCourse(pos, pos)  BY <1>4 DEF SameCourse
  <2>2. Materialize(pos, RateOf(p), now) \in Position
    BY <1>1, <1>4, MaterializeTyped
  <2>3. SameCourse(Materialize(pos, RateOf(p), now), pos)
    BY <1>4, <2>2 DEF SameCourse, Materialize, Position
  <2> QED  BY <2>1, <2>3
<1> HIDE DEF carried
<1>6. CASE q = p
  <2>1. positions'[q] = AttachLock(carried, l, release, RateOf(p))
    BY <1>2, <1>6 DEF IInv, TypeOK
  <2>2. carried \in Position  BY <1>5 DEF SameCourse
  <2> QED  BY <1>1, <1>3, <1>4, <1>5, <1>6, <2>1, <2>2 DEF PositionMoves
<1>7. CASE q # p
  BY <1>2, <1>7 DEF IInv, TypeOK, PositionMoves
<1> QED  BY <1>6, <1>7

LEMMA ReleaseLockMoves ==
    ASSUME IInv, NEW q \in PositionIds, Known(q), NEW l \in LockIds, ReleaseLock(l)
    PROVE  PositionMoves(q)
<1> DEFINE p == locks[l].position
<1>1. locks[l] # Absent /\ positions' = [positions EXCEPT ![p] = DetachLock(@)]
  BY DEF ReleaseLock
<1>2. p \in PositionIds  BY <1>1, BookTypes DEF IInv, Lock
<1>3. CASE q = p /\ positions[q].state = "Closed"
  <2>1. positions[q].active_lock = NoLock  BY <1>3 DEF IInv, LockBinding
  <2>2. positions[q] \in Position  BY BookTypes DEF IInv
  <2>3. [positions[q] EXCEPT !.active_lock = NoLock] = positions[q]
    BY <2>1, <2>2 DEF Position
  <2>4. DetachLock(positions[q]) = positions[q]
    BY <1>3, <2>3 DEF DetachLock
  <2>5. positions'[q] = DetachLock(positions[q])
    BY <1>1, <1>2, <1>3 DEF IInv, TypeOK
  <2> QED  BY <2>4, <2>5 DEF PositionMoves
<1>4. CASE q = p /\ positions[q].state # "Closed"
  <2>1. positions'[q] = DetachLock(positions[q])
    BY <1>1, <1>2, <1>4 DEF IInv, TypeOK
  <2> QED  BY <1>4, <2>1 DEF PositionMoves
<1>5. CASE q # p
  BY <1>1, <1>2, <1>5 DEF IInv, TypeOK, PositionMoves
<1> QED  BY <1>3, <1>4, <1>5

LEMMA LeavingMoves ==
    ASSUME IInv, NEW q \in PositionIds, Known(q), NEW p \in PositionIds,
           \/ \E a \in Accounts, d \in DueLimits : SettlePosition(p, a, d)
           \/ ExpirePosition(p)
    PROVE  PositionMoves(q)
<1>1. /\ positions[p].state # "Closed"
      /\ \/ UNCHANGED positions
         \/ positions' = [positions EXCEPT ![p] = Close(@)]
         \/ SweepDue(positions[p]) /\ positions' = [positions EXCEPT ![p] = Expire(@)]
  BY DEF SettlePosition, ExpirePosition, AdmitsClose
<1>2. CASE UNCHANGED positions  BY <1>2 DEF PositionMoves
<1>3. CASE positions' = [positions EXCEPT ![p] = Close(@)]
  BY <1>1, <1>3 DEF IInv, TypeOK, PositionMoves
<1>4. CASE SweepDue(positions[p]) /\ positions' = [positions EXCEPT ![p] = Expire(@)]
  BY <1>1, <1>4 DEF IInv, TypeOK, PositionMoves
<1> QED  BY <1>1, <1>2, <1>3, <1>4

LEMMA StepsMovePositions ==
    ASSUME IInv, [Next]_vars, NEW q \in PositionIds, Known(q)
    PROVE  PositionMoves(q)
<1>1. CASE UNCHANGED positions  BY <1>1 DEF PositionMoves
<1>2. ASSUME NEW a \in Accounts, NEW p \in PoolIds, NEW x \in Principals,
             NEW c \in Collaterals, NEW m \in Maturities, OpenPosition(a, p, x, c, m)
      PROVE  PositionMoves(q)
  <2>1. \/ UNCHANGED positions
        \/ \E id \in NextId(positions, Absent) :
             positions' = [positions EXCEPT ![id] =
                             NewPosition(a, p, x, c, m, rates[p])]
    BY <1>2 DEF OpenPosition
  <2>2. ASSUME NEW id \in NextId(positions, Absent),
               positions' = [positions EXCEPT ![id] =
                               NewPosition(a, p, x, c, m, rates[p])]
        PROVE  positions'[q] = positions[q]
    <3>1. positions[id] = Absent  BY DEF NextId
    <3>2. id # q  BY <3>1 DEF Known
    <3> QED  BY <2>2, <3>2 DEF IInv, TypeOK
  <2> QED  BY <2>1, <2>2 DEF PositionMoves
<1>3. ASSUME NEW p \in PositionIds, NEW r \in Releases, LockPosition(p, r)
      PROVE  PositionMoves(q)
  BY <1>3, LockPositionMoves, LedgerAssumption
<1>4. ASSUME NEW l \in LockIds, ReleaseLock(l) PROVE PositionMoves(q)
  BY <1>4, ReleaseLockMoves
<1>5. ASSUME NEW p \in PositionIds,
             \/ \E a \in Accounts, d \in DueLimits : SettlePosition(p, a, d)
             \/ ExpirePosition(p)
      PROVE  PositionMoves(q)
  BY <1>5, LeavingMoves
<1>6. \/ UNCHANGED positions
      \/ \E a \in Accounts, p \in PoolIds, x \in Principals, c \in Collaterals,
            m \in Maturities : OpenPosition(a, p, x, c, m)
      \/ \E p \in PositionIds, r \in Releases : LockPosition(p, r)
      \/ \E l \in LockIds : ReleaseLock(l)
      \/ \E p \in PositionIds :
            \/ \E a \in Accounts, d \in DueLimits : SettlePosition(p, a, d)
            \/ ExpirePosition(p)
  BY DEF Next, AdvanceLoop, vars, bookVars, RegisterAssetConfig, CreatePool, Deposit,
         DepositLiquidity, AdvanceEpochs, AccruePool, StallAdvance
<1> QED  BY <1>1, <1>2, <1>3, <1>4, <1>5, <1>6

\* The terms of a position survive each of those changes, the version
\* counts them.
LEMMA MovesKeepTerms ==
    ASSUME TypeOK, NEW p \in PositionIds, Known(p), PositionMoves(p)
    PROVE  LET old == positions[p]  new == positions'[p]
           IN  /\ <<new.borrower, new.pool, new.principal, new.collateral>>
                    = <<old.borrower, old.pool, old.principal, old.collateral>>
               /\ \/ new.state_version = old.state_version + 1
                  \/ new = [old EXCEPT !.active_lock = NoLock] /\ old.state # "Locked"
                  \/ new = old
<1>1. positions[p] \in Position  BY BookTypes
<1>2. ASSUME NEW c \in Position, NEW l \in LockIds, NEW r \in Nat, NEW accrual \in Accrual
      PROVE  LET new == AttachLock(c, l, r, accrual)
             IN  /\ <<new.borrower, new.pool, new.principal, new.collateral>>
                      = <<c.borrower, c.pool, c.principal, c.collateral>>
                 /\ new.state_version = c.state_version + 1
  BY DEF AttachLock, TransitionTo, Position
<1>3. LET old == positions[p]  new == DetachLock(positions[p])
      IN  /\ <<new.borrower, new.pool, new.principal, new.collateral>>
               = <<old.borrower, old.pool, old.principal, old.collateral>>
          /\ \/ new.state_version = old.state_version + 1
             \/ new = [old EXCEPT !.active_lock = NoLock] /\ old.state # "Locked"
  BY <1>1 DEF DetachLock, TransitionTo, Position
<1>4. LET old == positions[p]  new == Close(positions[p])
      IN  /\ <<new.borrower, new.pool, new.principal, new.collateral>>
               = <<old.borrower, old.pool, old.principal, old.collateral>>
          /\ new.state_version = old.state_version + 1
  BY <1>1 DEF Close, TransitionTo, Position
<1>5. LET old == positions[p]  new == Expire(positions[p])
      IN  /\ <<new.borrower, new.pool, new.principal, new.collateral>>
               = <<old.borrower, old.pool, old.principal, old.collateral>>
          /\ new.state_version = old.state_version + 1
  BY <1>1 DEF Expire, TransitionTo, Position
<1> QED  BY <1>2, <1>3, <1>4, <1>5 DEF PositionMoves, SameCourse

\* Whoever compares state_version sees every change of a position.
THEOREM VersionsDetectChange == Spec => VersionDetectsChange
<1>1. ASSUME IInv, [Next]_vars, NEW p \in PositionIds, Known(p)
      PROVE  \/ positions'[p] = positions[p]
             \/ positions'[p].state_version = positions[p].state_version + 1
  <2>1. positions[p] \in Position  BY <1>1, BookTypes DEF IInv
  <2>2. positions[p].state # "Locked"
          => [positions[p] EXCEPT !.active_lock = NoLock] = positions[p]
    BY <1>1, <2>1 DEF IInv, LockBinding, Position
  <2> QED  BY <1>1, <2>2, StepsMovePositions, MovesKeepTerms DEF IInv
<1>2. IInv /\ [Next]_vars =>
        [\A p \in PositionIds : Known(p) =>
            LET old == positions[p]  new == positions'[p]
            IN  new = old \/ new.state_version = old.state_version + 1]_vars
  BY <1>1
<1> QED  BY <1>2, Inductive, PTL DEF Spec, VersionDetectsChange

\* A closed position is final, and nothing rewrites parties or terms.
THEOREM ClosedFinal == Spec => ClosedIsFinal
<1>1. ASSUME IInv, [Next]_vars, NEW p \in PositionIds, Known(p)
      PROVE  LET old == positions[p]  new == positions'[p]
             IN  /\ old.state = "Closed" => new = old
                 /\ <<new.borrower, new.pool, new.principal, new.collateral>>
                      = <<old.borrower, old.pool, old.principal, old.collateral>>
  <2>1. PositionMoves(p)  BY <1>1, StepsMovePositions
  <2>2. positions[p].state = "Closed" => positions'[p] = positions[p]
    BY <2>1 DEF PositionMoves
  <2> QED  BY <1>1, <2>1, <2>2, MovesKeepTerms DEF IInv
<1>2. IInv /\ [Next]_vars =>
        [\A p \in PositionIds : Known(p) =>
            LET old == positions[p]  new == positions'[p]
            IN  /\ old.state = "Closed" => new = old
                /\ <<new.borrower, new.pool, new.principal, new.collateral>>
                     = <<old.borrower, old.pool, old.principal, old.collateral>>]_vars
  BY <1>1
<1> QED  BY <1>2, Inductive, PTL DEF Spec, ClosedIsFinal

\* A step that makes a position Expired is a sweep that was due.
LEMMA OnlySweepsExpire ==
    ASSUME IInv, [Next]_vars, NEW p \in PositionIds, Known(p),
           positions[p].state # "Expired", positions'[p].state = "Expired"
    PROVE  SweepDue(positions[p]) /\ positions[p].state # "Closed"
<1>1. positions[p] \in Position  BY BookTypes DEF IInv
<1>2. \A c \in Position, l \in LockIds, r \in Nat, accrual \in Accrual :
        AttachLock(c, l, r, accrual).state # "Expired"
  BY PositionEffects
<1>3. DetachLock(positions[p]).state # "Expired" /\ Close(positions[p]).state # "Expired"
  BY <1>1 DEF DetachLock, Close, TransitionTo, Position
<1> QED  BY <1>2, <1>3, StepsMovePositions DEF PositionMoves

\* A sweep never overtakes a lock: it waits for the release, the grace and
\* the sweep delay.
THEOREM SweepsWaitForLocks == Spec => NoSweepUnderLock
<1>1. ASSUME IInv, [Next]_vars, NEW p \in PositionIds, Known(p),
             positions[p].state = "Locked", positions'[p].state = "Expired"
      PROVE  now >= locks[positions[p].active_lock].release_epoch + LockGrace + SweepDelay
  BY <1>1, OnlySweepsExpire DEF SweepDue, IInv, LockBinding, CarriesLock
<1>2. IInv /\ [Next]_vars =>
        [\A p \in PositionIds :
            Known(p) /\ positions[p].state = "Locked" /\ positions'[p].state = "Expired" =>
               now >= locks[positions[p].active_lock].release_epoch + LockGrace + SweepDelay]_vars
  BY <1>1
<1> QED  BY <1>2, Inductive, PTL DEF Spec, NoSweepUnderLock

\* What a sweep takes is quoted as Expired or Locked, whatever the delays and
\* the grace: debt::classify and expiry::decision agree but for the last epoch
\* of the grace under a sweep delay of zero.
THEOREM SweepsFollowGrace == Spec => SweepAfterGrace
<1>1. ASSUME IInv, [Next]_vars, NEW p \in PositionIds, Known(p),
             positions[p].state # "Expired", positions'[p].state = "Expired"
      PROVE  \/ Classify(positions[p], now) \in {"Expired", "Locked"}
             \/ /\ SweepDelay = 0
                /\ now = positions[p].effective_maturity_epoch + LockGrace
  <2>1. SweepDue(positions[p]) /\ positions[p].state # "Closed"
    BY <1>1, OnlySweepsExpire
  <2>2. positions[p].effective_maturity_epoch \in Nat /\ now \in Nat
    BY <1>1, BookTypes DEF IInv
  <2>3. CASE now > positions[p].effective_maturity_epoch + LockGrace
    BY <2>1, <2>2, <2>3, DebtAssumption DEF Classify
  <2>4. CASE ~(now > positions[p].effective_maturity_epoch + LockGrace)
    BY <2>1, <2>2, <2>4, LedgerAssumption, DebtAssumption DEF SweepDue
  <2> QED  BY <2>3, <2>4
<1>2. IInv /\ [Next]_vars =>
        [\A p \in PositionIds :
            Known(p) /\ positions[p].state # "Expired" /\ positions'[p].state = "Expired" =>
               \/ Classify(positions[p], now) \in {"Expired", "Locked"}
               \/ /\ SweepDelay = 0
                  /\ now = positions[p].effective_maturity_epoch + LockGrace]_vars
  BY <1>1
<1> QED  BY <1>2, Inductive, PTL DEF Spec, SweepAfterGrace
=============================================================================
