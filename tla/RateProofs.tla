----------------------------- MODULE RateProofs -----------------------------
(***************************************************************************)
(* The rates of the pools against the clock and against the checkpoints of *)
(* the positions, and the debt that they make the positions owe: proved    *)
(* for every number of pools, every rate model, every amount and every     *)
(* interleaving of the rounds of advance_epochs with failures.             *)
(***************************************************************************)
EXTENDS LedgerProofs

---------------------------------------------------------------------------
\* The loop of advance_epochs

(***************************************************************************)
(* Inside the loop the pools still to be visited are one epoch behind the  *)
(* others; the loop never runs past the clock and ends when it is reached. *)
(***************************************************************************)
LoopInv ==
    /\ accruing <= now
    /\ Idle => accruing = now
    /\ "stalled" \notin anomaly =>
         \A p \in live : rates[p].epoch = IF p \in todo THEN accruing - 1 ELSE accruing

\* A call outside the loop that leaves the rates of the existing pools
\* alone, and starts new pools at the clock.
LEMMA CallsKeepLoop ==
    ASSUME IInv, LoopInv, Idle, UNCHANGED <<now, loopVars>>,
           anomaly \subseteq anomaly',
           \A p \in live' : IF p \in live THEN rates'[p] = rates[p]
                            ELSE rates'[p].epoch = now
    PROVE  LoopInv'
<1>1. accruing = now /\ todo = {} /\ accruing' = now /\ now' = now /\ todo' = {}
  BY DEF LoopInv, Idle, loopVars
<1>2. now \in Nat  BY DEF IInv, TypeOK
<1>3. ASSUME "stalled" \notin anomaly', NEW p \in live'
      PROVE  rates'[p].epoch = now
  <2>1. "stalled" \notin anomaly  BY <1>3
  <2>2. p \in live => rates[p].epoch = now
    BY <1>1, <2>1 DEF LoopInv
  <2> QED  BY <2>2
<1> QED  BY <1>1, <1>2, <1>3 DEF LoopInv, Idle

LEMMA AdvanceEpochsLoop ==
    ASSUME IInv, LoopInv, NEW n \in Nat, AdvanceEpochs(n)
    PROVE  LoopInv'
<1>1. /\ accruing = now /\ todo = {} /\ n > 0 /\ now \in Nat
      /\ now' = now + n /\ todo' = live
      /\ accruing' = IF live = {} THEN now + n ELSE now + 1
      /\ UNCHANGED <<live, rates, anomaly>>
  BY DEF AdvanceEpochs, LoopInv, Idle, IInv, TypeOK
<1>2. accruing' <= now'  BY <1>1
<1>3. Idle' => accruing' = now'  BY <1>1 DEF Idle
<1>4. ASSUME "stalled" \notin anomaly', NEW p \in live'
      PROVE  rates'[p].epoch = accruing' - 1 /\ p \in todo'
  <2>1. rates[p].epoch = now  BY <1>1, <1>4 DEF LoopInv
  <2>2. accruing' = now + 1  BY <1>1, <1>4
  <2> QED  BY <1>1, <1>4, <2>1, <2>2
<1> QED  BY <1>2, <1>3, <1>4 DEF LoopInv

LEMMA AccruePoolLoop ==
    ASSUME IInv, LoopInv, NEW p \in PoolIds, AccruePool(p)
    PROVE  LoopInv'
<1>1. /\ p \in todo /\ p \in live /\ todo \subseteq live /\ live \subseteq PoolIds
      /\ accruing \in Nat /\ now \in Nat /\ rates \in [PoolIds -> Accrual]
      /\ accruing <= now
      /\ UNCHANGED <<now, live, anomaly>>
  BY DEF AccruePool, LoopInv, IInv, TypeOK
<1>2. /\ rates'[p].epoch = rates[p].epoch + 1
      /\ \A q \in live : q # p => rates'[q] = rates[q]
  BY <1>1 DEF AccruePool, AdvanceOne
<1>3. \A q \in live : rates[q].epoch \in Nat  BY <1>1 DEF Accrual
<1>4. CASE rates[p].epoch + 1 < accruing /\ UNCHANGED <<accruing, todo>>
  <2>1. "stalled" \in anomaly  BY <1>1, <1>3, <1>4 DEF LoopInv
  <2> QED  BY <1>1, <1>4, <2>1 DEF LoopInv, Idle
<1>5. CASE rates[p].epoch + 1 >= accruing /\ LeavePool(p)
  <2>1. CASE todo # {p}
    <3>1. todo' = todo \ {p} /\ accruing' = accruing
      BY <1>5, <2>1 DEF LeavePool
    <3>2. todo' # {}  BY <1>1, <2>1, <3>1
    <3>3. ASSUME "stalled" \notin anomaly', NEW q \in live
          PROVE  rates'[q].epoch = IF q \in todo' THEN accruing' - 1 ELSE accruing'
      BY <1>1, <1>2, <1>3, <3>1, <3>3 DEF LoopInv
    <3> QED  BY <1>1, <3>1, <3>2, <3>3 DEF LoopInv, Idle
  <2>2. CASE todo = {p}
    <3>1. ASSUME "stalled" \notin anomaly', NEW q \in live
          PROVE  rates'[q].epoch = accruing
      BY <1>1, <1>2, <1>3, <2>2, <3>1 DEF LoopInv
    <3>2. CASE accruing < now
      <4>1. todo' = live /\ accruing' = accruing + 1
        BY <1>1, <1>5, <2>2, <3>2 DEF LeavePool
      <4>2. todo' # {}  BY <1>1, <4>1
      <4>3. ASSUME "stalled" \notin anomaly', NEW q \in live
            PROVE  rates'[q].epoch = accruing' - 1
        BY <1>1, <3>1, <4>1, <4>3
      <4> QED  BY <1>1, <3>2, <4>1, <4>2, <4>3 DEF LoopInv, Idle
    <3>3. CASE accruing = now
      <4>1. todo' = {} /\ accruing' = accruing
        BY <1>1, <1>5, <2>2, <3>3 DEF LeavePool
      <4> QED  BY <1>1, <3>1, <3>3, <4>1 DEF LoopInv, Idle
    <3> QED  BY <1>1, <3>2, <3>3
  <2> QED  BY <2>1, <2>2
<1> QED  BY <1>4, <1>5 DEF AccruePool

LEMMA LoopStep == IInv /\ LoopInv /\ [Next]_vars => LoopInv'
<1> SUFFICES ASSUME IInv, LoopInv, [Next]_vars PROVE LoopInv'  OBVIOUS
<1>1. CASE \/ \E s \in Assets, config \in AssetConfigs : RegisterAssetConfig(s, config)
           \/ \E a \in Accounts, s \in Assets, x \in DepositAmounts : Deposit(a, s, x)
           \/ \E a \in Accounts, p \in PoolIds, x \in DepositAmounts :
                DepositLiquidity(a, p, x)
  <2>1. \A s \in Assets, config \in AssetConfigs : RegisterAssetConfig(s, config) =>
          Idle /\ UNCHANGED <<now, loopVars, live, rates>> /\ anomaly \subseteq anomaly'
    BY DEF RegisterAssetConfig
  <2>2. \A a \in Accounts, s \in Assets, x \in DepositAmounts : Deposit(a, s, x) =>
          Idle /\ UNCHANGED <<now, loopVars, live, rates>> /\ anomaly \subseteq anomaly'
    BY DEF Deposit
  <2>3. \A a \in Accounts, p \in PoolIds, x \in DepositAmounts :
          DepositLiquidity(a, p, x) =>
          Idle /\ UNCHANGED <<now, loopVars, live, rates>> /\ anomaly \subseteq anomaly'
    BY DEF DepositLiquidity
  <2> QED  BY <1>1, <2>1, <2>2, <2>3, CallsKeepLoop
<1>2. ASSUME NEW p \in PoolIds, CreatePool(p) PROVE LoopInv'
  <2>1. Idle /\ UNCHANGED <<now, loopVars>> /\ anomaly' = anomaly
    BY <1>2 DEF CreatePool
  <2>2. rates'[p].epoch = now /\ \A q \in live : rates'[q] = rates[q]
    BY <1>2 DEF CreatePool, InitialAccrual, IInv, TypeOK
  <2>3. live' = live \cup {p}  BY <1>2 DEF CreatePool
  <2> QED  BY <2>1, <2>2, <2>3, CallsKeepLoop
<1>3. ASSUME NEW n \in Advances, AdvanceEpochs(n) PROVE LoopInv'
  BY <1>3, AdvanceEpochsLoop, LedgerAssumption
<1>4. ASSUME NEW p \in PoolIds, AccruePool(p) PROVE LoopInv'
  BY <1>4, AccruePoolLoop
<1>5. ASSUME NEW p \in PoolIds, StallAdvance(p) PROVE LoopInv'
  BY <1>5 DEF StallAdvance, LoopInv, Idle, IInv, TypeOK
<1>6. CASE \/ \E a \in Accounts, p \in PoolIds, x \in Principals, c \in Collaterals,
                 m \in Maturities : OpenPosition(a, p, x, c, m)
           \/ \E p \in PositionIds, r \in Releases : LockPosition(p, r)
           \/ \E l \in LockIds : ReleaseLock(l)
           \/ \E p \in PositionIds, a \in Accounts, d \in DueLimits :
                SettlePosition(p, a, d)
           \/ \E p \in PositionIds : ExpirePosition(p)
  <2> DEFINE Quiet == /\ Idle /\ UNCHANGED <<now, loopVars, live, rates>>
                      /\ anomaly \subseteq anomaly'
  <2>1. \A a \in Accounts, p \in PoolIds, x \in Principals, c \in Collaterals,
           m \in Maturities : OpenPosition(a, p, x, c, m) => Quiet
    BY DEF OpenPosition
  <2>2. \A p \in PositionIds, r \in Releases : LockPosition(p, r) => Quiet
    BY DEF LockPosition
  <2>3. \A l \in LockIds : ReleaseLock(l) => Quiet
    BY DEF ReleaseLock
  <2>4. \A p \in PositionIds, a \in Accounts, d \in DueLimits :
          SettlePosition(p, a, d) => Quiet
    BY DEF SettlePosition
  <2>5. \A p \in PositionIds : ExpirePosition(p) => Quiet
    BY DEF ExpirePosition
  <2>6. Quiet  BY <1>6, <2>1, <2>2, <2>3, <2>4, <2>5
  <2> QED  BY <2>6, CallsKeepLoop
<1>7. CASE UNCHANGED vars
  BY <1>7 DEF LoopInv, Idle, vars
<1> QED  BY <1>1, <1>2, <1>3, <1>4, <1>5, <1>6, <1>7 DEF Next, AdvanceLoop

LEMMA LoopInit == Init => LoopInv
<1> SUFFICES ASSUME Init PROVE LoopInv  OBVIOUS
<1>1. now = 0 /\ accruing = 0 /\ todo = {} /\ live \subseteq PoolIds
  BY LedgerAssumption DEF Init
<1>2. \A p \in PoolIds : rates[p].epoch = 0  BY DEF Init, InitialAccrual
<1> QED  BY <1>1, <1>2 DEF LoopInv, Idle

LEMMA LoopAlways == Spec => []LoopInv
<1>1. Spec => [](IInv /\ LoopInv)
  BY InitInv, NextInv, LoopInit, LoopStep, PTL DEF Spec
<1> QED  BY <1>1, PTL

\* However the rounds of the loop are ordered among the pools: when a call
\* can observe the rates, every pool has accrued up to the clock, or some
\* advance has been aborted.
THEOREM RatesFollow == Spec => []RatesFollowClockUnlessStalled
<1>1. LoopInv => RatesFollowClockUnlessStalled
  BY DEF LoopInv, RatesFollowClockUnlessStalled, Idle
<1> QED  BY <1>1, LoopAlways, PTL

---------------------------------------------------------------------------
\* Checkpoints

(***************************************************************************)
(* Every position is in a pool that exists, so that no create_pool resets  *)
(* the rates under it.                                                     *)
(***************************************************************************)
CheckInv ==
    /\ \A p \in PositionIds : Known(p) => positions[p].pool \in live
    /\ CheckpointsAgree

\* Two kinds of steps matter: those that leave the checkpoints alone while
\* the rates move on ...
RatesMove ==
    /\ UNCHANGED positions
    /\ \A p \in live :
         \/ rates'[p] = rates[p]
         \/ /\ rates'[p].epoch = rates[p].epoch + 1
            /\ rates[p].interest_index <= rates'[p].interest_index
            /\ rates[p].penalty_index <= rates'[p].penalty_index

\* ... and those that leave the rates alone, and take a new checkpoint from
\* them or none.
CheckpointsMove ==
    /\ UNCHANGED rates
    /\ \A q \in PositionIds : Known(q)' =>
         LET old == positions[q]  new == positions'[q]
         IN  \/ /\ Known(q)
                /\ new.pool = old.pool /\ new.opened = old.opened
                /\ new.checkpoint \in {old.checkpoint, RateOf(q)}
             \/ /\ new.pool \in live
                /\ new.opened = rates[new.pool] /\ new.checkpoint = rates[new.pool]

LEMMA PrecedesOrder ==
    /\ \A a \in Accrual : Precedes(a, a)
    /\ \A a, b, c \in Accrual : Precedes(a, b) /\ Precedes(b, c) => Precedes(a, c)
<1>1. \A a \in Accrual : /\ a.epoch \in Nat
                         /\ a.interest_index \in Nat /\ a.penalty_index \in Nat
  BY AmountIffFits DEF Accrual
<1> QED  BY <1>1 DEF Precedes

\* What is known of a position's samples.
LEMMA SamplesTyped ==
    ASSUME TypeOK, CheckInv, NEW p \in PositionIds, Known(p)
    PROVE  /\ positions[p].opened \in Accrual /\ positions[p].checkpoint \in Accrual
           /\ positions[p].pool \in live /\ RateOf(p) \in Accrual
           /\ Precedes(positions[p].opened, positions[p].checkpoint)
           /\ Precedes(positions[p].checkpoint, RateOf(p))
<1>1. positions[p] \in Position  BY BookTypes
<1> QED  BY <1>1, BookTypes DEF Position, CheckInv, CheckpointsAgree

LEMMA RatesMoveKeeps ==
    ASSUME TypeOK, TypeOK', CheckInv, live \subseteq live', RatesMove
    PROVE  CheckInv'
<1>1. positions' = positions  BY DEF RatesMove
<1>2. ASSUME NEW p \in PositionIds, Known(p)
      PROVE  Precedes(positions[p].checkpoint, RateOf(p)')
  <2>1. /\ RateOf(p)' = rates'[positions[p].pool] /\ RateOf(p) = rates[positions[p].pool]
        /\ positions[p].pool \in live
    BY <1>1, <1>2, SamplesTyped DEF RateOf
  <2>2. /\ positions[p].checkpoint \in Accrual /\ RateOf(p) \in Accrual
        /\ Precedes(positions[p].checkpoint, RateOf(p))
    BY <1>2, SamplesTyped
  <2>3. positions[p].pool \in PoolIds  BY <2>1 DEF TypeOK
  <2>4. RateOf(p)' \in Accrual  BY <2>1, <2>3 DEF TypeOK
  <2>5. \A a \in Accrual : /\ a.epoch \in Nat
                          /\ a.interest_index \in Nat /\ a.penalty_index \in Nat
    BY AmountIffFits DEF Accrual
  <2>6. \/ RateOf(p)' = RateOf(p)
        \/ /\ RateOf(p)'.epoch = RateOf(p).epoch + 1
           /\ RateOf(p).interest_index <= RateOf(p)'.interest_index
           /\ RateOf(p).penalty_index <= RateOf(p)'.penalty_index
    BY <2>1 DEF RatesMove
  <2> QED  BY <2>2, <2>4, <2>5, <2>6 DEF Precedes
<1> QED  BY <1>1, <1>2 DEF CheckInv, CheckpointsAgree, Known

LEMMA CheckpointsMoveKeeps ==
    ASSUME TypeOK, TypeOK', CheckInv, live \subseteq live', CheckpointsMove
    PROVE  CheckInv'
<1>1. rates' = rates  BY DEF CheckpointsMove
<1>2. ASSUME NEW q \in PositionIds, Known(q)'
      PROVE  /\ positions'[q].pool \in live
             /\ RateOf(q)' = rates[positions'[q].pool]
             /\ positions'[q].checkpoint \in Accrual /\ RateOf(q)' \in Accrual
             /\ Precedes(positions'[q].opened, positions'[q].checkpoint)
             /\ Precedes(positions'[q].checkpoint, RateOf(q)')
             /\ \/ positions'[q].checkpoint = RateOf(q)'
                \/ /\ Known(q) /\ positions'[q].pool = positions[q].pool
                   /\ positions'[q].checkpoint = positions[q].checkpoint
  <2>1. RateOf(q)' = rates[positions'[q].pool]  BY <1>1 DEF RateOf
  <2>2. CASE /\ Known(q)
             /\ positions'[q].pool = positions[q].pool
             /\ positions'[q].opened = positions[q].opened
             /\ positions'[q].checkpoint \in {positions[q].checkpoint, RateOf(q)}
    <3>1. RateOf(q)' = RateOf(q)  BY <2>1, <2>2 DEF RateOf
    <3>2. /\ positions[q].opened \in Accrual /\ positions[q].checkpoint \in Accrual
          /\ positions[q].pool \in live /\ RateOf(q) \in Accrual
          /\ Precedes(positions[q].opened, positions[q].checkpoint)
          /\ Precedes(positions[q].checkpoint, RateOf(q))
      BY <2>2, SamplesTyped
    <3>3. Precedes(positions[q].opened, RateOf(q)) /\ Precedes(RateOf(q), RateOf(q))
      BY <3>2, PrecedesOrder
    <3> QED  BY <2>1, <2>2, <3>1, <3>2, <3>3
  <2>3. CASE /\ positions'[q].pool \in live
             /\ positions'[q].opened = rates[positions'[q].pool]
             /\ positions'[q].checkpoint = rates[positions'[q].pool]
    <3>1. rates[positions'[q].pool] \in Accrual  BY <2>3 DEF TypeOK
    <3> QED  BY <2>1, <2>3, <3>1, PrecedesOrder
  <2> QED  BY <1>2, <2>2, <2>3 DEF CheckpointsMove
<1>3. ASSUME NEW p \in PositionIds, Known(p)', NEW q \in PositionIds, Known(q)',
             positions'[q].pool = positions'[p].pool,
             positions'[q].checkpoint.epoch = positions'[p].checkpoint.epoch
      PROVE  positions'[q].checkpoint = positions'[p].checkpoint
  <2>1. RateOf(q)' = RateOf(p)'  BY <1>2, <1>3
  <2>2. CASE positions'[p].checkpoint = RateOf(p)'
    <3>1. Precedes(positions'[q].checkpoint, RateOf(q)')  BY <1>2, <1>3
    <3> QED  BY <1>3, <2>1, <2>2, <3>1 DEF Precedes
  <2>3. CASE positions'[q].checkpoint = RateOf(q)'
    <3>1. Precedes(positions'[p].checkpoint, RateOf(p)')  BY <1>2, <1>3
    <3> QED  BY <1>3, <2>1, <2>3, <3>1 DEF Precedes
  <2>4. CASE /\ Known(p) /\ positions'[p].pool = positions[p].pool
             /\ positions'[p].checkpoint = positions[p].checkpoint
             /\ Known(q) /\ positions'[q].pool = positions[q].pool
             /\ positions'[q].checkpoint = positions[q].checkpoint
    BY <1>3, <2>4 DEF CheckInv, CheckpointsAgree
  <2> QED  BY <1>2, <1>3, <2>2, <2>3, <2>4
<1>4. CheckpointsAgree'  BY <1>2, <1>3 DEF CheckpointsAgree
<1> QED  BY <1>2, <1>4 DEF CheckInv
\* One round of the loop raises the epoch of its pool and lowers no index.
LEMMA AccrualMovesRates ==
    ASSUME IInv, NEW p \in PoolIds, AccruePool(p)
    PROVE  RatesMove
<1> DEFINE new == AdvanceOne(rates[p], Utilization(pools[p]), RateModelOf[p])
<1>1. rates' = [rates EXCEPT ![p] = new] /\ UNCHANGED positions
  BY DEF AccruePool, bookVars
<1>2. /\ rates[p] \in Accrual /\ Utilization(pools[p]) \in Nat
      /\ RateModelOf[p] \in RateModel
  BY UtilizationNat, LedgerAssumption DEF IInv, TypeOK
<1>3. /\ QuoteBps(RateModelOf[p], Utilization(pools[p])) \in Nat
      /\ RateModelOf[p].penalty_bps \in Nat
  BY <1>2, QuoteBpsNat DEF RateModel
<1>4. rates[p].interest_index \in Nat /\ rates[p].penalty_index \in Nat
  BY <1>2, AmountIffFits DEF Accrual
<1>5. /\ new.epoch = rates[p].epoch + 1
      /\ rates[p].interest_index <= new.interest_index
      /\ rates[p].penalty_index <= new.penalty_index
  BY <1>3, <1>4, CompoundGrows DEF AdvanceOne
<1> HIDE DEF new
<1>6. rates'[p] = new /\ \A q \in PoolIds : q # p => rates'[q] = rates[q]
  BY <1>1 DEF IInv, TypeOK
<1> QED  BY <1>1, <1>5, <1>6 DEF RatesMove, IInv, TypeOK

\* An opening takes both samples from the pool; no other position changes.
LEMMA OpenMovesCheckpoints ==
    ASSUME IInv, NEW a \in Accounts, NEW p \in PoolIds, NEW x \in Nat,
           NEW c \in Nat, NEW m \in Nat, OpenPosition(a, p, x, c, m)
    PROVE  CheckpointsMove
<1>1. /\ UNCHANGED rates /\ p \in live
      /\ \/ UNCHANGED positions
         \/ \E id \in NextId(positions, Absent) :
              positions' = [positions EXCEPT ![id] = NewPosition(a, p, x, c, m, rates[p])]
  BY DEF OpenPosition
<1>2. CASE UNCHANGED positions
  BY <1>1, <1>2 DEF CheckpointsMove, Known
<1>3. ASSUME NEW id \in NextId(positions, Absent),
             positions' = [positions EXCEPT ![id] = NewPosition(a, p, x, c, m, rates[p])]
      PROVE  CheckpointsMove
  <2>1. id \in PositionIds  BY DEF NextId, IInv, TypeOK
  <2>2. /\ positions'[id].pool = p /\ positions'[id].opened = rates[p]
        /\ positions'[id].checkpoint = rates[p]
    BY <1>3, <2>1 DEF NewPosition, IInv, TypeOK
  <2>3. \A q \in PositionIds : q # id => positions'[q] = positions[q]
    BY <1>3 DEF IInv, TypeOK
  <2> QED  BY <1>1, <2>2, <2>3 DEF CheckpointsMove, Known
<1> QED  BY <1>1, <1>2, <1>3

\* A lock replaces the checkpoint of its position by the rates of now.
LEMMA LockMovesCheckpoints ==
    ASSUME IInv, NEW p \in PositionIds, NEW r \in Nat, LockPosition(p, r)
    PROVE  CheckpointsMove
<1> DEFINE pos     == positions[p]
           carried == IF IsBoundary(now, pos.effective_maturity_epoch) THEN pos
                      ELSE Materialize(pos, RateOf(p), now)
<1>1. Known(p) /\ UNCHANGED rates  BY DEF LockPosition
<1>2. PICK l \in NextId(locks, Absent) :
        positions' = [positions EXCEPT ![p] = AttachLock(carried, l, r, RateOf(p))]
  BY DEF LockPosition
<1>3. pos \in Position  BY <1>1, BookTypes DEF IInv
<1>4. /\ carried.pool = pos.pool /\ carried.opened = pos.opened
      /\ DOMAIN carried = DOMAIN pos
  BY <1>3 DEF Materialize, Position
<1>5. LET new == AttachLock(carried, l, r, RateOf(p))
      IN  new.pool = pos.pool /\ new.opened = pos.opened /\ new.checkpoint = RateOf(p)
  <2>1. ASSUME NEW c, DOMAIN c = DOMAIN pos,
               \/ c = pos
               \/ c = Materialize(pos, RateOf(p), now)
        PROVE  LET new == AttachLock(c, l, r, RateOf(p))
               IN  /\ new.pool = pos.pool /\ new.opened = pos.opened
                   /\ new.checkpoint = RateOf(p)
    BY <1>3, <2>1 DEF AttachLock, TransitionTo, Materialize, Position
  <2> QED  BY <1>4, <2>1
<1> HIDE DEF carried
<1>6. /\ positions'[p] = AttachLock(carried, l, r, RateOf(p))
      /\ \A q \in PositionIds : q # p => positions'[q] = positions[q]
  BY <1>2 DEF IInv, TypeOK
<1> QED  BY <1>1, <1>5, <1>6 DEF CheckpointsMove, Known

\* Releases, settlements and sweeps keep the samples.
LEMMA LeavingKeepsSamples ==
    ASSUME IInv, UNCHANGED rates, NEW p \in PositionIds, Known(p),
           \/ positions' = [positions EXCEPT ![p] = DetachLock(@)]
           \/ positions' = [positions EXCEPT ![p] = Close(@)]
           \/ positions' = [positions EXCEPT ![p] = Expire(@)]
    PROVE  CheckpointsMove
<1>1. positions[p] \in Position  BY BookTypes DEF IInv
<1>2. \A new \in {DetachLock(positions[p]), Close(positions[p]), Expire(positions[p])} :
        /\ new.pool = positions[p].pool /\ new.opened = positions[p].opened
        /\ new.checkpoint = positions[p].checkpoint
  <2> DEFINE Same(new) == /\ new.pool = positions[p].pool
                          /\ new.opened = positions[p].opened
                          /\ new.checkpoint = positions[p].checkpoint
  <2>1. Same(DetachLock(positions[p]))  BY <1>1 DEF DetachLock, TransitionTo, Position
  <2>2. Same(Close(positions[p]))  BY <1>1 DEF Close, TransitionTo, Position
  <2>3. Same(Expire(positions[p]))  BY <1>1 DEF Expire, TransitionTo, Position
  <2> QED  BY <2>1, <2>2, <2>3
<1>3. /\ positions'[p] \in {DetachLock(positions[p]), Close(positions[p]),
                            Expire(positions[p])}
      /\ \A q \in PositionIds : q # p => positions'[q] = positions[q]
  BY DEF IInv, TypeOK
<1> QED  BY <1>2, <1>3 DEF CheckpointsMove, Known

LEMMA StepsMoveOne ==
    ASSUME IInv, CheckInv, [Next]_vars
    PROVE  live \subseteq live' /\ (RatesMove \/ CheckpointsMove)
<1>1. ASSUME NEW p \in PoolIds, CreatePool(p)
      PROVE  live \subseteq live' /\ RatesMove
  BY <1>1 DEF CreatePool, RatesMove, IInv, TypeOK
<1>2. ASSUME NEW p \in PoolIds, AccruePool(p)
      PROVE  live \subseteq live' /\ RatesMove
  <2>1. UNCHANGED live  BY <1>2 DEF AccruePool
  <2> QED  BY <1>2, <2>1, AccrualMovesRates
<1>3. ASSUME NEW a \in Accounts, NEW p \in PoolIds, NEW x \in Principals,
             NEW c \in Collaterals, NEW m \in Maturities, OpenPosition(a, p, x, c, m)
      PROVE  live \subseteq live' /\ CheckpointsMove
  <2>1. UNCHANGED live  BY <1>3 DEF OpenPosition
  <2>2. x \in Nat /\ c \in Nat /\ m \in Nat  BY LedgerAssumption
  <2> QED  BY <1>3, <2>1, <2>2, OpenMovesCheckpoints
<1>4. ASSUME NEW p \in PositionIds, NEW r \in Releases, LockPosition(p, r)
      PROVE  live \subseteq live' /\ CheckpointsMove
  <2>1. UNCHANGED live  BY <1>4 DEF LockPosition
  <2> QED  BY <1>4, <2>1, LockMovesCheckpoints, LedgerAssumption
<1>5. ASSUME NEW l \in LockIds, ReleaseLock(l)
      PROVE  live \subseteq live' /\ CheckpointsMove
  <2>1. /\ locks[l] # Absent /\ UNCHANGED <<live, rates>>
        /\ positions' = [positions EXCEPT ![locks[l].position] = DetachLock(@)]
    BY <1>5 DEF ReleaseLock
  <2>2. locks[l].position \in PositionIds /\ Known(locks[l].position)
    BY <2>1, BookTypes DEF IInv, LockBinding, Lock
  <2> QED  BY <2>1, <2>2, LeavingKeepsSamples
<1>6. ASSUME NEW p \in PositionIds,
             \/ \E a \in Accounts, d \in DueLimits : SettlePosition(p, a, d)
             \/ ExpirePosition(p)
      PROVE  live \subseteq live' /\ (RatesMove \/ CheckpointsMove)
  <2>1. ASSUME NEW a \in Accounts, NEW d \in DueLimits, SettlePosition(p, a, d)
        PROVE  /\ Known(p) /\ UNCHANGED <<live, rates>>
               /\ \/ UNCHANGED positions
                  \/ positions' = [positions EXCEPT ![p] = Close(@)]
    BY <2>1 DEF SettlePosition
  <2>2. ASSUME ExpirePosition(p)
        PROVE  /\ Known(p) /\ UNCHANGED <<live, rates>>
               /\ \/ UNCHANGED positions
                  \/ positions' = [positions EXCEPT ![p] = Expire(@)]
    BY <2>2 DEF ExpirePosition
  <2>3. /\ Known(p) /\ UNCHANGED <<live, rates>>
        /\ \/ UNCHANGED positions
           \/ positions' = [positions EXCEPT ![p] = Close(@)]
           \/ positions' = [positions EXCEPT ![p] = Expire(@)]
    BY <1>6, <2>1, <2>2
  <2>4. CASE UNCHANGED positions  BY <2>3, <2>4 DEF RatesMove
  <2> QED  BY <2>3, <2>4, LeavingKeepsSamples
<1>7. CASE \/ \E s \in Assets, config \in AssetConfigs : RegisterAssetConfig(s, config)
           \/ \E a \in Accounts, s \in Assets, x \in DepositAmounts : Deposit(a, s, x)
           \/ \E a \in Accounts, p \in PoolIds, x \in DepositAmounts :
                DepositLiquidity(a, p, x)
           \/ \E n \in Advances : AdvanceEpochs(n)
           \/ \E p \in PoolIds : StallAdvance(p)
           \/ UNCHANGED vars
  <2>1. UNCHANGED <<live, rates, positions>>
    BY <1>7 DEF RegisterAssetConfig, Deposit, DepositLiquidity, AdvanceEpochs,
                StallAdvance, bookVars, vars
  <2> QED  BY <2>1 DEF RatesMove
<1> QED  BY <1>1, <1>2, <1>3, <1>4, <1>5, <1>6, <1>7 DEF Next, AdvanceLoop

LEMMA CheckAlways == Spec => []CheckInv
<1>1. Init => CheckInv
  BY DEF Init, CheckInv, CheckpointsAgree, Known
<1>2. IInv /\ CheckInv /\ [Next]_vars => CheckInv'
  <2> SUFFICES ASSUME IInv, CheckInv, [Next]_vars PROVE CheckInv'  OBVIOUS
  <2>1. TypeOK /\ TypeOK'  BY NextInv DEF IInv
  <2> QED  BY <2>1, StepsMoveOne, RatesMoveKeeps, CheckpointsMoveKeeps
<1>3. Spec => [](IInv /\ CheckInv)
  BY InitInv, NextInv, <1>1, <1>2, PTL DEF Spec
<1> QED  BY <1>3, PTL

\* Accrual never rewrites the past: two checkpoints of one pool and epoch are
\* the same, and no checkpoint is ahead of its pool, whatever the rates were
\* and whichever advances failed.
THEOREM CheckpointsConsistent == Spec => []CheckpointsAgree
<1>1. CheckInv => CheckpointsAgree  BY DEF CheckInv
<1> QED  BY <1>1, CheckAlways, PTL

---------------------------------------------------------------------------
\* The debt of a position

Recorded(pos) ==
    <<pos.principal, pos.opened, pos.checkpoint, pos.pending_interest,
      pos.pending_penalty, pos.effective_maturity_epoch>>

\* A step leaves the recorded debt of a position and its locks alone, ...
SameDebt(q) ==
    /\ Known(q) /\ Recorded(positions'[q]) = Recorded(positions[q])
    /\ LocksOf(q)' = LocksOf(q) /\ BoundaryLocksOf(q)' = BoundaryLocksOf(q)

\* ... takes a lock on it, which materializes its debt off the boundary, ...
TakesLock(q) ==
    LET pos == positions[q]  new == positions'[q]
    IN  /\ Known(q) /\ UNCHANGED <<now, rates>>
        /\ new.principal = pos.principal /\ new.opened = pos.opened
        /\ new.checkpoint = RateOf(q)
        /\ \E l \in LockIds :
             /\ l \notin LocksOf(q) /\ LocksOf(q)' = LocksOf(q) \cup {l}
             /\ IsBoundary(now, pos.effective_maturity_epoch) => l \in BoundaryLocksOf(q)'
        /\ BoundaryLocksOf(q) \subseteq BoundaryLocksOf(q)'
        /\ ~IsBoundary(now, pos.effective_maturity_epoch) =>
             /\ new.pending_interest = Interest(pos, RateOf(q))
             /\ new.pending_penalty = Penalty(pos, RateOf(q), now)

\* ... or opens it.
Opens(q) ==
    /\ ~Known(q) /\ LocksOf(q)' = {}
    /\ positions'[q].checkpoint = positions'[q].opened
    /\ positions'[q].pending_interest = 0

\* Steps that record no new lock only change the status of some.
KeepsLocks ==
    \A l \in LockIds :
        /\ locks'[l] = Absent <=> locks[l] = Absent
        /\ locks[l] # Absent =>
             <<locks'[l].position, locks'[l].created_epoch, locks'[l].previous_maturity>>
               = <<locks[l].position, locks[l].created_epoch, locks[l].previous_maturity>>

LEMMA KeptLocks ==
    ASSUME KeepsLocks, NEW q \in PositionIds
    PROVE  LocksOf(q)' = LocksOf(q) /\ BoundaryLocksOf(q)' = BoundaryLocksOf(q)
<1>1. LocksOf(q)' = LocksOf(q)  BY DEF KeepsLocks, LocksOf
<1>2. \A l \in LocksOf(q) :
        /\ locks'[l].created_epoch = locks[l].created_epoch
        /\ locks'[l].previous_maturity = locks[l].previous_maturity
  BY DEF KeepsLocks, LocksOf
<1> QED  BY <1>1, <1>2 DEF BoundaryLocksOf

LEMMA ReleasedLock ==
    ASSUME NEW lock \in Lock
    PROVE  LET new == [lock EXCEPT !.status = "Released"]
           IN  /\ new # Absent /\ new.position = lock.position
               /\ new.created_epoch = lock.created_epoch
               /\ new.previous_maturity = lock.previous_maturity
<1> DEFINE new == [lock EXCEPT !.status = "Released"]
<1>1. new \in Lock  BY DEF Lock
<1>2. new # Absent  BY <1>1, AbsentAssumption
<1> QED  BY <1>2 DEF Lock

\* The changes that leave the recorded debt of a position alone.
LEMMA LeavingKeepsDebt ==
    ASSUME NEW pos \in Position, NEW new \in {DetachLock(pos), Close(pos), Expire(pos)}
    PROVE  Recorded(new) = Recorded(pos)
  BY DEF DetachLock, Close, Expire, TransitionTo, Position, Recorded

LEMMA LockTakesDebt ==
    ASSUME IInv, IInv', NEW p \in PositionIds, NEW r \in Nat, LockPosition(p, r),
           NEW q \in PositionIds, Known(q)'
    PROVE  SameDebt(q) \/ TakesLock(q)
<1> DEFINE pos     == positions[p]
           carried == IF IsBoundary(now, pos.effective_maturity_epoch) THEN pos
                      ELSE Materialize(pos, RateOf(p), now)
<1>1. Known(p) /\ QuoteFits(pos, RateOf(p), now) /\ UNCHANGED <<now, rates>>
  BY DEF LockPosition
<1>2. PICK l \in NextId(locks, Absent) :
        /\ \E lock : /\ lock.position = p /\ lock.created_epoch = now
                     /\ lock.previous_maturity = pos.effective_maturity_epoch
                     /\ locks' = [locks EXCEPT ![l] = lock]
        /\ positions' = [positions EXCEPT ![p] = AttachLock(carried, l, r, RateOf(p))]
  BY DEF LockPosition
<1>3. l \in LockIds /\ locks[l] = Absent  BY DEF NextId, IInv, TypeOK
<1>4. pos \in Position /\ RateOf(p) \in Accrual /\ now \in Nat
  BY <1>1, BookTypes DEF IInv
<1>5. /\ locks'[l].position = p /\ locks'[l].created_epoch = now
      /\ locks'[l].previous_maturity = pos.effective_maturity_epoch
      /\ \A k \in LockIds : k # l => locks'[k] = locks[k]
  BY <1>2, <1>3 DEF IInv, TypeOK
<1>6. carried \in Position
  BY <1>1, <1>4, MaterializeTyped
<1>7. /\ carried.principal = pos.principal /\ carried.opened = pos.opened
      /\ ~IsBoundary(now, pos.effective_maturity_epoch) =>
           /\ carried.pending_interest = Interest(pos, RateOf(p))
           /\ carried.pending_penalty = Penalty(pos, RateOf(p), now)
  <2>1. CASE IsBoundary(now, pos.effective_maturity_epoch)  BY <2>1
  <2>2. CASE ~IsBoundary(now, pos.effective_maturity_epoch)
    <3>1. \A x, y \in Nat : x <= y => x + SaturatingSub(y, x) = y
      BY DEF SaturatingSub
    <3>2. /\ pos.pending_interest \in Nat /\ pos.pending_penalty \in Nat
          /\ Interest(pos, RateOf(p)) \in Nat /\ Penalty(pos, RateOf(p), now) \in Nat
      BY <1>4, DebtNat, AmountIffFits DEF Position
    <3>3. /\ pos.pending_interest <= Interest(pos, RateOf(p))
          /\ pos.pending_penalty <= Penalty(pos, RateOf(p), now)
      <4>1. /\ AmountDelta(RateOf(p).interest_index, pos.principal,
                           pos.checkpoint.interest_index) \in Nat
            /\ AmountDelta(RateOf(p).penalty_index, pos.principal,
                           pos.checkpoint.penalty_index) \in Nat
        BY <1>4, AmountDeltaNat, AmountIffFits DEF Position, Accrual
      <4> QED  BY <3>2, <4>1 DEF Interest, Penalty
    <3>4. carried = Materialize(pos, RateOf(p), now)  BY <2>2
    <3> HIDE DEF carried
    <3>5. /\ carried.principal = pos.principal /\ carried.opened = pos.opened
          /\ carried.pending_interest = pos.pending_interest
               + SaturatingSub(Interest(pos, RateOf(p)), pos.pending_interest)
          /\ carried.pending_penalty = pos.pending_penalty
               + SaturatingSub(Penalty(pos, RateOf(p), now), pos.pending_penalty)
      BY <1>4, <3>4 DEF Materialize, Position
    <3> QED  BY <3>1, <3>2, <3>3, <3>5
  <2> QED  BY <2>1, <2>2
<1> HIDE DEF carried
<1>8. /\ positions'[p] = AttachLock(carried, l, r, RateOf(p))
      /\ \A k \in PositionIds : k # p => positions'[k] = positions[k]
  BY <1>2 DEF IInv, TypeOK
<1>9. /\ positions'[p].principal = pos.principal /\ positions'[p].opened = pos.opened
      /\ positions'[p].checkpoint = RateOf(p) /\ positions'[p].active_lock = l
      /\ positions'[p].pending_interest = carried.pending_interest
      /\ positions'[p].pending_penalty = carried.pending_penalty
  BY <1>6, <1>7, <1>8 DEF AttachLock, TransitionTo, Position
<1>10. \A k \in LocksOf(q) :
         /\ k # l /\ k \in LocksOf(q)'
         /\ locks'[k] = locks[k]
  BY <1>3, <1>5 DEF LocksOf
<1>11. CASE q # p
  <2>1. positions'[q] = positions[q] /\ Known(q)
    BY <1>8, <1>11 DEF Known
  <2>2. LocksOf(q)' = LocksOf(q)
    BY <1>3, <1>5, <1>11 DEF LocksOf
  <2>3. BoundaryLocksOf(q)' = BoundaryLocksOf(q)
    BY <1>10, <2>2 DEF BoundaryLocksOf
  <2> QED  BY <2>1, <2>2, <2>3 DEF SameDebt, Recorded
<1>12. CASE q = p
  <2>1. locks'[l] # Absent
    <3>1. positions'[p].active_lock # NoLock
      BY <1>3, <1>9 DEF LockIds, NoLock
    <3> QED  BY <1>9, <1>12, <3>1 DEF IInv, LockBinding, CarriesLock
  <2>2. LocksOf(q)' = LocksOf(q) \cup {l} /\ l \notin LocksOf(q)
    BY <1>3, <1>5, <1>12, <2>1 DEF LocksOf
  <2>3. BoundaryLocksOf(q) \subseteq BoundaryLocksOf(q)'
    BY <1>10, <2>2 DEF BoundaryLocksOf
  <2>4. IsBoundary(now, pos.effective_maturity_epoch) => l \in BoundaryLocksOf(q)'
    BY <1>5, <2>2 DEF BoundaryLocksOf
  <2> QED  BY <1>1, <1>3, <1>7, <1>9, <1>12, <2>2, <2>3, <2>4 DEF TakesLock
<1> QED  BY <1>11, <1>12

LEMMA OpenTakesDebt ==
    ASSUME IInv, NEW a \in Accounts, NEW k \in PoolIds, NEW x \in Nat, NEW c \in Nat,
           NEW m \in Nat, OpenPosition(a, k, x, c, m), NEW q \in PositionIds, Known(q)'
    PROVE  SameDebt(q) \/ Opens(q)
<1>1. KeepsLocks  BY DEF OpenPosition, KeepsLocks
<1>2. LocksOf(q)' = LocksOf(q) /\ BoundaryLocksOf(q)' = BoundaryLocksOf(q)
  BY <1>1, KeptLocks
<1>3. CASE Known(q)
  <2>1. positions'[q] = positions[q]
    <3>1. ASSUME NEW id \in NextId(positions, Absent)
          PROVE  id # q
      BY <1>3 DEF NextId, Known
    <3> QED  BY <3>1 DEF OpenPosition, IInv, TypeOK
  <2> QED  BY <1>2, <1>3, <2>1 DEF SameDebt
<1>4. CASE ~Known(q)
  <2>1. PICK id \in NextId(positions, Absent) :
          positions' = [positions EXCEPT ![id] = NewPosition(a, k, x, c, m, rates[k])]
    BY <1>4 DEF OpenPosition, Known
  <2>2. positions'[q] = NewPosition(a, k, x, c, m, rates[k])
    BY <1>4, <2>1 DEF Known, NextId, IInv, TypeOK
  <2>3. LocksOf(q) = {}
    BY <1>4 DEF LocksOf, IInv, LockBinding
  <2> QED  BY <1>2, <1>4, <2>2, <2>3 DEF Opens, NewPosition
<1> QED  BY <1>3, <1>4

LEMMA ReleaseKeepsDebt ==
    ASSUME IInv, NEW l \in LockIds, ReleaseLock(l), NEW q \in PositionIds, Known(q)'
    PROVE  SameDebt(q)
<1>1. /\ locks[l] # Absent
      /\ locks' = [locks EXCEPT ![l] = [locks[l] EXCEPT !.status = "Released"]]
      /\ positions' = [positions EXCEPT ![locks[l].position] = DetachLock(@)]
  BY DEF ReleaseLock
<1>2. locks[l] \in Lock  BY <1>1, BookTypes DEF IInv
<1>3. KeepsLocks
  BY <1>1, <1>2, ReleasedLock DEF KeepsLocks, IInv, TypeOK
<1>4. PICK p \in PositionIds : p = locks[l].position /\ Known(p)
  BY <1>1, <1>2 DEF IInv, LockBinding, Lock
<1>5. CASE q = p
  <2>1. positions[q] \in Position  BY <1>4, <1>5, BookTypes DEF IInv
  <2>2. positions'[q] = DetachLock(positions[q])
    BY <1>1, <1>4, <1>5 DEF IInv, TypeOK
  <2>3. Recorded(positions'[q]) = Recorded(positions[q])
    BY <2>1, <2>2, LeavingKeepsDebt
  <2> QED  BY <1>3, <1>4, <1>5, <2>3, KeptLocks DEF SameDebt
<1>6. CASE q # p
  <2>1. positions'[q] = positions[q] /\ Known(q)
    BY <1>1, <1>4, <1>6 DEF IInv, TypeOK, Known
  <2> QED  BY <1>3, <2>1, KeptLocks DEF SameDebt
<1> QED  BY <1>5, <1>6

LEMMA LeavingDebt ==
    ASSUME IInv, NEW p \in PositionIds,
           \/ \E a \in Accounts, d \in DueLimits : SettlePosition(p, a, d)
           \/ ExpirePosition(p),
           NEW q \in PositionIds, Known(q)'
    PROVE  SameDebt(q)
<1>1. /\ Known(p)
      /\ \/ UNCHANGED <<positions, locks>>
         \/ /\ positions' = [positions EXCEPT ![p] = Close(@)]
            /\ locks' = [l \in LockIds |->
                           IF l = positions[p].active_lock
                           THEN [locks[l] EXCEPT !.status = "Released"] ELSE locks[l]]
         \/ /\ positions' = [positions EXCEPT ![p] = Expire(@)]
            /\ UNCHANGED locks
  BY DEF SettlePosition, ExpirePosition
<1>2. KeepsLocks
  <2>1. CASE UNCHANGED locks  BY <2>1 DEF KeepsLocks
  <2>2. CASE locks' = [l \in LockIds |->
                         IF l = positions[p].active_lock
                         THEN [locks[l] EXCEPT !.status = "Released"] ELSE locks[l]]
    <3>1. \A l \in LockIds : l = positions[p].active_lock => locks[l] # Absent
      <4>1. \A l \in LockIds : l # NoLock  BY DEF LockIds, NoLock
      <4> QED  BY <1>1, <4>1 DEF IInv, LockBinding, CarriesLock
    <3>2. \A l \in LockIds : locks[l] # Absent => locks[l] \in Lock
      BY BookTypes DEF IInv
    <3> QED  BY <2>2, <3>1, <3>2, ReleasedLock DEF KeepsLocks
  <2> QED  BY <1>1, <2>1, <2>2
<1>3. CASE q = p
  <2>1. positions[q] \in Position  BY <1>1, <1>3, BookTypes DEF IInv
  <2>2. positions'[q] \in {positions[q], DetachLock(positions[q]), Close(positions[q]),
                           Expire(positions[q])}
    BY <1>1, <1>3 DEF IInv, TypeOK
  <2>3. Recorded(positions'[q]) = Recorded(positions[q])
    BY <2>1, <2>2, LeavingKeepsDebt
  <2> QED  BY <1>1, <1>2, <1>3, <2>3, KeptLocks DEF SameDebt
<1>4. CASE q # p
  <2>1. positions'[q] = positions[q] /\ Known(q)
    BY <1>1, <1>4 DEF IInv, TypeOK, Known
  <2> QED  BY <1>2, <2>1, KeptLocks DEF SameDebt
<1> QED  BY <1>3, <1>4

LEMMA StepsMoveDebt ==
    ASSUME IInv, IInv', [Next]_vars, NEW q \in PositionIds, Known(q)'
    PROVE  SameDebt(q) \/ TakesLock(q) \/ Opens(q)
<1>1. ASSUME NEW a \in Accounts, NEW k \in PoolIds, NEW x \in Principals,
             NEW c \in Collaterals, NEW m \in Maturities, OpenPosition(a, k, x, c, m)
      PROVE  SameDebt(q) \/ Opens(q)
  <2>1. x \in Nat /\ c \in Nat /\ m \in Nat  BY LedgerAssumption
  <2> QED  BY <1>1, <2>1, OpenTakesDebt
<1>2. ASSUME NEW p \in PositionIds, NEW r \in Releases, LockPosition(p, r)
      PROVE  SameDebt(q) \/ TakesLock(q)
  BY <1>2, LockTakesDebt, LedgerAssumption
<1>3. ASSUME NEW l \in LockIds, ReleaseLock(l) PROVE SameDebt(q)
  BY <1>3, ReleaseKeepsDebt
<1>4. ASSUME NEW p \in PositionIds,
             \/ \E a \in Accounts, d \in DueLimits : SettlePosition(p, a, d)
             \/ ExpirePosition(p)
      PROVE  SameDebt(q)
  BY <1>4, LeavingDebt
<1>5. CASE UNCHANGED <<positions, locks>>
  <2>1. KeepsLocks /\ Known(q) /\ positions'[q] = positions[q]
    BY <1>5 DEF KeepsLocks, Known
  <2> QED  BY <2>1, KeptLocks DEF SameDebt
<1>6. \/ UNCHANGED <<positions, locks>>
      \/ \E a \in Accounts, k \in PoolIds, x \in Principals, c \in Collaterals,
            m \in Maturities : OpenPosition(a, k, x, c, m)
      \/ \E p \in PositionIds, r \in Releases : LockPosition(p, r)
      \/ \E l \in LockIds : ReleaseLock(l)
      \/ \E p \in PositionIds :
            \/ \E a \in Accounts, d \in DueLimits : SettlePosition(p, a, d)
            \/ ExpirePosition(p)
  BY DEF Next, AdvanceLoop, vars, bookVars, RegisterAssetConfig, CreatePool, Deposit,
         DepositLiquidity, AdvanceEpochs, AccruePool, StallAdvance
<1> QED  BY <1>1, <1>2, <1>3, <1>4, <1>5, <1>6

---------------------------------------------------------------------------
\* The account of the interest

\* What position p has been charged up to its checkpoint, at most: the growth
\* of the index since it was opened.
Charged(p) ==
    AmountDelta(positions[p].checkpoint.interest_index, positions[p].principal,
                positions[p].opened.interest_index)

(***************************************************************************)
(* The pending interest of a position is that growth, less a unit for each *)
(* lock after the first: a position that was never locked has its opening  *)
(* as checkpoint, so its first materialization splits no quotient.         *)
(***************************************************************************)
Accounted(p) ==
    LET pos == positions[p]
        taken == Cardinality(LocksOf(p))
    IN  /\ pos.pending_interest <= Charged(p)
        /\ taken = 0 => pos.checkpoint = pos.opened /\ pos.pending_interest = 0
        /\ taken > 0 => Charged(p) <= pos.pending_interest + taken - 1
AccountInv ==
    \A p \in PositionIds : Known(p) /\ BoundaryLocksOf(p) = {} => Accounted(p)

LEMMA LocksFinite ==
    ASSUME NEW p \in PositionIds
    PROVE  IsFiniteSet(LocksOf(p)) /\ Cardinality(LocksOf(p)) \in Nat
<1>1. IsFiniteSet(LockIds)
  <2>1. 1 \in Int /\ MaxLocks \in Int  BY DebtAssumption
  <2> QED  BY <2>1, FS_Interval DEF LockIds
<1>2. LocksOf(p) \subseteq LockIds  BY DEF LocksOf
<1> QED  BY <1>1, <1>2, FS_Subset, FS_CardinalityType

\* The numbers behind the debt of a position, and their order.
LEMMA DebtOrder ==
    ASSUME TypeOK, CheckInv, NEW p \in PositionIds, Known(p)
    PROVE  LET pos == positions[p]
           IN  /\ pos.principal \in Nat
               /\ pos.pending_interest \in Nat /\ pos.pending_penalty \in Nat
               /\ pos.opened.interest_index \in Nat
               /\ pos.checkpoint.interest_index \in Nat
               /\ pos.checkpoint.penalty_index \in Nat
               /\ RateOf(p).interest_index \in Nat /\ RateOf(p).penalty_index \in Nat
               /\ pos.opened.interest_index <= pos.checkpoint.interest_index
               /\ pos.checkpoint.interest_index <= RateOf(p).interest_index
               /\ Charged(p) \in Nat
<1>1. positions[p] \in Position  BY BookTypes
<1>2. /\ positions[p].opened \in Accrual /\ positions[p].checkpoint \in Accrual
      /\ RateOf(p) \in Accrual
      /\ Precedes(positions[p].opened, positions[p].checkpoint)
      /\ Precedes(positions[p].checkpoint, RateOf(p))
  BY SamplesTyped
<1>3. /\ positions[p].principal \in Nat /\ positions[p].pending_interest \in Nat
      /\ positions[p].pending_penalty \in Nat
  BY <1>1, AmountIffFits DEF Position
<1>4. \A a \in Accrual : a.interest_index \in Nat /\ a.penalty_index \in Nat
  BY AmountIffFits DEF Accrual
<1> QED  BY <1>2, <1>3, <1>4, AmountDeltaNat DEF Precedes, Charged

LEMMA AccountStep ==
    IInv /\ IInv' /\ CheckInv /\ AccountInv /\ [Next]_vars => AccountInv'
<1> SUFFICES ASSUME IInv, IInv', CheckInv, AccountInv, [Next]_vars,
                    NEW p \in PositionIds, Known(p)', BoundaryLocksOf(p)' = {}
             PROVE  Accounted(p)'
  BY DEF AccountInv
<1> DEFINE pos == positions[p]
           new == positions'[p]
<1>1. CASE SameDebt(p)
  <2>1. Accounted(p)  BY <1>1 DEF SameDebt, AccountInv
  <2>2. /\ new.principal = pos.principal /\ new.opened = pos.opened
        /\ new.checkpoint = pos.checkpoint
        /\ new.pending_interest = pos.pending_interest
        /\ LocksOf(p)' = LocksOf(p)
    BY <1>1 DEF SameDebt, Recorded
  <2> QED  BY <2>1, <2>2 DEF Accounted, Charged
<1>2. CASE TakesLock(p)
  <2>1. /\ Known(p) /\ new.principal = pos.principal /\ new.opened = pos.opened
        /\ new.checkpoint = RateOf(p)
        /\ new.pending_interest = Interest(pos, RateOf(p))
        /\ BoundaryLocksOf(p) = {}
    BY <1>2 DEF TakesLock
  <2>2. PICK l \in LockIds : l \notin LocksOf(p) /\ LocksOf(p)' = LocksOf(p) \cup {l}
    BY <1>2 DEF TakesLock
  <2>3. Accounted(p)  BY <2>1 DEF AccountInv
  <2>4. PICK k \in Nat : k = Cardinality(LocksOf(p)) /\ Cardinality(LocksOf(p)') = k + 1
    <3> DEFINE old == LocksOf(p)
    <3>1. IsFiniteSet(old) /\ Cardinality(old) \in Nat  BY LocksFinite
    <3>2. l \notin old /\ LocksOf(p)' = old \cup {l}  BY <2>2
    <3> HIDE DEF old
    <3>3. Cardinality(old \cup {l}) = Cardinality(old) + 1  BY <3>1, <3>2, FS_AddElement
    <3> QED  BY <3>1, <3>2, <3>3 DEF old
  <2>5. PICK x \in Nat, a \in Nat, b \in Nat, c \in Nat :
          /\ x = pos.principal /\ a = pos.opened.interest_index
          /\ b = pos.checkpoint.interest_index /\ c = RateOf(p).interest_index
          /\ a <= b /\ b <= c
    BY <2>1, DebtOrder DEF IInv
  <2>6. PICK d \in Nat : d = pos.pending_interest
    BY <2>1, DebtOrder DEF IInv
  <2>7. /\ AmountDelta(b, x, a) + AmountDelta(c, x, b) <= AmountDelta(c, x, a)
        /\ AmountDelta(c, x, a) <= AmountDelta(b, x, a) + AmountDelta(c, x, b) + 1
        /\ AmountDelta(b, x, a) \in Nat /\ AmountDelta(c, x, b) \in Nat
        /\ AmountDelta(c, x, a) \in Nat
    BY <2>5, DeltaSplit, AmountDeltaNat
  <2>8. /\ Charged(p) = AmountDelta(b, x, a) /\ Charged(p)' = AmountDelta(c, x, a)
        /\ new.pending_interest = AmountDelta(c, x, b) + d
    BY <2>1, <2>5, <2>6 DEF Charged, Interest
  <2>9. /\ d <= AmountDelta(b, x, a)
        /\ k = 0 => a = b /\ d = 0
        /\ k > 0 => AmountDelta(b, x, a) <= d + k - 1
    BY <2>3, <2>4, <2>5, <2>6, <2>8 DEF Accounted
  <2>10. new.pending_interest <= Charged(p)'
    BY <2>6, <2>7, <2>8, <2>9
  <2>11. Charged(p)' <= new.pending_interest + (k + 1) - 1
    <3>1. CASE k = 0
      BY <2>6, <2>7, <2>8, <2>9, <3>1
    <3>2. CASE k > 0
      BY <2>4, <2>6, <2>7, <2>8, <2>9, <3>2
    <3> QED  BY <2>4, <3>1, <3>2
  <2> QED  BY <2>4, <2>10, <2>11 DEF Accounted
<1>3. CASE Opens(p)
  <2>1. /\ new.checkpoint = new.opened /\ new.pending_interest = 0
        /\ LocksOf(p)' = {}
    BY <1>3 DEF Opens
  <2>2. Cardinality(LocksOf(p)') = 0  BY <2>1, FS_EmptySet
  <2>3. Charged(p)' = 0
    <3>1. new \in Position  BY DEF IInv, TypeOK, Known
    <3>2. new.principal \in Nat /\ new.opened.interest_index \in Nat
      BY <3>1, AmountIffFits DEF Position, Accrual
    <3> QED  BY <2>1, <3>2, DeltaNone DEF Charged
  <2> QED  BY <2>1, <2>2, <2>3 DEF Accounted
<1> QED  BY <1>1, <1>2, <1>3, StepsMoveDebt

LEMMA AccountAlways == Spec => []AccountInv
<1>1. Init => AccountInv  BY DEF Init, AccountInv, Known
<1>2. IInv /\ CheckInv /\ AccountInv /\ [Next]_vars => AccountInv'
  BY NextInv, AccountStep
<1>3. Spec => []IInv /\ []CheckInv  BY Inductive, CheckAlways
<1> QED  BY <1>1, <1>2, <1>3, PTL DEF Spec

\* However often the debt of a position is materialized, and at whatever
\* rates: it owes the growth of the index since its opening, less at most
\* one unit per lock.
THEOREM InterestAccounted == Spec => []InterestFullyAccounted
<1>1. IInv /\ CheckInv /\ AccountInv => InterestFullyAccounted
  <2> SUFFICES ASSUME IInv, CheckInv, AccountInv, NEW p \in PositionIds, Known(p),
                      BoundaryLocksOf(p) = {}
               PROVE  LET full == AmountDelta(RateOf(p).interest_index,
                                              positions[p].principal,
                                              positions[p].opened.interest_index)
                          owed == Interest(positions[p], RateOf(p))
                      IN  owed <= full /\ full <= owed + Cardinality(LocksOf(p))
    BY DEF InterestFullyAccounted
  <2>1. PICK k \in Nat : k = Cardinality(LocksOf(p))  BY LocksFinite
  <2>2. PICK x \in Nat, a \in Nat, b \in Nat, c \in Nat, d \in Nat :
          /\ x = positions[p].principal /\ a = positions[p].opened.interest_index
          /\ b = positions[p].checkpoint.interest_index /\ c = RateOf(p).interest_index
          /\ d = positions[p].pending_interest
          /\ a <= b /\ b <= c
    BY DebtOrder DEF IInv
  <2>3. /\ AmountDelta(b, x, a) + AmountDelta(c, x, b) <= AmountDelta(c, x, a)
        /\ AmountDelta(c, x, a) <= AmountDelta(b, x, a) + AmountDelta(c, x, b) + 1
        /\ AmountDelta(b, x, a) \in Nat /\ AmountDelta(c, x, b) \in Nat
        /\ AmountDelta(c, x, a) \in Nat
    BY <2>2, DeltaSplit, AmountDeltaNat
  <2>4. Interest(positions[p], RateOf(p)) = AmountDelta(c, x, b) + d
    BY <2>2 DEF Interest
  <2>5. /\ d <= AmountDelta(b, x, a)
        /\ k = 0 => a = b /\ d = 0
        /\ k > 0 => AmountDelta(b, x, a) <= d + k - 1
    BY <2>1, <2>2 DEF AccountInv, Accounted, Charged
  <2>6. AmountDelta(c, x, a) <= AmountDelta(c, x, b) + d + k
    <3>1. CASE k = 0
      BY <2>3, <2>5, <3>1
    <3>2. CASE k > 0
      BY <2>1, <2>2, <2>3, <2>5, <3>2
    <3> QED  BY <2>1, <3>1, <3>2
  <2>7. AmountDelta(c, x, b) + d <= AmountDelta(c, x, a)
    BY <2>2, <2>3, <2>5
  <2> QED  BY <2>1, <2>2, <2>4, <2>6, <2>7
<1> QED  BY <1>1, Inductive, CheckAlways, AccountAlways, PTL

---------------------------------------------------------------------------
\* No step lowers a debt

\* A position that is known stays known; the clock never goes back.
LEMMA StaysKnown ==
    ASSUME IInv, [Next]_vars, NEW q \in PositionIds, Known(q)
    PROVE  Known(q)' /\ positions'[q].pool = positions[q].pool
<1>1. positions[q] \in Position  BY BookTypes DEF IInv
<1>2. positions'[q] \in Position
  BY <1>1, StepsMovePositions, PositionSteps, AttachLockTyped DEF PositionMoves, SameCourse
<1>3. positions'[q].pool = positions[q].pool
  BY StepsMovePositions, MovesKeepTerms DEF IInv
<1> QED  BY <1>2, <1>3, AbsentAssumption DEF Known

LEMMA ClockMovesOn == IInv /\ [Next]_vars => now <= now'
<1> SUFFICES ASSUME IInv, [Next]_vars PROVE now <= now'  OBVIOUS
<1>1. now \in Nat  BY DEF IInv, TypeOK
<1>2. ASSUME NEW n \in Advances, AdvanceEpochs(n) PROVE now <= now'
  <2>1. n \in Nat /\ now' = now + n  BY <1>2, LedgerAssumption DEF AdvanceEpochs
  <2> QED  BY <1>1, <2>1
<1>3. \A a \in Accounts, p \in PoolIds, x \in Principals, c \in Collaterals,
          m \in Maturities : OpenPosition(a, p, x, c, m) => UNCHANGED now
  BY DEF OpenPosition
<1>4. \A p \in PositionIds, r \in Releases : LockPosition(p, r) => UNCHANGED now
  BY DEF LockPosition
<1>5. \A p \in PositionIds, a \in Accounts, d \in DueLimits :
        SettlePosition(p, a, d) => UNCHANGED now
  BY DEF SettlePosition
<1>6. \A p \in PositionIds : ExpirePosition(p) => UNCHANGED now
  BY DEF ExpirePosition
<1>7. \A l \in LockIds : ReleaseLock(l) => UNCHANGED now
  BY DEF ReleaseLock
<1>8. \A s \in Assets, config \in AssetConfigs :
        RegisterAssetConfig(s, config) => UNCHANGED now
  BY DEF RegisterAssetConfig
<1>9. \A p \in PoolIds : CreatePool(p) => UNCHANGED now
  BY DEF CreatePool
<1>10. \A a \in Accounts, s \in Assets, x \in DepositAmounts :
         Deposit(a, s, x) => UNCHANGED now
  BY DEF Deposit
<1>11. \A a \in Accounts, p \in PoolIds, x \in DepositAmounts :
         DepositLiquidity(a, p, x) => UNCHANGED now
  BY DEF DepositLiquidity
<1>12. AdvanceLoop \/ UNCHANGED vars => UNCHANGED now
  BY DEF AdvanceLoop, AccruePool, StallAdvance, vars
<1>13. UNCHANGED now => now <= now'  BY <1>1
<1> QED  BY <1>2, <1>3, <1>4, <1>5, <1>6, <1>7, <1>8, <1>9, <1>10, <1>11, <1>12, <1>13
        DEF Next

\* The rates that a position is charged by only grow.
LEMMA RatesOnlyGrow ==
    ASSUME IInv, IInv', CheckInv, [Next]_vars, NEW q \in PositionIds, Known(q)
    PROVE  /\ RateOf(q) \in Accrual /\ RateOf(q)' \in Accrual
           /\ RateOf(q).interest_index <= RateOf(q)'.interest_index
           /\ RateOf(q).penalty_index <= RateOf(q)'.penalty_index
<1>1. positions'[q].pool = positions[q].pool /\ Known(q)'  BY StaysKnown
<1>2. positions[q].pool \in live /\ RateOf(q) \in Accrual
  BY SamplesTyped DEF IInv
<1>3. /\ RateOf(q) = rates[positions[q].pool]
      /\ RateOf(q)' = rates'[positions[q].pool]
  BY <1>1 DEF RateOf
<1>4. RateOf(q)' \in Accrual
  BY <1>2, <1>3 DEF IInv, TypeOK
<1>5. /\ RateOf(q).interest_index \in Nat /\ RateOf(q).penalty_index \in Nat
      /\ RateOf(q)'.interest_index \in Nat /\ RateOf(q)'.penalty_index \in Nat
  BY <1>2, <1>4, AmountIffFits DEF Accrual
<1>6. CASE RatesMove  BY <1>2, <1>3, <1>4, <1>5, <1>6 DEF RatesMove
<1>7. CASE CheckpointsMove  BY <1>2, <1>3, <1>4, <1>5, <1>7 DEF CheckpointsMove
<1> QED  BY <1>6, <1>7, StepsMoveOne

\* What a recorded debt comes to never falls as the clock and the rates move
\* on: a late position stays late.
LEMMA SameDebtGrows ==
    ASSUME IInv, IInv', CheckInv, [Next]_vars, NEW q \in PositionIds, SameDebt(q)
    PROVE  Owed(q) <= Owed(q)'
<1> DEFINE pos == positions[q]
<1>1. /\ Known(q)
      /\ positions'[q].principal = pos.principal
      /\ positions'[q].checkpoint = pos.checkpoint
      /\ positions'[q].pending_interest = pos.pending_interest
      /\ positions'[q].pending_penalty = pos.pending_penalty
      /\ positions'[q].effective_maturity_epoch = pos.effective_maturity_epoch
  BY DEF SameDebt, Recorded
<1>2. PICK x \in Nat, a \in Nat, b \in Nat, d \in Nat, e \in Nat, i \in Nat, j \in Nat :
        /\ x = pos.principal /\ d = pos.pending_interest /\ e = pos.pending_penalty
        /\ a = pos.checkpoint.interest_index /\ b = pos.checkpoint.penalty_index
        /\ i = RateOf(q).interest_index /\ j = RateOf(q).penalty_index
  BY <1>1, DebtOrder DEF IInv
<1>3. PICK i2 \in Nat, j2 \in Nat :
        /\ i2 = RateOf(q)'.interest_index /\ j2 = RateOf(q)'.penalty_index
        /\ i <= i2 /\ j <= j2
  BY <1>1, <1>2, RatesOnlyGrow, AmountIffFits DEF Accrual
<1>4. /\ AmountDelta(i, x, a) \in Nat /\ AmountDelta(i2, x, a) \in Nat
      /\ AmountDelta(j, x, b) \in Nat /\ AmountDelta(j2, x, b) \in Nat
      /\ AmountDelta(i, x, a) <= AmountDelta(i2, x, a)
      /\ AmountDelta(j, x, b) <= AmountDelta(j2, x, b)
  BY <1>2, <1>3, AmountDeltaNat, DeltaMonotone
<1>5. /\ Interest(pos, RateOf(q)) = AmountDelta(i, x, a) + d
      /\ Interest(pos, RateOf(q))' = AmountDelta(i2, x, a) + d
  BY <1>1, <1>2, <1>3 DEF Interest
<1>6. IsLate(pos, now) => IsLate(pos, now)'
  <2>1. pos \in Position /\ now \in Nat /\ now' \in Nat
    BY <1>1, BookTypes DEF IInv, TypeOK
  <2>2. pos.effective_maturity_epoch \in Nat  BY <2>1 DEF Position
  <2> QED  BY <1>1, <2>1, <2>2, ClockMovesOn DEF IsLate
<1>7. /\ Penalty(pos, RateOf(q), now)
           = e + IF IsLate(pos, now) THEN AmountDelta(j, x, b) ELSE 0
      /\ Penalty(pos, RateOf(q), now)'
           = e + IF IsLate(pos, now)' THEN AmountDelta(j2, x, b) ELSE 0
  BY <1>1, <1>2, <1>3 DEF Penalty
<1>8. /\ Penalty(pos, RateOf(q), now) \in Nat /\ Penalty(pos, RateOf(q), now)' \in Nat
      /\ Penalty(pos, RateOf(q), now) <= Penalty(pos, RateOf(q), now)'
  BY <1>2, <1>4, <1>6, <1>7
<1>9. Fee(pos) \in Nat /\ Fee(pos)' = Fee(pos)
  BY <1>1, <1>2, MulBpsNat, DebtAssumption DEF Fee
<1> QED  BY <1>1, <1>2, <1>4, <1>5, <1>8, <1>9 DEF Owed, TotalDue

\* Off the boundary a lock moves the debt into the pending amounts, whole.
LEMMA LockKeepsOwed ==
    ASSUME IInv, IInv', CheckInv, [Next]_vars, NEW q \in PositionIds, TakesLock(q),
           ~IsBoundary(now, positions[q].effective_maturity_epoch)
    PROVE  Owed(q) <= Owed(q)'
<1> DEFINE pos == positions[q]
           new == positions'[q]
<1>1. /\ Known(q) /\ now' = now /\ rates' = rates
      /\ new.principal = pos.principal /\ new.checkpoint = RateOf(q)
      /\ new.pending_interest = Interest(pos, RateOf(q))
      /\ new.pending_penalty = Penalty(pos, RateOf(q), now)
  BY DEF TakesLock
<1>2. Known(q)' /\ RateOf(q)' = RateOf(q)
  BY <1>1, StaysKnown DEF RateOf
<1>3. PICK x \in Nat, i \in Nat, j \in Nat :
        x = pos.principal /\ i = RateOf(q).interest_index /\ j = RateOf(q).penalty_index
  BY <1>1, DebtOrder DEF IInv
<1>4. new.pending_interest \in Nat /\ new.pending_penalty \in Nat
  <2>1. new \in Position  BY <1>2 DEF IInv, TypeOK, Known
  <2> QED  BY <2>1, AmountIffFits DEF Position
<1>5. AmountDelta(i, x, i) = 0 /\ AmountDelta(j, x, j) = 0
  BY <1>3, DeltaNone
<1>6. Interest(pos, RateOf(q))' = new.pending_interest
  BY <1>1, <1>2, <1>3, <1>4, <1>5 DEF Interest
<1>7. Penalty(pos, RateOf(q), now)' = new.pending_penalty
  BY <1>1, <1>2, <1>3, <1>4, <1>5 DEF Penalty
<1>8. Fee(pos) \in Nat /\ Fee(pos)' = Fee(pos)
  BY <1>1, <1>3, MulBpsNat, DebtAssumption DEF Fee
<1> QED  BY <1>1, <1>3, <1>4, <1>6, <1>7, <1>8 DEF Owed, TotalDue

\* No order of advances, locks and releases lowers what an open position
\* owes, except a lock taken within one epoch of its maturity.
THEOREM DebtNeverFalls == Spec => DebtNeverFallsOffBoundary
<1>1. ASSUME IInv, IInv', CheckInv, [Next]_vars, NEW p \in PositionIds, Known(p)
      PROVE  \/ Owed(p)' >= Owed(p)
             \/ /\ LocksOf(p)' # LocksOf(p)
                /\ IsBoundary(now, positions[p].effective_maturity_epoch)
  <2>1. Known(p)'  BY <1>1, StaysKnown
  <2>2. CASE SameDebt(p)
    <3>1. Owed(p) <= Owed(p)'  BY <1>1, <2>2, SameDebtGrows
    <3> QED  BY <3>1
  <2>3. CASE TakesLock(p)
    <3>1. LocksOf(p)' # LocksOf(p)  BY <2>3 DEF TakesLock
    <3>2. CASE IsBoundary(now, positions[p].effective_maturity_epoch)
      BY <3>1, <3>2
    <3>3. CASE ~IsBoundary(now, positions[p].effective_maturity_epoch)
      <4>1. Owed(p) <= Owed(p)'  BY <1>1, <2>3, <3>3, LockKeepsOwed
      <4> QED  BY <4>1
    <3> QED  BY <3>2, <3>3
  <2>4. ~Opens(p)  BY <1>1 DEF Opens
  <2> QED  BY <1>1, <2>1, <2>2, <2>3, <2>4, StepsMoveDebt
<1>2. IInv /\ IInv' /\ CheckInv /\ [Next]_vars
        => [\A p \in PositionIds :
              Known(p) /\ AdmitsClose(positions[p]) /\ AdmitsClose(positions'[p]) =>
                 \/ Owed(p)' >= Owed(p)
                 \/ /\ LocksOf(p)' # LocksOf(p)
                    /\ IsBoundary(now, positions[p].effective_maturity_epoch)]_vars
  BY <1>1
<1>3. Spec => []IInv /\ []CheckInv /\ [][Next]_vars
  BY Inductive, CheckAlways, PTL DEF Spec
<1> QED  BY <1>2, <1>3, PTL DEF DebtNeverFallsOffBoundary
=============================================================================
