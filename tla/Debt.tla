-------------------------------- MODULE Debt --------------------------------
(***************************************************************************)
(* Rates, positions and debt: src/rates, src/position and src/debt.        *)
(*                                                                         *)
(* An accrual state and a checkpoint are the same three numbers (epoch,    *)
(* interest index, penalty index); the last applied rate and utilization,  *)
(* which AccrualState also records, are outputs that nothing reads back.   *)
(***************************************************************************)
EXTENDS Amounts

CONSTANTS
    Accounts, PoolIds,
    MaxLocks,          \* bound: locks that a run may create
    CloseFee,          \* DebtCalculator::close_fee_bps
    DebtReserveFactor, \* DebtCalculator::reserve_factor_bps
    LockGrace          \* EpochPolicy::lock_grace_epochs

ASSUME DebtAssumption ==
    /\ MaxLocks \in Nat
    /\ CloseFee \in Nat /\ DebtReserveFactor \in Nat /\ LockGrace \in Nat

LockIds == 1 .. MaxLocks
NoLock  == 0              \* active_lock = None

---------------------------------------------------------------------------
\* Rates

RateModel == [base_bps : Nat, utilization_slope_bps : Nat,
              penalty_bps : Nat, max_bps : Nat]

Accrual == [epoch : Nat, interest_index : Amount, penalty_index : Amount]

InitialAccrual(epoch) ==
    [epoch |-> epoch, interest_index |-> INDEX_SCALE, penalty_index |-> INDEX_SCALE]

\* RateModel::quote_bps: Bps::new rejects the raw rate before it is clamped
\* to max_bps.
RawRate(m, utilization) ==
    m.base_bps + (m.utilization_slope_bps * utilization) \div BPS_DENOMINATOR
QuoteAccepted(m, utilization) == RawRate(m, utilization) <= MAX_BPS
QuoteBps(m, utilization) ==
    IF RawRate(m, utilization) > m.max_bps THEN m.max_bps ELSE RawRate(m, utilization)

\* Mutant: the indices grow without the epoch that says so.
AdvanceOne_undated(accrual, utilization, m) ==
    [accrual EXCEPT
        !.interest_index = CompoundBps(@, QuoteBps(m, utilization)),
        !.penalty_index = CompoundBps(@, m.penalty_bps)]

\* AccrualState::advance_one, and whether it succeeds
AdvanceOne(accrual, utilization, m) ==
    [epoch |-> accrual.epoch + 1,
     interest_index |-> CompoundBps(accrual.interest_index, QuoteBps(m, utilization)),
     penalty_index |-> CompoundBps(accrual.penalty_index, m.penalty_bps)]
AdvanceFits(accrual, utilization, m) ==
    /\ QuoteAccepted(m, utilization)
    /\ CompoundFits(accrual.interest_index, QuoteBps(m, utilization))
    /\ CompoundFits(accrual.penalty_index, m.penalty_bps)

---------------------------------------------------------------------------
\* Positions.  InGrace, Matured and Cancelled are never stored: the first
\* two are only quoted, the last is never assigned.

StoredState == {"Active", "Locked", "Expired", "Closed"}

(***************************************************************************)
(* PositionRecord.  `opened` is the sample that the rate history holds for *)
(* opened_epoch.                                                           *)
(***************************************************************************)
Position == [borrower : Accounts, pool : PoolIds,
             principal : Amount, collateral : Amount,
             opened : Accrual,
             effective_maturity_epoch : Nat,
             checkpoint : Accrual,
             pending_interest : Amount, pending_penalty : Amount,
             state : StoredState, state_version : Nat,
             active_lock : LockIds \cup {NoLock}]

NewPosition(borrower, pool, principal, collateral, maturity, accrual) ==
    [borrower |-> borrower, pool |-> pool,
     principal |-> principal, collateral |-> collateral,
     opened |-> accrual, effective_maturity_epoch |-> maturity,
     checkpoint |-> accrual, pending_interest |-> 0, pending_penalty |-> 0,
     state |-> "Active", state_version |-> 0, active_lock |-> NoLock]

\* Mutant: the version is not counted.
TransitionTo_unversioned(pos, state) == [pos EXCEPT !.state = state]

\* PositionRecord::transition_to
TransitionTo(pos, state) ==
    [pos EXCEPT !.state = state, !.state_version = @ + 1]

\* Mutant: the release of the lock does not become the maturity.
AttachLock_unextended(pos, lock, release, accrual) ==
    TransitionTo([pos EXCEPT !.active_lock = lock, !.checkpoint = accrual], "Locked")

AttachLock(pos, lock, release, accrual) ==
    TransitionTo([pos EXCEPT !.active_lock = lock,
                             !.effective_maturity_epoch = release,
                             !.checkpoint = accrual], "Locked")

\* Mutant: the position stays Locked without a lock.
DetachLock_locked(pos) == [pos EXCEPT !.active_lock = NoLock]

\* PositionRecord::release_lock
DetachLock(pos) ==
    LET freed == [pos EXCEPT !.active_lock = NoLock]
    IN  IF pos.state = "Locked" THEN TransitionTo(freed, "Active") ELSE freed

Close(pos)  == TransitionTo([pos EXCEPT !.active_lock = NoLock], "Closed")
Expire(pos) == TransitionTo([pos EXCEPT !.active_lock = NoLock], "Expired")

\* Mutant: the state is not tested.
AdmitsClose_any(pos) == TRUE

AdmitsClose(pos) == pos.state # "Closed"

---------------------------------------------------------------------------
\* DebtCalculator

Interest(pos, accrual) ==
    AmountDelta(accrual.interest_index, pos.principal, pos.checkpoint.interest_index)
        + pos.pending_interest

\* The penalty index counts only once the effective maturity has passed.
IsLate(pos, now) == now > pos.effective_maturity_epoch
Penalty(pos, accrual, now) ==
    pos.pending_penalty +
        IF IsLate(pos, now)
        THEN AmountDelta(accrual.penalty_index, pos.principal, pos.checkpoint.penalty_index)
        ELSE 0

Fee(pos) == MulBps(pos.principal, CloseFee)

\* Mutant: the payer is not charged the closing fee that the pool receives.
TotalDue_nofee(pos, accrual, now) ==
    pos.principal + Interest(pos, accrual) + Penalty(pos, accrual, now)

TotalDue(pos, accrual, now) ==
    pos.principal + Interest(pos, accrual) + Penalty(pos, accrual, now) + Fee(pos)

\* DebtCalculator::quote returns a quote, and total_due a sum
QuoteFits(pos, accrual, now) ==
    /\ AmountDeltaFits(accrual.interest_index, pos.principal, pos.checkpoint.interest_index)
    /\ IsLate(pos, now) =>
         AmountDeltaFits(accrual.penalty_index, pos.principal, pos.checkpoint.penalty_index)
    /\ Fits(Interest(pos, accrual))
    /\ Fits(Penalty(pos, accrual, now))
    /\ MulBpsFits(pos.principal, CloseFee)
    /\ Fits(Interest(pos, accrual) + Penalty(pos, accrual, now))
    /\ MulBpsFits(Interest(pos, accrual) + Penalty(pos, accrual, now), DebtReserveFactor)
DueFits(pos, accrual, now) ==
    QuoteFits(pos, accrual, now) /\ Fits(TotalDue(pos, accrual, now))

\* Mutants: the new charges replace the pending ones instead of being added;
\* the pending penalty is forgotten.
Materialize_overwrite(pos, accrual, now) ==
    [pos EXCEPT
        !.pending_interest = SaturatingSub(Interest(pos, accrual), @),
        !.pending_penalty = SaturatingSub(Penalty(pos, accrual, now), @),
        !.checkpoint = accrual]
Materialize_interest(pos, accrual, now) ==
    [pos EXCEPT
        !.pending_interest = @ + SaturatingSub(Interest(pos, accrual), @),
        !.checkpoint = accrual]

\* quote_materialized_delta followed by PositionRecord::materialize
Materialize(pos, accrual, now) ==
    [pos EXCEPT
        !.pending_interest = @ + SaturatingSub(Interest(pos, accrual), @),
        !.pending_penalty = @ + SaturatingSub(Penalty(pos, accrual, now), @),
        !.checkpoint = accrual]

\* DebtCalculator::classify: the state a quote reports.
Classify(pos, now) ==
    LET maturity == pos.effective_maturity_epoch
    IN  CASE pos.state \in {"Closed", "Locked"}  -> pos.state
          [] pos.state \notin {"Closed", "Locked"} /\ now < maturity -> "Active"
          [] pos.state \notin {"Closed", "Locked"} /\ now = maturity -> "Matured"
          [] pos.state \notin {"Closed", "Locked"}
               /\ now > maturity /\ now <= maturity + LockGrace -> "InGrace"
          [] OTHER -> "Expired"

\* Epoch::is_boundary_with
IsBoundary(e, f) == e - f \in {-1, 0, 1}
=============================================================================
