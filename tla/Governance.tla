----------------------------- MODULE Governance -----------------------------
(***************************************************************************)
(* GovernanceRegistry of src/governance: policy operations that governors  *)
(* approve, a timelock and a predecessor hold back, and a guardian may     *)
(* cancel.                                                                 *)
(*                                                                         *)
(* The identity of an operation is the digest of its whole specification,  *)
(* so an operation stands for its digest and its eta, expiry and           *)
(* predecessor are functions of it; a chain of predecessors cannot be      *)
(* circular.  (The digest is taken to be injective, its text fields to be  *)
(* valid.)  The registry has no clock: every call passes the epoch it      *)
(* believes in, which may lag behind the clock by MaxLag.                  *)
(***************************************************************************)
EXTENDS Integers, FiniteSets

CONSTANTS
    Callers,       \* accounts that may call the registry
    Governors, Guardian,
    Quorum, MinDelay, MaxWindow,   \* GovernancePolicy
    Ops, NoOp,     \* operations, and "no predecessor"
    Eta, ExpiresAt, Predecessor,   \* fields of PolicyOperationSpec
    Absent,        \* value of an id that is not scheduled
    Ticks,         \* numbers of epochs that the clock may advance by
    MaxLag,        \* how stale the epoch passed by a caller may be
    MaxEpoch       \* bound of the clock in a run

\* GovernanceRegistry::new and GovernancePolicy::validate
ASSUME PolicyAssumption ==
    /\ IsFiniteSet(Governors) /\ Governors # {}
    /\ Quorum \in 1 .. Cardinality(Governors)
    /\ MinDelay \in Nat \ {0} /\ MaxWindow \in Nat \ {0}

ASSUME OperationsAssumption ==
    /\ NoOp \notin Ops
    /\ Eta \in [Ops -> Nat] /\ ExpiresAt \in [Ops -> Nat]
    /\ Predecessor \in [Ops -> Ops \cup {NoOp}]
    /\ Ticks \subseteq Nat /\ MaxLag \in Nat /\ MaxEpoch \in Nat

VARIABLES
    now,         \* the epoch of the clock outside the registry
    operations   \* GovernanceRegistry::operations

vars == <<now, operations>>

NoEpoch == -1    \* executed_at, cancelled_at = None
OperationStatus == {"Scheduled", "Executed", "Cancelled"}

PolicyOperation ==
    [status : OperationStatus, approvals : SUBSET Governors,
     scheduled_at : Nat,
     executed_at : Nat \cup {NoEpoch}, cancelled_at : Nat \cup {NoEpoch}]

ASSUME AbsentOperation == Absent \notin PolicyOperation

Known(op) == operations[op] # Absent
StatusIs(op, status) == Known(op) /\ operations[op].status = status

\* The epochs that a caller may take for the present one.
Believed == {e \in 0 .. now : now - e <= MaxLag}

Init == now = 0 /\ operations = [op \in Ops |-> Absent]

---------------------------------------------------------------------------
\* GovernanceRegistry::decision

Approved(op) == Cardinality(operations[op].approvals) >= Quorum

\* Mutant: an operation that is not scheduled does not hold back another.
PredecessorSatisfied_absent(op) ==
    Predecessor[op] = NoOp \/ ~Known(Predecessor[op])
                           \/ StatusIs(Predecessor[op], "Executed")

PredecessorSatisfied(op) ==
    Predecessor[op] = NoOp \/ StatusIs(Predecessor[op], "Executed")

\* Mutant: nothing ever expires.
Lifecycle_unending(op, e) ==
    CASE StatusIs(op, "Executed") -> "Executed"
      [] StatusIs(op, "Cancelled") -> "Cancelled"
      [] StatusIs(op, "Scheduled") /\ ~Approved(op) -> "PendingApprovals"
      [] StatusIs(op, "Scheduled") /\ Approved(op) /\ e < Eta[op] -> "Timelocked"
      [] OTHER -> IF PredecessorSatisfied(op) THEN "Ready" ELSE "BlockedPredecessor"

\* Expiry is tested before the quorum, the quorum before the timelock.
Lifecycle(op, e) ==
    LET open == StatusIs(op, "Scheduled") /\ e < ExpiresAt[op]
    IN  CASE StatusIs(op, "Executed") -> "Executed"
          [] StatusIs(op, "Cancelled") -> "Cancelled"
          [] StatusIs(op, "Scheduled") /\ ~open -> "Expired"
          [] open /\ ~Approved(op) -> "PendingApprovals"
          [] open /\ Approved(op) /\ e < Eta[op] -> "Timelocked"
          [] open /\ Approved(op) /\ e >= Eta[op]
               /\ ~PredecessorSatisfied(op) -> "BlockedPredecessor"
          [] OTHER -> "Ready"

Executable(op, e) == Lifecycle(op, e) = "Ready"

---------------------------------------------------------------------------
\* Calls

\* Eta is itself a u64, so the overflow of e + MinDelay is refused as well.
Schedule(op, e) ==
    /\ ExpiresAt[op] > Eta[op]
    /\ Eta[op] >= e + MinDelay
    /\ ExpiresAt[op] - Eta[op] <= MaxWindow
    /\ ~Known(op)
    /\ operations' = [operations EXCEPT ![op] =
         [status |-> "Scheduled", approvals |-> {}, scheduled_at |-> e,
          executed_at |-> NoEpoch, cancelled_at |-> NoEpoch]]
    /\ UNCHANGED now

\* Mutant: approving twice takes the approval back.
Approve_toggle(op, governor) ==
    /\ governor \in Governors
    /\ StatusIs(op, "Scheduled")
    /\ operations' = [operations EXCEPT ![op].approvals =
         IF governor \in @ THEN @ \ {governor} ELSE @ \cup {governor}]
    /\ UNCHANGED now

Approve(op, governor) ==
    /\ governor \in Governors
    /\ StatusIs(op, "Scheduled")
    /\ operations' = [operations EXCEPT ![op].approvals = @ \cup {governor}]
    /\ UNCHANGED now

Execute(op, e) ==
    /\ Known(op) /\ Executable(op, e)
    /\ operations' = [operations EXCEPT ![op].status = "Executed",
                                        ![op].executed_at = e]
    /\ UNCHANGED now

\* Mutant: what has been executed can still be cancelled.
Cancel_any(op, caller, e) ==
    /\ caller = Guardian /\ Known(op)
    /\ operations' = [operations EXCEPT ![op].status = "Cancelled",
                                        ![op].cancelled_at = e]
    /\ UNCHANGED now

Cancel(op, caller, e) ==
    /\ caller = Guardian
    /\ StatusIs(op, "Scheduled")
    /\ operations' = [operations EXCEPT ![op].status = "Cancelled",
                                        ![op].cancelled_at = e]
    /\ UNCHANGED now

\* EpochClock::advance_epochs
Tick(n) ==
    /\ n > 0 /\ now + n <= MaxEpoch
    /\ now' = now + n /\ UNCHANGED operations

Advance == \E n \in Ticks : Tick(n)

Next ==
    \/ \E op \in Ops, e \in Believed : Schedule(op, e)
    \/ \E op \in Ops, a \in Callers : Approve(op, a)
    \/ \E op \in Ops, e \in Believed : Execute(op, e)
    \/ \E op \in Ops, a \in Callers, e \in Believed : Cancel(op, a, e)
    \/ Advance

Spec == Init /\ [][Next]_vars

\* The clock is advanced from outside, whatever the registry does.
FairSpec == Spec /\ WF_vars(Advance)
=============================================================================
