------------------------ MODULE GovernanceProperties ------------------------
(***************************************************************************)
(* What governance guarantees, against approvals, cancellations and clock  *)
(* ticks in any order.                                                     *)
(***************************************************************************)
EXTENDS Governance

\* The registry holds well-formed operations, with the epoch of execution or
\* cancellation recorded exactly for those that ended that way.
TypeOK ==
    /\ now \in Nat
    /\ operations \in [Ops -> PolicyOperation \cup {Absent}]
    /\ \A op \in Ops : Known(op) =>
         LET rec == operations[op]
         IN  /\ rec.executed_at # NoEpoch <=> rec.status = "Executed"
             /\ rec.cancelled_at # NoEpoch <=> rec.status = "Cancelled"

\* Whatever has been executed had a quorum of governors, was executed in its
\* window and a full delay after it was scheduled, and its predecessor was
\* executed before it.
Justified(op) ==
    LET rec  == operations[op]
        pred == Predecessor[op]
    IN  /\ Cardinality(rec.approvals) >= Quorum
        /\ rec.scheduled_at + MinDelay <= rec.executed_at
        /\ Eta[op] <= rec.executed_at /\ rec.executed_at < ExpiresAt[op]
        /\ pred # NoOp =>
             /\ StatusIs(pred, "Executed")
             /\ operations[pred].executed_at <= rec.executed_at + MaxLag
ExecutionJustified == \A op \in Ops : StatusIs(op, "Executed") => Justified(op)

\* The stages an operation may still reach from each stage of its decision.
Onward(stage) ==
    CASE stage = "PendingApprovals" ->
           {"Timelocked", "BlockedPredecessor", "Ready", "Expired", "Cancelled"}
      [] stage = "Timelocked" -> {"BlockedPredecessor", "Ready", "Expired", "Cancelled"}
      [] stage = "BlockedPredecessor" -> {"Ready", "Expired", "Cancelled"}
      [] stage = "Ready" -> {"Executed", "Expired", "Cancelled"}
      [] stage = "Expired" -> {"Cancelled"}
      [] OTHER -> {}

\* A caller behind the clock executes what the clock calls expired: at most
\* MaxLag epochs late, and at an epoch inside the window.
RevivedByStaleCaller(op) ==
    /\ operations[op].status = "Scheduled" /\ operations'[op].status = "Executed"
    /\ operations'[op].executed_at < now
    /\ now < ExpiresAt[op] + MaxLag

\* Seen at the epoch of the clock, an operation never goes back: neither an
\* approval, nor a tick, nor what happens to its predecessor undoes a stage,
\* and a stale epoch can only undo the expiry, for a bounded time.
LifecycleNeverRegresses ==
    [][\A op \in Ops : Known(op) =>
          LET before == Lifecycle(op, now)  after == Lifecycle(op, now)'
          IN  \/ after = before
              \/ after \in Onward(before)
              \/ before = "Expired" /\ RevivedByStaleCaller(op)]_vars

\* docs/governance.md: an operation that has expired is not ready again, and
\* SECURITY.md: it is not executable.  Only a caller behind the clock, whose
\* epoch execute takes on trust, gets past this.
ExpiredNotExecuted ==
    [][\A op \in Ops : Known(op) /\ Lifecycle(op, now) = "Expired"
                         => ~StatusIs(op, "Executed")']_vars

\* Governance implements the abstract life of its operations.
Phase ==
    [op \in Ops |->
       CASE StatusIs(op, "Scheduled") -> "proposed"
         [] StatusIs(op, "Executed")  -> "enacted"
         [] StatusIs(op, "Cancelled") -> "dropped"
         [] OTHER -> "unknown"]
Abstract == INSTANCE PolicyLifecycle WITH phase <- Phase
ImplementsLifecycle == Abstract!Spec

\* As long as the clock runs, no operation stays open for ever: it is
\* executed, cancelled or expires.
EveryOperationEnds ==
    \A op \in Ops :
        StatusIs(op, "Scheduled")
          ~> Known(op) /\ Lifecycle(op, now) \in {"Executed", "Cancelled", "Expired"}
=============================================================================
