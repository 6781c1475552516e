-------------------------- MODULE PolicyLifecycle --------------------------
(***************************************************************************)
(* What governance promises of policy operations, seen from outside: each  *)
(* is proposed at most once, is then enacted or dropped at most once, and  *)
(* is enacted only after the operation it depends on.  Who decides, and    *)
(* when, is left to Governance, which implements this.                     *)
(***************************************************************************)
CONSTANTS Ops, NoOp, Predecessor

VARIABLE phase

Phases == {"unknown", "proposed", "enacted", "dropped"}

Init == phase = [op \in Ops |-> "unknown"]

Move(op, from, to) ==
    phase[op] = from /\ phase' = [phase EXCEPT ![op] = to]

Propose(op) == Move(op, "unknown", "proposed")
Enact(op) ==
    /\ Predecessor[op] # NoOp =>
         Predecessor[op] \in Ops /\ phase[Predecessor[op]] = "enacted"
    /\ Move(op, "proposed", "enacted")
Drop(op) == Move(op, "proposed", "dropped")

Next == \E op \in Ops : Propose(op) \/ Enact(op) \/ Drop(op)

Spec == Init /\ [][Next]_phase
=============================================================================
