---------------------------- MODULE MCGovernance ----------------------------
(***************************************************************************)
(* Governance with two operations, the second after the first, whose       *)
(* windows overlap so that the first can expire, or be cancelled, before   *)
(* the second is due.  One of the governors is the guardian as well, and   *)
(* a stranger calls too.                                                   *)
(***************************************************************************)
EXTENDS GovernanceProperties

CONSTANTS g1, g2, g3, stranger, opA, opB, none, noOp

MCGovernors == {g1, g2, g3}
MCCallers == {g1, g2, g3, stranger}
MCOps == {opA, opB}
MCEta == [op \in Ops |-> 2]
MCExpiresAt == [op \in Ops |-> IF op = opA THEN 4 ELSE 5]
MCPredecessor == [op \in Ops |-> IF op = opA THEN noOp ELSE opA]
=============================================================================
