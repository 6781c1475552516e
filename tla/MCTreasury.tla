----------------------------- MODULE MCTreasury -----------------------------
(***************************************************************************)
(* Two pools share the treasuries of two recipients; the largest amount is *)
(* small, so that a treasury fills up before its routes.                   *)
(***************************************************************************)
EXTENDS Treasury, TLC

CONSTANTS p1, p2, interest, gold, ann, ben, none

MCPools == {p1, p2}
MCBuckets == {interest}
MCAssets == {gold}
MCOwners == {ann, ben}

\* Recipients are interchangeable, and so are pools.
Symmetry == Permutations(MCOwners) \cup Permutations(MCPools)
=============================================================================
