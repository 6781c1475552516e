------------------------------ MODULE MCStress ------------------------------
(***************************************************************************)
(* Three positions of two borrowers in two pools, with the denominators of *)
(* the code.  The client takes two pools and two positions only, so that   *)
(* portfolios on both sides of its limits are evaluated.  The largest      *)
(* amount is chosen so that evaluations overflow at several of their steps.*)
(***************************************************************************)
EXTENDS Stress, TLC

CONSTANTS ann, ben, p1, p2, none

MCBorrowers == {ann, ben}
MCPools == {p1, p2}

\* Borrowers are interchangeable, and so are pools.
Symmetry == Permutations(MCBorrowers) \cup Permutations(MCPools)
=============================================================================
