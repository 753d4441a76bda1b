------------------------------ MODULE MCAttempts ------------------------------
(***************************************************************************)
(* Instances of Attempts for TLC, and the refinement of TaskOwnership.     *)
(***************************************************************************)
EXTENDS AttemptsRefinement, TLC

Symmetry == Permutations(Members) \cup Permutations(Tasks)
=============================================================================
