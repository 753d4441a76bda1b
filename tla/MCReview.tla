------------------------------ MODULE MCReview ------------------------------
(***************************************************************************)
(* Review for TLC.  part names the behaviour under way: "claims", one      *)
(* review row at a time of work that is claimed, disputed and reworked, or *)
(* "admission", two review rows of work that makes no claim.               *)
(***************************************************************************)
EXTENDS Review, TLC

VARIABLE part

Admission == INSTANCE Review WITH MaxTasks <- 3, MaxEpoch <- 2, Commits <- {1}, Outcomes <- {}

PartsInit ==
    \/ part = "claims" /\ Init
    \/ part = "admission" /\ Admission!Init

PartsNext ==
    \/ part = "claims" /\ Next /\ UNCHANGED part
    \/ part = "admission" /\ Admission!Next /\ UNCHANGED part

PartsSpec == PartsInit /\ [][PartsNext]_<<src, reviews, claims, runs, need, part>>

\* Members are alike.
Symmetry == Permutations(Members)
=============================================================================
