--------------------------- MODULE ReviewContract ---------------------------
(***************************************************************************)
(* What independent review promises of one piece of work: a member who     *)
(* never worked on it judges what was offered, a dispute reopens what was  *)
(* accepted, and nothing accepted is in dispute.                           *)
(***************************************************************************)
CONSTANTS Members, None

VARIABLES
    standing,  \* open, offered, accepted, rejected or withdrawn
    authors,   \* the members who have worked on it
    judge,     \* the member whose verdict accepted it
    disputed   \* a claim of it is disputed

contract == <<standing, authors, judge, disputed>>

Init ==
    /\ standing = "open"
    /\ authors = {}
    /\ judge = None
    /\ disputed = FALSE

Work(m) ==
    /\ standing = "open"
    /\ authors' = authors \cup {m}
    /\ UNCHANGED <<standing, judge, disputed>>

Offer ==
    /\ standing = "open"
    /\ standing' = "offered"
    /\ UNCHANGED <<authors, judge, disputed>>

Judge(m) ==
    /\ standing = "offered"
    /\ m \notin authors
    /\ \/ standing' = "accepted" /\ judge' = m
       \/ standing' = "rejected" /\ UNCHANGED judge
    /\ disputed' = FALSE
    /\ UNCHANGED authors

\* A dispute of accepted work takes its acceptance away.
Dispute ==
    /\ standing \in {"open", "offered", "accepted"}
    /\ standing' = IF standing = "accepted" THEN "offered" ELSE standing
    /\ judge' = None
    /\ disputed' = TRUE
    /\ UNCHANGED authors

Reopen ==
    /\ standing = "rejected"
    /\ standing' = "open"
    /\ UNCHANGED <<authors, judge, disputed>>

Withdraw ==
    /\ standing \notin {"accepted", "withdrawn"}
    /\ standing' = "withdrawn"
    /\ disputed' = FALSE
    /\ UNCHANGED <<authors, judge>>

Next ==
    \/ \E m \in Members : Work(m) \/ Judge(m)
    \/ Offer \/ Dispute \/ Reopen \/ Withdraw

Spec == Init /\ [][Next]_contract
-----------------------------------------------------------------------------
\* Accepted work was judged by a member who never worked on it, and none of its
\* claims is in dispute (canOwnReview, SwarmRuntime.verify, challenge).
IndependentAndUndisputed ==
    standing = "accepted" => judge \in Members \ authors /\ ~disputed
=============================================================================
