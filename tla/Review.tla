------------------------------- MODULE Review -------------------------------
(***************************************************************************)
(* Independent review of one piece of work, the source: the reviews of it, *)
(* the two queued sections of a verdict with the checks between them, the  *)
(* claims the verdict judges, and the host's own admission of a missing    *)
(* review.                                                                 *)
(*                                                                         *)
(* A commit is a number; a source that declares no checks has checks = 0,  *)
(* and each amendment that strengthens them is the next number.  An        *)
(* attempt is named by its row and the row's epoch.  The rest of the board *)
(* is only whether something else on it moves.                             *)
(***************************************************************************)
EXTENDS Naturals, FiniteSets, Sequences

CONSTANTS
    Members, None,
    MaxTasks,     \* mission.budget.maxTasks, the source included
    MaxRework,    \* task.maxRework of the source
    Checks,       \* the declared checks at first; 0 is none
    MaxChecks,    \* bound: how far the owner strengthens them
    Commits,      \* bound: what a capture may produce
    Claims,       \* bound: the source's claims, published in the order 1, 2, ...
    Outcomes,     \* bound: whether a claim's outcome is firm (FALSE is inconclusive)
    MaxDisputes,  \* bound: challenges of one claim
    MaxEpoch      \* bound: a row is taken only below this epoch

ASSUME ReviewConstants ==
    /\ None \notin Members
    /\ Outcomes \subseteq BOOLEAN
    /\ {MaxTasks, MaxRework, Checks, MaxChecks, MaxDisputes, MaxEpoch} \subseteq Nat
    /\ IsFiniteSet(Claims) /\ Claims = 1 .. Cardinality(Claims)
    /\ Commits \subseteq Nat /\ 0 \notin Commits

VARIABLES
    src,      \* the source row
    reviews,  \* its review rows, in admission order
    claims,   \* the claims published on the source
    runs,     \* verdicts past their first section: their checks run
    need      \* the review need: its id, its grace, and the blocker last recorded under it

vars == <<src, reviews, claims, runs, need>>

Terminal == {"accepted", "cancelled"}
Reviews == DOMAIN reviews
Rows == {src} \cup {reviews[r] : r \in Reviews}

Fields ==
    [status : {"pending", "running", "submitted", "accepted", "blocked", "cancelled"},
     stop : {"none", "handoff", "invalidated"}, epoch : 0 .. 3 * MaxEpoch,
     holder : Members \cup {None}, assignee : Members \cup {None}, prior : SUBSET Members]

Row(row) == [f \in {"status", "stop", "epoch", "holder", "assignee", "prior"} |-> row[f]]

Blockers == {"deferred", "budget", "members", "automatic", "board-running"}

TypeOK ==
    /\ \A row \in Rows : Row(row) \in Fields
    /\ Len(reviews) < MaxTasks
    /\ src.commit \in Commits \cup {0}
    /\ src.checks \in Checks .. MaxChecks
    /\ src.rejected \in [1 .. Len(src.rejected) -> Commits]
    /\ Len(src.rejected) <= MaxRework
    /\ \A c \in Claims : claims[c].disputes \in 0 .. MaxDisputes
    /\ need.named \in Blockers \cup {"none"}

NewReview(assignee, auto) ==
    [status |-> "pending", stop |-> "none", epoch |-> 0, holder |-> None, assignee |-> assignee,
     prior |-> {}, judged |-> 0, deferred |-> 0, evidence |-> FALSE, basis |-> 0,
     auto |-> auto, withdrawn |-> 0]

Init ==
    /\ src = [status |-> "pending", stop |-> "none", epoch |-> 0, holder |-> None, assignee |-> None,
              prior |-> {}, commit |-> 0, checks |-> Checks, rejected |-> <<>>]
    /\ reviews = <<>>
    /\ claims = [c \in Claims |->
            [status |-> "unpublished", disputes |-> 0, firm |-> TRUE, supersedes |-> FALSE, archived |-> FALSE]]
    /\ runs = {}
    /\ need = [id |-> 0, ripe |-> FALSE, named |-> "none"]
-----------------------------------------------------------------------------
\* Who authored the source: its past owners, its attempt's owner, its assignee.
Authors(row) == (row.prior \cup {row.holder, row.assignee}) \ {None}

\* Mutant: past owners are not asked for.
CanOwnUnlessCurrent(m) == m \notin {src.holder, src.assignee}

CanOwnReview(m) == m \notin Authors(src)

EndAttempt(row) ==
    [row EXCEPT !.epoch = @ + 1, !.prior = @ \cup ({row.holder} \ {None}), !.holder = None]

Fence(row, status, reason) ==
    IF row.stop = "none"
    THEN [EndAttempt(row) EXCEPT !.status = status,
                                 !.stop = IF row.status = "running" THEN reason ELSE "none"]
    ELSE [row EXCEPT !.status = status, !.prior = @ \cup ({row.holder} \ {None}), !.holder = None,
                     !.stop = IF reason = "invalidated" THEN reason ELSE @]

QuiescencePending(row) == row.status = "blocked" /\ row.stop # "none"

\* A member whose stop is owed or that holds an open attempt takes no work.
Busy(m) == \E row \in Rows : row.holder = m /\ row.status = "running"

\* The review bound to a member that would become its author (strandedReview).
Stranded(m) ==
    \E r \in Reviews : reviews[r].status \in {"pending", "running"} /\ reviews[r].assignee = m

AssignmentAllows(row, m) == row.assignee \in {m, None}

Judgeable(c) ==
    /\ claims[c].status \notin {"unpublished", "refuted"}
    /\ ~claims[c].archived
    /\ src.status # "cancelled"

\* The evidence revision a verdict is fenced by.
Revision == [c \in Claims |-> <<claims[c].status, claims[c].disputes>>]

Taken(row, m) ==
    [row EXCEPT !.epoch = @ + 1, !.status = "running", !.holder = m, !.assignee = m]

\* The reviews of a source that closes, or that a rework reopens with one review
\* kept (retireReviewSiblings); blocked ones too when the source has closed.
RetireSiblings(rs, keep, blocked) ==
    [r \in DOMAIN rs |->
        IF r # keep /\ (\/ rs[r].status \in {"pending", "running"}
                        \/ QuiescencePending(rs[r])
                        \/ blocked /\ rs[r].status = "blocked")
        THEN Fence(rs[r], "cancelled", "handoff") ELSE rs[r]]

\* The live-review rule: a review that can still reach a verdict, and a member
\* that may own it (liveReviewFor).
Reviewable ==
    \E r \in Reviews :
        /\ reviews[r].status \in {"pending", "running"} \/ QuiescencePending(reviews[r])
        /\ \E m \in Members : CanOwnReview(m) /\ AssignmentAllows(reviews[r], m)
-----------------------------------------------------------------------------
(* The source's own work. *)

TakeSource(m) ==
    /\ src.status = "pending" /\ src.epoch < MaxEpoch
    /\ src.assignee = m \/ (src.assignee = None /\ ~Stranded(m))
    /\ ~Busy(m)
    /\ src' = Taken(src, m)
    /\ UNCHANGED <<reviews, claims, runs, need>>

HandoffSource(to) ==
    /\ src.status = "running"
    /\ to # None => ~Stranded(to)
    /\ src' = [Fence(src, "blocked", "handoff") EXCEPT !.assignee = to]
    /\ UNCHANGED <<reviews, claims, runs, need>>

\* The next claim; it may supersede the one before it.
Publish(firm, supersedes) ==
    /\ src.status = "running"
    /\ \E c \in Claims :
        /\ claims[c].status = "unpublished"
        /\ \A d \in Claims : claims[d].status = "unpublished" => c <= d
        /\ supersedes => c > 1
        /\ claims' = [claims EXCEPT ![c] =
                [@ EXCEPT !.status = "unverified", !.firm = firm, !.supersedes = supersedes]]
    /\ UNCHANGED <<src, reviews, runs, need>>

\* A capture the review already rejected is refused unless a new claim came with it.
Submit(commit) ==
    /\ src.status = "running"
    /\ commit \in {src.rejected[i] : i \in DOMAIN src.rejected} => \E c \in Claims : Judgeable(c)
    /\ src' = [src EXCEPT !.status = "submitted", !.commit = commit]
    /\ need' = [id |-> need.id + 1, ripe |-> FALSE, named |-> "none"]
    /\ UNCHANGED <<reviews, claims, runs>>

Settle(row, to) ==
    /\ row.stop # "none"
    /\ to = [row EXCEPT !.stop = "none",
                        !.status = IF @ \in Terminal THEN @
                                   ELSE IF row.stop = "invalidated" THEN "blocked" ELSE "pending"]

SettleSource ==
    /\ \E to \in {[src EXCEPT !.stop = "none", !.status = s] : s \in {"pending", "blocked", "cancelled"}} :
        Settle(src, to) /\ src' = to
    /\ UNCHANGED <<reviews, claims, runs, need>>
-----------------------------------------------------------------------------
(* The reviews. *)

\* A review is admitted of work that is not closed, bound to nobody or to a
\* member who did not author it.
ProposeReview(assignee) ==
    /\ Len(reviews) + 1 < MaxTasks
    /\ src.status \notin Terminal
    /\ assignee # None => CanOwnReview(assignee)
    /\ reviews' = Append(reviews, NewReview(assignee, 0))
    /\ UNCHANGED <<src, claims, runs, need>>

TakeReview(r, m) ==
    /\ reviews[r].status = "pending" /\ reviews[r].epoch < MaxEpoch
    /\ src.status = "submitted"
    /\ CanOwnReview(m) /\ AssignmentAllows(reviews[r], m)
    /\ ~Busy(m)
    /\ reviews' = [reviews EXCEPT ![r] = [Taken(@, m) EXCEPT !.evidence = FALSE]]
    /\ UNCHANGED <<src, claims, runs, need>>

\* A handoff, or an expired lease, which binds it to nobody.
HandoffReview(r, to) ==
    /\ reviews[r].status = "running"
    /\ to # None => CanOwnReview(to)
    /\ reviews' = [reviews EXCEPT ![r] = [Fence(@, "blocked", "handoff") EXCEPT !.assignee = to]]
    /\ UNCHANGED <<src, claims, runs, need>>

SettleReview(r) ==
    /\ \E s \in {"pending", "blocked", "cancelled"} :
        LET to == [reviews[r] EXCEPT !.stop = "none", !.status = s]
        IN  Settle(reviews[r], to) /\ reviews' = [reviews EXCEPT ![r] = to]
    /\ UNCHANGED <<src, claims, runs, need>>

PublishReview(r) ==
    /\ reviews[r].status = "running"
    /\ reviews' = [reviews EXCEPT ![r].evidence = TRUE]
    /\ UNCHANGED <<src, claims, runs, need>>

\* verify, first section: the facts the checks are about to run against.
BeginVerdict(r, accept) ==
    /\ reviews[r].status = "running"
    /\ src.status = "submitted"
    /\ CanOwnReview(reviews[r].holder)
    /\ \A run \in runs : run.review = r => run.epoch # reviews[r].epoch
    /\ runs' = runs \cup {[review |-> r, epoch |-> reviews[r].epoch, accept |-> accept,
                           commit |-> src.commit, checks |-> src.checks, revision |-> Revision]}
    /\ UNCHANGED <<src, reviews, claims, need>>

Holds(run) ==
    /\ reviews[run.review].status = "running"
    /\ reviews[run.review].epoch = run.epoch

\* Mutant: the second section does not compare the declared checks.
CurrentButChecks(run) ==
    /\ src.status = "submitted" /\ src.commit = run.commit
    /\ Revision = run.revision

\* The source the second section commits against is the one its checks ran against.
Current(run) ==
    /\ src.checks = run.checks
    /\ src.status = "submitted" /\ src.commit = run.commit
    /\ Revision = run.revision

\* What a verdict makes of claim c: a rejection refutes it, an acceptance refutes
\* what a firm judged claim supersedes and verifies the other firm ones.
Judged(c, passed) ==
    LET superseded ==
            \E d \in Claims : d = c + 1 /\ claims[d].supersedes /\ claims[d].firm /\ Judgeable(d)
        verdict == CASE ~passed \/ superseded -> "refuted"
                     [] passed /\ ~superseded /\ claims[c].firm -> "verified"
                     [] OTHER -> "unverified"
    IN  IF Judgeable(c) THEN [claims[c] EXCEPT !.status = verdict] ELSE claims[c]

\* verify, second section, of a run whose attempt or whose facts have moved: refused.
Refused(run) ==
    /\ ~(Holds(run) /\ Current(run))
    /\ runs' = runs \ {run}
    /\ UNCHANGED <<src, reviews, claims, need>>

\* An acceptance is refused where the checks ran in another environment than was
\* delivered, or where no check decides and the reviewer published no evidence.
Unfounded(run) ==
    /\ Holds(run) /\ Current(run) /\ run.accept
    /\ run.checks # 0 \/ ~reviews[run.review].evidence
    /\ runs' = runs \ {run}
    /\ UNCHANGED <<src, reviews, claims, need>>

\* Every failed check is one the host could not run: the review waits for the
\* owner and the source stays submitted.
Defer(run) ==
    /\ Holds(run) /\ Current(run)
    /\ run.checks # 0
    /\ runs' = runs \ {run}
    /\ reviews' = [reviews EXCEPT ![run.review] =
            [@ EXCEPT !.status = "blocked", !.judged = run.commit, !.deferred = run.commit]]
    /\ UNCHANGED <<src, claims, need>>

\* A judgement: the checks pass and the reviewer accepts, or a check fails or the
\* reviewer rejects.
Verdict(run, passed) ==
    /\ Holds(run) /\ Current(run)
    /\ passed => run.accept
    /\ run.checks = 0 => passed = run.accept /\ (passed => reviews[run.review].evidence)
    /\ src' = [src EXCEPT !.status = IF passed THEN "accepted" ELSE "blocked"]
    /\ reviews' = RetireSiblings(
            [reviews EXCEPT ![run.review] =
                [@ EXCEPT !.status = IF passed THEN "accepted" ELSE "blocked",
                          !.judged = run.commit, !.basis = run.checks]],
            run.review, passed)
    /\ claims' = [c \in Claims |-> Judged(c, passed)]
    /\ runs' = runs \ {run}
    /\ UNCHANGED need
-----------------------------------------------------------------------------
(* Disputes and the owner. *)

\* A dispute of a claim a verdict can still judge: accepted work waits for a new
\* verdict, and every review of it that is not waiting is invalidated.
Challenge(c) ==
    /\ Judgeable(c)
    /\ claims[c].disputes < MaxDisputes
    /\ claims' = [claims EXCEPT ![c].status = "challenged", ![c].disputes = @ + 1]
    /\ src' = [src EXCEPT !.status = IF @ = "accepted" THEN "submitted" ELSE @]
    /\ LET hit == {r \in Reviews : reviews[r].status \notin {"pending", "cancelled"}}
       IN  /\ reviews' = [r \in Reviews |->
                IF r \in hit THEN Fence(reviews[r], "cancelled", "invalidated") ELSE reviews[r]]
           /\ need' = IF hit = {} THEN need ELSE [id |-> need.id + 1, ripe |-> FALSE, named |-> "none"]
    /\ UNCHANGED runs

CancelSource ==
    /\ src.status \notin Terminal
    /\ src' = Fence(src, "cancelled", "handoff")
    /\ reviews' = RetireSiblings(reviews, 0, TRUE)
    /\ UNCHANGED <<claims, runs, need>>

CancelReview(r) ==
    /\ reviews[r].status \notin Terminal
    /\ reviews' = [reviews EXCEPT ![r] = [Fence(@, "cancelled", "handoff") EXCEPT !.withdrawn = need.id]]
    /\ UNCHANGED <<src, claims, runs, need>>

Rejecting(r) ==
    /\ src.status = "blocked" /\ src.commit # 0
    /\ reviews[r].status = "blocked" /\ reviews[r].deferred = 0 /\ reviews[r].judged = src.commit

\* Mutant: a rework reopens the source and leaves its review as it is.
ReworkAlone(r) ==
    /\ Rejecting(r)
    /\ Len(src.rejected) < MaxRework
    /\ src' = [EndAttempt(src) EXCEPT !.status = "pending", !.commit = 0,
                                      !.rejected = Append(@, src.commit), !.assignee = src.holder]
    /\ claims' = [c \in Claims |->
            [claims[c] EXCEPT !.archived = @ \/ claims[c].status # "unpublished"]]
    /\ UNCHANGED <<reviews, runs, need>>

\* An owner resume of rejected work: it is reworked by its author, its claims are
\* archived with the rejection, and its review waits for the resubmission.
Rework(r) ==
    /\ Rejecting(r)
    /\ Len(src.rejected) < MaxRework
    /\ src' = [EndAttempt(src) EXCEPT !.status = "pending", !.commit = 0,
                                      !.rejected = Append(@, src.commit), !.assignee = src.holder]
    /\ claims' = [c \in Claims |->
            [claims[c] EXCEPT !.archived = @ \/ claims[c].status # "unpublished"]]
    /\ reviews' = RetireSiblings(
            [reviews EXCEPT ![r] = [EndAttempt(@) EXCEPT !.status = "pending", !.judged = 0,
                !.assignee = IF reviews[r].holder # None THEN reviews[r].holder
                             ELSE reviews[r].assignee]],
            r, TRUE)
    /\ UNCHANGED <<runs, need>>

\* An owner resume of a review that deferred or rejected: it waits for an attempt;
\* a deferred one only while the artifact it deferred on still awaits its verdict.
ResumeReview(r) ==
    /\ reviews[r].status = "blocked" /\ reviews[r].stop = "none"
    /\ reviews[r].deferred # 0 => src.status = "submitted" /\ src.commit = reviews[r].deferred
    /\ reviews' = [reviews EXCEPT ![r] = [EndAttempt(@) EXCEPT !.status = "pending", !.deferred = 0]]
    /\ UNCHANGED <<src, claims, runs, need>>

Strengthen ==
    /\ src.status = "submitted" /\ src.checks < MaxChecks
    /\ src' = [src EXCEPT !.checks = @ + 1]
    /\ UNCHANGED <<reviews, claims, runs, need>>
-----------------------------------------------------------------------------
(* The admission of a missing review. *)

Grace ==
    /\ src.status = "submitted" /\ ~need.ripe
    /\ need' = [need EXCEPT !.ripe = TRUE]
    /\ UNCHANGED <<src, reviews, claims, runs>>

\* Nothing on the board runs or may start; others says so of its other tasks.
BoardStalled(others) ==
    /\ others
    /\ \A row \in Rows : row.status # "running" /\ ~QuiescencePending(row)
    /\ ~\E r \in Reviews, m \in Members :
        reviews[r].status = "pending" /\ CanOwnReview(m) /\ AssignmentAllows(reviews[r], m)

\* Mutant: a review the host admitted for this need does not count.
BlockersForgetful(stalled) ==
    IF \E r \in Reviews : reviews[r].status = "blocked" /\ reviews[r].deferred = src.commit THEN "deferred"
    ELSE IF Len(reviews) + 1 >= MaxTasks THEN "budget"
    ELSE IF Members \subseteq Authors(src) THEN "members"
    ELSE IF ~stalled THEN "board-running"
    ELSE "none"

\* Why the host cannot give the source a review under this need; none when it can.
BlockersNow(stalled) ==
    IF \E r \in Reviews : reviews[r].status = "blocked" /\ reviews[r].deferred = src.commit THEN "deferred"
    ELSE IF Len(reviews) + 1 >= MaxTasks THEN "budget"
    ELSE IF Members \subseteq Authors(src) THEN "members"
    ELSE IF \E r \in Reviews :
        \/ reviews[r].auto = need.id
        \/ reviews[r].auto # 0 /\ reviews[r].status = "cancelled" /\ reviews[r].withdrawn = need.id
        THEN "automatic"
    ELSE IF ~stalled THEN "board-running"
    ELSE "none"

\* One pass: the blocker is named to the owner, or the host proposes the review.
AdmitMissing(others) ==
    /\ src.status = "submitted" /\ ~Reviewable /\ need.ripe
    /\ LET blocked == BlockersNow(BoardStalled(others))
       IN  IF blocked # "none"
           THEN need' = [need EXCEPT !.named = blocked] /\ UNCHANGED reviews
           ELSE reviews' = Append(reviews, NewReview(None, need.id)) /\ UNCHANGED need
    /\ UNCHANGED <<src, claims, runs>>

Next ==
    \/ \E m \in Members : TakeSource(m) \/ \E r \in Reviews : TakeReview(r, m)
    \/ \E to \in Members \cup {None} :
        \/ HandoffSource(to) \/ ProposeReview(to)
        \/ \E r \in Reviews : HandoffReview(r, to)
    \/ \E firm \in Outcomes, s \in BOOLEAN : Publish(firm, s)
    \/ \E commit \in Commits : Submit(commit)
    \/ SettleSource \/ CancelSource \/ Strengthen \/ Grace
    \/ \E r \in Reviews :
        \/ SettleReview(r) \/ PublishReview(r) \/ CancelReview(r) \/ Rework(r) \/ ResumeReview(r)
        \/ \E accept \in BOOLEAN : BeginVerdict(r, accept)
    \/ \E run \in runs :
        \/ Refused(run) \/ Unfounded(run) \/ Defer(run)
        \/ \E passed \in BOOLEAN : Verdict(run, passed)
    \/ \E c \in Claims : Challenge(c)
    \/ \E others \in BOOLEAN : AdmitMissing(others)

Spec == Init /\ [][Next]_vars

\* Time passes, the board's other tasks come to rest and the dispatch pass runs.
FairSpec == Spec /\ WF_vars(Grace) /\ WF_vars(AdmitMissing(TRUE))
-----------------------------------------------------------------------------
\* Accepted work has exactly one accepted review, of the commit it holds, by a
\* member who never worked on it, and none of its claims is in dispute
\* (verifiedDelivery, canOwnReview, SwarmRuntime.challenge).
AcceptedOnce ==
    src.status = "accepted" =>
        /\ \E r \in Reviews :
            /\ reviews[r].status = "accepted" /\ reviews[r].judged = src.commit
            /\ reviews[r].holder \notin src.prior \cup {src.holder}
            /\ \A o \in Reviews \ {r} : reviews[o].status = "cancelled"
        /\ \A c \in Claims : claims[c].status # "challenged" \/ claims[c].archived

\* What an acceptance rests on are the checks its source declares now: none was
\* added while the verdict's own ran ("Source checks changed during verification",
\* SwarmRuntime.verify; strengthenSubmittedChecks, controlTask).
BasisIsCurrent ==
    src.status = "accepted" =>
        \A r \in Reviews : reviews[r].status = "accepted" => reviews[r].basis = src.checks

\* A withdrawn source leaves no review open, and a live review is bound to nobody
\* or to a member who may still judge it (retireReviewSiblings, strandedReview).
NoMootReview ==
    \A r \in Reviews : reviews[r].status \in {"pending", "running"} =>
        /\ src.status \notin Terminal
        /\ reviews[r].assignee # None => CanOwnReview(reviews[r].assignee)

\* The resubmission of reworked work has a review that may judge it, unless the
\* owner or a dispute took that review away (reopenReviewForRework).
ReworkIsReviewed ==
    src.status = "submitted" /\ src.rejected # <<>> =>
        \/ \E r \in Reviews :
            \/ reviews[r].status \in {"pending", "running"}
            \/ reviews[r].status = "blocked" /\ (reviews[r].stop # "none" \/ reviews[r].deferred # 0)
            \/ reviews[r].withdrawn # 0
        \/ \E c \in Claims : claims[c].disputes > 0

\* The host admits one review for a need.
OneAutomaticReview ==
    \A r, o \in Reviews : reviews[r].auto # 0 /\ reviews[r].auto = reviews[o].auto => r = o

\* A refuted claim is never verified or disputed again ("a claim is never both
\* refuted and verified", SwarmRuntime.verify).
RefutedIsFinal ==
    [][\A c \in Claims : claims[c].status = "refuted" => claims'[c].status = "refuted"]_vars

\* Of two claims one acceptance judges, what the later supersedes is not verified.
NoSupersededVerified ==
    \A c \in Claims : \A d \in Claims :
        (d = c + 1 /\ claims[d].supersedes /\ claims[d].firm /\ claims[d].status = "verified")
            => claims[c].status = "refuted"

\* A submission none of whose reviews may go on gets one, or the owner is told why
\* not (admitMissingReviews, reviewPathBlocker).
ReviewPathNamed ==
    LET Open == \E r \in Reviews : reviews[r].status \in {"pending", "running"}
                                    \/ QuiescencePending(reviews[r])
    IN  (src.status = "submitted" /\ ~Open) ~> (src.status # "submitted" \/ Open \/ need.named # "none")

\* The contract of independent review, on the rows.
standing ==
    CASE src.status = "submitted" -> "offered"
      [] src.status = "accepted" -> "accepted"
      [] src.status = "cancelled" -> "withdrawn"
      [] src.status = "blocked" /\ src.commit # 0 -> "rejected"
      [] OTHER -> "open"

authors == (src.prior \cup {src.holder}) \ {None}

judge ==
    IF src.status = "accepted"
    THEN reviews[CHOOSE r \in Reviews : reviews[r].status = "accepted"].holder ELSE None

disputed == src.status # "cancelled" /\ \E c \in Claims : claims[c].status = "challenged"

Contract ==
    INSTANCE ReviewContract WITH
        standing <- standing, authors <- authors, judge <- judge, disputed <- disputed

\* Every step on the rows is a step of the contract: only work that is offered is judged,
\* by a member who never worked on it, and a dispute takes an acceptance away
\* (canOwnReview, SwarmRuntime.verify, challenge).
KeepsContract == Contract!Spec
=============================================================================
