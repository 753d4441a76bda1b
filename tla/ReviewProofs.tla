---------------------------- MODULE ReviewProofs ----------------------------
(***************************************************************************)
(* The safety of Review, for every number of members, tasks, claims,       *)
(* disputes and reworks, and its implementation of ReviewContract.         *)
(*                                                                         *)
(* The invariant says what each status of a row stands beside: a review    *)
(* runs only while its source waits for a verdict and only in hands that   *)
(* never worked on it, a rejected source has no claim left to judge, and   *)
(* a reworked source is covered by a row that may judge it again.          *)
(***************************************************************************)
EXTENDS Review, SequenceTheorems, TLAPS

Statuses == {"pending", "running", "submitted", "accepted", "blocked", "cancelled"}
ReviewStatuses == Statuses \ {"submitted"}
Stops == {"none", "handoff", "invalidated"}

Source ==
    [status : Statuses, stop : Stops, epoch : Nat, holder : Members \cup {None},
     assignee : Members \cup {None}, prior : SUBSET Members,
     commit : Commits \cup {0}, checks : Nat, rejected : Seq(Commits)]

ReviewRow ==
    [status : ReviewStatuses, stop : Stops, epoch : Nat, holder : Members \cup {None},
     assignee : Members \cup {None}, prior : SUBSET Members,
     judged : Nat, deferred : Nat, evidence : BOOLEAN, basis : Nat, auto : Nat, withdrawn : Nat]

Claim ==
    [status : {"unpublished", "unverified", "verified", "refuted", "challenged"},
     disputes : Nat, firm : BOOLEAN, supersedes : BOOLEAN, archived : BOOLEAN]

Typed ==
    /\ src \in Source
    /\ reviews \in Seq(ReviewRow)
    /\ claims \in [Claims -> Claim]
    /\ need \in [id : Nat, ripe : BOOLEAN, named : Blockers \cup {"none"}]
    /\ \A run \in runs : run.review \in Reviews

\* A stop of the source is owed only after a handoff or a withdrawal, and a commit
\* stands exactly while a verdict of it may.
SourceShaped ==
    /\ src.stop # "none" =>
        /\ src.stop = "handoff" /\ src.holder = None
        /\ src.status = "cancelled" \/ (src.status = "blocked" /\ src.commit = 0)
    /\ src.status = "pending" => src.holder = None
    /\ src.status \in {"pending", "running"} => src.commit = 0
    /\ src.status \in {"submitted", "accepted"} => src.commit # 0

RowShaped(row) ==
    /\ row.stop # "none" => row.status \in {"blocked", "cancelled"}
    /\ row.status = "blocked" => row.stop # "invalidated"
    /\ row.status = "running" =>
        src.status = "submitted" /\ row.holder \in Members /\ CanOwnReview(row.holder)
    /\ row.status = "accepted" => src.status = "accepted"
    /\ QuiescencePending(row) => src.status = "submitted"

ReviewsShaped == \A r \in Reviews : RowShaped(reviews[r])

Rejected == src.status = "blocked" /\ src.commit # 0

\* What a verdict leaves of the claims it rejects.
ClaimsShaped ==
    /\ \A c \in Claims : claims[c].archived => claims[c].status = "refuted"
    /\ Rejected => \A c \in Claims : claims[c].status \in {"unpublished", "refuted"}

NeedCounted == src.commit # 0 \/ src.rejected # <<>> => need.id # 0

\* A row that will judge the source, waits for the owner, or was taken away by one.
Covers(row) ==
    \/ row.status \in {"pending", "running"}
    \/ row.status = "blocked" /\ (row.stop # "none" \/ row.deferred # 0)
    \/ row.withdrawn # 0

ReworkCovered ==
    src.rejected # <<>> /\ src.status \notin Terminal /\ ~Rejected =>
        \/ \E r \in Reviews : Covers(reviews[r])
        \/ \E c \in Claims : claims[c].disputes > 0

RInv ==
    /\ Typed
    /\ SourceShaped
    /\ ReviewsShaped
    /\ ClaimsShaped
    /\ NeedCounted
    /\ ReworkCovered
    /\ AcceptedOnce
    /\ BasisIsCurrent
    /\ OneAutomaticReview
-----------------------------------------------------------------------------
(* Rows. *)


LEMMA ReviewRowType ==
    ASSUME Typed, NEW r \in Reviews
    PROVE  reviews[r] \in ReviewRow
  BY ElementOfSeq, LenProperties DEF Typed, Reviews

LEMMA ReviewEnded ==
    ASSUME NEW row \in ReviewRow
    PROVE  LET to == EndAttempt(row) IN
           /\ to \in ReviewRow
           /\ to.holder = None /\ to.assignee = row.assignee
           /\ to.status = row.status /\ to.stop = row.stop /\ to.auto = row.auto
           /\ to.withdrawn = row.withdrawn /\ to.deferred = row.deferred
<1> DEFINE epoch == row.epoch + 1
           prior == row.prior \cup ({row.holder} \ {None})
<1>1. EndAttempt(row) = [row EXCEPT !.epoch = epoch, !.prior = prior, !.holder = None]
  BY DEF EndAttempt
<1>2. epoch \in Nat /\ prior \in SUBSET Members
  BY DEF ReviewRow
<1> HIDE DEF epoch
<1> QED
  BY <1>1, <1>2 DEF ReviewRow

LEMMA ReviewFenced ==
    ASSUME NEW row \in ReviewRow, NEW reason \in {"handoff", "invalidated"},
           NEW status \in {"blocked", "cancelled"}
    PROVE  LET to == Fence(row, status, reason) IN
           /\ to \in ReviewRow
           /\ to.status = status
           /\ to.auto = row.auto /\ to.withdrawn = row.withdrawn /\ to.deferred = row.deferred
           /\ row.status = "running" /\ row.stop = "none" => to.stop = reason
           /\ reason = "handoff" => (row.stop # "none" => to.stop = row.stop)
           /\ row.status # "running" /\ row.stop = "none" => to.stop = "none"
<1> DEFINE ended == EndAttempt(row)
<1>1. ended \in ReviewRow /\ ended.stop = row.stop /\ ended.auto = row.auto
      /\ ended.withdrawn = row.withdrawn /\ ended.deferred = row.deferred
  BY ReviewEnded
<1>2. reason \in Stops /\ "none" \in Stops /\ status \in ReviewStatuses
  BY DEF Stops, Statuses, ReviewStatuses
<1>3. CASE row.stop = "none"
  <2> DEFINE stop == IF row.status = "running" THEN reason ELSE "none"
  <2>1. Fence(row, status, reason) = [ended EXCEPT !.status = status, !.stop = stop]
    BY <1>3 DEF Fence
  <2>2. stop \in Stops
    BY <1>2
  <2> HIDE DEF ended, stop
  <2>3. LET to == Fence(row, status, reason) IN
        /\ to \in ReviewRow /\ to.status = status /\ to.stop = stop
        /\ to.auto = row.auto /\ to.withdrawn = row.withdrawn /\ to.deferred = row.deferred
    BY <1>1, <1>2, <2>1, <2>2 DEF ReviewRow
  <2> QED
    BY <1>3, <2>3 DEF stop
<1>4. CASE row.stop # "none"
  <2> DEFINE stop == IF reason = "invalidated" THEN reason ELSE row.stop
             prior == row.prior \cup ({row.holder} \ {None})
  <2>1. Fence(row, status, reason) =
            [row EXCEPT !.status = status, !.prior = prior, !.holder = None, !.stop = stop]
    BY <1>4 DEF Fence
  <2>2. stop \in Stops /\ prior \in SUBSET Members
    BY <1>2 DEF ReviewRow
  <2> HIDE DEF prior, stop
  <2>3. LET to == Fence(row, status, reason) IN
        /\ to \in ReviewRow /\ to.status = status /\ to.stop = stop
        /\ to.auto = row.auto /\ to.withdrawn = row.withdrawn /\ to.deferred = row.deferred
    BY <1>2, <2>1, <2>2 DEF ReviewRow
  <2> QED
    BY <1>4, <2>3 DEF stop
<1> QED
  BY <1>3, <1>4

LEMMA SourceEnded ==
    ASSUME NEW row \in Source
    PROVE  LET to == EndAttempt(row) IN
           /\ to \in Source
           /\ to.holder = None /\ to.prior = row.prior \cup ({row.holder} \ {None})
           /\ to.status = row.status /\ to.stop = row.stop /\ to.commit = row.commit
           /\ to.checks = row.checks /\ to.rejected = row.rejected
<1> DEFINE epoch == row.epoch + 1
           prior == row.prior \cup ({row.holder} \ {None})
<1>1. EndAttempt(row) = [row EXCEPT !.epoch = epoch, !.prior = prior, !.holder = None]
  BY DEF EndAttempt
<1>2. epoch \in Nat /\ prior \in SUBSET Members
  BY DEF Source
<1> HIDE DEF epoch
<1> QED
  BY <1>1, <1>2 DEF Source

LEMMA SourceFenced ==
    ASSUME Typed, SourceShaped, NEW status \in {"blocked", "cancelled"}
    PROVE  LET to == Fence(src, status, "handoff") IN
           /\ to \in Source
           /\ to.status = status /\ to.commit = src.commit /\ to.checks = src.checks
           /\ to.rejected = src.rejected /\ to.holder = None
           /\ to.prior = src.prior \cup ({src.holder} \ {None})
           /\ to.stop # "none" => to.stop = "handoff"
           /\ src.status # "running" => to.stop = src.stop
<1> DEFINE ended == EndAttempt(src)
<1>0. src \in Source
  BY DEF Typed
<1>1. /\ ended \in Source /\ ended.holder = None
      /\ ended.prior = src.prior \cup ({src.holder} \ {None}) /\ ended.commit = src.commit
      /\ ended.checks = src.checks /\ ended.rejected = src.rejected
  BY <1>0, SourceEnded
<1>2. "handoff" \in Stops /\ "none" \in Stops /\ status \in Statuses
  BY DEF Stops, Statuses
<1>3. CASE src.stop = "none"
  <2> DEFINE stop == IF src.status = "running" THEN "handoff" ELSE "none"
  <2>1. Fence(src, status, "handoff") = [ended EXCEPT !.status = status, !.stop = stop]
    BY <1>3 DEF Fence
  <2>2. stop \in Stops
    BY <1>2
  <2> HIDE DEF ended, stop
  <2>3. LET to == Fence(src, status, "handoff") IN
        /\ to \in Source /\ to.status = status /\ to.stop = stop /\ to.holder = ended.holder
        /\ to.prior = ended.prior /\ to.commit = ended.commit /\ to.checks = ended.checks
        /\ to.rejected = ended.rejected
    BY <1>1, <1>2, <2>1, <2>2 DEF Source
  <2> QED
    BY <1>1, <1>3, <2>3 DEF stop
<1>4. CASE src.stop # "none"
  <2> DEFINE prior == src.prior \cup ({src.holder} \ {None})
  <2>1. Fence(src, status, "handoff") =
            [src EXCEPT !.status = status, !.prior = prior, !.holder = None, !.stop = src.stop]
    BY <1>4 DEF Fence
  <2>2. prior \in SUBSET Members
    BY <1>0 DEF Source
  <2> HIDE DEF prior
  <2>3. LET to == Fence(src, status, "handoff") IN
        /\ to \in Source /\ to.status = status /\ to.stop = src.stop /\ to.holder = None
        /\ to.prior = prior /\ to.commit = src.commit /\ to.checks = src.checks
        /\ to.rejected = src.rejected
    BY <1>0, <1>2, <2>1, <2>2 DEF Source
  <2> QED
    BY <1>4, <2>3 DEF prior, SourceShaped
<1> QED
  BY <1>3, <1>4
-----------------------------------------------------------------------------
(* Steps that write one review row. *)

\* What a write may make of a review row, of a source it leaves alone.
Successor(row, to) ==
    /\ to \in ReviewRow
    /\ RowShaped(to)
    /\ row.status # "accepted" /\ to.status # "accepted"
    /\ row.status = "cancelled" => to.status = "cancelled"
    /\ to.auto = row.auto
    /\ src.rejected # <<>> /\ Covers(row) => Covers(to)

\* The member whose verdict the acceptance rests on is the accepted review's holder.
LEMMA JudgeIsHolder ==
    ASSUME AcceptedOnce, src.status = "accepted", NEW r \in Reviews, reviews[r].status = "accepted"
    PROVE  judge = reviews[r].holder /\ \A o \in Reviews : reviews[o].status = "accepted" => o = r
<1>1. \A o \in Reviews : reviews[o].status = "accepted" => o = r
  BY DEF AcceptedOnce
<1>2. (CHOOSE o \in Reviews : reviews[o].status = "accepted") = r
  BY <1>1
<1> QED
  BY <1>1, <1>2 DEF judge

LEMMA OneRowStep ==
    ASSUME RInv, NEW r \in Reviews, NEW to, reviews' = [reviews EXCEPT ![r] = to],
           Successor(reviews[r], to), UNCHANGED <<src, claims, need>>,
           \A run \in runs' : run.review \in Reviews
    PROVE  RInv' /\ UNCHANGED Contract!contract
<1>1. /\ reviews' \in Seq(ReviewRow) /\ Reviews' = Reviews
      /\ reviews'[r] = to /\ \A o \in Reviews \ {r} : reviews'[o] = reviews[o]
  BY ExceptSeq, LenProperties DEF RInv, Typed, Reviews, Successor
<1>2. Typed'
  BY <1>1 DEF RInv, Typed
<1>3. SourceShaped' /\ ClaimsShaped' /\ NeedCounted'
  BY DEF RInv, SourceShaped, ClaimsShaped, NeedCounted, Rejected
<1>4. ReviewsShaped'
  BY <1>1 DEF RInv, ReviewsShaped, RowShaped, QuiescencePending, Successor, CanOwnReview, Authors
<1>5. ReworkCovered'
  BY <1>1 DEF RInv, ReworkCovered, Rejected, Successor, Covers
<1>6. AcceptedOnce'
  <2> SUFFICES ASSUME src.status = "accepted" PROVE AcceptedOnce'
    BY DEF AcceptedOnce
  <2>1. PICK a \in Reviews : /\ reviews[a].status = "accepted" /\ reviews[a].judged = src.commit
                             /\ reviews[a].holder \notin src.prior \cup {src.holder}
                             /\ \A o \in Reviews \ {a} : reviews[o].status = "cancelled"
    BY DEF RInv, AcceptedOnce
  <2>2. a # r /\ reviews'[a] = reviews[a]
    BY <1>1, <2>1 DEF Successor
  <2>3. \A o \in Reviews' \ {a} : reviews'[o].status = "cancelled"
    BY <1>1, <2>1 DEF Successor
  <2> QED
    BY <1>1, <2>1, <2>2, <2>3 DEF RInv, AcceptedOnce
<1>7. BasisIsCurrent' /\ OneAutomaticReview'
  BY <1>1 DEF RInv, BasisIsCurrent, OneAutomaticReview, Successor
<1>8. judge' = judge
  <2>1. CASE src.status = "accepted"
    <3>1. PICK a \in Reviews : reviews[a].status = "accepted"
      BY <2>1 DEF RInv, AcceptedOnce
    <3>2. a # r /\ reviews'[a] = reviews[a]
      BY <1>1, <3>1 DEF Successor
    <3>3. judge = reviews[a].holder
      BY <2>1, <3>1, JudgeIsHolder DEF RInv
    <3>4. \A o \in Reviews : reviews[o].status = "accepted" => o = a
      BY <2>1, <3>1, JudgeIsHolder DEF RInv
    <3>5. (CHOOSE o \in Reviews' : reviews'[o].status = "accepted") = a
      BY <1>1, <3>1, <3>2, <3>4 DEF Successor
    <3> QED
      BY <2>1, <3>2, <3>3, <3>5 DEF judge
  <2> QED
    BY <2>1 DEF judge
<1> QED
  BY <1>2, <1>3, <1>4, <1>5, <1>6, <1>7, <1>8 DEF RInv, Contract!contract, standing, authors,
       disputed

LEMMA TakeReviewStep ==
    ASSUME RInv, NEW r \in Reviews, NEW m \in Members, TakeReview(r, m)
    PROVE  RInv' /\ UNCHANGED Contract!contract
<1> DEFINE row == reviews[r]
           to == [row EXCEPT !.epoch = row.epoch + 1, !.status = "running", !.holder = m,
                             !.assignee = m, !.evidence = FALSE]
<1>1. row \in ReviewRow
  BY ReviewRowType DEF RInv
<1>2. reviews' = [reviews EXCEPT ![r] = to] /\ UNCHANGED <<src, claims, runs, need>>
  BY DEF TakeReview, Taken
<1>3. row.status = "pending" /\ src.status = "submitted" /\ CanOwnReview(m) /\ RowShaped(row)
  BY DEF TakeReview, RInv, ReviewsShaped
<1>4. row.epoch + 1 \in Nat /\ "running" \in ReviewStatuses
  BY <1>1 DEF ReviewRow, Statuses, ReviewStatuses
<1> HIDE DEF row
<1>5. /\ to \in ReviewRow /\ to.status = "running" /\ to.holder = m /\ to.stop = row.stop
      /\ to.auto = row.auto /\ to.withdrawn = row.withdrawn
  BY <1>1, <1>4 DEF ReviewRow
<1> HIDE DEF to
<1>6. Successor(row, to)
  BY <1>3, <1>5 DEF Successor, RowShaped, QuiescencePending, Covers
<1> QED
  BY <1>2, <1>6, OneRowStep DEF row, RInv, Typed

LEMMA HandoffReviewStep ==
    ASSUME RInv, NEW r \in Reviews, NEW m \in Members \cup {None}, HandoffReview(r, m)
    PROVE  RInv' /\ UNCHANGED Contract!contract
<1> DEFINE row == reviews[r]
           fenced == Fence(row, "blocked", "handoff")
           to == [fenced EXCEPT !.assignee = m]
<1>1. row \in ReviewRow
  BY ReviewRowType DEF RInv
<1>2. reviews' = [reviews EXCEPT ![r] = to] /\ UNCHANGED <<src, claims, runs, need>>
  BY DEF HandoffReview
<1>3. row.status = "running" /\ RowShaped(row)
  BY DEF HandoffReview, RInv, ReviewsShaped
<1>4. /\ fenced \in ReviewRow /\ fenced.status = "blocked" /\ fenced.auto = row.auto
      /\ fenced.withdrawn = row.withdrawn /\ fenced.stop = "handoff"
  BY <1>1, <1>3, ReviewFenced DEF RowShaped, QuiescencePending, ReviewRow, Stops
<1> HIDE DEF row, fenced
<1>5. /\ to \in ReviewRow /\ to.status = "blocked" /\ to.stop = "handoff"
      /\ to.auto = row.auto /\ to.withdrawn = row.withdrawn
  BY <1>4 DEF ReviewRow
<1> HIDE DEF to
<1>6. Successor(row, to)
  BY <1>3, <1>5 DEF Successor, RowShaped, QuiescencePending, Covers
<1> QED
  BY <1>2, <1>6, OneRowStep DEF row, RInv, Typed

LEMMA SettleReviewStep ==
    ASSUME RInv, NEW r \in Reviews, SettleReview(r)
    PROVE  RInv' /\ UNCHANGED Contract!contract
<1> DEFINE row == reviews[r]
<1>1. PICK s \in {"pending", "blocked", "cancelled"} :
        /\ Settle(row, [row EXCEPT !.stop = "none", !.status = s])
        /\ reviews' = [reviews EXCEPT ![r] = [row EXCEPT !.stop = "none", !.status = s]]
  BY DEF SettleReview
<1> DEFINE to == [row EXCEPT !.stop = "none", !.status = s]
<1>2. row \in ReviewRow /\ RowShaped(row) /\ UNCHANGED <<src, claims, runs, need>>
  BY ReviewRowType DEF RInv, ReviewsShaped, SettleReview
<1>3. /\ row.stop # "none"
      /\ to = [row EXCEPT !.stop = "none", !.status = IF row.status \in Terminal THEN row.status
                            ELSE IF row.stop = "invalidated" THEN "blocked" ELSE "pending"]
  BY <1>1 DEF Settle
<1>4. s \in ReviewStatuses /\ "none" \in Stops
  BY DEF Statuses, ReviewStatuses, Stops
<1> HIDE DEF row
<1>5. /\ to \in ReviewRow /\ to.status = s /\ to.stop = "none"
      /\ to.auto = row.auto /\ to.withdrawn = row.withdrawn
  BY <1>2, <1>4 DEF ReviewRow
<1>6. s = IF row.status \in Terminal THEN row.status
          ELSE IF row.stop = "invalidated" THEN "blocked" ELSE "pending"
  BY <1>2, <1>3, <1>5 DEF ReviewRow
<1> HIDE DEF to
<1>7. Successor(row, to)
  BY <1>2, <1>3, <1>5, <1>6 DEF Successor, RowShaped, QuiescencePending, Covers, Terminal
<1> QED
  BY <1>1, <1>2, <1>7, OneRowStep DEF row, to, RInv, Typed

LEMMA PublishReviewStep ==
    ASSUME RInv, NEW r \in Reviews, PublishReview(r)
    PROVE  RInv' /\ UNCHANGED Contract!contract
<1> DEFINE row == reviews[r]
           to == [row EXCEPT !.evidence = TRUE]
<1>1. row \in ReviewRow /\ RowShaped(row) /\ row.status = "running"
  BY ReviewRowType DEF RInv, ReviewsShaped, PublishReview
<1>2. reviews' = [reviews EXCEPT ![r] = to] /\ UNCHANGED <<src, claims, runs, need>>
  BY DEF PublishReview
<1> HIDE DEF row
<1>3. /\ to \in ReviewRow /\ to.status = row.status /\ to.stop = row.stop /\ to.holder = row.holder
      /\ to.auto = row.auto /\ to.withdrawn = row.withdrawn
  BY <1>1 DEF ReviewRow
<1> HIDE DEF to
<1>4. Successor(row, to)
  BY <1>1, <1>3 DEF Successor, RowShaped, QuiescencePending, Covers
<1> QED
  BY <1>2, <1>4, OneRowStep DEF row, RInv, Typed

LEMMA CancelReviewStep ==
    ASSUME RInv, NEW r \in Reviews, CancelReview(r)
    PROVE  RInv' /\ UNCHANGED Contract!contract
<1> DEFINE row == reviews[r]
           fenced == Fence(row, "cancelled", "handoff")
           to == [fenced EXCEPT !.withdrawn = need.id]
<1>1. row \in ReviewRow /\ RowShaped(row) /\ row.status \notin Terminal
  BY ReviewRowType DEF RInv, ReviewsShaped, CancelReview
<1>2. reviews' = [reviews EXCEPT ![r] = to] /\ UNCHANGED <<src, claims, runs, need>>
  BY DEF CancelReview
<1>3. fenced \in ReviewRow /\ fenced.status = "cancelled" /\ fenced.auto = row.auto
  BY <1>1, ReviewFenced
<1>4. need.id \in Nat
  BY DEF RInv, Typed
<1> HIDE DEF row, fenced
<1>5. to \in ReviewRow /\ to.status = "cancelled" /\ to.auto = row.auto /\ to.withdrawn = need.id
  BY <1>3, <1>4 DEF ReviewRow
<1> HIDE DEF to
<1>6. src.rejected # <<>> => need.id # 0
  BY DEF RInv, NeedCounted
<1>7. Successor(row, to)
  BY <1>1, <1>5, <1>6 DEF Successor, RowShaped, QuiescencePending, Covers, Terminal
<1> QED
  BY <1>2, <1>7, OneRowStep DEF row, RInv, Typed

LEMMA ResumeReviewStep ==
    ASSUME RInv, NEW r \in Reviews, ResumeReview(r)
    PROVE  RInv' /\ UNCHANGED Contract!contract
<1> DEFINE row == reviews[r]
           ended == EndAttempt(row)
           to == [ended EXCEPT !.status = "pending", !.deferred = 0]
<1>1. row \in ReviewRow /\ RowShaped(row) /\ row.status = "blocked" /\ row.stop = "none"
  BY ReviewRowType DEF RInv, ReviewsShaped, ResumeReview
<1>2. reviews' = [reviews EXCEPT ![r] = to] /\ UNCHANGED <<src, claims, runs, need>>
  BY DEF ResumeReview
<1>3. ended \in ReviewRow /\ ended.stop = "none" /\ ended.auto = row.auto
  BY <1>1, ReviewEnded
<1>4. "pending" \in ReviewStatuses
  BY DEF Statuses, ReviewStatuses
<1> HIDE DEF row, ended
<1>5. to \in ReviewRow /\ to.status = "pending" /\ to.auto = row.auto /\ to.stop = "none"
  BY <1>3, <1>4 DEF ReviewRow
<1> HIDE DEF to
<1>6. Successor(row, to)
  BY <1>1, <1>5 DEF Successor, RowShaped, QuiescencePending, Covers
<1> QED
  BY <1>2, <1>6, OneRowStep DEF row, RInv, Typed

\* Every check of the verdict could not be run: its review waits for the owner.
LEMMA DeferStep ==
    ASSUME RInv, NEW run \in runs, Defer(run)
    PROVE  RInv' /\ UNCHANGED Contract!contract
<1> DEFINE r == run.review
           row == reviews[r]
           to == [row EXCEPT !.status = "blocked", !.judged = run.commit, !.deferred = run.commit]
<1>1. r \in Reviews /\ row \in ReviewRow /\ RowShaped(row) /\ row.status = "running"
  BY ReviewRowType DEF RInv, Typed, ReviewsShaped, Defer, Holds
<1>2. reviews' = [reviews EXCEPT ![r] = to] /\ UNCHANGED <<src, claims, need>> /\ runs' \subseteq runs
  BY DEF Defer
<1>3. run.commit = src.commit /\ src.commit \in Nat /\ src.commit # 0
  BY ReviewConstants DEF Defer, Current, RInv, Typed, Source, SourceShaped
<1>4. "blocked" \in ReviewStatuses
  BY DEF Statuses, ReviewStatuses
<1> HIDE DEF row, r
<1>5. /\ to \in ReviewRow /\ to.status = "blocked" /\ to.auto = row.auto /\ to.stop = row.stop
      /\ to.deferred # 0
  BY <1>1, <1>3, <1>4 DEF ReviewRow
<1> HIDE DEF to
<1>6. Successor(row, to)
  BY <1>1, <1>5 DEF Successor, RowShaped, QuiescencePending, Covers
<1> QED
  BY <1>1, <1>2, <1>6, OneRowStep DEF row, RInv, Typed
-----------------------------------------------------------------------------
(* Steps that leave the review rows alone. *)

LEMMA RunsStep ==
    ASSUME RInv, UNCHANGED <<src, reviews, claims, need>>, \A run \in runs' : run.review \in Reviews
    PROVE  RInv' /\ UNCHANGED Contract!contract
<1>1. RInv'
  BY DEF RInv, Typed, SourceShaped, ReviewsShaped, RowShaped, QuiescencePending, CanOwnReview,
         Authors, ClaimsShaped, Rejected, NeedCounted, ReworkCovered, Covers, AcceptedOnce,
         BasisIsCurrent, OneAutomaticReview, Reviews
<1> QED
  BY <1>1 DEF Contract!contract, standing, authors, judge, disputed, Reviews

LEMMA BeginVerdictStep ==
    ASSUME RInv, NEW r \in Reviews, NEW accept \in BOOLEAN, BeginVerdict(r, accept)
    PROVE  RInv' /\ UNCHANGED Contract!contract
<1>1. \A run \in runs' : run.review \in Reviews
  BY DEF BeginVerdict, RInv, Typed
<1> QED
  BY <1>1, RunsStep DEF BeginVerdict

LEMMA VerdictDroppedStep ==
    ASSUME RInv, NEW run \in runs, Refused(run) \/ Unfounded(run)
    PROVE  RInv' /\ UNCHANGED Contract!contract
<1>1. runs' \subseteq runs /\ UNCHANGED <<src, reviews, claims, need>>
  BY DEF Refused, Unfounded
<1> QED
  BY <1>1, RunsStep DEF RInv, Typed

LEMMA GraceStep ==
    ASSUME RInv, Grace
    PROVE  RInv' /\ UNCHANGED Contract!contract
<1>1. /\ need'.id = need.id
      /\ need' \in [id : Nat, ripe : BOOLEAN, named : Blockers \cup {"none"}]
      /\ UNCHANGED <<src, reviews, claims, runs>>
  BY DEF Grace, RInv, Typed
<1> QED
  BY <1>1 DEF RInv, Typed, SourceShaped, ReviewsShaped, RowShaped, QuiescencePending, CanOwnReview,
         Authors, ClaimsShaped, Rejected, NeedCounted, ReworkCovered, Covers, AcceptedOnce,
         BasisIsCurrent, OneAutomaticReview, Reviews, Contract!contract, standing, authors, judge, disputed

LEMMA SourceStep ==
    ASSUME RInv, UNCHANGED <<reviews, runs>>, src.status \notin {"submitted", "accepted"},
           src' \in Source, src'.status # "accepted", SourceShaped',
           claims' \in [Claims -> Claim], ClaimsShaped',
           need' \in [id : Nat, ripe : BOOLEAN, named : Blockers \cup {"none"}], NeedCounted',
           src'.rejected = src.rejected,
           src'.status \notin Terminal /\ ~Rejected' => src.status # "cancelled" /\ ~Rejected,
           \A c \in Claims : claims[c].disputes > 0 => claims'[c].disputes > 0
    PROVE  RInv'
<1>1. Typed'
  BY DEF RInv, Typed, Reviews
<1>2. ReviewsShaped'
  BY DEF RInv, ReviewsShaped, RowShaped, QuiescencePending, Reviews
<1>3. ReworkCovered'
  BY DEF RInv, ReworkCovered, Covers, Reviews, Terminal
<1>4. AcceptedOnce' /\ BasisIsCurrent'
  BY DEF AcceptedOnce, BasisIsCurrent
<1>5. OneAutomaticReview'
  BY DEF RInv, OneAutomaticReview, Reviews
<1> QED
  BY <1>1, <1>2, <1>3, <1>4, <1>5 DEF RInv

LEMMA TakeSourceStep ==
    ASSUME RInv, NEW m \in Members, TakeSource(m)
    PROVE  RInv' /\ Contract!Work(m)
<1> DEFINE epoch == src.epoch + 1
<1>1. /\ src' = [src EXCEPT !.epoch = epoch, !.status = "running", !.holder = m, !.assignee = m]
      /\ src.status = "pending" /\ UNCHANGED <<reviews, claims, runs, need>>
  BY DEF TakeSource, Taken
<1>2. src \in Source /\ epoch \in Nat /\ "running" \in Statuses
  BY DEF RInv, Typed, Source, Statuses
<1>3. src.holder = None /\ src.stop = "none" /\ src.commit = 0
  BY <1>1 DEF RInv, SourceShaped
<1> HIDE DEF epoch
<1>4. /\ src' \in Source /\ src'.status = "running" /\ src'.holder = m /\ src'.stop = "none"
      /\ src'.commit = 0 /\ src'.rejected = src.rejected /\ src'.prior = src.prior
  BY <1>1, <1>2, <1>3 DEF Source
<1>5. SourceShaped' /\ ClaimsShaped' /\ NeedCounted'
  BY <1>1, <1>3, <1>4 DEF SourceShaped, ClaimsShaped, NeedCounted, Rejected, RInv
<1>6. RInv'
  BY <1>1, <1>3, <1>4, <1>5, SourceStep DEF RInv, Typed, Rejected
<1>7. m # None
  BY ReviewConstants
<1>8. Contract!Work(m)
  BY <1>1, <1>3, <1>4, <1>7 DEF Contract!Work, standing, authors, judge, disputed
<1> QED
  BY <1>6, <1>8

LEMMA HandoffSourceStep ==
    ASSUME RInv, NEW m \in Members \cup {None}, HandoffSource(m)
    PROVE  RInv' /\ UNCHANGED Contract!contract
<1> DEFINE fenced == Fence(src, "blocked", "handoff")
<1>1. /\ src' = [fenced EXCEPT !.assignee = m]
      /\ src.status = "running" /\ UNCHANGED <<reviews, claims, runs, need>>
  BY DEF HandoffSource
<1>2. /\ fenced \in Source /\ fenced.status = "blocked" /\ fenced.commit = src.commit
      /\ fenced.rejected = src.rejected /\ fenced.holder = None
      /\ fenced.prior = src.prior \cup ({src.holder} \ {None})
      /\ fenced.stop # "none" => fenced.stop = "handoff"
  BY SourceFenced DEF RInv
<1>3. src.commit = 0
  BY <1>1 DEF RInv, SourceShaped
<1> HIDE DEF fenced
<1>4. /\ src' \in Source /\ src'.status = "blocked" /\ src'.holder = None
      /\ src'.stop # "none" => src'.stop = "handoff"
      /\ src'.commit = 0 /\ src'.rejected = src.rejected
      /\ src'.prior = src.prior \cup ({src.holder} \ {None})
  BY <1>1, <1>2, <1>3 DEF Source
<1>5. SourceShaped' /\ ClaimsShaped' /\ NeedCounted'
  BY <1>1, <1>3, <1>4 DEF SourceShaped, ClaimsShaped, NeedCounted, Rejected, RInv
<1>6. RInv'
  BY <1>1, <1>3, <1>4, <1>5, SourceStep DEF RInv, Typed, Rejected
<1>7. authors' = authors
  BY <1>4 DEF authors
<1>8. UNCHANGED <<standing, judge, disputed>>
  BY <1>1, <1>3, <1>4 DEF standing, judge, disputed
<1> QED
  BY <1>6, <1>7, <1>8 DEF Contract!contract

LEMMA SettleSourceStep ==
    ASSUME RInv, SettleSource
    PROVE  RInv' /\ UNCHANGED Contract!contract
<1>1. PICK s \in {"pending", "blocked", "cancelled"} :
        /\ Settle(src, [src EXCEPT !.stop = "none", !.status = s])
        /\ src' = [src EXCEPT !.stop = "none", !.status = s]
  BY DEF SettleSource
<1>2. UNCHANGED <<reviews, claims, runs, need>> /\ src \in Source
  BY DEF SettleSource, RInv, Typed
<1>3. s \in Statuses /\ "none" \in Stops
  BY DEF Statuses, Stops
<1>4. /\ src' \in Source /\ src'.status = s /\ src'.stop = "none" /\ src'.holder = src.holder
      /\ src'.commit = src.commit /\ src'.rejected = src.rejected /\ src'.prior = src.prior
  BY <1>1, <1>2, <1>3 DEF Source
<1>5. /\ src.stop # "none"
      /\ src' = [src EXCEPT !.stop = "none", !.status = IF src.status \in Terminal THEN src.status
                              ELSE IF src.stop = "invalidated" THEN "blocked" ELSE "pending"]
  BY <1>1 DEF Settle
<1>6. /\ src.holder = None
      /\ \/ src.status = "cancelled" /\ s = "cancelled"
         \/ src.status = "blocked" /\ src.commit = 0 /\ s = "pending"
  BY <1>2, <1>4, <1>5 DEF RInv, SourceShaped, Terminal, Source
<1>7. SourceShaped' /\ ClaimsShaped' /\ NeedCounted'
  BY <1>2, <1>4, <1>6 DEF SourceShaped, ClaimsShaped, NeedCounted, Rejected, RInv
<1>8. RInv'
  BY <1>2, <1>4, <1>6, <1>7, SourceStep DEF RInv, Typed, Rejected, Terminal
<1>9. UNCHANGED Contract!contract
  BY <1>2, <1>4, <1>6 DEF Contract!contract, standing, authors, judge, disputed
<1> QED
  BY <1>8, <1>9

LEMMA PublishStep ==
    ASSUME RInv, NEW firm \in Outcomes, NEW supersedes \in BOOLEAN, Publish(firm, supersedes)
    PROVE  RInv' /\ UNCHANGED Contract!contract
<1>1. PICK k \in Claims :
        /\ claims[k].status = "unpublished"
        /\ claims' = [claims EXCEPT ![k] =
             [claims[k] EXCEPT !.status = "unverified", !.firm = firm, !.supersedes = supersedes]]
  BY DEF Publish
<1>2. src.status = "running" /\ UNCHANGED <<src, reviews, runs, need>>
  BY DEF Publish
<1>3. firm \in BOOLEAN /\ claims \in [Claims -> Claim] /\ claims[k] \in Claim
  BY ReviewConstants DEF RInv, Typed
<1> DEFINE to == [claims[k] EXCEPT !.status = "unverified", !.firm = firm, !.supersedes = supersedes]
<1>4. /\ to \in Claim /\ to.status = "unverified" /\ to.archived = claims[k].archived
      /\ to.disputes = claims[k].disputes
  BY <1>3 DEF Claim
<1>5. ~claims[k].archived
  BY <1>1 DEF RInv, ClaimsShaped
<1> HIDE DEF to
<1>6. /\ claims' \in [Claims -> Claim] /\ claims'[k] = to
      /\ \A c \in Claims \ {k} : claims'[c] = claims[c]
  BY <1>1, <1>3, <1>4 DEF to
<1>7. ClaimsShaped' /\ SourceShaped' /\ NeedCounted'
  BY <1>2, <1>4, <1>5, <1>6 DEF RInv, ClaimsShaped, SourceShaped, NeedCounted, Rejected
<1>8. RInv'
  BY <1>2, <1>4, <1>6, <1>7, SourceStep DEF RInv, Typed, Rejected
<1>9. \A c \in Claims : claims'[c].status = "challenged" <=> claims[c].status = "challenged"
  BY <1>1, <1>4, <1>6
<1> QED
  BY <1>2, <1>8, <1>9 DEF Contract!contract, standing, authors, judge, disputed

LEMMA SubmitStep ==
    ASSUME RInv, NEW commit \in Commits, Submit(commit)
    PROVE  RInv' /\ Contract!Offer
<1>1. /\ src' = [src EXCEPT !.status = "submitted", !.commit = commit] /\ src.status = "running"
      /\ need' = [id |-> need.id + 1, ripe |-> FALSE, named |-> "none"]
      /\ UNCHANGED <<reviews, claims, runs>>
  BY DEF Submit
<1>2. src \in Source /\ "submitted" \in Statuses /\ need.id \in Nat
  BY DEF RInv, Typed, Statuses
<1>3. src.commit = 0 /\ src.stop = "none"
  BY <1>1 DEF RInv, SourceShaped
<1>4. /\ src' \in Source /\ src'.status = "submitted" /\ src'.commit = commit
      /\ src'.rejected = src.rejected /\ src'.stop = "none" /\ src'.holder = src.holder
      /\ src'.prior = src.prior
  BY <1>1, <1>2, <1>3 DEF Source
<1>5. need' \in [id : Nat, ripe : BOOLEAN, named : Blockers \cup {"none"}] /\ need'.id # 0
  BY <1>1, <1>2
<1>6. commit # 0
  BY ReviewConstants
<1>7. SourceShaped' /\ ClaimsShaped' /\ NeedCounted'
  BY <1>1, <1>4, <1>5, <1>6 DEF SourceShaped, ClaimsShaped, NeedCounted, Rejected, RInv
<1>8. RInv'
  BY <1>1, <1>4, <1>5, <1>7, SourceStep DEF RInv, Typed, Rejected
<1>9. Contract!Offer
  BY <1>1, <1>3, <1>4 DEF Contract!Offer, standing, authors, judge, disputed
<1> QED
  BY <1>8, <1>9

\* A source that is strengthened has no acceptance yet that rests on its checks.
LEMMA StrengthenStep ==
    ASSUME RInv, Strengthen
    PROVE  RInv' /\ UNCHANGED Contract!contract
<1>1. /\ src' = [src EXCEPT !.checks = @ + 1] /\ src.status = "submitted"
      /\ UNCHANGED <<reviews, claims, runs, need>>
  BY DEF Strengthen
<1>2. src \in Source /\ src.checks + 1 \in Nat
  BY DEF RInv, Typed, Source
<1>3. /\ src' \in Source /\ src'.status = "submitted" /\ src'.commit = src.commit
      /\ src'.rejected = src.rejected /\ src'.stop = src.stop /\ src'.holder = src.holder
      /\ src'.prior = src.prior /\ src'.assignee = src.assignee
  BY <1>1, <1>2 DEF Source
<1>4. Typed' /\ SourceShaped' /\ ClaimsShaped' /\ NeedCounted' /\ ReworkCovered'
  BY <1>1, <1>3 DEF RInv, Typed, SourceShaped, ClaimsShaped, NeedCounted, ReworkCovered, Rejected,
                    Covers, Reviews
<1>5. ReviewsShaped' /\ AcceptedOnce' /\ BasisIsCurrent' /\ OneAutomaticReview'
  BY <1>1, <1>3 DEF RInv, ReviewsShaped, RowShaped, QuiescencePending, CanOwnReview, Authors,
                    AcceptedOnce, BasisIsCurrent, OneAutomaticReview, Reviews
<1>6. UNCHANGED Contract!contract
  BY <1>1, <1>3 DEF Contract!contract, standing, authors, judge, disputed
<1> QED
  BY <1>4, <1>5, <1>6 DEF RInv
-----------------------------------------------------------------------------
(* A new review row. *)

LEMMA NewReviewRow ==
    ASSUME NEW m \in Members \cup {None}, NEW auto \in Nat
    PROVE  NewReview(m, auto) \in ReviewRow
  BY DEF NewReview, ReviewRow, Statuses, ReviewStatuses, Stops

LEMMA AdmissionStep ==
    ASSUME RInv, NEW m \in Members \cup {None}, NEW auto \in Nat,
           reviews' = Append(reviews, NewReview(m, auto)), UNCHANGED <<src, claims, runs, need>>,
           src.status \notin Terminal,
           auto # 0 => \A r \in Reviews : reviews[r].auto # auto
    PROVE  RInv' /\ UNCHANGED Contract!contract
<1> DEFINE new == NewReview(m, auto)
           n == Len(reviews) + 1
<1>1. new \in ReviewRow /\ new.status = "pending" /\ new.stop = "none" /\ new.auto = auto
  BY NewReviewRow DEF NewReview
<1>2. reviews \in Seq(ReviewRow)
  BY DEF RInv, Typed
<1> HIDE DEF new
<1>3. /\ reviews' \in Seq(ReviewRow) /\ Reviews' = Reviews \cup {n} /\ n \notin Reviews
      /\ reviews'[n] = new /\ \A r \in Reviews : reviews'[r] = reviews[r]
  <2>1. reviews' = Append(reviews, new)
    BY DEF new
  <2>2. /\ reviews' \in Seq(ReviewRow) /\ Len(reviews') = n
        /\ \A i \in 1 .. Len(reviews) : reviews'[i] = reviews[i]
        /\ reviews'[n] = new
    BY <1>1, <1>2, <2>1, AppendProperties
  <2> QED
    BY <1>2, <2>2, LenProperties DEF Reviews
<1> HIDE DEF n
<1>4. Typed'
  BY <1>3 DEF RInv, Typed
<1>5. SourceShaped' /\ ClaimsShaped' /\ NeedCounted'
  BY DEF RInv, SourceShaped, ClaimsShaped, NeedCounted, Rejected
<1>6. ReviewsShaped'
  BY <1>1, <1>3 DEF RInv, ReviewsShaped, RowShaped, QuiescencePending, CanOwnReview, Authors
<1>7. ReworkCovered'
  BY <1>1, <1>3 DEF RInv, ReworkCovered, Rejected, Covers
<1>8. AcceptedOnce' /\ BasisIsCurrent'
  BY DEF AcceptedOnce, BasisIsCurrent, Terminal
<1>9. OneAutomaticReview'
  <2> SUFFICES ASSUME NEW r \in Reviews', NEW o \in Reviews', reviews'[r].auto # 0,
                      reviews'[r].auto = reviews'[o].auto
               PROVE  r = o
    BY DEF OneAutomaticReview
  <2>1. CASE r \in Reviews /\ o \in Reviews
    BY <1>3, <2>1 DEF RInv, OneAutomaticReview
  <2>2. CASE r \notin Reviews \/ o \notin Reviews
    BY <1>1, <1>3, <2>2
  <2> QED
    BY <2>1, <2>2
<1>10. UNCHANGED Contract!contract
  BY DEF Contract!contract, standing, authors, judge, disputed, Terminal
<1> QED
  BY <1>4, <1>5, <1>6, <1>7, <1>8, <1>9, <1>10 DEF RInv

LEMMA ProposeReviewStep ==
    ASSUME RInv, NEW m \in Members \cup {None}, ProposeReview(m)
    PROVE  RInv' /\ UNCHANGED Contract!contract
  BY AdmissionStep DEF ProposeReview

\* A pass that admits the missing review, or names its blocker.
LEMMA AdmitMissingStep ==
    ASSUME RInv, NEW others \in BOOLEAN, AdmitMissing(others)
    PROVE  RInv' /\ UNCHANGED Contract!contract
<1> DEFINE blocked == BlockersNow(BoardStalled(others))
<1>1. /\ src.status = "submitted" /\ UNCHANGED <<src, claims, runs>>
      /\ IF blocked # "none" THEN need' = [need EXCEPT !.named = blocked] /\ UNCHANGED reviews
         ELSE reviews' = Append(reviews, NewReview(None, need.id)) /\ UNCHANGED need
  BY DEF AdmitMissing
<1>2. blocked \in Blockers \cup {"none"}
  BY DEF BlockersNow, Blockers
<1>3. blocked = "none" => \A r \in Reviews : reviews[r].auto # need.id
  BY DEF BlockersNow
<1>4. need.id \in Nat
  BY DEF RInv, Typed
<1>5. CASE blocked = "none"
  <2>1. reviews' = Append(reviews, NewReview(None, need.id)) /\ UNCHANGED need
    BY <1>1, <1>5
  <2> HIDE DEF blocked
  <2> QED
    BY <1>1, <1>3, <1>4, <1>5, <2>1, AdmissionStep DEF Terminal
<1>6. CASE blocked # "none"
  <2> HIDE DEF blocked
  <2>1. need' = [need EXCEPT !.named = blocked] /\ UNCHANGED reviews
    BY <1>1, <1>6
  <2>2. /\ need'.id = need.id
        /\ need' \in [id : Nat, ripe : BOOLEAN, named : Blockers \cup {"none"}]
    BY <1>2, <2>1 DEF RInv, Typed
  <2> QED
    BY <1>1, <2>1, <2>2 DEF RInv, Typed, SourceShaped, ReviewsShaped, RowShaped,
         QuiescencePending, CanOwnReview, Authors, ClaimsShaped, Rejected, NeedCounted, ReworkCovered,
         Covers, AcceptedOnce, BasisIsCurrent, OneAutomaticReview, Reviews, Contract!contract,
         standing, authors, judge, disputed
<1> QED
  BY <1>5, <1>6
-----------------------------------------------------------------------------
(* Steps of the source that its reviews follow. *)

Open(row) == row.status \in {"pending", "running"} \/ QuiescencePending(row)

\* What retiring the other reviews makes of the rows.
Retires(rs, to, keep, blocked) ==
    /\ to \in Seq(ReviewRow) /\ DOMAIN to = DOMAIN rs
    /\ \A r \in DOMAIN rs :
        /\ to[r].auto = rs[r].auto
        /\ to[r] = rs[r] \/ (to[r].status = "cancelled" /\ r # keep)
        /\ r # keep /\ (Open(rs[r]) \/ (blocked /\ rs[r].status = "blocked")) =>
                to[r].status = "cancelled"

LEMMA Retired ==
    ASSUME NEW rs \in Seq(ReviewRow), NEW keep, NEW blocked \in BOOLEAN
    PROVE  Retires(rs, RetireSiblings(rs, keep, blocked), keep, blocked)
<1> DEFINE to == RetireSiblings(rs, keep, blocked)
           Closes(r) == r # keep /\ (Open(rs[r]) \/ (blocked /\ rs[r].status = "blocked"))
<1>1. to = [r \in DOMAIN rs |-> IF Closes(r) THEN Fence(rs[r], "cancelled", "handoff") ELSE rs[r]]
  BY DEF RetireSiblings, Open
<1>2. DOMAIN rs = 1 .. Len(rs) /\ Len(rs) \in Nat
  BY LenProperties
<1>3. \A r \in DOMAIN rs : rs[r] \in ReviewRow
  BY <1>2, ElementOfSeq
<1>4. \A r \in DOMAIN rs : /\ Fence(rs[r], "cancelled", "handoff") \in ReviewRow
                           /\ Fence(rs[r], "cancelled", "handoff").status = "cancelled"
                           /\ Fence(rs[r], "cancelled", "handoff").auto = rs[r].auto
  BY <1>3, ReviewFenced
<1> HIDE DEF to, Closes
<1>5. to \in [1 .. Len(rs) -> ReviewRow]
  BY <1>1, <1>2, <1>3, <1>4
<1>6. to \in Seq(ReviewRow) /\ DOMAIN to = DOMAIN rs
  BY <1>2, <1>5, SeqDef
<1>7. \A r \in DOMAIN rs : to[r] = IF Closes(r) THEN Fence(rs[r], "cancelled", "handoff") ELSE rs[r]
  BY <1>1
<1> QED
  BY <1>4, <1>6, <1>7 DEF to, Closes, Retires

LEMMA CancelSourceStep ==
    ASSUME RInv, CancelSource
    PROVE  RInv' /\ Contract!Withdraw
<1>1. /\ src.status \notin Terminal /\ src' = Fence(src, "cancelled", "handoff")
      /\ reviews' = RetireSiblings(reviews, 0, TRUE) /\ UNCHANGED <<claims, runs, need>>
  BY DEF CancelSource
<1>2. /\ src' \in Source /\ src'.status = "cancelled" /\ src'.commit = src.commit
      /\ src'.rejected = src.rejected /\ src'.holder = None
      /\ src'.prior = src.prior \cup ({src.holder} \ {None})
      /\ src'.stop # "none" => src'.stop = "handoff"
  BY <1>1, SourceFenced DEF RInv
<1>3. reviews \in Seq(ReviewRow) /\ 0 \notin Reviews
  BY LenProperties DEF RInv, Typed, Reviews
<1>4. /\ reviews' \in Seq(ReviewRow) /\ Reviews' = Reviews
      /\ \A r \in Reviews :
            /\ reviews'[r].auto = reviews[r].auto
            /\ reviews'[r] = reviews[r] \/ reviews'[r].status = "cancelled"
            /\ Open(reviews[r]) \/ reviews[r].status = "blocked" => reviews'[r].status = "cancelled"
  <2>1. Retires(reviews, reviews', 0, TRUE)
    BY <1>1, <1>3, Retired
  <2> QED
    BY <1>3, <2>1 DEF Retires, Reviews
<1>5. Typed'
  BY <1>1, <1>2, <1>4 DEF RInv, Typed
<1>6. /\ SourceShaped' /\ ClaimsShaped' /\ NeedCounted' /\ ReworkCovered' /\ AcceptedOnce'
      /\ BasisIsCurrent'
  BY <1>1, <1>2 DEF RInv, SourceShaped, ClaimsShaped, Rejected, NeedCounted, ReworkCovered,
                    Terminal, AcceptedOnce, BasisIsCurrent
<1>7. ReviewsShaped'
  BY <1>1, <1>2, <1>4 DEF RInv, ReviewsShaped, RowShaped, QuiescencePending, Open, Terminal
<1>8. OneAutomaticReview'
  BY <1>4 DEF RInv, OneAutomaticReview
<1>9. Contract!Withdraw
  BY <1>1, <1>2 DEF Contract!Withdraw, Terminal, standing, authors, judge, disputed
<1> QED
  BY <1>5, <1>6, <1>7, <1>8, <1>9 DEF RInv

\* A dispute takes an acceptance away with the review it rests on.
LEMMA ChallengeStep ==
    ASSUME RInv, NEW c \in Claims, Challenge(c)
    PROVE  RInv' /\ Contract!Dispute
<1> DEFINE hit == {r \in Reviews : reviews[r].status \notin {"pending", "cancelled"}}
           status == IF src.status = "accepted" THEN "submitted" ELSE src.status
<1>1. /\ claims[c].status \notin {"unpublished", "refuted"} /\ ~claims[c].archived
      /\ src.status # "cancelled"
      /\ claims' = [claims EXCEPT ![c] =
            [claims[c] EXCEPT !.status = "challenged", !.disputes = claims[c].disputes + 1]]
      /\ src' = [src EXCEPT !.status = status] /\ UNCHANGED runs
      /\ reviews' = [r \in Reviews |->
            IF r \in hit THEN Fence(reviews[r], "cancelled", "invalidated") ELSE reviews[r]]
      /\ need' = IF hit = {} THEN need ELSE [id |-> need.id + 1, ripe |-> FALSE, named |-> "none"]
  BY DEF Challenge, Judgeable
<1>2. src \in Source /\ status \in Statuses /\ need.id \in Nat /\ reviews \in Seq(ReviewRow)
  BY DEF RInv, Typed, Source, Statuses
<1>3. ~Rejected
  BY <1>1 DEF RInv, ClaimsShaped
<1> HIDE DEF status
<1>4. /\ src' \in Source /\ src'.status = status /\ src'.commit = src.commit
      /\ src'.rejected = src.rejected /\ src'.holder = src.holder /\ src'.prior = src.prior
      /\ src'.stop = src.stop
  BY <1>1, <1>2 DEF Source
<1>5. /\ reviews' \in Seq(ReviewRow) /\ Reviews' = Reviews
      /\ \A r \in Reviews :
            /\ reviews'[r].auto = reviews[r].auto
            /\ \/ reviews'[r].status = "cancelled"
               \/ reviews'[r] = reviews[r] /\ reviews[r].status = "pending"
  <2>1. \A r \in Reviews : /\ reviews[r] \in ReviewRow
                           /\ Fence(reviews[r], "cancelled", "invalidated") \in ReviewRow
                           /\ Fence(reviews[r], "cancelled", "invalidated").status = "cancelled"
                           /\ Fence(reviews[r], "cancelled", "invalidated").auto = reviews[r].auto
    BY ReviewRowType, ReviewFenced DEF RInv
  <2>2. Reviews = 1 .. Len(reviews) /\ Len(reviews) \in Nat
    BY <1>2, LenProperties DEF Reviews
  <2> HIDE DEF hit
  <2>3. reviews' \in [1 .. Len(reviews) -> ReviewRow]
    BY <1>1, <2>1, <2>2
  <2>4. reviews' \in Seq(ReviewRow) /\ Reviews' = Reviews
    BY <2>2, <2>3, SeqDef, Zenon DEF Reviews
  <2>5. \A r \in Reviews : reviews'[r] =
            IF r \in hit THEN Fence(reviews[r], "cancelled", "invalidated") ELSE reviews[r]
    BY <1>1
  <2> QED
    BY <2>1, <2>4, <2>5 DEF hit
<1>6. /\ need' \in [id : Nat, ripe : BOOLEAN, named : Blockers \cup {"none"}]
      /\ need.id # 0 => need'.id # 0
  <2> HIDE DEF hit
  <2> QED
    BY <1>1, <1>2 DEF RInv, Typed
<1>7. /\ claims' \in [Claims -> Claim] /\ claims'[c].status = "challenged" /\ ~claims'[c].archived
      /\ claims'[c].disputes > 0 /\ \A d \in Claims \ {c} : claims'[d] = claims[d]
  <2>1. claims \in [Claims -> Claim] /\ claims[c] \in Claim /\ claims[c].disputes + 1 \in Nat
    BY DEF RInv, Typed, Claim
  <2> DEFINE disputes == claims[c].disputes + 1
             to == [claims[c] EXCEPT !.status = "challenged", !.disputes = disputes]
  <2>2. disputes \in Nat /\ disputes > 0
    BY DEF RInv, Typed, Claim
  <2> HIDE DEF disputes
  <2>3. to \in Claim /\ to.status = "challenged" /\ to.archived = claims[c].archived
        /\ to.disputes = disputes
    BY <2>1, <2>2 DEF Claim
  <2> HIDE DEF to
  <2>4. claims' = [claims EXCEPT ![c] = to]
    BY <1>1 DEF to, disputes
  <2> QED
    BY <1>1, <2>1, <2>2, <2>3, <2>4
<1>8. Typed'
  BY <1>1, <1>4, <1>5, <1>6, <1>7 DEF RInv, Typed
<1>9. SourceShaped' /\ NeedCounted' /\ ReworkCovered' /\ AcceptedOnce' /\ BasisIsCurrent'
  BY <1>4, <1>6, <1>7 DEF RInv, SourceShaped, NeedCounted, ReworkCovered, AcceptedOnce,
                          BasisIsCurrent, status
<1>10. ClaimsShaped'
  BY <1>3, <1>4, <1>7 DEF RInv, ClaimsShaped, Rejected, status
<1>11. ReviewsShaped'
  BY <1>5 DEF RInv, ReviewsShaped, RowShaped, QuiescencePending
<1>12. OneAutomaticReview'
  BY <1>5 DEF RInv, OneAutomaticReview
<1>13. Contract!Dispute
  <2>1. disputed'
    BY <1>1, <1>4, <1>7 DEF disputed, status
  <2>2. judge' = None /\ UNCHANGED authors
    BY <1>4 DEF judge, authors, status
  <2>3. standing \in {"open", "offered", "accepted"}
        /\ standing' = IF standing = "accepted" THEN "offered" ELSE standing
    BY <1>1, <1>3, <1>4 DEF standing, Rejected, status
  <2> QED
    BY <2>1, <2>2, <2>3 DEF Contract!Dispute, disputed
<1> QED
  BY <1>8, <1>9, <1>10, <1>11, <1>12, <1>13 DEF RInv

\* The rejecting review waits for the resubmission.
LEMMA ReworkStep ==
    ASSUME RInv, NEW k \in Reviews, Rework(k)
    PROVE  RInv' /\ Contract!Reopen
<1> DEFINE row == reviews[k]
           ended == EndAttempt(row)
           assignee == IF row.holder # None THEN row.holder ELSE row.assignee
           again == [ended EXCEPT !.status = "pending", !.judged = 0, !.assignee = assignee]
           rs == [reviews EXCEPT ![k] = again]
           left == EndAttempt(src)
           rejected == Append(src.rejected, src.commit)
<1>1. /\ Rejected /\ row.status = "blocked" /\ UNCHANGED <<runs, need>>
      /\ src' = [left EXCEPT !.status = "pending", !.commit = 0, !.rejected = rejected,
                             !.assignee = src.holder]
      /\ claims' = [c \in Claims |->
            [claims[c] EXCEPT !.archived = claims[c].archived \/ claims[c].status # "unpublished"]]
      /\ reviews' = RetireSiblings(rs, k, TRUE)
  <2>1. left.rejected = src.rejected
    BY SourceEnded DEF RInv, Typed
  <2>2. src' = [left EXCEPT !.status = "pending", !.commit = 0,
                            !.rejected = Append(left.rejected, src.commit), !.assignee = src.holder]
    BY DEF Rework
  <2>3. reviews' = RetireSiblings(rs, k, TRUE)
    BY DEF Rework
  <2> QED
    BY <2>1, <2>2, <2>3 DEF Rework, Rejecting, Rejected
<1>2. /\ src \in Source /\ src.stop = "none" /\ src.commit \in Commits
      /\ src.rejected \in Seq(Commits) /\ src.holder \in Members \cup {None}
  BY <1>1 DEF RInv, Typed, SourceShaped, Source, Rejected
<1>3. /\ left \in Source /\ left.holder = None /\ left.stop = "none"
      /\ left.prior = src.prior \cup ({src.holder} \ {None})
  BY <1>2, SourceEnded
<1>4. rejected \in Seq(Commits) /\ "pending" \in Statuses /\ "pending" \in ReviewStatuses
  BY <1>2, AppendProperties DEF Statuses, ReviewStatuses
<1> HIDE DEF left, rejected
<1>5. /\ src' \in Source /\ src'.status = "pending" /\ src'.commit = 0 /\ src'.holder = None
      /\ src'.stop = "none" /\ src'.prior = src.prior \cup ({src.holder} \ {None})
  BY <1>1, <1>2, <1>3, <1>4 DEF Source
<1>6. row \in ReviewRow /\ row.stop = "none"
  BY <1>1, ReviewRowType DEF RInv, ReviewsShaped, RowShaped, QuiescencePending, Rejected
<1>7. ended \in ReviewRow /\ ended.stop = "none" /\ ended.auto = row.auto
  BY <1>6, ReviewEnded
<1>8. assignee \in Members \cup {None}
  BY <1>6 DEF ReviewRow
<1> HIDE DEF row, ended, assignee
<1>9. again \in ReviewRow /\ again.status = "pending" /\ again.stop = "none" /\ again.auto = row.auto
  BY <1>4, <1>7, <1>8 DEF ReviewRow
<1> HIDE DEF again
<1>10. /\ rs \in Seq(ReviewRow) /\ DOMAIN rs = Reviews /\ rs[k] = again
       /\ \A r \in Reviews \ {k} : rs[r] = reviews[r]
  BY <1>9, ExceptSeq, LenProperties DEF RInv, Typed, Reviews
<1>11. Retires(rs, reviews', k, TRUE)
  BY <1>1, <1>10, Retired
<1> HIDE DEF rs
<1>12. /\ reviews' \in Seq(ReviewRow) /\ Reviews' = Reviews /\ reviews'[k] = again
       /\ \A r \in Reviews : reviews'[r].auto = reviews[r].auto
       /\ \A r \in Reviews \ {k} :
            /\ reviews'[r] = reviews[r] \/ reviews'[r].status = "cancelled"
            /\ Open(reviews[r]) \/ reviews[r].status = "blocked" => reviews'[r].status = "cancelled"
  BY <1>9, <1>10, <1>11 DEF Retires, Reviews, row
<1>13. /\ claims' \in [Claims -> Claim]
       /\ \A c \in Claims : /\ claims'[c].status = claims[c].status
                            /\ claims'[c].archived => claims[c].status = "refuted"
  <2>1. \A c \in Claims : claims[c] \in Claim
    BY DEF RInv, Typed
  <2>2. \A c \in Claims :
            (claims[c].archived \/ claims[c].status # "unpublished") => claims[c].status = "refuted"
    BY <1>1 DEF RInv, ClaimsShaped
  <2> DEFINE to(c) ==
        [claims[c] EXCEPT !.archived = claims[c].archived \/ claims[c].status # "unpublished"]
  <2>3. ASSUME NEW c \in Claims
        PROVE  /\ to(c) \in Claim /\ to(c).status = claims[c].status
               /\ to(c).archived = (claims[c].archived \/ claims[c].status # "unpublished")
    BY <2>1 DEF Claim
  <2>4. claims' = [c \in Claims |-> to(c)]
    BY <1>1
  <2> HIDE DEF to
  <2> QED
    BY <2>2, <2>3, <2>4
<1>14. Typed'
  BY <1>1, <1>5, <1>12, <1>13 DEF RInv, Typed
<1>15. /\ SourceShaped' /\ ClaimsShaped' /\ AcceptedOnce' /\ BasisIsCurrent' /\ ~Rejected'
  BY <1>5, <1>13 DEF SourceShaped, ClaimsShaped, AcceptedOnce, BasisIsCurrent, Rejected
<1>16. NeedCounted'
  BY <1>1 DEF RInv, NeedCounted, Rejected
<1>17. ReworkCovered'
  BY <1>9, <1>12 DEF ReworkCovered, Covers
<1>18. ReviewsShaped'
  BY <1>1, <1>9, <1>12 DEF RInv, ReviewsShaped, RowShaped, QuiescencePending, Open, Rejected
<1>19. OneAutomaticReview'
  BY <1>12 DEF RInv, OneAutomaticReview
<1>20. Contract!Reopen
  <2>1. standing = "rejected" /\ standing' = "open"
    BY <1>1, <1>5 DEF standing, Rejected
  <2>2. UNCHANGED <<authors, judge>>
    BY <1>1, <1>5 DEF authors, judge, Rejected
  <2>3. UNCHANGED disputed
    BY <1>1, <1>5, <1>13 DEF disputed, Rejected
  <2> QED
    BY <2>1, <2>2, <2>3 DEF Contract!Reopen
<1> QED
  BY <1>14, <1>15, <1>16, <1>17, <1>18, <1>19, <1>20 DEF RInv

\* A verdict settles every claim it could judge.
LEMMA ClaimsJudged ==
    ASSUME RInv, src.status # "cancelled", NEW passed \in BOOLEAN, NEW c \in Claims
    PROVE  /\ Judged(c, passed) \in Claim
           /\ Judged(c, passed).archived = claims[c].archived
           /\ claims[c].archived => Judged(c, passed).status = claims[c].status
           /\ Judged(c, passed).status # "challenged"
           /\ ~passed => Judged(c, passed).status \in {"unpublished", "refuted"}
<1>1. claims[c] \in Claim /\ (claims[c].archived => claims[c].status = "refuted")
  BY DEF RInv, Typed, ClaimsShaped
<1>2. CASE Judgeable(c)
  <2>1. PICK verdict \in {"refuted", "verified", "unverified"} :
            /\ Judged(c, passed) = [claims[c] EXCEPT !.status = verdict]
            /\ ~passed => verdict = "refuted"
    BY <1>2 DEF Judged
  <2> QED
    BY <1>1, <1>2, <2>1 DEF Claim, Judgeable
<1>3. CASE ~Judgeable(c)
  BY <1>1, <1>3 DEF Judged, Judgeable
<1> QED
  BY <1>2, <1>3

\* A judgement is a verdict of the artifact the source offers, by a member who never
\* worked on it.
LEMMA VerdictStep ==
    ASSUME RInv, NEW run \in runs, NEW passed \in BOOLEAN, Verdict(run, passed)
    PROVE  RInv' /\ \E m \in Members : Contract!Judge(m)
<1> DEFINE k == run.review
           row == reviews[k]
           status == IF passed THEN "accepted" ELSE "blocked"
           judged == [row EXCEPT !.status = status, !.judged = run.commit, !.basis = run.checks]
           rs == [reviews EXCEPT ![k] = judged]
<1>1. /\ row.status = "running" /\ src.status = "submitted"
      /\ run.commit = src.commit /\ run.checks = src.checks
      /\ src' = [src EXCEPT !.status = status] /\ reviews' = RetireSiblings(rs, k, passed)
      /\ claims' = [c \in Claims |-> Judged(c, passed)]
      /\ runs' \subseteq runs /\ UNCHANGED need
  BY DEF Verdict, Holds, Current
<1>2. /\ k \in Reviews /\ row \in ReviewRow /\ row.stop = "none"
      /\ row.holder \in Members /\ CanOwnReview(row.holder)
  BY <1>1, ReviewRowType DEF RInv, Typed, ReviewsShaped, RowShaped
<1>3. /\ src \in Source /\ src.commit \in Nat /\ src.checks \in Nat /\ src.commit # 0
      /\ src.stop = "none"
  BY <1>1, ReviewConstants DEF RInv, Typed, Source, SourceShaped
<1>4. status \in Statuses /\ status \in ReviewStatuses
  BY DEF Statuses, ReviewStatuses
<1> HIDE DEF row, status
<1>5. /\ src' \in Source /\ src'.status = status /\ src'.commit = src.commit
      /\ src'.rejected = src.rejected /\ src'.holder = src.holder /\ src'.prior = src.prior
      /\ src'.stop = "none" /\ src'.checks = src.checks
  BY <1>1, <1>3, <1>4 DEF Source
<1>6. /\ judged \in ReviewRow /\ judged.status = status /\ judged.stop = "none"
      /\ judged.holder = row.holder /\ judged.auto = row.auto
      /\ judged.judged = src.commit /\ judged.basis = src.checks
  BY <1>1, <1>2, <1>3, <1>4 DEF ReviewRow
<1> HIDE DEF judged, k
<1>7. /\ rs \in Seq(ReviewRow) /\ DOMAIN rs = Reviews /\ rs[k] = judged
      /\ \A r \in Reviews \ {k} : rs[r] = reviews[r]
  BY <1>2, <1>6, ExceptSeq, LenProperties DEF RInv, Typed, Reviews
<1> HIDE DEF rs
<1>8. Retires(rs, reviews', k, passed)
  BY <1>1, <1>7, Retired
<1>9. /\ reviews' \in Seq(ReviewRow) /\ Reviews' = Reviews /\ reviews'[k] = judged
      /\ \A r \in Reviews : reviews'[r].auto = reviews[r].auto
      /\ \A r \in Reviews \ {k} :
            /\ reviews'[r] = reviews[r] \/ reviews'[r].status = "cancelled"
            /\ Open(reviews[r]) \/ (passed /\ reviews[r].status = "blocked") =>
                    reviews'[r].status = "cancelled"
  BY <1>2, <1>6, <1>7, <1>8 DEF Retires, Reviews, row
<1>10. /\ claims' \in [Claims -> Claim]
       /\ \A c \in Claims : /\ claims'[c].archived => claims'[c].status = "refuted"
                            /\ claims'[c].status # "challenged"
                            /\ ~passed => claims'[c].status \in {"unpublished", "refuted"}
  <2>1. \A c \in Claims : claims'[c] = Judged(c, passed)
    BY <1>1
  <2> QED
    BY <1>1, <2>1, ClaimsJudged DEF RInv, ClaimsShaped
<1>11. \A r \in Reviews : reviews[r].status # "accepted"
  BY <1>1 DEF RInv, ReviewsShaped, RowShaped
<1>12. Typed'
  BY <1>1, <1>5, <1>9, <1>10 DEF RInv, Typed
<1>13. /\ SourceShaped' /\ ClaimsShaped' /\ NeedCounted' /\ ReworkCovered'
  BY <1>1, <1>3, <1>5, <1>10 DEF RInv, SourceShaped, ClaimsShaped, NeedCounted, ReworkCovered,
                                 Rejected, Terminal, status
<1>14. ReviewsShaped'
  BY <1>5, <1>6, <1>9, <1>11 DEF RInv, ReviewsShaped, RowShaped, QuiescencePending, Open, status
<1>15. OneAutomaticReview'
  BY <1>9 DEF RInv, OneAutomaticReview
<1>16. CASE passed
  <2>1. status = "accepted"
    BY <1>16 DEF status
  <2>2. \A o \in Reviews \ {k} : reviews[o] \in ReviewRow
    BY ReviewRowType DEF RInv
  <2>3. \A o \in Reviews \ {k} : reviews'[o].status = "cancelled"
    BY <1>9, <1>11, <1>16, <2>2 DEF Open, ReviewRow, ReviewStatuses, Statuses
  <2>4. AcceptedOnce'
    <3>1. row.holder \notin src.prior \cup {src.holder}
      BY <1>2, ReviewConstants DEF CanOwnReview, Authors
    <3> QED
      BY <1>2, <1>5, <1>6, <1>9, <1>10, <2>1, <2>3, <3>1 DEF AcceptedOnce
  <2>5. BasisIsCurrent'
    BY <1>5, <1>6, <1>9, <2>3 DEF BasisIsCurrent
  <2>6. judge' = row.holder
    <3>1. reviews'[k].status = "accepted" /\ k \in Reviews' /\ src'.status = "accepted"
      BY <1>2, <1>5, <1>6, <1>9, <2>1
    <3>2. \A o \in Reviews' : reviews'[o].status = "accepted" => o = k
      BY <1>9, <2>3
    <3>3. (CHOOSE o \in Reviews' : reviews'[o].status = "accepted") = k
      BY <3>1, <3>2
    <3> QED
      BY <1>6, <1>9, <3>1, <3>3 DEF judge
  <2>7. standing = "offered" /\ standing' = "accepted" /\ UNCHANGED authors
    BY <1>1, <1>5, <2>1 DEF standing, authors
  <2>8. disputed' = FALSE
    BY <1>10 DEF disputed
  <2>9. row.holder \notin authors
    BY <1>2 DEF CanOwnReview, Authors, authors
  <2>10. Contract!Judge(row.holder)
    BY <2>6, <2>7, <2>8, <2>9 DEF Contract!Judge
  <2> QED
    BY <1>2, <1>12, <1>13, <1>14, <1>15, <2>4, <2>5, <2>10 DEF RInv
<1>17. CASE ~passed
  <2>1. status = "blocked"
    BY <1>17 DEF status
  <2>2. AcceptedOnce' /\ BasisIsCurrent'
    BY <1>5, <2>1 DEF AcceptedOnce, BasisIsCurrent
  <2>3. /\ standing = "offered" /\ standing' = "rejected" /\ UNCHANGED <<authors, judge>>
    BY <1>1, <1>3, <1>5, <2>1 DEF standing, authors, judge
  <2>4. disputed' = FALSE
    BY <1>10 DEF disputed
  <2>5. row.holder \notin authors
    BY <1>2 DEF CanOwnReview, Authors, authors
  <2>6. Contract!Judge(row.holder)
    BY <2>3, <2>4, <2>5 DEF Contract!Judge
  <2> QED
    BY <1>2, <1>12, <1>13, <1>14, <1>15, <2>2, <2>6 DEF RInv
<1> QED
  BY <1>16, <1>17
-----------------------------------------------------------------------------
(* Every step. *)

LEMMA ReviewInit == Init => RInv /\ Contract!Init
<1> SUFFICES ASSUME Init PROVE RInv /\ Contract!Init
  OBVIOUS
<1>1. /\ src = [status |-> "pending", stop |-> "none", epoch |-> 0, holder |-> None, assignee |-> None,
                prior |-> {}, commit |-> 0, checks |-> Checks, rejected |-> <<>>]
      /\ reviews = <<>> /\ runs = {} /\ need = [id |-> 0, ripe |-> FALSE, named |-> "none"]
  BY DEF Init
<1>2. claims = [c \in Claims |-> [status |-> "unpublished", disputes |-> 0, firm |-> TRUE,
                                  supersedes |-> FALSE, archived |-> FALSE]]
  BY DEF Init
<1>3. src \in Source
  BY <1>1, EmptySeq, ReviewConstants DEF Source, Statuses, Stops
<1>4. reviews \in Seq(ReviewRow) /\ Reviews = {}
  BY <1>1, EmptySeq DEF Reviews
<1>5. /\ claims \in [Claims -> Claim]
      /\ \A c \in Claims : claims[c].status = "unpublished" /\ ~claims[c].archived
  BY <1>2 DEF Claim
<1>6. need \in [id : Nat, ripe : BOOLEAN, named : Blockers \cup {"none"}]
  BY <1>1
<1>7. RInv
  BY <1>1, <1>3, <1>4, <1>5, <1>6 DEF RInv, Typed, SourceShaped, ReviewsShaped, ClaimsShaped,
       Rejected,
        NeedCounted, ReworkCovered, AcceptedOnce, BasisIsCurrent, OneAutomaticReview
<1>8. Contract!Init
  BY <1>1, <1>5 DEF Contract!Init, standing, authors, judge, disputed
<1> QED
  BY <1>7, <1>8

LEMMA ReviewStep == RInv /\ [Next]_vars => RInv' /\ [Contract!Next]_(Contract!contract)
<1> SUFFICES ASSUME RInv, [Next]_vars PROVE RInv' /\ [Contract!Next]_(Contract!contract)
  OBVIOUS
<1>1. CASE UNCHANGED vars
  BY <1>1, RunsStep DEF vars, RInv, Typed
<1>2. ASSUME NEW m \in Members, TakeSource(m) PROVE RInv' /\ Contract!Next
  BY <1>2, TakeSourceStep DEF Contract!Next
<1>3. ASSUME NEW m \in Members, NEW r \in Reviews, TakeReview(r, m)
      PROVE  RInv' /\ UNCHANGED Contract!contract
  BY <1>3, TakeReviewStep
<1>4. ASSUME NEW m \in Members \cup {None}, HandoffSource(m) \/ ProposeReview(m)
      PROVE  RInv' /\ UNCHANGED Contract!contract
  BY <1>4, HandoffSourceStep, ProposeReviewStep
<1>5. ASSUME NEW m \in Members \cup {None}, NEW r \in Reviews, HandoffReview(r, m)
      PROVE  RInv' /\ UNCHANGED Contract!contract
  BY <1>5, HandoffReviewStep
<1>6. ASSUME NEW firm \in Outcomes, NEW s \in BOOLEAN, Publish(firm, s)
      PROVE  RInv' /\ UNCHANGED Contract!contract
  BY <1>6, PublishStep
<1>7. ASSUME NEW commit \in Commits, Submit(commit) PROVE RInv' /\ Contract!Next
  BY <1>7, SubmitStep DEF Contract!Next
<1>8. CASE SettleSource \/ Strengthen \/ Grace
  BY <1>8, SettleSourceStep, StrengthenStep, GraceStep
<1>9. CASE CancelSource
  BY <1>9, CancelSourceStep DEF Contract!Next
<1>10. ASSUME NEW r \in Reviews,
              SettleReview(r) \/ PublishReview(r) \/ CancelReview(r) \/ ResumeReview(r)
       PROVE  RInv' /\ UNCHANGED Contract!contract
  BY <1>10, SettleReviewStep, PublishReviewStep, CancelReviewStep, ResumeReviewStep
<1>11. ASSUME NEW r \in Reviews, Rework(r) PROVE RInv' /\ Contract!Next
  BY <1>11, ReworkStep DEF Contract!Next
<1>12. ASSUME NEW r \in Reviews, NEW accept \in BOOLEAN, BeginVerdict(r, accept)
       PROVE  RInv' /\ UNCHANGED Contract!contract
  BY <1>12, BeginVerdictStep
<1>13. ASSUME NEW run \in runs, Refused(run) \/ Unfounded(run) \/ Defer(run)
       PROVE  RInv' /\ UNCHANGED Contract!contract
  BY <1>13, VerdictDroppedStep, DeferStep
<1>14. ASSUME NEW run \in runs, NEW passed \in BOOLEAN, Verdict(run, passed)
       PROVE  RInv' /\ Contract!Next
  BY <1>14, VerdictStep DEF Contract!Next
<1>15. ASSUME NEW c \in Claims, Challenge(c) PROVE RInv' /\ Contract!Next
  BY <1>15, ChallengeStep DEF Contract!Next
<1>16. ASSUME NEW others \in BOOLEAN, AdmitMissing(others)
       PROVE  RInv' /\ UNCHANGED Contract!contract
  BY <1>16, AdmitMissingStep
<1> QED
  BY <1>1, <1>2, <1>3, <1>4, <1>5, <1>6, <1>7, <1>8, <1>9, <1>10, <1>11, <1>12, <1>13, <1>14, <1>15,
     <1>16 DEF Next
-----------------------------------------------------------------------------
(* The theorems. *)

\* The invariant holds in every state.
THEOREM ReviewInvariant == Spec => []RInv
<1>1. Init => RInv
  BY ReviewInit
<1>2. RInv /\ [Next]_vars => RInv'
  BY ReviewStep
<1> QED
  BY <1>1, <1>2, PTL DEF Spec

\* An acceptance rests on the checks its source declares now (SwarmRuntime.verify).
THEOREM AcceptancesRestOnCurrent == Spec => []BasisIsCurrent
<1>1. RInv => BasisIsCurrent
  BY DEF RInv
<1> QED
  BY <1>1, ReviewInvariant, PTL

\* A resubmission after a rework has a review that may judge it, unless the owner or a
\* dispute took it away (reopenReviewForRework).
THEOREM ReworksAreReviewed == Spec => []ReworkIsReviewed
<1>1. RInv => ReworkIsReviewed
  BY DEF RInv, Typed, ReworkCovered, ReworkIsReviewed, Covers, Rejected, Terminal
<1> QED
  BY <1>1, ReviewInvariant, PTL

\* The host admits one review for a need (admitMissingReviews, reviewPathBlocker).
THEOREM NeedsAdmitOnce == Spec => []OneAutomaticReview
<1>1. RInv => OneAutomaticReview
  BY DEF RInv
<1> QED
  BY <1>1, ReviewInvariant, PTL

\* Accepted work has exactly one accepted review, of the commit it holds, by a member who
\* never worked on it, and none of its claims is in dispute (verifiedDelivery).
THEOREM AcceptancesStand == Spec => []AcceptedOnce
<1>1. RInv => AcceptedOnce
  BY DEF RInv
<1> QED
  BY <1>1, ReviewInvariant, PTL

\* The rows and claims of the runtime implement the contract of independent review.
THEOREM ReviewImplementsContract == Spec => KeepsContract
<1>1. Init => Contract!Init
  BY ReviewInit
<1>2. RInv /\ [Next]_vars => [Contract!Next]_(Contract!contract)
  BY ReviewStep
<1> QED
  BY <1>1, <1>2, ReviewInvariant, PTL DEF Spec, KeepsContract, Contract!Spec

\* What the contract gives its reader: accepted work was judged by a member who never
\* worked on it, and none of its claims is in dispute.
THEOREM VerdictsIndependent == Contract!Spec => []Contract!IndependentAndUndisputed
<1>1. Contract!Init => Contract!IndependentAndUndisputed
  BY DEF Contract!Init, Contract!IndependentAndUndisputed
<1>2. Contract!IndependentAndUndisputed /\ [Contract!Next]_(Contract!contract) =>
        Contract!IndependentAndUndisputed'
  BY DEF Contract!IndependentAndUndisputed, Contract!Next, Contract!contract, Contract!Work,
         Contract!Judge, Contract!Offer, Contract!Dispute, Contract!Reopen, Contract!Withdraw
<1> QED
  BY <1>1, <1>2, PTL DEF Contract!Spec

\* A refuted claim is never verified or disputed again (SwarmRuntime.verify, challenge).
THEOREM RefutationsFinal == Spec => RefutedIsFinal
<1>1. RInv /\ [Next]_vars =>
        [\A c \in Claims : claims[c].status = "refuted" => claims'[c].status = "refuted"]_vars
  <2> SUFFICES ASSUME RInv, Next, NEW c \in Claims, claims[c].status = "refuted"
               PROVE  claims'[c].status = "refuted"
    OBVIOUS
  <2>1. ASSUME NEW firm \in Outcomes, NEW s \in BOOLEAN, Publish(firm, s)
        PROVE  claims'[c].status = "refuted"
    BY <2>1 DEF Publish, RInv, Typed
  <2>2. ASSUME NEW run \in runs, NEW passed \in BOOLEAN, Verdict(run, passed)
        PROVE  claims'[c].status = "refuted"
    BY <2>2 DEF Verdict, Judged, Judgeable
  <2>3. ASSUME NEW d \in Claims, Challenge(d) PROVE claims'[c].status = "refuted"
    BY <2>3 DEF Challenge, Judgeable, RInv, Typed
  <2>4. ASSUME NEW r \in Reviews, Rework(r) PROVE claims'[c].status = "refuted"
    <3>1. claims'[c] =
            [claims[c] EXCEPT !.archived = claims[c].archived \/ claims[c].status # "unpublished"]
      BY <2>4 DEF Rework
    <3>2. claims[c] \in Claim
      BY DEF RInv, Typed
    <3> QED
      BY <3>1, <3>2 DEF Claim
  <2>5. CASE UNCHANGED claims
    BY <2>5
  <2> QED
    BY <2>1, <2>2, <2>3, <2>4, <2>5 DEF Next, TakeSource, TakeReview, HandoffSource, ProposeReview,
       HandoffReview, Submit, SettleSource, CancelSource, Strengthen, Grace, SettleReview, PublishReview,
       CancelReview, ResumeReview, BeginVerdict, Refused, Unfounded, Defer, AdmitMissing
<1> QED
  BY <1>1, ReviewInvariant, PTL DEF Spec, RefutedIsFinal
=============================================================================
