---------------------------- MODULE AttemptsProofs ----------------------------
(***************************************************************************)
(* The safety of Attempts and its refinement of TaskOwnership, for any     *)
(* number of members and tasks.                                            *)
(*                                                                         *)
(*   1. what every write of TaskRow keeps of the row it starts from        *)
(*   2. the inductive invariant of Attempts and its theorems: a step       *)
(*      either lets rows evolve, and then only what surrounds the rows     *)
(*      has to be looked at, or takes a row up or lets it go               *)
(*   3. the refinement                                                     *)
(*   4. what TaskOwnership gives its reader                                *)
(***************************************************************************)
EXTENDS AttemptsRefinement, TLAPS

(* 1. The rows. *)

\* The two halves of an attempt's life exclude each other in one row.
Sound(r) ==
    /\ r.status = "running" => r.attempt # None
    /\ r.attempt # None =>
         /\ r.status \in {"running", "submitted"}
         /\ r.attempt.epoch = r.epoch
    /\ r.stop # None =>
         /\ StopPending(r)
         /\ r.attempt = None
         /\ r.status \in {"blocked", "cancelled"}

RowOK(r) == r \in Row /\ Sound(r)

\* m has the row: it holds its open attempt or still owes the stop of one.
Has(r, m) == OpenBy(r, m) \/ OwesStop(r, m)

\* A turn of m may still be executing the attempt of epoch e.
MayExecute(r, m, e) == (OpenBy(r, m) /\ r.epoch = e) \/ OwesStop(r, m)

\* The write r -> s hands the row to nobody and forgets nothing.
HandsToNobody(r, s) ==
    /\ RowOK(s)
    /\ Authors(r) \subseteq Authors(s)
    /\ r.status = "cancelled" => s.status = "cancelled"
    /\ r.status = "submitted" => s.status \in {"submitted", "cancelled"}
    /\ HoldsOpen(s) => HoldsOpen(r) /\ s.attempt.owner = r.attempt.owner /\ s.assignee = r.assignee
    /\ \A m \in Members : Has(s, m) => Has(r, m)

\* A stop owed stays owed, by the same member at the same epoch.
KeepsStop(r, s) ==
    StopPending(r) => StopPending(s) /\ s.stop.member = r.stop.member /\ s.epoch = r.epoch

\* Neither does it end the attempt of a member that owes no stop for it.
Evolves(r, s) ==
    /\ HandsToNobody(r, s)
    /\ KeepsStop(r, s)
    /\ \A m \in Members, e \in Nat : MayExecute(r, m, e) => MayExecute(s, m, e)
-----------------------------------------------------------------------------
\* A row as it is admitted is sound.
LEMMA NewRowOK == ASSUME NEW m \in Members \cup {None} PROVE RowOK(NewRow(m))
BY RowConstants, NoneIsNoValue DEF NewRow, RowOK, Sound, Row, Statuses, StopPending

\* Writes that evolve a row compose.
LEMMA EvolvesTransitive ==
    ASSUME NEW r, NEW s, NEW u, Evolves(r, s), Evolves(s, u)
    PROVE  Evolves(r, u)
BY DEF Evolves, HandsToNobody, KeepsStop

\* A write that leaves the row alone.
LEMMA EvolvesReflexive == ASSUME NEW r, RowOK(r) PROVE Evolves(r, r)
BY DEF Evolves, HandsToNobody, KeepsStop

\* The fields an attempt's life is made of.
SameLife(r, s) ==
    /\ s.status = r.status /\ s.epoch = r.epoch /\ s.attempt = r.attempt
    /\ s.stop = r.stop /\ s.prior = r.prior

\* The other fields may change, before a write or instead of one.
LEMMA SameLifeEvolves ==
    ASSUME NEW r, RowOK(r), NEW s \in Row, SameLife(r, s)
    PROVE  /\ RowOK(s)
           /\ (HoldsOpen(r) => s.assignee = r.assignee) => Evolves(r, s)
           /\ \A u : Evolves(s, u) /\ ~HoldsOpen(u) => Evolves(r, u)
BY DEF SameLife, Evolves, HandsToNobody, KeepsStop, RowOK, Sound, StopPending, HoldsOpen, OpenBy,
       OwesStop, Has, MayExecute, Authors

\* Ending an attempt under a fence leaves a stop owed by the same member.
LEMMA FenceEvolves ==
    ASSUME NEW r, RowOK(r), NEW status \in {"blocked", "cancelled"}, NEW reason \in Reasons,
           r.status \in {"submitted", "cancelled"} => status = "cancelled"
    PROVE  Evolves(r, FenceForStop(r, status, reason))
<1>. DEFINE s == FenceForStop(r, status, reason)
<1>. SUFFICES Evolves(r, s)
  OBVIOUS
<1>. USE DEF RowOK, Sound, StopPending, HoldsOpen
<1>1. CASE StopPending(r)
  <2>1. s = [r EXCEPT !.status = status,
                      !.stop.reason = IF reason = "invalidated" THEN reason ELSE @]
    BY <1>1 DEF FenceForStop, DropAttempt
  <2>2. r.stop \in Stop /\ r.attempt = None
    BY <1>1 DEF Row
  <2>3. s.stop \in Stop /\ s.stop.epoch = r.stop.epoch /\ s.stop.member = r.stop.member
    BY <2>1, <2>2 DEF Row, Stop
  <2>4. s \in Row
    BY <2>1, <2>3 DEF Row, Statuses
  <2>5. s.stop # None
    BY <2>3, NoneIsNoValue
  <2>. QED
    BY <1>1, <2>1, <2>2, <2>3, <2>4, <2>5
       DEF Evolves, HandsToNobody, KeepsStop, Row, OpenBy, OwesStop, Has, MayExecute, Authors
<1>2. CASE ~StopPending(r) /\ HoldsOpen(r)
  <2>. DEFINE e == r.epoch + 1
              prior == r.prior \cup {r.attempt.owner}
              stop == [epoch |-> e, member |-> r.attempt.owner, reason |-> reason, failure |-> "none"]
  <2>1. s = [r EXCEPT !.attempt = None, !.prior = prior, !.epoch = e, !.status = status, !.stop = stop]
    BY <1>2 DEF FenceForStop, EndAttempt, DropAttempt
  <2>2. r.attempt \in Attempt /\ r.attempt.owner \in Members
    BY <1>2 DEF Row, Attempt
  <2>3. e \in Nat /\ prior \in SUBSET Members
    BY <2>2 DEF Row
  <2>4. stop \in Stop /\ stop # None /\ stop.epoch = e /\ stop.member = r.attempt.owner
    BY <2>2, <2>3, NoneIsNoValue DEF Stop, Failures
  <2>. HIDE DEF e, prior, stop
  <2>5. /\ s \in Row /\ s.status = status /\ s.epoch = e /\ s.attempt = None
        /\ s.stop = stop /\ s.prior = prior
    BY <2>1, <2>3, <2>4 DEF Row, Statuses
  <2>. HIDE DEF s
  <2>6. RowOK(s)
    BY <2>4, <2>5
  <2>7. Authors(r) \subseteq Authors(s)
    BY <1>2, <2>5 DEF prior, Authors
  <2>8. \A m \in Members : (OwesStop(s, m) <=> OpenBy(r, m)) /\ ~OpenBy(s, m) /\ ~OwesStop(r, m)
    BY <1>2, <2>4, <2>5 DEF OpenBy, OwesStop
  <2>. HIDE DEF RowOK
  <2>. QED
    BY <1>2, <2>5, <2>6, <2>7, <2>8 DEF Evolves, HandsToNobody, KeepsStop, Has, MayExecute
<1>3. CASE ~StopPending(r) /\ ~HoldsOpen(r)
  <2>. DEFINE e == r.epoch + 1
              prior == Authors(r)
  <2>1. r.stop = None /\ (r.attempt # None => r.attempt.owner \in Members)
    BY <1>3 DEF Row, Attempt
  <2>2. e \in Nat /\ prior \in SUBSET Members
    BY <2>1 DEF Row, Authors
  <2>3. /\ s \in Row /\ s.status = status /\ s.attempt = None /\ s.stop = None /\ s.prior = prior
    <3>1. CASE r.attempt = None
      <4>1. s = [r EXCEPT !.epoch = e, !.status = status, !.stop = @]
        BY <1>3, <3>1 DEF FenceForStop, EndAttempt, DropAttempt
      <4>. HIDE DEF e
      <4>. QED  BY <4>1, <2>1, <2>2, <3>1 DEF Row, Statuses, Authors
    <3>2. CASE r.attempt # None
      <4>1. s = [r EXCEPT !.attempt = None, !.prior = prior, !.epoch = e, !.status = status, !.stop = @]
        BY <1>3, <3>2 DEF FenceForStop, EndAttempt, DropAttempt, Authors
      <4>. HIDE DEF e, prior
      <4>. QED  BY <4>1, <2>1, <2>2 DEF Row, Statuses
    <3>. QED  BY <3>1, <3>2
  <2>4. RowOK(s)
    BY <2>3
  <2>5. \A m \in Members : ~OwesStop(s, m) /\ ~OpenBy(s, m) /\ ~OpenBy(r, m) /\ ~OwesStop(r, m)
    BY <1>3, <2>3 DEF OpenBy, OwesStop
  <2>. HIDE DEF RowOK, s
  <2>. QED
    BY <1>3, <2>3, <2>4, <2>5 DEF Evolves, HandsToNobody, KeepsStop, Has, MayExecute, Authors
<1>. QED  BY <1>1, <1>2, <1>3

\* A fence leaves no open attempt.
LEMMA FencedIsNotOpen ==
    ASSUME NEW r, RowOK(r), NEW status \in {"blocked", "cancelled"}, NEW reason \in Reasons
    PROVE  FenceForStop(r, status, reason).status = status
<1>1. r.attempt = None => DropAttempt(r) = r
  BY DEF DropAttempt
<1>2. CASE StopPending(r)
  BY <1>1, <1>2 DEF FenceForStop, RowOK, Sound, Row
<1>3. CASE ~StopPending(r)
  BY <1>3 DEF FenceForStop, EndAttempt, DropAttempt, RowOK, Row
<1>. QED  BY <1>2, <1>3

\* A write of other fields, then the fence: what every fencing operation does.
LEMMA FencedEvolves ==
    ASSUME NEW r, RowOK(r), NEW s \in Row, SameLife(r, s),
           NEW status \in {"blocked", "cancelled"}, NEW reason \in Reasons,
           r.status \in {"submitted", "cancelled"} => status = "cancelled"
    PROVE  Evolves(r, FenceForStop(s, status, reason))
<1>1. RowOK(s)
  BY SameLifeEvolves
<1>2. Evolves(s, FenceForStop(s, status, reason))
  BY <1>1, FenceEvolves DEF SameLife
<1>3. ~HoldsOpen(FenceForStop(s, status, reason))
  BY <1>1, FencedIsNotOpen DEF HoldsOpen
<1>. QED  BY <1>2, <1>3, SameLifeEvolves
-----------------------------------------------------------------------------
(***************************************************************************)
(* The writes of the operations, one lemma each.                           *)
(***************************************************************************)

LEMMA HandedOffEvolves ==
    ASSUME NEW r, RowOK(r), HoldsOpen(r), NEW to \in Members \cup {None}
    PROVE  Evolves(r, HandedOff(r, to))
<1>. DEFINE p == IF to = None THEN r.planned ELSE to
            s == [r EXCEPT !.assignee = to, !.planned = p]
<1>1. s \in Row /\ SameLife(r, s)
  BY DEF RowOK, Row, SameLife
<1>2. HandedOff(r, to) = FenceForStop(s, "blocked", "handoff")
  BY DEF HandedOff
<1>. QED  BY <1>1, <1>2, FencedEvolves DEF HoldsOpen, Reasons

LEMMA CeilingBlockedEvolves ==
    ASSUME NEW r, RowOK(r), HoldsOpen(r)
    PROVE  Evolves(r, CeilingBlocked(r))
<1>. DEFINE s == [r EXCEPT !.ceiling = TRUE]
<1>1. s \in Row /\ SameLife(r, s)
  BY DEF RowOK, Row, SameLife
<1>. QED  BY <1>1, FencedEvolves DEF CeilingBlocked, HoldsOpen, Reasons

\* Spending stays within the allowance.
LEMMA SpentInRange == ASSUME NEW credit \in 0 .. MaxRecovery PROVE Spent(credit) \in 0 .. MaxRecovery
BY RowConstants DEF Spent

LEMMA ClosedOutEvolves ==
    ASSUME NEW r, RowOK(r), HoldsOpen(r), NEW m \in Members
    PROVE  Evolves(r, ClosedOut(r, m))
<1>. DEFINE c == Spent(r.credit)
            p == IF r.planned = None THEN m ELSE r.planned
            s == [r EXCEPT !.credit = c, !.assignee = m, !.planned = p]
<1>1. c \in 0 .. MaxRecovery
  BY SpentInRange DEF RowOK, Row
<1>2. ClosedOut(r, m) = FenceForStop(s, "blocked", "worker-closeout")
  BY DEF ClosedOut
<1>3. s \in Row /\ SameLife(r, s)
  <2>. HIDE DEF c
  <2>. QED  BY <1>1 DEF RowOK, Row, SameLife
<1>. QED  BY <1>2, <1>3, FencedEvolves DEF HoldsOpen, Reasons

LEMMA CloseOutFailedEvolves ==
    ASSUME NEW r, RowOK(r), HoldsOpen(r)
    PROVE  Evolves(r, CloseOutFailed(r))
BY FenceEvolves DEF CloseOutFailed, HoldsOpen, Reasons

LEMMA ExpiredEvolves ==
    ASSUME NEW r, RowOK(r), HoldsOpen(r), NEW parked \in BOOLEAN, NEW live \in SUBSET Members
    PROVE  Evolves(r, Expired(r, parked, live))
<1>. DEFINE c == IF parked THEN r.credit ELSE Spent(r.credit)
            a == IF r.planned \in live THEN r.planned ELSE None
            s == [r EXCEPT !.credit = c, !.assignee = a]
<1>1. c \in 0 .. MaxRecovery /\ a \in Members \cup {None}
  BY SpentInRange DEF RowOK, Row
<1>2. Expired(r, parked, live) = FenceForStop(s, "blocked", "lease-expired")
  BY DEF Expired
<1>3. s \in Row /\ SameLife(r, s)
  <2>. HIDE DEF c, a
  <2>. QED  BY <1>1 DEF RowOK, Row, SameLife
<1>. QED  BY <1>2, <1>3, FencedEvolves DEF HoldsOpen, Reasons

LEMMA RouteRefusedEvolves ==
    ASSUME NEW r, RowOK(r), NEW m \in Members
    PROVE  Evolves(r, RouteRefusedRow(r, m)) /\ ~OpenBy(RouteRefusedRow(r, m), m)
<1>. DEFINE s == [r EXCEPT !.assignee = None]
            f == FenceForStop(s, "blocked", "handoff")
<1>1. s \in Row /\ SameLife(r, s)
  BY DEF RowOK, Row, SameLife
<1>2. RowOK(s)
  BY <1>1, SameLifeEvolves
<1>3. CASE OpenBy(r, m)
  <2>1. RouteRefusedRow(r, m) = f
    BY <1>3 DEF RouteRefusedRow
  <2>2. Evolves(r, f)
    BY <1>1, <1>3, FencedEvolves DEF OpenBy, HoldsOpen, Reasons
  <2>3. f.status = "blocked"
    BY <1>2, FencedIsNotOpen DEF Reasons
  <2>. QED  BY <2>1, <2>2, <2>3 DEF OpenBy, HoldsOpen
<1>4. CASE ~OpenBy(r, m) /\ r.status = "pending" /\ r.assignee = m
  <2>1. RouteRefusedRow(r, m) = s
    BY <1>4 DEF RouteRefusedRow
  <2>2. Evolves(r, s)
    BY <1>1, <1>4, SameLifeEvolves DEF HoldsOpen
  <2>. QED  BY <1>1, <1>4, <2>1, <2>2 DEF OpenBy, HoldsOpen, SameLife
<1>5. CASE ~OpenBy(r, m) /\ ~(r.status = "pending" /\ r.assignee = m)
  BY <1>5, EvolvesReflexive DEF RouteRefusedRow
<1>. QED  BY <1>3, <1>4, <1>5

LEMMA ControlFencedEvolves ==
    ASSUME NEW r, RowOK(r), NEW status \in {"blocked", "cancelled"}
    PROVE  Evolves(r, ControlFenced(r, status)) /\ ~HoldsOpen(ControlFenced(r, status))
<1>. DEFINE to == IF r.status = "cancelled" THEN "cancelled" ELSE status
<1>1. CASE r.status = "running" \/ StopPending(r)
  <2>1. ControlFenced(r, status) = FenceForStop(r, to, "handoff")
    BY <1>1 DEF ControlFenced
  <2>2. r.status # "submitted"
    BY <1>1 DEF RowOK, Sound, StopPending
  <2>. QED  BY <2>1, <2>2, FenceEvolves, FencedIsNotOpen DEF HoldsOpen, Reasons
<1>2. CASE ~(r.status = "running" \/ StopPending(r))
  BY <1>2, EvolvesReflexive DEF ControlFenced, HoldsOpen
<1>. QED  BY <1>1, <1>2

\* The marks of an attempt that are not its identity.
LEMMA AttemptMarkedEvolves ==
    ASSUME NEW r, RowOK(r), r.attempt # None, NEW a \in Attempt,
           a.epoch = r.attempt.epoch, a.owner = r.attempt.owner
    PROVE  Evolves(r, [r EXCEPT !.attempt = a])
<1>. DEFINE s == [r EXCEPT !.attempt = a]
<1>1. /\ s \in Row /\ s.attempt = a /\ s.status = r.status /\ s.epoch = r.epoch
      /\ s.stop = r.stop /\ s.prior = r.prior /\ s.assignee = r.assignee
  BY DEF RowOK, Row
<1>2. a # None /\ r.stop = None
  BY NoneIsNoValue DEF RowOK, Sound
<1>. SUFFICES Evolves(r, s)
  OBVIOUS
<1>. HIDE DEF s
<1>. QED
  BY <1>1, <1>2 DEF Evolves, HandsToNobody, KeepsStop, RowOK, Sound, StopPending, HoldsOpen, OpenBy,
                    OwesStop, Has, MayExecute, Authors

LEMMA LapsedEvolves ==
    ASSUME NEW r, RowOK(r), r.attempt # None, NEW b \in BOOLEAN
    PROVE  /\ Evolves(r, [r EXCEPT !.attempt.lapsed = b])
           /\ Evolves(r, [r EXCEPT !.attempt.ended = b])
<1>1. r.attempt \in Attempt
  BY DEF RowOK, Row
<1>2. \A a \in {[r.attempt EXCEPT !.lapsed = b], [r.attempt EXCEPT !.ended = b]} :
        a \in Attempt /\ a.epoch = r.attempt.epoch /\ a.owner = r.attempt.owner
  BY <1>1 DEF Attempt
<1>. QED  BY <1>2, AttemptMarkedEvolves

LEMMA NudgedEvolves ==
    ASSUME NEW r, RowOK(r), r.attempt # None, r.attempt.nudges < MaxIdleCloseouts
    PROVE  Evolves(r, Nudged(r))
<1>. DEFINE n == r.attempt.nudges + 1
            a == [r.attempt EXCEPT !.nudges = n]
<1>1. r.attempt \in Attempt /\ Nudged(r) = [r EXCEPT !.attempt = a]
  BY DEF RowOK, Row, Nudged
<1>2. n \in 0 .. MaxIdleCloseouts
  BY <1>1, RowConstants DEF Attempt
<1>3. a \in Attempt /\ a.epoch = r.attempt.epoch /\ a.owner = r.attempt.owner
  <2>. HIDE DEF n
  <2>. QED  BY <1>1, <1>2 DEF Attempt
<1>. QED  BY <1>1, <1>3, AttemptMarkedEvolves

\* The fields of a stop that are not its identity.
LEMMA StopMarkedEvolves ==
    ASSUME NEW r, RowOK(r), StopPending(r), NEW stop \in Stop,
           stop.epoch = r.stop.epoch, stop.member = r.stop.member
    PROVE  Evolves(r, [r EXCEPT !.stop = stop])
<1>. DEFINE s == [r EXCEPT !.stop = stop]
<1>1. /\ s \in Row /\ s.attempt = r.attempt /\ s.status = r.status /\ s.epoch = r.epoch
      /\ s.stop = stop /\ s.prior = r.prior /\ s.assignee = r.assignee
  BY DEF RowOK, Row
<1>2. stop # None
  BY NoneIsNoValue
<1>. SUFFICES Evolves(r, s)
  OBVIOUS
<1>. HIDE DEF s
<1>. QED
  BY <1>1, <1>2 DEF Evolves, HandsToNobody, KeepsStop, RowOK, Sound, StopPending, HoldsOpen, OpenBy,
                    OwesStop, Has, MayExecute, Authors

LEMMA StopFailedEvolves ==
    ASSUME NEW r, RowOK(r), StopPending(r), NEW failure \in Failures
    PROVE  Evolves(r, StopFailed(r, failure))
<1>. DEFINE stop == [r.stop EXCEPT !.failure = failure]
<1>1. r.stop \in Stop /\ StopFailed(r, failure) = [r EXCEPT !.stop = stop]
  BY DEF RowOK, Row, StopPending, StopFailed
<1>2. stop \in Stop /\ stop.epoch = r.stop.epoch /\ stop.member = r.stop.member
  BY <1>1 DEF Stop
<1>. QED  BY <1>1, <1>2, StopMarkedEvolves

\* A row with neither an attempt nor a stop may move anywhere short of running.
LEMMA UnheldEvolves ==
    ASSUME NEW r, RowOK(r), r.attempt = None, r.stop = None,
           NEW s \in Row, s.attempt = None, s.stop = None, s.prior = r.prior,
           s.status # "running", r.status # "submitted",
           r.status = "cancelled" => s.status = "cancelled"
    PROVE  Evolves(r, s)
BY DEF Evolves, HandsToNobody, KeepsStop, RowOK, Sound, StopPending, HoldsOpen, OpenBy, OwesStop,
       Has, MayExecute, Authors

LEMMA PreparationFailureEvolves ==
    ASSUME NEW r, RowOK(r), r.status = "pending", NEW transient \in BOOLEAN
    PROVE  Evolves(r, PreparationFailure(r, transient))
<1>. DEFINE retry == transient /\ r.prep + 1 < PrepareLimit
            p == IF retry THEN r.prep + 1 ELSE PrepareLimit
            e == r.epoch + 1
            status == IF retry THEN "pending" ELSE "blocked"
            s == [r EXCEPT !.prep = p, !.epoch = e, !.status = status]
<1>1. r.attempt = None /\ r.stop = None /\ r \in Row
  BY DEF RowOK, Sound
<1>2. p \in 0 .. PrepareLimit /\ e \in Nat
  BY <1>1, RowConstants DEF Row
<1>3. PreparationFailure(r, transient) = s
  BY DEF PreparationFailure
<1>. HIDE DEF p, e
<1>4. s \in Row /\ s.attempt = None /\ s.stop = None /\ s.prior = r.prior /\ s.status # "running"
  BY <1>1, <1>2 DEF Row, Statuses
<1>. QED  BY <1>1, <1>3, <1>4, UnheldEvolves

\* What a resume of a task keeps; blocked work that owes no stop is pending again.
LEMMA ResumeClearedEvolves ==
    ASSUME NEW r, RowOK(r), NEW credit \in 0 .. MaxRecovery
    PROVE  /\ Evolves(r, ResumeCleared(r, credit))
           /\ HoldsOpen(ResumeCleared(r, credit)) <=> HoldsOpen(r)
           /\ StopPending(ResumeCleared(r, credit)) <=> StopPending(r)
           /\ ResumeCleared(r, credit).status \in {r.status, "pending"}
<1>. DEFINE a == IF r.attempt = None THEN r.attempt ELSE [r.attempt EXCEPT !.nudges = 0]
            stop == IF StopPending(r) /\ r.status = "blocked" /\ r.stop.reason = "invalidated"
                    THEN [r.stop EXCEPT !.reason = "handoff"] ELSE r.stop
            status == IF r.status = "blocked" /\ ~StopPending(r) THEN "pending" ELSE r.status
            s == [r EXCEPT !.ceiling = FALSE, !.prep = 0, !.credit = credit, !.attempt = a,
                           !.stop = stop, !.status = status]
<1>1. ResumeCleared(r, credit) = s
  BY DEF ResumeCleared
<1>2. /\ a \in Attempt \cup {None}
      /\ a # None <=> r.attempt # None
      /\ a # None => a.epoch = r.attempt.epoch /\ a.owner = r.attempt.owner
  BY RowConstants, NoneIsNoValue DEF RowOK, Row, Attempt
<1>3. /\ stop \in Stop \cup {None}
      /\ stop # None <=> r.stop # None
      /\ stop # None => stop.epoch = r.stop.epoch /\ stop.member = r.stop.member
  BY NoneIsNoValue DEF RowOK, Row, Stop, Reasons, StopPending
<1>4. /\ status \in Statuses
      /\ status # r.status => r.status = "blocked" /\ ~StopPending(r) /\ status = "pending"
  BY DEF RowOK, Row, Statuses
<1>5. 0 \in 0 .. PrepareLimit
  BY RowConstants
<1>. HIDE DEF a, stop, status
<1>6. /\ s \in Row /\ s.attempt = a /\ s.status = status /\ s.epoch = r.epoch
      /\ s.stop = stop /\ s.prior = r.prior /\ s.assignee = r.assignee
  BY <1>2, <1>3, <1>4, <1>5 DEF RowOK, Row
<1>. HIDE DEF s
<1>7. (HoldsOpen(s) <=> HoldsOpen(r)) /\ (StopPending(s) <=> StopPending(r))
  BY <1>2, <1>3, <1>4, <1>6 DEF HoldsOpen, StopPending
<1>8. RowOK(s)
  BY <1>2, <1>3, <1>4, <1>6, <1>7 DEF RowOK, Sound
<1>9. \A m \in Members : (OpenBy(s, m) <=> OpenBy(r, m)) /\ (OwesStop(s, m) <=> OwesStop(r, m))
  BY <1>2, <1>3, <1>6, <1>7 DEF OpenBy, OwesStop, HoldsOpen, StopPending
<1>10. Authors(s) = Authors(r)
  BY <1>2, <1>6 DEF Authors
<1>11. Evolves(r, s)
  <2>1. KeepsStop(r, s)
    BY <1>3, <1>6, <1>7 DEF KeepsStop, StopPending
  <2>2. HoldsOpen(s) => HoldsOpen(r) /\ s.attempt.owner = r.attempt.owner /\ s.assignee = r.assignee
    BY <1>2, <1>6, <1>7 DEF HoldsOpen
  <2>. QED
    BY <2>1, <2>2, <1>4, <1>6, <1>8, <1>9, <1>10 DEF Evolves, HandsToNobody, Has, MayExecute
<1>. QED  BY <1>1, <1>4, <1>6, <1>7, <1>11

LEMMA AllowanceSetEvolves ==
    ASSUME NEW r, RowOK(r), NEW credit \in 0 .. MaxRecovery
    PROVE  Evolves(r, AllowanceSet(r, credit))
<1>. DEFINE s == [r EXCEPT !.credit = credit]
<1>1. s \in Row /\ SameLife(r, s) /\ s.assignee = r.assignee
  BY DEF RowOK, Row, SameLife
<1>2. Evolves(r, s)
  BY <1>1, SameLifeEvolves
<1>. QED  BY <1>2, ResumeClearedEvolves DEF AllowanceSet

LEMMA AmendedEvolves ==
    ASSUME NEW r, RowOK(r), NEW a \in Members \cup {None}, NEW p \in Members \cup {None},
           r.status \in {"pending", "running", "blocked"}
    PROVE  Evolves(r, Amended(r, a, p))
<1>. DEFINE c == IF r.status = "blocked" THEN ResumeCleared(r, r.credit) ELSE r
            n == [c EXCEPT !.assignee = a, !.planned = p]
<1>1. r.credit \in 0 .. MaxRecovery
  BY DEF RowOK, Row
<1>2. /\ Evolves(r, c) /\ RowOK(c) /\ c.status \in {"pending", "running", "blocked"}
      /\ (HoldsOpen(c) <=> HoldsOpen(r)) /\ (StopPending(c) <=> StopPending(r))
  BY <1>1, ResumeClearedEvolves, EvolvesReflexive DEF Evolves, HandsToNobody
<1>3. Amended(r, a, p) = IF HoldsOpen(r) THEN FenceForStop(n, "blocked", "handoff")
                         ELSE IF StopPending(r) THEN n ELSE [n EXCEPT !.epoch = @ + 1]
  BY DEF Amended
<1>. HIDE DEF c
<1>4. n \in Row /\ SameLife(c, n)
  BY <1>2 DEF RowOK, Row, SameLife
<1>5. CASE HoldsOpen(r)
  <2>1. Evolves(c, FenceForStop(n, "blocked", "handoff"))
    BY <1>2, <1>4, FencedEvolves DEF Reasons
  <2>. QED  BY <1>2, <1>3, <1>5, <2>1, EvolvesTransitive
<1>6. CASE ~HoldsOpen(r) /\ StopPending(r)
  BY <1>2, <1>3, <1>4, <1>6, SameLifeEvolves, EvolvesTransitive
<1>7. CASE ~HoldsOpen(r) /\ ~StopPending(r)
  <2>. DEFINE e == n.epoch + 1
              s == [n EXCEPT !.epoch = e]
  <2>1. Amended(r, a, p) = s
    BY <1>3, <1>7
  <2>2. Evolves(c, n) /\ RowOK(n)
    BY <1>2, <1>4, <1>7, SameLifeEvolves
  <2>3. e \in Nat
    <3>. HIDE DEF n
    <3>. QED  BY <1>4 DEF Row
  <2>4. r.attempt = None /\ r.stop = None
    BY <1>7 DEF HoldsOpen, RowOK, Sound
  <2>5. n.attempt = None /\ n.stop = None /\ n.status \in {"pending", "blocked"}
    <3>1. c.stop = None /\ c.status \in {"pending", "blocked"}
      BY <1>2, <1>7 DEF RowOK, Sound, HoldsOpen
    <3>2. c.attempt = None
      BY <2>4 DEF c, ResumeCleared, RowOK, Row
    <3>. HIDE DEF n
    <3>. QED  BY <3>1, <3>2, <1>4 DEF SameLife
  <2>. HIDE DEF e, n
  <2>6. s \in Row /\ s.attempt = None /\ s.stop = None /\ s.prior = n.prior /\ s.status = n.status
    BY <1>4, <2>3, <2>5 DEF Row
  <2>7. Evolves(n, s)
    BY <2>2, <2>5, <2>6, UnheldEvolves
  <2>. QED  BY <1>2, <2>1, <2>2, <2>7, EvolvesTransitive
<1>. QED  BY <1>5, <1>6, <1>7
-----------------------------------------------------------------------------
(***************************************************************************)
(* The writes that take a row up, or let it go.                            *)
(***************************************************************************)

LEMMA AssignedOK ==
    ASSUME NEW r, RowOK(r), r.status = "pending", NEW m \in Members
    PROVE  LET s == Assigned(r, m)
           IN  /\ RowOK(s)
               /\ s.status = "running" /\ s.attempt # None /\ s.attempt.owner = m
               /\ s.assignee = m /\ s.stop = None
               /\ Authors(r) \subseteq Authors(s)
<1>. DEFINE e == r.epoch + 1
            a == [epoch |-> e, owner |-> m, lapsed |-> FALSE, ended |-> FALSE, nudges |-> 0]
            s == [r EXCEPT !.status = "running", !.epoch = e, !.assignee = m, !.attempt = a]
<1>1. r \in Row /\ r.attempt = None /\ r.stop = None
  BY DEF RowOK, Sound
<1>2. e \in Nat
  BY <1>1 DEF Row
<1>3. Assigned(r, m) = s
  BY DEF Assigned
<1>. HIDE DEF e
<1>4. a \in Attempt /\ a.epoch = e /\ a.owner = m
  BY <1>2, RowConstants DEF Attempt
<1>5. a # None
  BY <1>4, NoneIsNoValue
<1>. HIDE DEF a
<1>6. /\ s \in Row /\ s.status = "running" /\ s.epoch = e /\ s.assignee = m /\ s.attempt = a
      /\ s.stop = None /\ s.prior = r.prior
  BY <1>1, <1>2, <1>4 DEF Row, Statuses
<1>. HIDE DEF s
<1>7. RowOK(s)
  BY <1>4, <1>5, <1>6 DEF RowOK, Sound
<1>8. Authors(r) \subseteq Authors(s)
  BY <1>1, <1>6 DEF Authors
<1>. QED  BY <1>3, <1>4, <1>5, <1>6, <1>7, <1>8

\* s no longer belongs to anybody, and that is all r lost.
LetGo(r, s) == HandsToNobody(r, s) /\ ~HoldsOpen(s) /\ s.stop = None

LEMMA UnheldIsLetGo ==
    ASSUME NEW r, NEW s, RowOK(s), ~HoldsOpen(s), s.stop = None, Authors(r) \subseteq Authors(s),
           r.status = "cancelled" => s.status = "cancelled", r.status # "submitted"
    PROVE  LetGo(r, s)
BY DEF LetGo, HandsToNobody, Has, OpenBy, OwesStop, StopPending

LEMMA ReleasedLetsGo ==
    ASSUME NEW r, RowOK(r), StopPending(r), NEW ownerStopped \in BOOLEAN
    PROVE  LetGo(r, Released(r, ownerStopped))
<1>. DEFINE a == IF r.stop.reason = "worker-closeout" /\ ownerStopped THEN None ELSE r.assignee
            status == IF r.status = "cancelled" THEN r.status
                      ELSE StopOutcome(BlockCauses(r), r.stop.reason)
            s == [r EXCEPT !.stop = None, !.assignee = a, !.status = status]
<1>1. r \in Row /\ r.attempt = None /\ a \in Members \cup {None} /\ r.status # "submitted"
  BY DEF RowOK, Sound, StopPending, Row
<1>2. status \in {"pending", "blocked", "cancelled"} /\ (r.status = "cancelled" => status = "cancelled")
  BY DEF StopOutcome
<1>3. Released(r, ownerStopped) = s
  BY DEF Released
<1>. HIDE DEF a, status
<1>4. s \in Row /\ s.attempt = None /\ s.stop = None /\ s.status = status /\ s.prior = r.prior
  BY <1>1, <1>2 DEF Row, Statuses
<1>. HIDE DEF s
<1>5. RowOK(s) /\ ~HoldsOpen(s) /\ Authors(s) = Authors(r)
  BY <1>1, <1>2, <1>4 DEF RowOK, Sound, HoldsOpen, Authors
<1>. QED  BY <1>1, <1>2, <1>3, <1>4, <1>5, UnheldIsLetGo

LEMMA SubmittedLetsGo ==
    ASSUME NEW r, RowOK(r), HoldsOpen(r)
    PROVE  LetGo(r, [r EXCEPT !.status = "submitted"])
<1>. DEFINE s == [r EXCEPT !.status = "submitted"]
<1>1. r \in Row /\ r.stop = None /\ r.status = "running"
  BY DEF RowOK, Sound, HoldsOpen
<1>2. /\ s \in Row /\ s.attempt = r.attempt /\ s.stop = None /\ s.status = "submitted"
      /\ s.prior = r.prior /\ s.epoch = r.epoch
  BY <1>1 DEF Row, Statuses
<1>. HIDE DEF s
<1>3. RowOK(s) /\ ~HoldsOpen(s) /\ Authors(s) = Authors(r)
  BY <1>2 DEF RowOK, Sound, HoldsOpen, Authors
<1>4. LetGo(r, s)
  BY <1>1, <1>2, <1>3, UnheldIsLetGo
<1>. QED  BY <1>4 DEF s

\* Ending the attempt of a row that owes no stop.
LEMMA EndedFields ==
    ASSUME NEW r, RowOK(r), r.stop = None
    PROVE  LET s == EndAttempt(r)
           IN  /\ s \in Row /\ s.attempt = None /\ s.stop = None /\ s.status = r.status
               /\ s.prior = Authors(r)
<1>. DEFINE e == r.epoch + 1
            prior == Authors(r)
<1>1. r \in Row /\ (r.attempt # None => r.attempt.owner \in Members)
  BY DEF RowOK, Row, Attempt
<1>2. e \in Nat /\ prior \in SUBSET Members
  BY <1>1 DEF Row, Authors
<1>3. CASE r.attempt = None
  <2>1. EndAttempt(r) = [r EXCEPT !.epoch = e]
    BY <1>3 DEF EndAttempt, DropAttempt
  <2>2. r.prior = prior
    BY <1>3 DEF Authors
  <2>. HIDE DEF e
  <2>. QED  BY <1>1, <1>2, <1>3, <2>1, <2>2 DEF Row
<1>4. CASE r.attempt # None
  <2>1. EndAttempt(r) = [r EXCEPT !.attempt = None, !.prior = prior, !.epoch = e]
    BY <1>4 DEF EndAttempt, DropAttempt, Authors
  <2>. HIDE DEF e, prior
  <2>2. /\ EndAttempt(r) \in Row /\ EndAttempt(r).attempt = None /\ EndAttempt(r).stop = None
        /\ EndAttempt(r).status = r.status /\ EndAttempt(r).prior = prior
    BY <1>1, <1>2, <2>1 DEF Row
  <2>. QED  BY <2>2 DEF prior
<1>. QED  BY <1>3, <1>4

LEMMA StartFailedLetsGo ==
    ASSUME NEW r, RowOK(r), r.status \in {"pending", "running"}, NEW target \in Members \cup {None}
    PROVE  LetGo(r, StartFailedRow(r, target))
<1>. DEFINE c == IF r.attempt = None THEN r ELSE EndAttempt(r)
            s == [c EXCEPT !.status = "pending", !.assignee = target]
<1>1. r.stop = None /\ r.status # "cancelled"
  BY DEF RowOK, Sound
<1>2. c \in Row /\ c.attempt = None /\ c.stop = None /\ c.prior = Authors(r)
  BY <1>1, EndedFields DEF RowOK, Authors
<1>3. StartFailedRow(r, target) = s
  BY DEF StartFailedRow
<1>. HIDE DEF c
<1>4. s \in Row /\ s.attempt = None /\ s.stop = None /\ s.prior = Authors(r) /\ s.status = "pending"
  BY <1>2 DEF Row, Statuses
<1>. HIDE DEF s
<1>5. RowOK(s) /\ ~HoldsOpen(s) /\ Authors(r) \subseteq Authors(s)
  BY <1>4 DEF RowOK, Sound, HoldsOpen, Authors
<1>. QED  BY <1>1, <1>3, <1>4, <1>5, UnheldIsLetGo

LEMMA RestartedOK ==
    ASSUME NEW r, RowOK(r)
    PROVE  /\ HandsToNobody(r, RestartedRow(r)) /\ KeepsStop(r, RestartedRow(r))
           /\ ~HoldsOpen(RestartedRow(r))
<1>1. CASE r.status = "running" /\ ~StopPending(r)
  <2>. DEFINE c == EndAttempt(r)
              s == [c EXCEPT !.status = "pending"]
  <2>1. r.stop = None
    BY <1>1 DEF RowOK, Sound
  <2>2. c \in Row /\ c.attempt = None /\ c.stop = None /\ c.prior = Authors(r)
    BY <2>1, EndedFields
  <2>3. RestartedRow(r) = s
    BY <1>1 DEF RestartedRow
  <2>. HIDE DEF c
  <2>4. s \in Row /\ s.attempt = None /\ s.stop = None /\ s.prior = Authors(r) /\ s.status = "pending"
    BY <2>2 DEF Row, Statuses
  <2>. HIDE DEF s
  <2>5. RowOK(s) /\ ~HoldsOpen(s) /\ Authors(r) \subseteq Authors(s)
    BY <2>4 DEF RowOK, Sound, HoldsOpen, Authors
  <2>6. LetGo(r, s)
    BY <1>1, <2>4, <2>5, UnheldIsLetGo
  <2>. QED  BY <1>1, <2>3, <2>6 DEF LetGo, KeepsStop
<1>2. CASE ~(r.status = "running" /\ ~StopPending(r))
  <2>1. RestartedRow(r) = r /\ ~HoldsOpen(r)
    BY <1>2 DEF RestartedRow, HoldsOpen, RowOK, Sound, StopPending
  <2>. QED  BY <2>1, EvolvesReflexive DEF Evolves
<1>. QED  BY <1>1, <1>2
-----------------------------------------------------------------------------
(***************************************************************************)
(* What the host gave up on.                                               *)
(***************************************************************************)

\* A row on the board has no cause to be blocked but a spent allowance.
Unblocked(r) ==
    r.status \in {"pending", "running"} => r.ceiling = FALSE /\ r.prep # PrepareLimit

\* A row that its lease or its close-out blocked with no credit left.
Exhausted(r) ==
    /\ r.status = "blocked"
    /\ r.credit = 0
    /\ r.stop # None => r.stop.reason \in {"lease-expired", "worker-closeout"}

\* The write r -> s puts nothing back on the board that the host gave up on.
Stays(r, s) ==
    /\ Unblocked(r) => Unblocked(s)
    /\ Exhausted(r) /\ s.status = "pending" => s.credit > 0

\* A row that leaves the board, or that was on it and keeps its causes.
LEMMA OffBoardStays ==
    ASSUME NEW r, NEW s, s.status \notin {"pending", "running"}
    PROVE  Stays(r, s)
BY DEF Stays, Unblocked

LEMMA SameCausesStay ==
    ASSUME NEW r, NEW s, s.ceiling = r.ceiling, s.prep = r.prep,
           s.status = r.status \/ r.status \in {"pending", "running"}
    PROVE  Stays(r, s)
BY DEF Stays, Unblocked, Exhausted

LEMMA FencedStays ==
    ASSUME NEW q, NEW r \in Row, NEW status \in {"blocked", "cancelled"}, NEW reason
    PROVE  Stays(q, FenceForStop(r, status, reason))
<1>1. FenceForStop(r, status, reason).status = status
  BY DEF FenceForStop, EndAttempt, DropAttempt, Row
<1>. QED  BY <1>1, OffBoardStays

LEMMA HandedOffStays ==
    ASSUME NEW r \in Row, NEW to \in Members \cup {None}
    PROVE  Stays(r, HandedOff(r, to))
<1>1. [r EXCEPT !.assignee = to, !.planned = IF to = None THEN @ ELSE to] \in Row
  BY DEF Row
<1>. QED  BY <1>1, FencedStays DEF HandedOff

LEMMA CeilingBlockedStays == ASSUME NEW r \in Row PROVE Stays(r, CeilingBlocked(r))
<1>1. [r EXCEPT !.ceiling = TRUE] \in Row
  BY DEF Row
<1>. QED  BY <1>1, FencedStays DEF CeilingBlocked

LEMMA ClosedOutStays ==
    ASSUME NEW r \in Row, NEW m \in Members
    PROVE  Stays(r, ClosedOut(r, m)) /\ Stays(r, CloseOutFailed(r))
<1>1. [r EXCEPT !.credit = Spent(@), !.assignee = m, !.planned = IF @ = None THEN m ELSE @] \in Row
  BY SpentInRange DEF Row
<1>. QED  BY <1>1, FencedStays DEF ClosedOut, CloseOutFailed

LEMMA ExpiredStays ==
    ASSUME NEW r \in Row, NEW parked, NEW liveMembers
    PROVE  Stays(r, Expired(r, parked, liveMembers))
<1>1. [r EXCEPT !.credit = IF parked THEN @ ELSE Spent(@),
                !.assignee = IF r.planned \in liveMembers THEN r.planned ELSE None] \in Row
  BY SpentInRange DEF Row
<1>. QED  BY <1>1, FencedStays DEF Expired

LEMMA RouteRefusedStays == ASSUME NEW r \in Row, NEW m \in Members PROVE Stays(r, RouteRefusedRow(r, m))
<1>. DEFINE s == [r EXCEPT !.assignee = None]
<1>1. s \in Row /\ s.status = r.status /\ s.ceiling = r.ceiling /\ s.prep = r.prep
  BY DEF Row
<1>2. Stays(r, s) /\ Stays(r, r)
  BY <1>1, SameCausesStay
<1>. QED  BY <1>1, <1>2, FencedStays DEF RouteRefusedRow

LEMMA ControlFencedStays ==
    ASSUME NEW r \in Row, NEW status \in {"blocked", "cancelled"}
    PROVE  Stays(r, ControlFenced(r, status))
<1>1. Stays(r, r)
  BY SameCausesStay
<1>. QED  BY <1>1, FencedStays DEF ControlFenced

LEMMA PreparationFailureStays ==
    ASSUME NEW r \in Row, r.status = "pending", NEW transient
    PROVE  Stays(r, PreparationFailure(r, transient))
<1>. DEFINE s == PreparationFailure(r, transient)
<1>1. CASE transient /\ r.prep + 1 < PrepareLimit
  <2>1. s.prep = r.prep + 1 /\ s.ceiling = r.ceiling
    BY <1>1 DEF PreparationFailure, Row
  <2>2. s.prep # PrepareLimit
    <3>. HIDE DEF s
    <3>. QED  BY <1>1, <2>1, RowConstants DEF Row
  <2>. HIDE DEF s
  <2>3. Stays(r, s)
    BY <2>1, <2>2 DEF Stays, Unblocked, Exhausted
  <2>. QED  BY <2>3 DEF s
<1>2. CASE ~(transient /\ r.prep + 1 < PrepareLimit)
  <2>1. s.status = "blocked"
    BY <1>2 DEF PreparationFailure, Row
  <2>. QED  BY <2>1, OffBoardStays
<1>. QED  BY <1>1, <1>2

LEMMA ReleasedStays == ASSUME NEW r \in Row, r.stop # None, NEW ownerStopped
                       PROVE  Stays(r, Released(r, ownerStopped))
<1>. DEFINE s == Released(r, ownerStopped)
<1>1. /\ s.ceiling = r.ceiling /\ s.prep = r.prep /\ s.credit = r.credit
      /\ s.status = IF r.status = "cancelled" THEN r.status
                    ELSE StopOutcome(BlockCauses(r), r.stop.reason)
  BY DEF Released, Row
<1>2. r.ceiling \in BOOLEAN
  BY DEF Row
<1>. HIDE DEF s
<1>3. ASSUME s.status = "pending"
      PROVE  /\ BlockCauses(r) \subseteq {"recovery-exhausted"}
             /\ r.credit = 0 => r.stop.reason \in {"resource", "handoff", "invalidated"}
  <2>1. StopOutcome(BlockCauses(r), r.stop.reason) = "pending"
    BY <1>1, <1>3
  <2>2. r.credit = 0 => "recovery-exhausted" \in BlockCauses(r)
    BY DEF BlockCauses
  <2>. QED  BY <2>1, <2>2 DEF StopOutcome, RecoveryLimitExempt
<1>4. ASSUME s.status = "pending" PROVE r.ceiling = FALSE /\ r.prep # PrepareLimit
  <2>1. "task-ceiling" \notin BlockCauses(r) /\ "preparation-failed" \notin BlockCauses(r)
    BY <1>3, <1>4
  <2>. QED  BY <2>1, <1>2 DEF BlockCauses
<1>5. s.status \in {"pending", "blocked", "cancelled"}
  BY <1>1 DEF StopOutcome
<1>6. Unblocked(s)
  BY <1>1, <1>4, <1>5 DEF Unblocked
<1>7. Exhausted(r) /\ s.status = "pending" => s.credit > 0
  BY <1>3 DEF Exhausted
<1>8. Stays(r, s)
  BY <1>6, <1>7 DEF Stays
<1>. QED  BY <1>8 DEF s

LEMMA ResumeClearedStays ==
    ASSUME NEW r \in Row, NEW credit \in 0 .. MaxRecovery
    PROVE  /\ Unblocked(ResumeCleared(r, credit))
           /\ credit > 0 => Stays(r, ResumeCleared(r, credit))
           /\ ResumeCleared(r, credit).credit = credit
           /\ ResumeCleared(r, credit).ceiling = FALSE
           /\ ResumeCleared(r, credit).prep = 0
<1>. DEFINE s == ResumeCleared(r, credit)
<1>1. s.ceiling = FALSE /\ s.prep = 0 /\ s.credit = credit
  BY DEF ResumeCleared, Row
<1>. HIDE DEF s
<1>2. Unblocked(s)
  BY <1>1, RowConstants DEF Unblocked
<1>3. credit > 0 => Stays(r, s)
  BY <1>1, <1>2 DEF Stays
<1>. QED  BY <1>1, <1>2, <1>3 DEF s

LEMMA AllowanceSetStays ==
    ASSUME NEW r \in Row, NEW credit \in 0 .. MaxRecovery
    PROVE  Stays(r, AllowanceSet(r, credit))
<1>. DEFINE s == [r EXCEPT !.credit = credit]
<1>1. s.status = r.status /\ s.ceiling = r.ceiling /\ s.prep = r.prep
  BY DEF Row
<1>2. Stays(r, s)
  BY <1>1, SameCausesStay
<1>. QED  BY <1>2, ResumeClearedStays DEF AllowanceSet

LEMMA AmendedStays ==
    ASSUME NEW r, RowOK(r), NEW a \in Members \cup {None}, NEW p \in Members \cup {None},
           r.status = "blocked" => r.credit > 0
    PROVE  Stays(r, Amended(r, a, p))
<1>. DEFINE c == IF r.status = "blocked" THEN ResumeCleared(r, r.credit) ELSE r
            n == [c EXCEPT !.assignee = a, !.planned = p]
            x == [n EXCEPT !.epoch = @ + 1]
<1>1. r \in Row /\ r.credit \in 0 .. MaxRecovery
  BY DEF RowOK, Row
<1>2. c \in Row
  BY <1>1, ResumeClearedEvolves DEF Evolves, HandsToNobody, RowOK
<1>3. Stays(r, c)
  BY <1>1, ResumeClearedStays, SameCausesStay
<1>4. Amended(r, a, p) = IF HoldsOpen(r) THEN FenceForStop(n, "blocked", "handoff")
                         ELSE IF StopPending(r) THEN n ELSE x
  BY DEF Amended
<1>. HIDE DEF c
<1>5. n \in Row /\ n.status = c.status /\ n.ceiling = c.ceiling /\ n.prep = c.prep /\ n.credit = c.credit
  BY <1>2 DEF Row
<1>. HIDE DEF n
<1>6. x.status = c.status /\ x.ceiling = c.ceiling /\ x.prep = c.prep /\ x.credit = c.credit
  BY <1>5 DEF Row
<1>. HIDE DEF x
<1>7. Stays(r, n) /\ Stays(r, x)
  BY <1>3, <1>5, <1>6 DEF Stays, Unblocked
<1>. QED  BY <1>4, <1>5, <1>7, FencedStays
-----------------------------------------------------------------------------
(* 2. The attempts. *)

\* A member that reaches the failure limit is retired by that failure.
StrikesBelowLimit == \A m \in Members : Live(m) => strikes[m] < StartFailureLimit

\* A barrier runs, or waits to run again, only for a stop that is owed.
BarrierOwesStop == \A t \in Tasks : barrier[t] # "idle" => StopPending(row[t])

\* Past the stop's confirmation the member is in no turn, and may not begin one: a
\* late start may give it a handle, but the step brake refuses its steps.
QuietWhileSaving ==
    \A t \in Tasks : barrier[t] \in {"saving", "releasing"} => handle[row[t].stop.member] # "busy"

\* Work is done, and calls are awaited, in turns.
WorkInTurn == \A m \in Members : work[m] # {} => handle[m] = "busy"

CallInTurn == op # None /\ op.kind \in {"claim", "submit"} /\ op.live => handle[op.member] = "busy"

IInv ==
    /\ TypeOK
    /\ StopNeverOrphaned
    /\ StrikesBelowLimit
    /\ BarrierOwesStop
    /\ QuietWhileSaving
    /\ WorkInTurn
    /\ CallInTurn
    /\ HandleQuiescence
    /\ NoWorkWhilePaused
    /\ OwnerIsLiveAssignee
    /\ MemberExclusive

\* What a step leaves of every row: its authors, a cancellation, and a stop owed
\* until its barrier releases it from a member that is in no turn.
Kept ==
    \A t \in Tasks :
        /\ Authors(row[t]) \subseteq Authors(row'[t])
        /\ row[t].status = "cancelled" => row'[t].status = "cancelled"
        /\ \/ KeepsStop(row[t], row'[t])
           \/ barrier[t] = "releasing" /\ handle[row[t].stop.member] # "busy"

\* A step that takes no row up hands no row to anybody, and makes nobody execute
\* more unless it is that member's own model step.
OnlyAssignGives ==
    \/ Assign
    \/ /\ \A t \in Tasks : HandsToNobody(row[t], row'[t])
       /\ \A m \in Members : work'[m] \subseteq work[m] \/ Step(m)

StepOK == IInv' /\ Kept /\ OnlyAssignGives

Handles == {"down", "idle", "busy", "ending", "awaited"}

\* The types of everything but the rows.
AroundOK ==
    /\ mission \in {"active", "paused", "stopped"}
    /\ phase \in [Members -> {"active", "parked", "stopped"}]
    /\ handle \in [Members -> Handles]
    /\ work \in [Members -> SUBSET (Tasks \X Nat)]
    /\ strikes \in [Members -> 0 .. StartFailureLimit]
    /\ op \in Op \cup {None}
    /\ barrier \in [Tasks -> InFlight \cup {"idle", "backoff"}]
-----------------------------------------------------------------------------
\* The invariant, read row by row.
LEMMA RowsOK == ASSUME IInv PROVE AroundOK /\ \A t \in Tasks : RowOK(row[t])
BY DEF IInv, TypeOK, AroundOK, StopNeverOrphaned, RowOK, Sound, Handles

\* The initial states satisfy the invariant.
LEMMA InitIInv == ASSUME Init PROVE IInv
<1>1. PICK bound \in [Tasks -> Targets] : row = [t \in Tasks |-> NewRow(bound[t])]
  BY DEF Init
<1>2. \A t \in Tasks : RowOK(row[t]) /\ row[t].status = "pending" /\ row[t].stop = None
  BY <1>1, BoardConstants, NewRowOK DEF NewRow
<1>3. TypeOK
  BY <1>1, <1>2, BoardConstants DEF Init, TypeOK, RowOK, InFlight
<1>4. StopNeverOrphaned
  BY <1>2 DEF StopNeverOrphaned, RowOK, Sound
<1>5. StrikesBelowLimit
  BY BoardConstants DEF Init, StrikesBelowLimit
<1>6. BarrierOwesStop /\ QuietWhileSaving /\ WorkInTurn /\ CallInTurn /\ HandleQuiescence
  BY DEF Init, BarrierOwesStop, QuietWhileSaving, WorkInTurn, CallInTurn, HandleQuiescence
<1>7. NoWorkWhilePaused /\ OwnerIsLiveAssignee /\ MemberExclusive
  BY <1>2 DEF Init, NoWorkWhilePaused, OwnerIsLiveAssignee, MemberExclusive, HoldsOpen, OpenBy,
              OwesStop, StopPending
<1>. QED  BY <1>3, <1>4, <1>5, <1>6, <1>7 DEF IInv

\* A step that hands no row to anybody keeps what the invariant says of rows.
LEMMA HandsOffStep ==
    ASSUME IInv, AroundOK', row' = [t \in Tasks |-> row'[t]],
           \A t \in Tasks : HandsToNobody(row[t], row'[t]),
           \A t \in Tasks : HoldsOpen(row'[t]) => mission' = "active" /\ phase'[row'[t].attempt.owner] # "stopped",
           StrikesBelowLimit', BarrierOwesStop', QuietWhileSaving', WorkInTurn', CallInTurn',
           HandleQuiescence'
    PROVE  IInv'
<1>1. \A t \in Tasks : RowOK(row'[t])
  BY DEF HandsToNobody
<1>2. TypeOK'
  BY <1>1 DEF TypeOK, AroundOK, RowOK, Handles
<1>3. StopNeverOrphaned'
  BY <1>1 DEF StopNeverOrphaned, RowOK, Sound
<1>4. NoWorkWhilePaused'
  BY DEF NoWorkWhilePaused
<1>5. OwnerIsLiveAssignee'
  <2>. SUFFICES ASSUME NEW t \in Tasks, HoldsOpen(row'[t])
                PROVE  phase'[row'[t].attempt.owner] # "stopped" /\ row'[t].assignee = row'[t].attempt.owner
    BY DEF OwnerIsLiveAssignee, Live
  <2>1. HoldsOpen(row[t]) /\ row'[t].attempt.owner = row[t].attempt.owner
        /\ row'[t].assignee = row[t].assignee
    BY DEF HandsToNobody
  <2>. QED  BY <2>1 DEF OwnerIsLiveAssignee, IInv
<1>6. MemberExclusive'
  BY DEF MemberExclusive, IInv, HandsToNobody, Has
<1>. QED  BY <1>2, <1>3, <1>4, <1>5, <1>6 DEF IInv

\* Where a barrier may be after a step that releases no stop.
BarrierMoves(t) ==
    \/ barrier'[t] = barrier[t]
    \/ barrier'[t] = "idle"
    \/ barrier'[t] \in {"stopping", "backoff"} /\ StopPending(row'[t])
    \/ barrier[t] = "saving" /\ barrier'[t] = "releasing"
    \/ barrier[t] = "stopping" /\ barrier'[t] = "saving" /\ handle'[row[t].stop.member] # "busy"

\* A step in which every row evolves, no member that owes a stop begins a turn, and
\* nobody begins to execute what is not its own.
LEMMA EvolvingStep ==
    ASSUME IInv, AroundOK', row' = [t \in Tasks |-> row'[t]],
           \A t \in Tasks : Evolves(row[t], row'[t]),
           \A t \in Tasks : HoldsOpen(row'[t]) => mission' = "active" /\ phase'[row'[t].attempt.owner] # "stopped",
           \A t \in Tasks : BarrierMoves(t),
           \A m \in Members : handle[m] # "busy" => handle'[m] # "busy" \/ ~PendingStopOwner(m),
           \A m \in Members :
               \/ work'[m] \subseteq work[m]
               \/ Step(m) /\ \A x \in work'[m] : MayExecute(row'[x[1]], m, x[2]),
           StrikesBelowLimit', WorkInTurn', CallInTurn'
    PROVE  StepOK
<1>. USE DEF BarrierMoves
<1>1. \A t \in Tasks : HandsToNobody(row[t], row'[t]) /\ KeepsStop(row[t], row'[t])
  BY DEF Evolves
<1>2. BarrierOwesStop'
  BY <1>1 DEF IInv, BarrierOwesStop, KeepsStop
<1>3. QuietWhileSaving'
  <2>. SUFFICES ASSUME NEW t \in Tasks, barrier'[t] \in {"saving", "releasing"}
                PROVE  handle'[row'[t].stop.member] # "busy"
    BY DEF QuietWhileSaving
  <2>1. barrier[t] # "idle"
    OBVIOUS
  <2>2. StopPending(row[t]) /\ row'[t].stop.member = row[t].stop.member
    BY <1>1, <2>1 DEF IInv, BarrierOwesStop, KeepsStop
  <2>3. row[t].stop.member \in Members
    BY <2>2, RowsOK DEF RowOK, Row, Stop, StopPending
  <2>4. PendingStopOwner(row[t].stop.member)
    BY <2>2 DEF PendingStopOwner, OwesStop
  <2>. QED  BY <2>2, <2>3, <2>4 DEF IInv, QuietWhileSaving
<1>4. HandleQuiescence'
  <2>. SUFFICES ASSUME NEW m \in Members, NEW x \in work'[m]
                PROVE  MayExecute(row'[x[1]], m, x[2])
    BY DEF HandleQuiescence, MayExecute
  <2>1. x[1] \in Tasks /\ x[2] \in Nat
    BY DEF AroundOK
  <2>2. x \in work[m] => MayExecute(row[x[1]], m, x[2])
    BY <2>1 DEF IInv, HandleQuiescence, MayExecute
  <2>. QED  BY <2>1, <2>2 DEF Evolves
<1>5. IInv'
  BY <1>1, <1>2, <1>3, <1>4, HandsOffStep
<1>6. Kept
  BY <1>1 DEF Kept, HandsToNobody
<1>7. OnlyAssignGives
  BY <1>1 DEF OnlyAssignGives
<1>. QED  BY <1>5, <1>6, <1>7 DEF StepOK

\* The same, when only rows, barriers and the queue's operation change.
LEMMA RowsStep ==
    ASSUME IInv, row' = [t \in Tasks |-> row'[t]],
           \A t \in Tasks : Evolves(row[t], row'[t]) /\ BarrierMoves(t),
           barrier' \in [Tasks -> InFlight \cup {"idle", "backoff"}],
           UNCHANGED <<mission, phase, handle, work, strikes>>,
           op' \in Op \cup {None}, CallInTurn'
    PROVE  StepOK
<1>1. AroundOK'
  BY RowsOK DEF AroundOK
<1>2. \A t \in Tasks : HoldsOpen(row'[t]) =>
          mission' = "active" /\ phase'[row'[t].attempt.owner] # "stopped"
  BY DEF IInv, NoWorkWhilePaused, OwnerIsLiveAssignee, Live, Evolves, HandsToNobody
<1>3. StrikesBelowLimit' /\ WorkInTurn'
  BY DEF IInv, StrikesBelowLimit, WorkInTurn, Live
<1>. QED  BY <1>1, <1>2, <1>3, EvolvingStep

\* The same, when one row changes.
LEMMA CommitStep ==
    ASSUME IInv, NEW t \in Tasks, NEW r, Evolves(row[t], r), row' = [row EXCEPT ![t] = r],
           NEW b \in InFlight \cup {"idle", "backoff"}, barrier' = [barrier EXCEPT ![t] = b],
           BarrierMoves(t),
           UNCHANGED <<mission, phase, handle, work, strikes>>, op' \in {op, None}
    PROVE  StepOK
<1>1. row \in [Tasks -> Row] /\ barrier \in [Tasks -> InFlight \cup {"idle", "backoff"}]
  BY DEF IInv, TypeOK
<1>2. row' = [u \in Tasks |-> row'[u]] /\ \A u \in Tasks : row'[u] = IF u = t THEN r ELSE row[u]
  BY <1>1
<1>3. \A u \in Tasks : Evolves(row[u], row'[u])
  BY <1>2, RowsOK, EvolvesReflexive
<1>4. \A u \in Tasks : BarrierMoves(u)
  BY <1>1 DEF BarrierMoves
<1>5. barrier' \in [Tasks -> InFlight \cup {"idle", "backoff"}] /\ op' \in Op \cup {None}
  BY <1>1 DEF IInv, TypeOK
<1>6. CallInTurn'
  BY DEF IInv, CallInTurn
<1>. QED  BY <1>2, <1>3, <1>4, <1>5, <1>6, RowsStep

\* The same, when the barriers stay where they are.
LEMMA MarkStep ==
    ASSUME IInv, NEW t \in Tasks, NEW r, Evolves(row[t], r), row' = [row EXCEPT ![t] = r],
           UNCHANGED <<mission, phase, handle, work, strikes, barrier>>, op' \in {op, None}
    PROVE  StepOK
<1>1. barrier' = [barrier EXCEPT ![t] = barrier[t]] /\ barrier[t] \in InFlight \cup {"idle", "backoff"}
  BY DEF IInv, TypeOK
<1>2. BarrierMoves(t)
  BY DEF BarrierMoves
<1>. QED  BY <1>1, <1>2, CommitStep

\* The same, when no row changes.
LEMMA QueueStep ==
    ASSUME IInv, UNCHANGED <<mission, row, phase, handle, work, strikes>>,
           \A t \in Tasks : BarrierMoves(t),
           barrier' \in [Tasks -> InFlight \cup {"idle", "backoff"}],
           op' \in Op \cup {None}, CallInTurn'
    PROVE  StepOK
<1>1. \A t \in Tasks : Evolves(row[t], row'[t])
  BY RowsOK, EvolvesReflexive
<1>2. row' = [t \in Tasks |-> row'[t]]
  BY DEF IInv, TypeOK
<1>. QED  BY <1>1, <1>2, RowsStep

\* A poke starts the barrier of a stop that is owed, or leaves it alone.
LEMMA PokedMoves ==
    ASSUME NEW b \in InFlight \cup {"idle", "backoff"}, NEW r, NEW force \in BOOLEAN
    PROVE  /\ Poked(b, r, force) \in InFlight \cup {"idle", "backoff"}
           /\ Poked(b, r, force) = b \/ (Poked(b, r, force) = "stopping" /\ StopPending(r))
BY DEF Poked, InFlight

LEMMA CommitOK ==
    ASSUME IInv, NEW t \in Tasks, NEW r, Evolves(row[t], r), Commit(t, r),
           UNCHANGED <<mission, phase, handle, work, strikes>>, op' \in {op, None}
    PROVE  StepOK
<1>. DEFINE b == Poked(barrier[t], r, FALSE)
<1>1. row' = [row EXCEPT ![t] = r] /\ barrier' = [barrier EXCEPT ![t] = b]
  BY DEF Commit
<1>2. barrier[t] \in InFlight \cup {"idle", "backoff"} /\ row'[t] = r /\ barrier'[t] = b
  BY <1>1 DEF IInv, TypeOK
<1>3. b \in InFlight \cup {"idle", "backoff"} /\ (b = barrier[t] \/ (b = "stopping" /\ StopPending(r)))
  BY <1>2, PokedMoves
<1>4. BarrierMoves(t)
  BY <1>2, <1>3 DEF BarrierMoves
<1>. HIDE DEF b
<1>. QED  BY <1>1, <1>3, <1>4, CommitStep

\* A handle that ends takes its turn, the turn's work and its pending call along.
LEMMA TurnAbortedOK ==
    ASSUME IInv, NEW m \in Members, TurnAborted(m),
           NEW h \in Handles \ {"busy"}, handle' = [handle EXCEPT ![m] = h]
    PROVE  /\ handle' \in [Members -> Handles] /\ handle'[m] # "busy"
           /\ \A n \in Members : handle[n] # "busy" => handle'[n] # "busy"
           /\ work' \in [Members -> SUBSET (Tasks \X Nat)]
           /\ \A n \in Members : work'[n] \subseteq work[n]
           /\ op' \in Op \cup {None} /\ WorkInTurn' /\ CallInTurn'
<1>1. /\ work' = [work EXCEPT ![m] = {}]
      /\ op' = IF CallsOf(m) # {} THEN [op EXCEPT !.live = FALSE] ELSE op
  BY DEF TurnAborted
<1>2. /\ handle \in [Members -> Handles]
      /\ work \in [Members -> SUBSET (Tasks \X Nat)] /\ op \in Op \cup {None}
  BY RowsOK DEF AroundOK
<1>3. handle' \in [Members -> Handles] /\ work' \in [Members -> SUBSET (Tasks \X Nat)]
  BY <1>1, <1>2
<1>4. WorkInTurn'
  BY <1>1, <1>2 DEF WorkInTurn, IInv
<1>5. CASE CallsOf(m) = {}
  <2>1. op' = op /\ (op # None /\ op.kind \in {"claim", "submit"} => op.member # m)
    BY <1>1, <1>5 DEF CallsOf
  <2>2. CallInTurn'
    BY <1>1, <1>2, <2>1 DEF CallInTurn, IInv, Op
  <2>. QED  BY <1>1, <1>2, <1>3, <1>4, <2>1, <2>2
<1>6. CASE CallsOf(m) # {}
  <2>1. op \in Op /\ op' = [op EXCEPT !.live = FALSE]
    BY <1>1, <1>2, <1>6 DEF CallsOf
  <2>2. op' \in Op /\ ~op'.live
    BY <2>1 DEF Op
  <2>. QED  BY <1>1, <1>2, <1>3, <1>4, <2>2 DEF CallInTurn
<1>. QED  BY <1>5, <1>6

LEMMA HandleDownOK ==
    ASSUME IInv, NEW m \in Members, HandleDown(m)
    PROVE  /\ handle' \in [Members -> Handles] /\ handle'[m] # "busy"
           /\ \A n \in Members : handle[n] # "busy" => handle'[n] # "busy"
           /\ work' \in [Members -> SUBSET (Tasks \X Nat)]
           /\ \A n \in Members : work'[n] \subseteq work[n]
           /\ op' \in Op \cup {None} /\ WorkInTurn' /\ CallInTurn'
<1>. DEFINE h == IF handle[m] = "awaited" THEN "awaited" ELSE "down"
<1>1. h \in Handles \ {"busy"} /\ handle' = [handle EXCEPT ![m] = h] /\ TurnAborted(m)
  BY DEF HandleDown, Handles
<1>. HIDE DEF h
<1>. QED  BY <1>1, TurnAbortedOK
-----------------------------------------------------------------------------
(***************************************************************************)
(* Worker handles.                                                         *)
(***************************************************************************)

\* Only the handles change, and nobody's to or from a turn.
LEMMA OnlyHandles ==
    ASSUME IInv, handle' \in [Members -> Handles],
           \A n \in Members : handle'[n] = "busy" <=> handle[n] = "busy",
           UNCHANGED <<mission, row, phase, work, op, barrier>>,
           strikes' \in [Members -> 0 .. StartFailureLimit], StrikesBelowLimit'
    PROVE  StepOK
<1>1. AroundOK'
  BY RowsOK DEF AroundOK
<1>2. \A t \in Tasks : Evolves(row[t], row'[t]) /\ BarrierMoves(t)
  BY RowsOK, EvolvesReflexive DEF BarrierMoves
<1>3. row' = [t \in Tasks |-> row'[t]]
  BY DEF IInv, TypeOK
<1>4. \A t \in Tasks : HoldsOpen(row'[t]) =>
          mission' = "active" /\ phase'[row'[t].attempt.owner] # "stopped"
  BY DEF IInv, OwnerIsLiveAssignee, NoWorkWhilePaused, Live
<1>5. WorkInTurn' /\ CallInTurn'
  BY DEF IInv, TypeOK, WorkInTurn, CallInTurn, Op
<1>. QED  BY <1>1, <1>2, <1>3, <1>4, <1>5, EvolvingStep

LEMMA OpensOK ==
    ASSUME IInv, NEW m \in Members, StartWorker(m) \/ LateStart(m)
    PROVE  StepOK
<1>1. /\ handle[m] \in {"down", "awaited"} /\ handle' = [handle EXCEPT ![m] = "idle"]
      /\ strikes' = [strikes EXCEPT ![m] = 0]
      /\ UNCHANGED <<mission, row, phase, work, op, barrier>>
  BY DEF StartWorker, LateStart
<1>2. handle' \in [Members -> Handles] /\ \A n \in Members : handle'[n] = "busy" <=> handle[n] = "busy"
  BY <1>1, RowsOK DEF AroundOK, Handles
<1>3. strikes' \in [Members -> 0 .. StartFailureLimit] /\ StrikesBelowLimit'
  BY <1>1, BoardConstants DEF IInv, TypeOK, StrikesBelowLimit, Live
<1>. QED  BY <1>1, <1>2, <1>3, OnlyHandles

LEMMA WaitingStartOK ==
    ASSUME IInv, NEW m \in Members, StartWaits(m) \/ HandleEnded(m)
    PROVE  StepOK
<1>1. /\ handle[m] = "ending"
      /\ handle' = [handle EXCEPT ![m] = "awaited"] \/ handle' = [handle EXCEPT ![m] = "down"]
      /\ UNCHANGED <<mission, row, phase, work, strikes, op, barrier>>
  BY DEF StartWaits, HandleEnded
<1>2. handle' \in [Members -> Handles] /\ \A n \in Members : handle'[n] = "busy" <=> handle[n] = "busy"
  BY <1>1, RowsOK DEF AroundOK, Handles
<1>3. strikes' \in [Members -> 0 .. StartFailureLimit] /\ StrikesBelowLimit'
  BY <1>1 DEF IInv, TypeOK, StrikesBelowLimit, Live
<1>. QED  BY <1>1, <1>2, <1>3, OnlyHandles

LEMMA HandleEndsOK == ASSUME IInv, NEW m \in Members, HandleEnds(m) PROVE StepOK
<1>. USE DEF HandleEnds
<1>1. /\ handle' \in [Members -> Handles]
      /\ \A n \in Members : handle[n] # "busy" => handle'[n] # "busy"
      /\ work' \in [Members -> SUBSET (Tasks \X Nat)]
      /\ \A n \in Members : work'[n] \subseteq work[n]
      /\ op' \in Op \cup {None} /\ WorkInTurn' /\ CallInTurn'
  BY TurnAbortedOK DEF Handles
<1>2. AroundOK'
  BY <1>1, RowsOK DEF AroundOK
<1>3. \A t \in Tasks : Evolves(row[t], row'[t]) /\ BarrierMoves(t)
  BY RowsOK, EvolvesReflexive DEF BarrierMoves
<1>4. row' = [t \in Tasks |-> row'[t]]
  BY DEF IInv, TypeOK
<1>5. \A t \in Tasks : HoldsOpen(row'[t]) =>
          mission' = "active" /\ phase'[row'[t].attempt.owner] # "stopped"
  BY DEF IInv, OwnerIsLiveAssignee, NoWorkWhilePaused, Live
<1>6. StrikesBelowLimit'
  BY DEF IInv, StrikesBelowLimit, Live
<1>. QED  BY <1>1, <1>2, <1>3, <1>4, <1>5, <1>6, EvolvingStep

LEMMA IdleStopOK == ASSUME IInv, NEW m \in Members, IdleStop(m) PROVE StepOK
<1>. USE DEF IdleStop
<1>1. phase' \in [Members -> {"active", "parked", "stopped"}]
  BY DEF IInv, TypeOK
<1>2. AroundOK'
  BY <1>1, RowsOK, HandleDownOK DEF AroundOK
<1>3. \A t \in Tasks : Evolves(row[t], row'[t]) /\ BarrierMoves(t)
  BY RowsOK, EvolvesReflexive DEF BarrierMoves
<1>4. row' = [t \in Tasks |-> row'[t]]
  BY DEF IInv, TypeOK
<1>5. \A t \in Tasks : HoldsOpen(row'[t]) =>
          mission' = "active" /\ phase'[row'[t].attempt.owner] # "stopped"
  BY DEF IInv, TypeOK, OwnerIsLiveAssignee, NoWorkWhilePaused, Live
<1>6. StrikesBelowLimit'
  BY DEF IInv, TypeOK, StrikesBelowLimit, Live
<1>. QED  BY <1>2, <1>3, <1>4, <1>5, <1>6, HandleDownOK, EvolvingStep

\* What an open attempt's row is, read from the invariant.
LEMMA OpenRow ==
    ASSUME IInv, NEW t \in Tasks, HoldsOpen(row[t])
    PROVE  /\ RowOK(row[t]) /\ row[t].attempt # None /\ row[t].stop = None
           /\ row[t].attempt \in Attempt /\ row[t].attempt.owner \in Members
           /\ row[t].status = "running" /\ mission = "active"
           /\ phase[row[t].attempt.owner] # "stopped"
           /\ row[t].assignee = row[t].attempt.owner
<1>1. RowOK(row[t])
  BY RowsOK
<1>. QED
  BY <1>1 DEF RowOK, Sound, Row, Attempt, HoldsOpen, IInv, NoWorkWhilePaused, OwnerIsLiveAssignee, Live

LEMMA StepIsOK == ASSUME IInv, NEW m \in Members, Step(m) PROVE StepOK
<1>. USE DEF Step
<1>1. row' = [t \in Tasks |-> row'[t]]
  OBVIOUS
<1>2. \A t \in Tasks : Evolves(row[t], row'[t])
  BY RowsOK, EvolvesReflexive, LapsedEvolves DEF OpenBy, HoldsOpen
<1>3. \A t \in Tasks : OpenBy(row[t], m) => OpenBy(row'[t], m) /\ row'[t].epoch = row[t].epoch
  <2>. SUFFICES ASSUME NEW t \in Tasks, OpenBy(row[t], m)
                PROVE  OpenBy(row'[t], m) /\ row'[t].epoch = row[t].epoch
    OBVIOUS
  <2>. DEFINE a == [row[t].attempt EXCEPT !.lapsed = FALSE]
  <2>1. row[t] \in Row /\ row[t].attempt \in Attempt /\ row'[t] = [row[t] EXCEPT !.attempt = a]
    BY OpenRow DEF OpenBy, RowOK
  <2>2. a \in Attempt /\ a.owner = row[t].attempt.owner
    BY <2>1 DEF Attempt
  <2>. HIDE DEF a
  <2>3. row'[t].attempt = a /\ row'[t].status = row[t].status /\ row'[t].epoch = row[t].epoch
    BY <2>1 DEF Row
  <2>. QED  BY <2>2, <2>3, NoneIsNoValue DEF OpenBy, HoldsOpen
<1>4. work' \in [Members -> SUBSET (Tasks \X Nat)]
  BY RowsOK DEF AroundOK, OpenAttempts, RowOK, Row
<1>5. AroundOK'
  BY <1>4, RowsOK DEF AroundOK, Handles
<1>6. \A n \in Members :
          \/ work'[n] \subseteq work[n]
          \/ n = m /\ \A x \in work'[n] : MayExecute(row'[x[1]], n, x[2])
  <2>1. \A n \in Members \ {m} : work'[n] = work[n]
    BY DEF IInv, TypeOK
  <2>2. work'[m] = {<<t, row[t].epoch>> : t \in OpenAttempts(m)}
    BY DEF IInv, TypeOK
  <2>3. \A x \in work'[m] : MayExecute(row'[x[1]], m, x[2])
    <3>. SUFFICES ASSUME NEW x \in work'[m]
                  PROVE  MayExecute(row'[x[1]], m, x[2])
      OBVIOUS
    <3>1. PICK t \in OpenAttempts(m) : x = <<t, row[t].epoch>>
      BY <2>2
    <3>2. x[1] = t /\ x[2] = row[t].epoch
      BY <3>1
    <3>. QED  BY <1>3, <3>2 DEF OpenAttempts, MayExecute
  <2>. QED  BY <2>1, <2>3
<1>7. \A t \in Tasks : HoldsOpen(row'[t]) =>
          mission' = "active" /\ phase'[row'[t].attempt.owner] # "stopped"
  <2>. SUFFICES ASSUME NEW t \in Tasks, HoldsOpen(row'[t])
                PROVE  mission' = "active" /\ phase'[row'[t].attempt.owner] # "stopped"
    OBVIOUS
  <2>1. HoldsOpen(row[t]) /\ row'[t].attempt.owner = row[t].attempt.owner
    BY <1>2 DEF Evolves, HandsToNobody
  <2>. QED  BY <2>1, OpenRow DEF IInv, TypeOK
<1>8. StrikesBelowLimit' /\ WorkInTurn' /\ CallInTurn'
  BY DEF IInv, TypeOK, StrikesBelowLimit, Live, WorkInTurn, CallInTurn, Op
<1>9. \A n \in Members : handle[n] # "busy" => handle'[n] # "busy" \/ ~PendingStopOwner(n)
  BY DEF IInv, TypeOK
<1>. QED  BY <1>1, <1>2, <1>5, <1>6, <1>7, <1>8, <1>9, EvolvingStep DEF BarrierMoves

LEMMA CeilingOK == ASSUME IInv, NEW m \in Members, NEW t \in Tasks, Ceiling(m, t) PROVE StepOK
BY OpenRow, CeilingBlockedEvolves, CommitOK DEF Ceiling, OpenBy

LEMMA RenewOK == ASSUME IInv, NEW m \in Members, NEW t \in Tasks, Renew(m, t) PROVE StepOK
<1>. DEFINE r == [row[t] EXCEPT !.attempt.lapsed = FALSE]
<1>1. Evolves(row[t], r)
  BY OpenRow, LapsedEvolves DEF Renew, OpenBy
<1>2. row' = [row EXCEPT ![t] = r]
  BY DEF Renew
<1>. HIDE DEF r
<1>. QED  BY <1>1, <1>2, MarkStep DEF Renew

LEMMA EndTurnOK == ASSUME IInv, NEW m \in Members, EndTurn(m) PROVE StepOK
<1>. USE DEF EndTurn
<1>1. row' = [t \in Tasks |-> row'[t]]
  OBVIOUS
<1>2. \A t \in Tasks : Evolves(row[t], row'[t])
  BY RowsOK, EvolvesReflexive, LapsedEvolves DEF OpenBy, HoldsOpen
<1>3. AroundOK'
  BY RowsOK DEF AroundOK, Handles
<1>4. \A n \in Members : work'[n] \subseteq work[n]
  BY DEF IInv, TypeOK
<1>5. \A t \in Tasks : HoldsOpen(row'[t]) =>
          mission' = "active" /\ phase'[row'[t].attempt.owner] # "stopped"
  BY <1>2, OpenRow DEF Evolves, HandsToNobody
<1>6. StrikesBelowLimit' /\ WorkInTurn'
  BY DEF IInv, TypeOK, StrikesBelowLimit, Live, WorkInTurn
<1>7. CallInTurn'
  BY DEF IInv, TypeOK, CallInTurn, CallsOf, Op
<1>8. \A n \in Members : handle[n] # "busy" => handle'[n] # "busy"
  BY DEF IInv, TypeOK
<1>. QED  BY <1>1, <1>2, <1>3, <1>4, <1>5, <1>6, <1>7, <1>8, EvolvingStep DEF BarrierMoves

LEMMA RouteRefusedOK == ASSUME IInv, NEW m \in Members, RouteRefused(m) PROVE StepOK
<1>. USE DEF RouteRefused
<1>1. row' = [t \in Tasks |-> row'[t]] /\ \A t \in Tasks : row'[t] = RouteRefusedRow(row[t], m)
  OBVIOUS
<1>2. \A t \in Tasks : Evolves(row[t], row'[t]) /\ ~OpenBy(row'[t], m)
  BY <1>1, RowsOK, RouteRefusedEvolves
<1>3. \A t \in Tasks :
        /\ barrier'[t] \in InFlight \cup {"idle", "backoff"}
        /\ BarrierMoves(t)
  <2>. SUFFICES ASSUME NEW t \in Tasks
                PROVE  barrier'[t] \in InFlight \cup {"idle", "backoff"} /\ BarrierMoves(t)
    OBVIOUS
  <2>1. barrier[t] \in InFlight \cup {"idle", "backoff"}
    BY DEF IInv, TypeOK
  <2>2. barrier'[t] \in {barrier[t], Poked(barrier[t], row'[t], FALSE)}
    OBVIOUS
  <2>. QED  BY <2>1, <2>2, PokedMoves DEF BarrierMoves
<1>4. AroundOK'
  BY <1>3, RowsOK DEF AroundOK
<1>5. \A t \in Tasks : HoldsOpen(row'[t]) =>
          mission' = "active" /\ phase'[row'[t].attempt.owner] # "stopped"
  BY <1>2, OpenRow DEF IInv, TypeOK, Evolves, HandsToNobody, OpenBy
<1>6. StrikesBelowLimit' /\ WorkInTurn' /\ CallInTurn'
  BY DEF IInv, TypeOK, StrikesBelowLimit, Live, WorkInTurn, CallInTurn
<1>. QED  BY <1>1, <1>2, <1>3, <1>4, <1>5, <1>6, EvolvingStep
-----------------------------------------------------------------------------
(***************************************************************************)
(* A worker's tool calls, and the operations of the mission queue.         *)
(***************************************************************************)

LEMMA HandoffOK ==
    ASSUME IInv, NEW m \in Members, NEW t \in Tasks, NEW to \in Targets, Handoff(m, t, to)
    PROVE  StepOK
BY BoardConstants, OpenRow, HandedOffEvolves, CommitOK DEF Handoff, OpenBy

LEMMA WaitOK == ASSUME IInv, NEW m \in Members, Wait(m) PROVE StepOK
<1>. USE DEF Wait
<1>1. AroundOK'
  BY RowsOK DEF AroundOK
<1>2. \A t \in Tasks : Evolves(row[t], row'[t]) /\ BarrierMoves(t)
  BY RowsOK, EvolvesReflexive DEF BarrierMoves
<1>3. row' = [t \in Tasks |-> row'[t]]
  BY DEF IInv, TypeOK
<1>4. \A t \in Tasks : HoldsOpen(row'[t]) =>
          mission' = "active" /\ phase'[row'[t].attempt.owner] # "stopped"
  BY OpenRow DEF IInv, TypeOK
<1>5. StrikesBelowLimit' /\ WorkInTurn' /\ CallInTurn'
  BY DEF Acts, IInv, TypeOK, StrikesBelowLimit, Live, WorkInTurn, CallInTurn
<1>. QED  BY <1>1, <1>2, <1>3, <1>4, <1>5, EvolvingStep

\* The record an operation carries across its await.
LEMMA NewOpOK ==
    ASSUME IInv, NEW kind \in {"dispatch", "claim", "submit", "closeout", "expire"},
           NEW t \in Tasks, NEW m \in Members, NEW parked \in BOOLEAN
    PROVE  /\ NewOp(kind, t, m, parked) \in Op
           /\ NewOp(kind, t, m, parked).kind = kind /\ NewOp(kind, t, m, parked).member = m
BY RowsOK DEF NewOp, Op, RowOK, Row

\* An operation begins: nothing but the queue changes.
LEMMA BeginOK ==
    ASSUME IInv, NEW kind \in {"dispatch", "claim", "submit", "closeout", "expire"},
           NEW t \in Tasks, NEW m \in Members, NEW parked \in BOOLEAN,
           op' = NewOp(kind, t, m, parked), kind \in {"claim", "submit"} => handle[m] = "busy",
           UNCHANGED <<mission, row, phase, handle, work, strikes, barrier>>
    PROVE  StepOK
<1>1. op' \in Op /\ CallInTurn'
  BY NewOpOK DEF CallInTurn
<1>2. barrier' \in [Tasks -> InFlight \cup {"idle", "backoff"}] /\ \A u \in Tasks : BarrierMoves(u)
  BY DEF IInv, TypeOK, BarrierMoves
<1>. QED  BY <1>1, <1>2, QueueStep

\* An operation ends without a write.
LEMMA EndOK ==
    ASSUME IInv, op' = None, UNCHANGED <<mission, row, phase, handle, work, strikes, barrier>>
    PROVE  StepOK
<1>1. barrier' \in [Tasks -> InFlight \cup {"idle", "backoff"}] /\ \A u \in Tasks : BarrierMoves(u)
  BY DEF IInv, TypeOK, BarrierMoves
<1>. QED  BY <1>1, QueueStep DEF CallInTurn

LEMMA BeginsOK ==
    ASSUME IInv, NEW m \in Members, NEW t \in Tasks,
           ClaimBegin(m, t) \/ SubmitBegin(m, t) \/ DispatchBegin(m, t) \/ CloseOutBegin(m, t)
    PROVE  StepOK
<1>1. CASE ClaimBegin(m, t)
  BY <1>1, BeginOK DEF ClaimBegin, Acts
<1>2. CASE SubmitBegin(m, t)
  BY <1>2, BeginOK DEF SubmitBegin, Acts
<1>3. CASE DispatchBegin(m, t)
  BY <1>3, BeginOK DEF DispatchBegin
<1>4. CASE CloseOutBegin(m, t)
  BY <1>4, BeginOK DEF CloseOutBegin
<1>. QED  BY <1>1, <1>2, <1>3, <1>4

LEMMA NudgeOK == ASSUME IInv, NEW m \in Members, NEW t \in Tasks, Nudge(m, t) PROVE StepOK
<1>1. Evolves(row[t], Nudged(row[t]))
  BY OpenRow, NudgedEvolves DEF Nudge, CloseOutDue, OpenBy
<1>. QED  BY <1>1, MarkStep DEF Nudge

LEMMA PrepareFailsOK ==
    ASSUME IInv, NEW transient \in BOOLEAN, PrepareFails(transient) PROVE StepOK
<1>1. op.task \in Tasks /\ row[op.task].status = "pending"
  BY DEF PrepareFails, StillDispatchable, Ready, IInv, TypeOK, Op
<1>2. Evolves(row[op.task], PreparationFailure(row[op.task], transient))
  BY <1>1, RowsOK, PreparationFailureEvolves
<1>. QED  BY <1>1, <1>2, MarkStep DEF PrepareFails

LEMMA CloseOutFinishOK ==
    ASSUME IInv, NEW captured \in BOOLEAN, CloseOutFinish(captured) PROVE StepOK
<1>1. op.task \in Tasks /\ op.member \in Members /\ HoldsOpen(row[op.task])
  BY DEF CloseOutFinish, HoldsAttempt, IInv, TypeOK, Op
<1>2. /\ Evolves(row[op.task], ClosedOut(row[op.task], op.member))
      /\ Evolves(row[op.task], CloseOutFailed(row[op.task]))
  BY <1>1, OpenRow, ClosedOutEvolves, CloseOutFailedEvolves
<1>. QED  BY <1>1, <1>2, CommitOK DEF CloseOutFinish

LEMMA LeaseRunsOutOK == ASSUME IInv, NEW t \in Tasks, LeaseRunsOut(t) PROVE StepOK
<1>. DEFINE r == [row[t] EXCEPT !.attempt.lapsed = TRUE]
<1>1. Evolves(row[t], r)
  BY OpenRow, LapsedEvolves DEF LeaseRunsOut
<1>2. row' = [row EXCEPT ![t] = r]
  BY DEF LeaseRunsOut
<1>. HIDE DEF r
<1>. QED  BY <1>1, <1>2, MarkStep DEF LeaseRunsOut

LEMMA ExpireNowOK == ASSUME IInv, NEW t \in Tasks, ExpireNow(t) PROVE StepOK
<1>1. Evolves(row[t], Expired(row[t], phase[row[t].attempt.owner] = "parked", LiveMembers))
  BY OpenRow, ExpiredEvolves DEF ExpireNow, LeaseLapsed, LiveMembers
<1>. QED  BY <1>1, CommitOK DEF ExpireNow

LEMMA ExpireBeginOK == ASSUME IInv, NEW t \in Tasks, ExpireBegin(t) PROVE StepOK
BY OpenRow, BeginOK DEF ExpireBegin, LeaseLapsed

LEMMA ExpireFinishOK == ASSUME IInv, ExpireFinish PROVE StepOK
<1>1. op.task \in Tasks /\ op.parked \in BOOLEAN /\ HoldsOpen(row[op.task])
  BY DEF ExpireFinish, HoldsAttempt, IInv, TypeOK, Op
<1>2. Evolves(row[op.task], Expired(row[op.task], op.parked, LiveMembers))
  BY <1>1, OpenRow, ExpiredEvolves DEF LiveMembers
<1>. QED  BY <1>1, <1>2, CommitOK DEF ExpireFinish

\* One row leaves the member that had it, whose turn is over.
LEMMA LetGoStep ==
    ASSUME IInv, NEW t \in Tasks, NEW r, LetGo(row[t], r), row' = [row EXCEPT ![t] = r],
           NEW m \in Members, \A n \in Members : Has(row[t], n) => n = m,
           work' = [work EXCEPT ![m] = {}], barrier' = [barrier EXCEPT ![t] = "idle"],
           KeepsStop(row[t], r) \/ (barrier[t] = "releasing" /\ handle[row[t].stop.member] # "busy"),
           phase' \in [Members -> {"active", "parked", "stopped"}],
           \A n \in Members : phase'[n] = phase[n] \/ (phase'[n] = "stopped" /\ mission # "active"),
           UNCHANGED <<mission, handle, strikes>>, op' \in {op, None}
    PROVE  StepOK
<1>1. /\ row \in [Tasks -> Row] /\ work \in [Members -> SUBSET (Tasks \X Nat)]
      /\ barrier \in [Tasks -> InFlight \cup {"idle", "backoff"}] /\ op' \in Op \cup {None}
  BY DEF IInv, TypeOK
<1>2. row' = [u \in Tasks |-> row'[u]] /\ \A u \in Tasks : row'[u] = IF u = t THEN r ELSE row[u]
  BY <1>1
<1>3. \A u \in Tasks : HandsToNobody(row[u], row'[u])
  BY <1>2, RowsOK, EvolvesReflexive DEF Evolves, LetGo
<1>4. AroundOK'
  BY <1>1, RowsOK DEF AroundOK
<1>5. \A u \in Tasks : HoldsOpen(row'[u]) =>
          mission' = "active" /\ phase'[row'[u].attempt.owner] # "stopped"
  BY <1>2, OpenRow DEF LetGo
<1>6. StrikesBelowLimit' /\ WorkInTurn' /\ CallInTurn'
  BY <1>1 DEF IInv, StrikesBelowLimit, Live, WorkInTurn, CallInTurn
<1>7. BarrierOwesStop' /\ QuietWhileSaving'
  BY <1>1, <1>2 DEF IInv, BarrierOwesStop, QuietWhileSaving
<1>8. HandleQuiescence'
  <2>. SUFFICES ASSUME NEW n \in Members, NEW x \in work'[n]
                PROVE  MayExecute(row'[x[1]], n, x[2])
    BY DEF HandleQuiescence, MayExecute
  <2>1. n # m /\ x \in work[n] /\ x[1] \in Tasks
    BY <1>1
  <2>2. MayExecute(row[x[1]], n, x[2])
    BY <2>1 DEF IInv, HandleQuiescence, MayExecute
  <2>3. x[1] # t
    BY <2>1, <2>2 DEF MayExecute, Has
  <2>. QED  BY <1>2, <2>1, <2>2, <2>3
<1>9. IInv'
  BY <1>2, <1>3, <1>4, <1>5, <1>6, <1>7, <1>8, HandsOffStep
<1>10. Kept
  BY <1>2, <1>3 DEF Kept, HandsToNobody, KeepsStop
<1>11. \A n \in Members : work'[n] \subseteq work[n]
  BY <1>1
<1>. QED  BY <1>3, <1>9, <1>10, <1>11 DEF StepOK, OnlyAssignGives

LEMMA SubmitFinishOK == ASSUME IInv, SubmitFinish PROVE StepOK
<1>. DEFINE t == op.task
            m == op.member
            r == [row[t] EXCEPT !.status = "submitted"]
<1>. USE DEF SubmitFinish
<1>1. t \in Tasks /\ m \in Members /\ HoldsOpen(row[t]) /\ row[t].attempt.owner = m
  BY DEF SubmissionFence, HoldsAttempt, IInv, TypeOK, Op
<1>2. LetGo(row[t], r) /\ row[t].stop = None
  BY <1>1, OpenRow, SubmittedLetsGo
<1>3. \A n \in Members : Has(row[t], n) => n = m
  BY <1>1, <1>2 DEF Has, OpenBy, OwesStop, StopPending
<1>4. barrier' = [barrier EXCEPT ![t] = "idle"]
  BY <1>1, <1>2 DEF IInv, TypeOK, BarrierOwesStop, StopPending
<1>5. KeepsStop(row[t], r)
  BY <1>2 DEF KeepsStop, StopPending
<1>6. row' = [row EXCEPT ![t] = r] /\ phase' \in [Members -> {"active", "parked", "stopped"}]
  BY DEF IInv, TypeOK
<1>. HIDE DEF r, t, m
<1>7. work' = [work EXCEPT ![m] = {}]
  BY DEF m
<1>. QED  BY <1>1, <1>2, <1>3, <1>4, <1>5, <1>6, <1>7, LetGoStep

LEMMA ReleaseOK == ASSUME IInv, NEW t \in Tasks, Release(t) PROVE StepOK
<1>. DEFINE m == row[t].stop.member
            r == Released(row[t], ~Live(m))
<1>. USE DEF Release
<1>1. StopPending(row[t]) /\ handle[m] # "busy"
  BY DEF IInv, BarrierOwesStop, QuietWhileSaving
<1>2. RowOK(row[t])
  BY RowsOK
<1>3. m \in Members /\ row[t].attempt = None
  BY <1>1, <1>2 DEF RowOK, Sound, Row, Stop, StopPending
<1>4. LetGo(row[t], r)
  BY <1>1, <1>2, ReleasedLetsGo
<1>5. \A n \in Members : Has(row[t], n) => n = m
  BY <1>3 DEF Has, OpenBy, HoldsOpen, OwesStop
<1>6. work[m] = {}
  BY <1>1, <1>3 DEF IInv, WorkInTurn
<1>7. work' = [work EXCEPT ![m] = {}]
  BY <1>3, <1>6 DEF IInv, TypeOK
<1>8. /\ phase' \in [Members -> {"active", "parked", "stopped"}]
      /\ \A n \in Members : phase'[n] = phase[n] \/ (phase'[n] = "stopped" /\ mission # "active")
  BY <1>3 DEF IInv, TypeOK
<1>9. row' = [row EXCEPT ![t] = r]
  OBVIOUS
<1>. HIDE DEF r
<1>. QED  BY <1>1, <1>3, <1>4, <1>5, <1>7, <1>8, <1>9, LetGoStep

LEMMA AssignIsOK == ASSUME IInv, Assign PROVE StepOK
<1>. DEFINE t == op.task
            m == op.member
            r == Assigned(row[t], m)
<1>. USE DEF Assign
<1>1. /\ t \in Tasks /\ m \in Members /\ mission = "active" /\ Live(m) /\ row[t].status = "pending"
      /\ \A u \in Tasks : ~Has(row[u], m)
  BY DEF Assignable, StillDispatchable, Ready, Admitted, PendingStopOwner, OpenAttempts, Has,
         IInv, TypeOK, Op
<1>2. RowOK(row[t]) /\ row[t].stop = None /\ row[t].attempt = None
  BY <1>1, RowsOK DEF RowOK, Sound
<1>3. /\ RowOK(r) /\ r.status = "running" /\ r.attempt # None /\ r.attempt.owner = m
      /\ r.assignee = m /\ r.stop = None /\ Authors(row[t]) \subseteq Authors(r)
  BY <1>1, <1>2, AssignedOK
<1>4. /\ row \in [Tasks -> Row] /\ row' = [row EXCEPT ![t] = r] /\ r \in Row
      /\ work \in [Members -> SUBSET (Tasks \X Nat)]
  BY <1>3 DEF IInv, TypeOK, RowOK
<1>5. \A u \in Tasks : row'[u] = IF u = t THEN r ELSE row[u]
  BY <1>4
<1>6. op.kind = "claim" => handle[m] = "busy"
  BY DEF Assignable, IInv, CallInTurn
<1>7. work' = IF op.kind = "claim" THEN [work EXCEPT ![m] = {<<t, r.epoch>>}] ELSE work
  BY <1>1, <1>5
<1>. HIDE DEF r, t, m
<1>8. /\ work' \in [Members -> SUBSET (Tasks \X Nat)]
      /\ \A n \in Members : \A x \in work'[n] : x \in work[n] \/ (n = m /\ x[1] = t /\ x[2] = r.epoch)
  <2>. DEFINE x == <<t, r.epoch>>
  <2>1. x \in Tasks \X Nat /\ x[1] = t /\ x[2] = r.epoch
    BY <1>1, <1>4 DEF Row
  <2>2. work' = IF op.kind = "claim" THEN [work EXCEPT ![m] = {x}] ELSE work
    BY <1>7
  <2>3. {x} \in SUBSET (Tasks \X Nat)
    BY <2>1
  <2>. HIDE DEF x
  <2>4. work' \in [Members -> SUBSET (Tasks \X Nat)]
    BY <1>4, <2>2, <2>3
  <2>5. \A n \in Members : work'[n] = work[n] \/ (n = m /\ work'[n] = {x})
    BY <1>4, <2>2
  <2>. QED  BY <2>1, <2>4, <2>5
<1>9. TypeOK'
  BY <1>4, <1>8, RowsOK DEF TypeOK, AroundOK, Handles
<1>10. StopNeverOrphaned'
  BY <1>3, <1>5 DEF StopNeverOrphaned, IInv, RowOK, Sound
<1>11. BarrierOwesStop' /\ QuietWhileSaving'
  <2>1. barrier[t] = "idle"
    BY <1>1, <1>2 DEF IInv, TypeOK, BarrierOwesStop, StopPending
  <2>. QED  BY <1>5, <2>1 DEF IInv, BarrierOwesStop, QuietWhileSaving
<1>12. WorkInTurn'
  BY <1>4, <1>6, <1>7 DEF IInv, WorkInTurn
<1>13. StrikesBelowLimit' /\ CallInTurn'
  BY DEF IInv, StrikesBelowLimit, Live, CallInTurn
<1>14. HandleQuiescence'
  <2>. SUFFICES ASSUME NEW n \in Members, NEW x \in work'[n]
                PROVE  MayExecute(row'[x[1]], n, x[2])
    BY DEF HandleQuiescence, MayExecute
  <2>1. CASE x \in work[n]
    <3>1. MayExecute(row[x[1]], n, x[2]) /\ x[1] \in Tasks
      BY <1>4, <2>1 DEF IInv, HandleQuiescence, MayExecute
    <3>2. x[1] # t
      BY <1>2, <3>1 DEF MayExecute, OpenBy, HoldsOpen, OwesStop, StopPending
    <3>. QED  BY <1>5, <3>1, <3>2
  <2>2. CASE n = m /\ x[1] = t /\ x[2] = r.epoch
    BY <1>1, <1>3, <1>5, <2>2 DEF MayExecute, OpenBy, HoldsOpen
  <2>. QED  BY <1>8, <2>1, <2>2
<1>15. NoWorkWhilePaused' /\ OwnerIsLiveAssignee'
  BY <1>1, <1>3, <1>5 DEF IInv, NoWorkWhilePaused, OwnerIsLiveAssignee, Live
<1>16. MemberExclusive'
  <2>1. \A n \in Members : Has(r, n) => n = m
    BY <1>3 DEF Has, OpenBy, HoldsOpen, OwesStop, StopPending
  <2>2. \A u \in Tasks, n \in Members : Has(row'[u], n) =>
          (u = t /\ n = m) \/ (u # t /\ Has(row[u], n))
    BY <1>5, <2>1
  <2>. QED  BY <1>1, <2>2 DEF IInv, MemberExclusive, Has
<1>17. Kept
  BY <1>1, <1>2, <1>3, <1>5 DEF Kept, KeepsStop, StopPending
<1>. QED
  BY <1>9, <1>10, <1>11, <1>12, <1>13, <1>14, <1>15, <1>16, <1>17
  DEF StepOK, OnlyAssignGives, IInv

\* A failed start touches only rows of a member that has no handle up.
LEMMA StartFailsOK ==
    ASSUME IInv, NEW m \in Members, NEW outage \in BOOLEAN, StartFails(m, outage) PROVE StepOK
<1>. DEFINE count == strikes[m] + 1
            retired == ~outage /\ count = StartFailureLimit
            affected == {t \in Tasks : row[t].assignee = m /\ row[t].status \in {"pending", "running"}}
<1>1. /\ mission = "active" /\ Live(m) /\ handle[m] \in {"down", "awaited"}
      /\ handle' = [handle EXCEPT ![m] = IF @ = "awaited" THEN "ending" ELSE @]
      /\ strikes' = [strikes EXCEPT ![m] = IF outage THEN @ ELSE count]
      /\ phase' = [phase EXCEPT ![m] = IF retired THEN "stopped" ELSE @]
      /\ UNCHANGED <<mission, work, op, barrier>>
  BY DEF StartFails
<1>2. PICK target \in [affected -> Members \cup {None}] :
        row' = [t \in Tasks |-> IF t \in affected THEN StartFailedRow(row[t], target[t]) ELSE row[t]]
  BY DEF StartFails
<1>3. count \in 0 .. StartFailureLimit
  BY <1>1, BoardConstants DEF IInv, TypeOK, StrikesBelowLimit
<1>4. row' = [t \in Tasks |-> row'[t]]
  BY <1>2
<1>5. \A t \in affected : LetGo(row[t], row'[t]) /\ row[t].stop = None
  <2>. SUFFICES ASSUME NEW t \in affected
                PROVE  LetGo(row[t], row'[t]) /\ row[t].stop = None
    OBVIOUS
  <2>1. RowOK(row[t]) /\ row[t].status \in {"pending", "running"} /\ target[t] \in Members \cup {None}
    BY RowsOK
  <2>. QED  BY <1>2, <2>1, StartFailedLetsGo DEF RowOK, Sound
<1>6. \A t \in Tasks \ affected : row'[t] = row[t]
  BY <1>2
<1>7. \A t \in Tasks : HandsToNobody(row[t], row'[t]) /\ KeepsStop(row[t], row'[t])
  BY <1>5, <1>6, RowsOK, EvolvesReflexive DEF LetGo, Evolves, KeepsStop, StopPending
<1>. HIDE DEF count
<1>8. AroundOK'
  <2>1. strikes' \in [Members -> 0 .. StartFailureLimit]
    BY <1>1, <1>3 DEF IInv, TypeOK
  <2>2. phase' \in [Members -> {"active", "parked", "stopped"}]
    BY <1>1 DEF IInv, TypeOK
  <2>. QED  BY <1>1, <2>1, <2>2, RowsOK DEF AroundOK, Handles
<1>9. \A t \in Tasks : HoldsOpen(row'[t]) =>
          mission' = "active" /\ phase'[row'[t].attempt.owner] # "stopped"
  <2>. SUFFICES ASSUME NEW t \in Tasks, HoldsOpen(row'[t])
                PROVE  phase'[row'[t].attempt.owner] # "stopped"
    BY <1>1
  <2>1. t \notin affected /\ row'[t] = row[t] /\ HoldsOpen(row[t])
    BY <1>5, <1>6 DEF LetGo
  <2>2. row[t].attempt.owner # m /\ row[t].attempt.owner \in Members
    BY <2>1, OpenRow
  <2>. QED  BY <1>1, <2>1, <2>2, OpenRow DEF IInv, TypeOK
<1>10. StrikesBelowLimit'
  <2>. SUFFICES ASSUME NEW n \in Members, phase'[n] # "stopped"
                PROVE  strikes'[n] < StartFailureLimit
    BY DEF StrikesBelowLimit, Live
  <2>1. phase[n] # "stopped" /\ strikes[n] < StartFailureLimit
    BY <1>1 DEF IInv, TypeOK, StrikesBelowLimit, Live
  <2>2. CASE n = m /\ ~outage
    <3>1. strikes'[n] = count /\ count # StartFailureLimit
      BY <1>1, <2>2 DEF IInv, TypeOK
    <3>. QED  BY <1>3, <3>1, BoardConstants
  <2>3. CASE ~(n = m /\ ~outage)
    BY <1>1, <2>1, <2>3 DEF IInv, TypeOK
  <2>. QED  BY <2>2, <2>3
<1>11. BarrierOwesStop' /\ QuietWhileSaving'
  BY <1>1, <1>5, <1>6 DEF IInv, BarrierOwesStop, QuietWhileSaving, StopPending
<1>12. WorkInTurn' /\ CallInTurn'
  BY <1>1 DEF IInv, WorkInTurn, CallInTurn
<1>13. HandleQuiescence'
  <2>. SUFFICES ASSUME NEW n \in Members, NEW x \in work[n]
                PROVE  MayExecute(row'[x[1]], n, x[2])
    BY <1>1 DEF HandleQuiescence, MayExecute
  <2>1. n # m /\ x[1] \in Tasks /\ MayExecute(row[x[1]], n, x[2])
    BY <1>1 DEF IInv, TypeOK, WorkInTurn, HandleQuiescence, MayExecute
  <2>2. x[1] \notin affected
    BY <1>5, <2>1, OpenRow DEF MayExecute, OpenBy, OwesStop, StopPending
  <2>. QED  BY <1>6, <2>1, <2>2
<1>14. IInv'
  BY <1>4, <1>7, <1>8, <1>9, <1>10, <1>11, <1>12, <1>13, HandsOffStep
<1>15. Kept
  BY <1>7 DEF Kept, HandsToNobody
<1>. QED  BY <1>1, <1>7, <1>14, <1>15 DEF StepOK, OnlyAssignGives

\* A cold host keeps every stop that was owed, and nothing that was running.
LEMMA RestartOK == ASSUME IInv, Restart PROVE StepOK
<1>. DEFINE recovered == [t \in Tasks |-> IF mission = "stopped" THEN row[t] ELSE RestartedRow(row[t])]
<1>1. /\ row' = recovered /\ barrier' = [t \in Tasks |-> Poked("idle", recovered[t], FALSE)]
      /\ phase' = [m \in Members |-> IF mission = "stopped" THEN "stopped" ELSE phase[m]]
      /\ handle' = [m \in Members |-> "down"] /\ work' = [m \in Members |-> {}]
      /\ op' = None /\ mission' = mission /\ strikes' = strikes
  BY DEF Restart
<1>2. row' = [t \in Tasks |-> row'[t]]
  BY <1>1
<1>3. \A t \in Tasks : HandsToNobody(row[t], row'[t]) /\ KeepsStop(row[t], row'[t]) /\ ~HoldsOpen(row'[t])
  <2>. SUFFICES ASSUME NEW t \in Tasks
                PROVE  HandsToNobody(row[t], row'[t]) /\ KeepsStop(row[t], row'[t]) /\ ~HoldsOpen(row'[t])
    OBVIOUS
  <2>1. CASE mission = "stopped"
    BY <1>1, <2>1, RowsOK, EvolvesReflexive DEF Evolves, IInv, NoWorkWhilePaused
  <2>2. CASE mission # "stopped"
    BY <1>1, <2>2, RowsOK, RestartedOK
  <2>. QED  BY <2>1, <2>2
<1>4. \A t \in Tasks : barrier'[t] = "idle" \/ (barrier'[t] = "stopping" /\ StopPending(row'[t]))
  BY <1>1, PokedMoves
<1>5. barrier' \in [Tasks -> InFlight \cup {"idle", "backoff"}]
  BY <1>1, PokedMoves
<1>6. phase' \in [Members -> {"active", "parked", "stopped"}]
  BY <1>1 DEF IInv, TypeOK
<1>7. AroundOK'
  BY <1>1, <1>5, <1>6, RowsOK DEF AroundOK, Handles
<1>8. StrikesBelowLimit' /\ WorkInTurn' /\ CallInTurn' /\ HandleQuiescence'
  BY <1>1 DEF IInv, StrikesBelowLimit, Live, WorkInTurn, CallInTurn, HandleQuiescence
<1>9. BarrierOwesStop' /\ QuietWhileSaving'
  BY <1>4 DEF BarrierOwesStop, QuietWhileSaving
<1>10. IInv'
  BY <1>2, <1>3, <1>7, <1>8, <1>9, HandsOffStep
<1>11. Kept
  BY <1>3 DEF Kept, HandsToNobody
<1>. QED  BY <1>1, <1>3, <1>10, <1>11 DEF StepOK, OnlyAssignGives
-----------------------------------------------------------------------------
(***************************************************************************)
(* The stop barrier.                                                       *)
(***************************************************************************)

\* A barrier that runs or waits has a member to stop.
LEMMA BarrierRow ==
    ASSUME IInv, NEW t \in Tasks, barrier[t] # "idle"
    PROVE  RowOK(row[t]) /\ StopPending(row[t]) /\ row[t].stop.member \in Members
BY RowsOK DEF IInv, BarrierOwesStop, RowOK, Row, Stop, StopPending

LEMMA SweepStopOK == ASSUME IInv, NEW t \in Tasks, SweepStop(t) PROVE StepOK
<1>. USE DEF SweepStop
<1>1. \A u \in Tasks : BarrierMoves(u)
  BY DEF IInv, TypeOK, BarrierMoves
<1>2. barrier' \in [Tasks -> InFlight \cup {"idle", "backoff"}] /\ op' \in Op \cup {None} /\ CallInTurn'
  BY DEF IInv, TypeOK, InFlight, CallInTurn
<1>. QED  BY <1>1, <1>2, QueueStep

LEMMA CheckpointDoneOK == ASSUME IInv, NEW t \in Tasks, CheckpointDone(t) PROVE StepOK
<1>. USE DEF CheckpointDone
<1>1. \A u \in Tasks : BarrierMoves(u)
  BY DEF IInv, TypeOK, BarrierMoves
<1>2. barrier' \in [Tasks -> InFlight \cup {"idle", "backoff"}] /\ op' \in Op \cup {None} /\ CallInTurn'
  BY DEF IInv, TypeOK, InFlight, CallInTurn
<1>. QED  BY <1>1, <1>2, QueueStep

\* The member's handle comes down while its rows evolve.
LEMMA HandleDownStep ==
    ASSUME IInv, NEW m \in Members, HandleDown(m), row' = [t \in Tasks |-> row'[t]],
           \A t \in Tasks : Evolves(row[t], row'[t]) /\ BarrierMoves(t),
           barrier' \in [Tasks -> InFlight \cup {"idle", "backoff"}],
           UNCHANGED <<mission, phase, strikes>>
    PROVE  StepOK
<1>1. AroundOK'
  BY RowsOK, HandleDownOK DEF AroundOK
<1>2. \A t \in Tasks : HoldsOpen(row'[t]) =>
          mission' = "active" /\ phase'[row'[t].attempt.owner] # "stopped"
  BY OpenRow DEF Evolves, HandsToNobody
<1>3. StrikesBelowLimit'
  BY DEF IInv, StrikesBelowLimit, Live
<1>. QED  BY <1>1, <1>2, <1>3, HandleDownOK, EvolvingStep

LEMMA StopConfirmedOK == ASSUME IInv, NEW t \in Tasks, StopConfirmed(t) PROVE StepOK
<1>. DEFINE m == row[t].stop.member
<1>. USE DEF StopConfirmed
<1>1. m \in Members /\ HandleDown(m)
  BY BarrierRow
<1>2. handle'[m] # "busy"
  BY <1>1, HandleDownOK
<1>3. \A u \in Tasks : Evolves(row[u], row'[u]) /\ BarrierMoves(u)
  BY <1>2, RowsOK, EvolvesReflexive DEF IInv, TypeOK, BarrierMoves
<1>4. row' = [u \in Tasks |-> row'[u]] /\ barrier' \in [Tasks -> InFlight \cup {"idle", "backoff"}]
  BY DEF IInv, TypeOK, InFlight
<1>. HIDE DEF m
<1>. QED  BY <1>1, <1>3, <1>4, HandleDownStep

\* A failure is recorded on the stop it belongs to.
LEMMA BackoffOK ==
    ASSUME IInv, NEW t \in Tasks, barrier[t] # "idle", NEW failure \in Failures, Backoff(t, failure)
    PROVE  /\ row' = [u \in Tasks |-> row'[u]]
           /\ barrier' \in [Tasks -> InFlight \cup {"idle", "backoff"}]
           /\ \A u \in Tasks : Evolves(row[u], row'[u]) /\ BarrierMoves(u)
<1>. DEFINE r == StopFailed(row[t], failure)
<1>1. Evolves(row[t], r) /\ StopPending(row[t])
  BY BarrierRow, StopFailedEvolves
<1>2. row' = [row EXCEPT ![t] = r] /\ barrier' = [barrier EXCEPT ![t] = "backoff"]
  BY DEF Backoff
<1>. HIDE DEF r
<1>3. row' = [u \in Tasks |-> row'[u]] /\ \A u \in Tasks : row'[u] = IF u = t THEN r ELSE row[u]
  BY <1>2 DEF IInv, TypeOK
<1>4. \A u \in Tasks : Evolves(row[u], row'[u])
  BY <1>1, <1>3, RowsOK, EvolvesReflexive
<1>5. StopPending(r)
  BY <1>1 DEF Evolves, KeepsStop
<1>. QED  BY <1>2, <1>3, <1>4, <1>5 DEF IInv, TypeOK, BarrierMoves

LEMMA StopFailsOK == ASSUME IInv, NEW t \in Tasks, StopFails(t) PROVE StepOK
<1>. DEFINE m == row[t].stop.member
<1>1. m \in Members /\ HandleDown(m)
  BY BarrierRow DEF StopFails
<1>. HIDE DEF m
<1>. QED  BY <1>1, BackoffOK, HandleDownStep DEF StopFails, Failures

LEMMA CheckpointFailsOK ==
    ASSUME IInv, NEW t \in Tasks, NEW failure \in {"transient", "deterministic"},
           CheckpointFails(t, failure) \/ (ReleaseRefused(t) /\ failure = "transient")
    PROVE  StepOK
<1>1. /\ barrier[t] # "idle" /\ Backoff(t, failure) /\ failure \in Failures
      /\ UNCHANGED <<mission, phase, handle, work, strikes, op>>
  BY DEF CheckpointFails, ReleaseRefused, Failures
<1>2. op' \in Op \cup {None} /\ CallInTurn'
  BY <1>1 DEF IInv, TypeOK, CallInTurn
<1>. QED  BY <1>1, <1>2, BackoffOK, RowsStep
-----------------------------------------------------------------------------
(***************************************************************************)
(* The owner, and the steps together.                                      *)
(***************************************************************************)

LEMMA ForgivenEvolves ==
    ASSUME NEW b, NEW r, RowOK(r)
    PROVE  Evolves(r, Forgiven(b, r)) /\ (StopPending(r) => StopPending(Forgiven(b, r)))
<1>1. StopPending(r) => Evolves(r, StopFailed(r, "none"))
  BY StopFailedEvolves DEF Failures
<1>. QED  BY <1>1, EvolvesReflexive DEF Forgiven, Evolves, KeepsStop

\* A forced retry of one row's stop, after another write or none.
LEMMA ForcedOK ==
    ASSUME IInv, NEW t \in Tasks, NEW r, Evolves(row[t], r),
           row' = [row EXCEPT ![t] = Forgiven(barrier[t], r)],
           barrier' = [barrier EXCEPT ![t] = Poked(barrier[t], r, TRUE)],
           UNCHANGED <<mission, phase, handle, work, strikes, op>>
    PROVE  StepOK
<1>. DEFINE s == Forgiven(barrier[t], r)
            b == Poked(barrier[t], r, TRUE)
<1>1. RowOK(r)
  BY DEF Evolves, HandsToNobody
<1>2. Evolves(row[t], s) /\ (StopPending(r) => StopPending(s))
  BY <1>1, ForgivenEvolves, EvolvesTransitive
<1>3. barrier[t] \in InFlight \cup {"idle", "backoff"} /\ row'[t] = s /\ barrier'[t] = b
  BY DEF IInv, TypeOK
<1>4. b \in InFlight \cup {"idle", "backoff"} /\ (b = barrier[t] \/ (b = "stopping" /\ StopPending(r)))
  BY <1>3, PokedMoves
<1>5. BarrierMoves(t)
  BY <1>2, <1>3, <1>4 DEF BarrierMoves
<1>6. row' = [row EXCEPT ![t] = s] /\ barrier' = [barrier EXCEPT ![t] = b]
  OBVIOUS
<1>. HIDE DEF s, b
<1>. QED  BY <1>2, <1>4, <1>5, <1>6, CommitStep

LEMMA CancelOK == ASSUME IInv, NEW t \in Tasks, Cancel(t) PROVE StepOK
<1>1. Evolves(row[t], FenceForStop(row[t], "cancelled", "handoff"))
  BY RowsOK, FenceEvolves DEF Reasons
<1>. QED  BY <1>1, CommitOK DEF Cancel

LEMMA SetAllowanceOK ==
    ASSUME IInv, NEW t \in Tasks, NEW credit \in Allowances, SetAllowance(t, credit) PROVE StepOK
<1>1. Evolves(row[t], AllowanceSet(row[t], credit))
  BY BoardConstants, RowsOK, AllowanceSetEvolves
<1>. QED  BY <1>1, CommitOK DEF SetAllowance

LEMMA ResumeTaskOK ==
    ASSUME IInv, NEW t \in Tasks, NEW credit \in Allowances, ResumeTask(t, credit) PROVE StepOK
<1>1. Evolves(row[t], ResumeCleared(row[t], credit))
  BY BoardConstants, RowsOK, ResumeClearedEvolves
<1>. QED  BY <1>1, ForcedOK DEF ResumeTask

LEMMA RetryCleanupOK == ASSUME IInv, NEW t \in Tasks, RetryCleanup(t) PROVE StepOK
BY RowsOK, EvolvesReflexive, ForcedOK DEF RetryCleanup

LEMMA AmendOK ==
    ASSUME IInv, NEW t \in Tasks, NEW a \in Members \cup {None}, NEW p \in Members \cup {None},
           Amend(t, a, p)
    PROVE  StepOK
<1>1. Evolves(row[t], Amended(row[t], a, p))
  BY RowsOK, AmendedEvolves DEF Amend, Amendable
<1>. QED  BY <1>1, CommitOK DEF Amend

\* A control that writes every row, and leaves none open unless the mission is active.
LEMMA CommitAllOK ==
    ASSUME IInv, NEW rows, NEW force \in BOOLEAN, CommitAll(rows, force),
           \A t \in Tasks : Evolves(row[t], rows[t]) /\ (HoldsOpen(rows[t]) => mission' = "active"),
           mission' \in {"active", "paused", "stopped"},
           handle' = handle \/ StartsAborted,
           UNCHANGED <<phase, work, strikes, op>>
    PROVE  StepOK
<1>1. row' = [t \in Tasks |-> row'[t]]
  BY DEF CommitAll
<1>2. \A t \in Tasks : Evolves(rows[t], row'[t])
  <2>. SUFFICES ASSUME NEW t \in Tasks PROVE Evolves(rows[t], row'[t])
    OBVIOUS
  <2>1. RowOK(rows[t])
    BY DEF Evolves, HandsToNobody
  <2>2. row'[t] = IF force THEN Forgiven(barrier[t], rows[t]) ELSE rows[t]
    BY DEF CommitAll
  <2>. QED  BY <2>1, <2>2, ForgivenEvolves, EvolvesReflexive
<1>3. \A t \in Tasks : Evolves(row[t], row'[t])
  BY <1>2, EvolvesTransitive
<1>4. \A t \in Tasks : barrier'[t] = Poked(barrier[t], rows[t], force)
  BY DEF CommitAll
<1>5. \A t \in Tasks : barrier'[t] \in InFlight \cup {"idle", "backoff"} /\ BarrierMoves(t)
  <2>. SUFFICES ASSUME NEW t \in Tasks
                PROVE  barrier'[t] \in InFlight \cup {"idle", "backoff"} /\ BarrierMoves(t)
    OBVIOUS
  <2>1. barrier[t] \in InFlight \cup {"idle", "backoff"}
    BY DEF IInv, TypeOK
  <2>2. StopPending(rows[t]) => StopPending(row'[t])
    BY <1>2 DEF Evolves, KeepsStop
  <2>. QED  BY <1>4, <2>1, <2>2, PokedMoves DEF BarrierMoves
<1>6. barrier' \in [Tasks -> InFlight \cup {"idle", "backoff"}]
  BY <1>5 DEF CommitAll
<1>7. handle' \in [Members -> Handles] /\ \A m \in Members : handle'[m] = "busy" <=> handle[m] = "busy"
  BY RowsOK DEF AroundOK, StartsAborted, Handles
<1>8. AroundOK'
  BY <1>6, <1>7, RowsOK DEF AroundOK
<1>9. \A t \in Tasks : HoldsOpen(row'[t]) =>
          mission' = "active" /\ phase'[row'[t].attempt.owner] # "stopped"
  BY <1>2, <1>3, OpenRow DEF Evolves, HandsToNobody
<1>10. StrikesBelowLimit' /\ WorkInTurn' /\ CallInTurn'
  BY <1>7 DEF IInv, StrikesBelowLimit, Live, WorkInTurn, CallInTurn, TypeOK, Op
<1>. QED  BY <1>1, <1>3, <1>5, <1>7, <1>8, <1>9, <1>10, EvolvingStep

LEMMA PauseOK == ASSUME IInv, Pause PROVE StepOK
<1>. DEFINE rows == [t \in Tasks |-> ControlFenced(row[t], "blocked")]
<1>1. \A t \in Tasks : Evolves(row[t], rows[t]) /\ ~HoldsOpen(rows[t])
  BY RowsOK, ControlFencedEvolves
<1>2. CommitAll(rows, FALSE)
  BY DEF Pause
<1>. HIDE DEF rows
<1>. QED  BY <1>1, <1>2, CommitAllOK DEF Pause

LEMMA StopMissionOK == ASSUME IInv, StopMission PROVE StepOK
<1>. DEFINE rows == [t \in Tasks |-> ControlFenced(row[t], "cancelled")]
<1>1. \A t \in Tasks : Evolves(row[t], rows[t]) /\ ~HoldsOpen(rows[t])
  BY RowsOK, ControlFencedEvolves
<1>2. CommitAll(rows, FALSE)
  BY DEF StopMission
<1>. HIDE DEF rows
<1>. QED  BY <1>1, <1>2, CommitAllOK DEF StopMission

LEMMA ResumeMissionOK == ASSUME IInv, ResumeMission PROVE StepOK
BY RowsOK, EvolvesReflexive, CommitAllOK DEF ResumeMission

\* Nothing happens.
LEMMA StutterOK == ASSUME IInv, UNCHANGED vars PROVE StepOK
<1>1. /\ barrier' \in [Tasks -> InFlight \cup {"idle", "backoff"}] /\ \A t \in Tasks : BarrierMoves(t)
      /\ op' \in Op \cup {None} /\ CallInTurn'
  BY DEF IInv, TypeOK, BarrierMoves, CallInTurn, vars
<1>. QED  BY <1>1, QueueStep DEF vars

LEMMA WorkerStepOK == ASSUME IInv, NEW m \in Members, WorkerStep(m) PROVE StepOK
BY OpensOK, WaitingStartOK, StartFailsOK, HandleEndsOK, StepIsOK, EndTurnOK, RouteRefusedOK, WaitOK, IdleStopOK,
   CeilingOK, RenewOK, BeginsOK, NudgeOK, HandoffOK DEF WorkerStep

LEMMA FinishOpOK == ASSUME IInv, FinishOp PROVE StepOK
<1>1. CallRefused \/ Moot => StepOK
  BY EndOK DEF CallRefused, Moot
<1>. QED
  BY <1>1, SubmitFinishOK, AssignIsOK, PrepareFailsOK, CloseOutFinishOK, ExpireFinishOK DEF FinishOp

LEMMA BarrierStepOK == ASSUME IInv, NEW t \in Tasks, BarrierStep(t) PROVE StepOK
BY SweepStopOK, StopConfirmedOK, StopFailsOK, CheckpointDoneOK, CheckpointFailsOK, ReleaseOK
   DEF BarrierStep

LEMMA RowStepOK == ASSUME IInv, NEW t \in Tasks, RowStep(t) PROVE StepOK
<1>1. row[t].assignee \in Members \cup {None} /\ row[t].planned \in Members \cup {None}
  BY RowsOK DEF RowOK, Row
<1>. QED
  BY <1>1, BoardConstants, LeaseRunsOutOK, ExpireNowOK, ExpireBeginOK, CancelOK, ResumeTaskOK,
     SetAllowanceOK, RetryCleanupOK, AmendOK DEF RowStep

\* Every step of the runtime keeps the invariant, and what Kept says of each row.
LEMMA NextStepOK == ASSUME IInv, [Next]_vars PROVE StepOK
BY StutterOK, WorkerStepOK, FinishOpOK, BarrierStepOK, RowStepOK, PauseOK, ResumeMissionOK,
   StopMissionOK, RestartOK DEF Next, Control

LEMMA Inductive == Spec => []IInv
<1>1. Init => IInv
  BY InitIInv
<1>2. IInv /\ [Next]_vars => IInv'
  BY NextStepOK DEF StepOK
<1>. QED  BY <1>1, <1>2, PTL DEF Spec
-----------------------------------------------------------------------------
(***************************************************************************)
(* Work the host gave up on: every step, row by row.                       *)
(***************************************************************************)

RowsStay == \A t \in Tasks : Stays(row[t], row'[t])

LEMMA SameRowsStay == ASSUME UNCHANGED row PROVE RowsStay
BY SameCausesStay DEF RowsStay

LEMMA OneRowStays ==
    ASSUME IInv, NEW t \in Tasks, NEW r, Stays(row[t], r), row' = [row EXCEPT ![t] = r]
    PROVE  RowsStay
<1>1. \A u \in Tasks : row'[u] = IF u = t THEN r ELSE row[u]
  BY DEF IInv, TypeOK
<1>. QED  BY <1>1, SameCausesStay DEF RowsStay

\* A mark on an attempt or on a stop marker.
LEMMA MarkedStay ==
    ASSUME NEW r \in Row, NEW a, NEW s
    PROVE  Stays(r, [r EXCEPT !.attempt = a]) /\ Stays(r, [r EXCEPT !.stop = s])
<1>1. /\ [r EXCEPT !.attempt = a].status = r.status
      /\ [r EXCEPT !.attempt = a].ceiling = r.ceiling
      /\ [r EXCEPT !.attempt = a].prep = r.prep
      /\ [r EXCEPT !.stop = s].status = r.status
      /\ [r EXCEPT !.stop = s].ceiling = r.ceiling
      /\ [r EXCEPT !.stop = s].prep = r.prep
  BY DEF Row
<1>. QED  BY <1>1, SameCausesStay

LEMMA StopFailedStays == ASSUME NEW r \in Row, NEW failure PROVE Stays(r, StopFailed(r, failure))
BY MarkedStay DEF StopFailed

\* Running work that is let go of on the board, or taken up from it.
LEMMA BoardMovesStay ==
    ASSUME NEW r \in Row, r.status \in {"pending", "running"}, NEW m
    PROVE  Stays(r, StartFailedRow(r, m)) /\ Stays(r, RestartedRow(r)) /\ Stays(r, Assigned(r, m))
<1>1. /\ StartFailedRow(r, m).ceiling = r.ceiling /\ StartFailedRow(r, m).prep = r.prep
      /\ RestartedRow(r).ceiling = r.ceiling /\ RestartedRow(r).prep = r.prep
      /\ Assigned(r, m).ceiling = r.ceiling /\ Assigned(r, m).prep = r.prep
  BY DEF StartFailedRow, RestartedRow, Assigned, EndAttempt, DropAttempt, Row
<1>. QED  BY <1>1, SameCausesStay

LEMMA WorkerStepStays == ASSUME IInv, NEW m \in Members, WorkerStep(m) PROVE RowsStay
<1>. USE RowsOK DEF RowOK
<1>1. ASSUME NEW outage, StartFails(m, outage) PROVE RowsStay
  <2>. SUFFICES ASSUME NEW t \in Tasks PROVE Stays(row[t], row'[t])
    BY DEF RowsStay
  <2>1. CASE row[t].assignee = m /\ row[t].status \in {"pending", "running"}
    <3>1. PICK n : row'[t] = StartFailedRow(row[t], n)
      BY <1>1, <2>1 DEF StartFails
    <3>. QED  BY <2>1, <3>1, BoardMovesStay
  <2>2. CASE ~(row[t].assignee = m /\ row[t].status \in {"pending", "running"})
    <3>1. row'[t] = row[t]
      BY <1>1, <2>2 DEF StartFails
    <3>. QED  BY <3>1, SameCausesStay
  <2>. QED  BY <2>1, <2>2
<1>2. ASSUME Step(m) PROVE RowsStay
  BY <1>2, MarkedStay, SameCausesStay DEF Step, RowsStay
<1>3. ASSUME EndTurn(m) PROVE RowsStay
  BY <1>3, MarkedStay, SameCausesStay DEF EndTurn, RowsStay
<1>4. ASSUME RouteRefused(m) PROVE RowsStay
  BY <1>4, RouteRefusedStays DEF RouteRefused, RowsStay
<1>5. ASSUME NEW t \in Tasks, Ceiling(m, t) PROVE RowsStay
  BY <1>5, OneRowStays, CeilingBlockedStays DEF Ceiling, Commit
<1>6. ASSUME NEW t \in Tasks, Renew(m, t) PROVE RowsStay
  <2>1. Stays(row[t], [row[t] EXCEPT !.attempt.lapsed = FALSE])
    BY MarkedStay
  <2>. QED  BY <1>6, <2>1, OneRowStays DEF Renew
<1>7. ASSUME NEW t \in Tasks, Nudge(m, t) PROVE RowsStay
  <2>1. Stays(row[t], Nudged(row[t]))
    BY MarkedStay DEF Nudged
  <2>. QED  BY <1>7, <2>1, OneRowStays DEF Nudge
<1>8. ASSUME NEW t \in Tasks, NEW to \in Targets, Handoff(m, t, to) PROVE RowsStay
  BY <1>8, OneRowStays, HandedOffStays, BoardConstants DEF Handoff, Commit
<1>9. \/ StartWorker(m) \/ StartWaits(m) \/ LateStart(m) \/ HandleEnds(m) \/ HandleEnded(m) \/ Wait(m) \/ IdleStop(m)
      \/ \E t \in Tasks :
           ClaimBegin(m, t) \/ SubmitBegin(m, t) \/ DispatchBegin(m, t) \/ CloseOutBegin(m, t)
      => UNCHANGED row
  BY DEF StartWorker, StartWaits, LateStart, HandleEnds, HandleEnded, Wait, IdleStop, ClaimBegin,
         SubmitBegin, DispatchBegin, CloseOutBegin
<1>. QED
  BY <1>1, <1>2, <1>3, <1>4, <1>5, <1>6, <1>7, <1>8, <1>9, SameRowsStay DEF WorkerStep

LEMMA FinishOpStays == ASSUME IInv, FinishOp PROVE RowsStay
<1>. USE RowsOK DEF RowOK
<1>1. op # None => op.task \in Tasks /\ op.member \in Members
  BY DEF IInv, TypeOK, Op
<1>2. ASSUME SubmitFinish PROVE RowsStay
  <2>1. op.task \in Tasks
    BY <1>1, <1>2 DEF SubmitFinish
  <2>2. Stays(row[op.task], [row[op.task] EXCEPT !.status = "submitted"])
    BY <2>1, OffBoardStays DEF Row
  <2>. QED  BY <1>2, <2>1, <2>2, OneRowStays DEF SubmitFinish
<1>3. ASSUME Assign PROVE RowsStay
  <2>1. op.task \in Tasks /\ row[op.task].status = "pending"
    BY <1>1, <1>3 DEF Assign, Assignable, StillDispatchable, Ready
  <2>. QED  BY <1>3, <2>1, BoardMovesStay, OneRowStays DEF Assign
<1>4. ASSUME NEW transient, PrepareFails(transient) PROVE RowsStay
  <2>1. op.task \in Tasks /\ row[op.task].status = "pending"
    BY <1>1, <1>4 DEF PrepareFails, StillDispatchable, Ready
  <2>. QED  BY <1>4, <2>1, PreparationFailureStays, OneRowStays DEF PrepareFails
<1>5. ASSUME NEW captured, CloseOutFinish(captured) PROVE RowsStay
  BY <1>1, <1>5, ClosedOutStays, OneRowStays DEF CloseOutFinish, Commit
<1>6. ASSUME ExpireFinish PROVE RowsStay
  BY <1>1, <1>6, ExpiredStays, OneRowStays DEF ExpireFinish, Commit
<1>7. CallRefused \/ Moot => UNCHANGED row
  BY DEF CallRefused, Moot
<1>. QED  BY <1>2, <1>3, <1>4, <1>5, <1>6, <1>7, SameRowsStay DEF FinishOp

LEMMA BarrierStepStays == ASSUME IInv, NEW t \in Tasks, BarrierStep(t) PROVE RowsStay
<1>. USE RowsOK DEF RowOK
<1>1. ASSUME NEW failure, Backoff(t, failure) PROVE RowsStay
  BY <1>1, StopFailedStays, OneRowStays DEF Backoff
<1>2. ASSUME Release(t) PROVE RowsStay
  <2>1. row[t].stop # None
    BY <1>2 DEF Release, IInv, BarrierOwesStop, StopPending
  <2>. QED  BY <1>2, <2>1, ReleasedStays, OneRowStays DEF Release
<1>3. SweepStop(t) \/ StopConfirmed(t) \/ CheckpointDone(t) => UNCHANGED row
  BY DEF SweepStop, StopConfirmed, CheckpointDone
<1>. QED
  BY <1>1, <1>2, <1>3, SameRowsStay DEF BarrierStep, StopFails, CheckpointFails, ReleaseRefused

LEMMA ForgivenStays ==
    ASSUME NEW q, NEW r \in Row, Stays(q, r), NEW b
    PROVE  Stays(q, Forgiven(b, r))
<1>. DEFINE f == StopFailed(r, "none")
<1>1. f.status = r.status /\ f.ceiling = r.ceiling /\ f.prep = r.prep /\ f.credit = r.credit
  BY DEF StopFailed, Row
<1>. HIDE DEF f
<1>2. Stays(q, f)
  BY <1>1 DEF Stays, Unblocked
<1>. QED  BY <1>2 DEF Forgiven, f

LEMMA RowStepStays == ASSUME IInv, NEW t \in Tasks, RowStep(t) PROVE RowsStay
<1>. USE RowsOK DEF RowOK
<1>1. ASSUME LeaseRunsOut(t) PROVE RowsStay
  <2>1. Stays(row[t], [row[t] EXCEPT !.attempt.lapsed = TRUE])
    BY MarkedStay
  <2>. QED  BY <1>1, <2>1, OneRowStays DEF LeaseRunsOut
<1>2. ASSUME ExpireNow(t) PROVE RowsStay
  BY <1>2, ExpiredStays, OneRowStays DEF ExpireNow, Commit
<1>3. ASSUME Cancel(t) PROVE RowsStay
  BY <1>3, FencedStays, OneRowStays DEF Cancel, Commit
<1>4. ASSUME NEW credit \in Allowances, ResumeTask(t, credit) PROVE RowsStay
  <2>1. credit \in 0 .. MaxRecovery /\ credit > 0
    BY <1>4, BoardConstants DEF ResumeTask
  <2>2. ResumeCleared(row[t], credit) \in Row /\ Stays(row[t], ResumeCleared(row[t], credit))
    BY <2>1, ResumeClearedEvolves, ResumeClearedStays DEF Evolves, HandsToNobody
  <2>3. Stays(row[t], Forgiven(barrier[t], ResumeCleared(row[t], credit)))
    BY <2>2, ForgivenStays
  <2>. QED  BY <1>4, <2>3, OneRowStays DEF ResumeTask
<1>5. ASSUME NEW credit \in Allowances, SetAllowance(t, credit) PROVE RowsStay
  BY <1>5, BoardConstants, AllowanceSetStays, OneRowStays DEF SetAllowance, Commit
<1>6. ASSUME RetryCleanup(t) PROVE RowsStay
  <2>1. Stays(row[t], row[t])
    BY SameCausesStay
  <2>2. Stays(row[t], Forgiven(barrier[t], row[t]))
    BY <2>1, ForgivenStays
  <2>3. row' = [row EXCEPT ![t] = Forgiven(barrier[t], row[t])]
    BY <1>6 DEF RetryCleanup
  <2>. QED  BY <2>2, <2>3, OneRowStays
<1>7. ASSUME NEW a \in Members \cup {None}, NEW p \in Members \cup {None}, Amend(t, a, p)
      PROVE  RowsStay
  BY <1>7, AmendedStays, OneRowStays DEF Amend, Commit
<1>8. row[t].assignee \in Members \cup {None} /\ row[t].planned \in Members \cup {None}
  BY DEF Row
<1>9. ExpireBegin(t) => UNCHANGED row
  BY DEF ExpireBegin
<1>. QED
  BY <1>1, <1>2, <1>3, <1>4, <1>5, <1>6, <1>7, <1>8, <1>9, SameRowsStay, BoardConstants DEF RowStep

LEMMA ControlStays == ASSUME IInv, Control PROVE RowsStay
<1>. USE RowsOK DEF RowOK
<1>1. ASSUME Pause \/ StopMission PROVE RowsStay
  BY <1>1, ControlFencedStays DEF Pause, StopMission, CommitAll, RowsStay
<1>2. ASSUME ResumeMission PROVE RowsStay
  BY <1>2, ForgivenStays, SameCausesStay DEF ResumeMission, CommitAll, RowsStay
<1>3. ASSUME Restart PROVE RowsStay
  <2>. SUFFICES ASSUME NEW t \in Tasks PROVE Stays(row[t], row'[t])
    BY DEF RowsStay
  <2>1. row'[t] \in {row[t], RestartedRow(row[t])}
    BY <1>3 DEF Restart
  <2>2. Stays(row[t], RestartedRow(row[t]))
    BY BoardMovesStay, SameCausesStay DEF RestartedRow
  <2>. QED  BY <2>1, <2>2, SameCausesStay
<1>. QED  BY <1>1, <1>2, <1>3 DEF Control

\* No step puts back on the board what the host gave up on.
LEMMA NextStays == ASSUME IInv, [Next]_vars PROVE RowsStay
<1>1. UNCHANGED vars => RowsStay
  BY SameRowsStay DEF vars
<1>. QED
  BY <1>1, WorkerStepStays, FinishOpStays, BarrierStepStays, RowStepStays, ControlStays DEF Next
-----------------------------------------------------------------------------
(***************************************************************************)
(* The theorems.                                                           *)
(***************************************************************************)

\* The variables keep their types.
THEOREM TypeCorrect == Spec => []TypeOK
<1>1. IInv => TypeOK
  BY DEF IInv
<1>. QED  BY <1>1, Inductive, PTL

\* A row carries an open attempt or a stop marker at its own epoch, never both
\* (Attempts.fenceForStop, dropAttempt).
THEOREM StopsNotOrphaned == Spec => []StopNeverOrphaned
<1>1. IInv => StopNeverOrphaned
  BY DEF IInv
<1>. QED  BY <1>1, Inductive, PTL

\* The rows a member holds open or owes a stop for are at most one
\* (refusals.ts assertAdmission).
THEOREM MembersExclusive == Spec => []MemberExclusive
<1>1. IInv => MemberExclusive
  BY DEF IInv
<1>. QED  BY <1>1, Inductive, PTL

\* A live turn executes only what its member holds, or still owes a stop for
\* (beforeStep, startWorker's stopOwed).
THEOREM HandlesQuiescent == Spec => []HandleQuiescence
<1>1. IInv => HandleQuiescence
  BY DEF IInv
<1>. QED  BY <1>1, Inductive, PTL

\* Two handles never work on one task: its attempt and its stop have one member.
THEOREM HandlesExclusive == Spec => []OneHandlePerTask
<1>1. ASSUME IInv PROVE OneHandlePerTask
  <2>. SUFFICES ASSUME NEW m \in Members, NEW n \in Members, NEW x \in work[m], NEW y \in work[n],
                       x[1] = y[1]
                PROVE  m = n
    BY DEF OneHandlePerTask
  <2>1. x[1] \in Tasks
    BY <1>1 DEF IInv, TypeOK
  <2>2. /\ OpenBy(row[x[1]], m) \/ OwesStop(row[x[1]], m)
        /\ OpenBy(row[x[1]], n) \/ OwesStop(row[x[1]], n)
    BY <1>1 DEF IInv, HandleQuiescence
  <2>. QED
    BY <1>1, <2>1, <2>2 DEF IInv, StopNeverOrphaned, OpenBy, HoldsOpen, OwesStop, StopPending
<1>. QED  BY <1>1, Inductive, PTL

\* Nothing is assigned while the mission is paused or stopped
\* (Scheduling.activeBoard, SwarmRuntime.control).
THEOREM PausesHold == Spec => []NoWorkWhilePaused
<1>1. IInv => NoWorkWhilePaused
  BY DEF IInv
<1>. QED  BY <1>1, Inductive, PTL

\* An open attempt's owner is its row's assignee and is not retired
\* (onStartFailure, onRouteRefused).
THEOREM OwnersLive == Spec => []OwnerIsLiveAssignee
<1>1. IInv => OwnerIsLiveAssignee
  BY DEF IInv
<1>. QED  BY <1>1, Inductive, PTL

\* A stop owed is released only by its barrier, from a member that is in no turn, for
\* all that a start asked before the fence may have opened it a fresh handle under the
\* barrier (Attempts.resumeStoppedAttempt, beforeStep, HarnessWorkers.start).
THEOREM ReleasesQuiescent == Spec => QuiescentRelease
<1>1. ASSUME IInv, [Next]_vars
      PROVE  [\A t \in Tasks : StopPending(row[t]) =>
                \/ /\ StopPending(row'[t])
                   /\ row'[t].stop.member = row[t].stop.member
                   /\ row'[t].epoch = row[t].epoch
                \/ /\ barrier[t] = "releasing"
                   /\ handle[row[t].stop.member] # "busy"]_vars
  BY <1>1, NextStepOK DEF StepOK, Kept, KeepsStop
<1>. QED  BY <1>1, Inductive, PTL DEF Spec, QuiescentRelease

\* Cancellation wins over every late result (SwarmRuntime.cancel).
THEOREM CancellationsFinal == Spec => CancelledIsFinal
<1>1. ASSUME IInv, [Next]_vars
      PROVE  [\A t \in Tasks : row[t].status = "cancelled" =>
                row'[t].status = "cancelled" /\ row'[t].attempt = None]_vars
  <2>1. StepOK
    BY <1>1, NextStepOK
  <2>2. \A t \in Tasks : row[t].status = "cancelled" =>
            row'[t].status = "cancelled" /\ row'[t].attempt = None
    BY <2>1 DEF StepOK, Kept, IInv, StopNeverOrphaned
  <2>. QED  BY <2>2
<1>. QED  BY <1>1, Inductive, PTL DEF Spec, CancelledIsFinal

\* A row never forgets who held it (dropAttempt, authorIdsOf).
THEOREM OwnersRemembered == Spec => OwnershipNeverForgotten
<1>1. ASSUME IInv, [Next]_vars
      PROVE  [\A t \in Tasks : Authors(row[t]) \subseteq Authors(row'[t])]_vars
  BY <1>1, NextStepOK DEF StepOK, Kept
<1>. QED  BY <1>1, Inductive, PTL DEF Spec, OwnershipNeverForgotten

\* No pending or running row has reached its ceiling, or failed its preparation for good.
THEOREM NothingBlockedRuns == Spec => []NothingRunsBlocked
<1>. DEFINE U == \A t \in Tasks : Unblocked(row[t])
<1>1. Init => U
  BY RowConstants DEF Init, NewRow, Unblocked
<1>2. IInv /\ U /\ [Next]_vars => U'
  BY NextStays DEF RowsStay, Stays
<1>3. ASSUME IInv, U PROVE NothingRunsBlocked
  <2>1. \A t \in Tasks : row[t].ceiling \in BOOLEAN
    BY <1>3, RowsOK DEF RowOK, Row
  <2>. QED  BY <1>3, <2>1, Zenon DEF NothingRunsBlocked, Unblocked, BlockCauses
<1>. HIDE DEF U
<1>. QED  BY <1>1, <1>2, <1>3, Inductive, PTL DEF Spec

\* A row blocked with its credit spent is not pending again until the owner gives it some.
THEOREM ExhaustedStay == Spec => ExhaustedStaysBlocked
<1>1. ASSUME IInv, [Next]_vars
      PROVE  [\A t \in Tasks :
                (/\ row[t].status = "blocked"
                 /\ row[t].credit = 0
                 /\ row[t].stop # None => row[t].stop.reason \in {"lease-expired", "worker-closeout"}
                 /\ row'[t].status = "pending")
                    => row'[t].credit > 0]_vars
  BY <1>1, NextStays DEF RowsStay, Stays, Exhausted
<1>. QED  BY <1>1, Inductive, PTL DEF Spec, ExhaustedStaysBlocked
-----------------------------------------------------------------------------
(* 3. The refinement. *)

\* The mapping has the abstract types.
LEMMA OwnershipTyped ==
    ASSUME NEW r, RowOK(r)
    PROVE  OwnershipOf(r) \in Ownership!Ownerships
BY DEF OwnershipOf, RowOK, Row, Attempt, Stop, HoldsOpen, StopPending, Ownership!Ownerships,
       Ownership!Free, Ownership!Done, Ownership!Held, Ownership!Draining

\* To have a row is to have the task.
LEMMA HasIsHas ==
    ASSUME NEW r, RowOK(r), NEW m \in Members
    PROVE  /\ Has(r, m) <=> OwnershipOf(r) \in {Ownership!Held(m), Ownership!Draining(m)}
           /\ OpenBy(r, m) <=> OwnershipOf(r) = Ownership!Held(m)
BY DEF OwnershipOf, RowOK, Sound, Has, OpenBy, OwesStop, HoldsOpen, StopPending,
       Ownership!Held, Ownership!Draining

\* What a row's ownership may become when the row is handed to nobody.
LEMMA OwnershipMoves ==
    ASSUME NEW r, RowOK(r), NEW s, HandsToNobody(r, s)
    PROVE  \/ OwnershipOf(s) = OwnershipOf(r)
           \/ OwnershipOf(r) = Ownership!Free /\ OwnershipOf(s) = Ownership!Done
           \/ \E m \in Members :
                /\ Has(r, m)
                /\ \/ OwnershipOf(s) = Ownership!Draining(m)
                   \/ OwnershipOf(s) \in {Ownership!Free, Ownership!Done} /\ ~Has(s, m)
<1>. USE DEF Ownership!Free, Ownership!Done, Ownership!Held, Ownership!Draining
<1>1. RowOK(s) /\ \A m \in Members : Has(s, m) => Has(r, m)
  BY DEF HandsToNobody
<1>2. CASE HoldsOpen(s)
  BY <1>2 DEF HandsToNobody, OwnershipOf
<1>3. CASE ~HoldsOpen(s) /\ StopPending(s)
  <2>1. s.stop.member \in Members /\ Has(s, s.stop.member)
    BY <1>1, <1>3 DEF RowOK, Row, Stop, StopPending, Has, OwesStop
  <2>. QED  BY <1>1, <1>3, <2>1 DEF OwnershipOf
<1>4. CASE ~HoldsOpen(s) /\ ~StopPending(s)
  <2>1. OwnershipOf(s) \in {Ownership!Free, Ownership!Done} /\ \A m \in Members : ~Has(s, m)
    BY <1>4 DEF OwnershipOf, Has, OpenBy, OwesStop
  <2>2. CASE HoldsOpen(r)
    <3>1. r.attempt.owner \in Members /\ Has(r, r.attempt.owner)
      BY <2>2 DEF RowOK, Row, Attempt, HoldsOpen, Has, OpenBy
    <3>. QED  BY <2>1, <3>1
  <2>3. CASE StopPending(r)
    <3>1. r.stop.member \in Members /\ Has(r, r.stop.member)
      BY <2>3 DEF RowOK, Row, Stop, StopPending, Has, OwesStop
    <3>. QED  BY <2>1, <3>1
  <2>4. CASE ~HoldsOpen(r) /\ ~StopPending(r)
    BY <1>4, <2>4 DEF OwnershipOf, HandsToNobody
  <2>. QED  BY <2>2, <2>3, <2>4
<1>. QED  BY <1>2, <1>3, <1>4

LEMMA InitRefines == ASSUME Init PROVE Ownership!Init
<1>1. PICK bound \in [Tasks -> Targets] : row = [t \in Tasks |-> NewRow(bound[t])]
  BY DEF Init
<1>2. \A t \in Tasks : OwnershipOf(row[t]) = Ownership!Free
  BY <1>1 DEF NewRow, OwnershipOf, HoldsOpen, StopPending, Ownership!Free
<1>3. \A m \in Members : {x[1] : x \in work[m]} = {}
  BY DEF Init
<1>. QED  BY <1>2, <1>3 DEF Ownership!Init, own, busy

\* A member takes the task it is assigned.
LEMMA AssignTakes == ASSUME IInv, IInv', Assign PROVE Ownership!Take(op.member, op.task)
<1>. DEFINE t == op.task
            m == op.member
            r == Assigned(row[t], m)
<1>1. /\ t \in Tasks /\ m \in Members /\ row[t].status = "pending"
      /\ \A u \in Tasks : ~Has(row[u], m)
  BY DEF Assign, Assignable, StillDispatchable, Ready, Admitted, PendingStopOwner, OpenAttempts, Has,
         IInv, TypeOK, Op
<1>2. RowOK(row[t]) /\ row[t].stop = None /\ row[t].attempt = None
  BY <1>1, RowsOK DEF RowOK, Sound
<1>3. RowOK(r) /\ r.status = "running" /\ r.attempt # None /\ r.attempt.owner = m
  BY <1>1, <1>2, AssignedOK
<1>4. row' = [row EXCEPT ![t] = r] /\ row \in [Tasks -> Row]
  BY DEF Assign, IInv, TypeOK
<1>5. work' = IF op.kind = "claim" THEN [work EXCEPT ![m] = {<<t, row'[t].epoch>>}] ELSE work
  BY DEF Assign
<1>. HIDE DEF t, m, r
<1>6. OwnershipOf(row[t]) = Ownership!Free
  BY <1>1, <1>2 DEF OwnershipOf, HoldsOpen, StopPending, Ownership!Free
<1>7. \A u \in Tasks : OwnershipOf(row[u]) \notin {Ownership!Held(m), Ownership!Draining(m)}
  BY <1>1, RowsOK, HasIsHas
<1>8. own' = [own EXCEPT ![t] = Ownership!Held(m)]
  <2>1. OwnershipOf(r) = Ownership!Held(m)
    BY <1>3 DEF OwnershipOf, HoldsOpen, Ownership!Held
  <2>2. \A u \in Tasks : row'[u] = IF u = t THEN r ELSE row[u]
    BY <1>4
  <2>. QED  BY <2>1, <2>2 DEF own
<1>9. busy' \in {busy, [busy EXCEPT ![m] = {t}]}
  <2>1. CASE op.kind = "claim"
    <3>. DEFINE x == <<t, row'[t].epoch>>
    <3>1. work \in [Members -> SUBSET (Tasks \X Nat)] /\ work' = [work EXCEPT ![m] = {x}]
      BY <1>5, <2>1 DEF IInv, TypeOK
    <3>2. x[1] = t
      OBVIOUS
    <3>. HIDE DEF x
    <3>3. {y[1] : y \in {x}} = {t}
      BY <3>2
    <3>4. \A n \in Members : busy'[n] = IF n = m THEN {t} ELSE busy[n]
      BY <3>1, <3>3 DEF busy
    <3>5. busy' = [n \in Members |-> busy'[n]] /\ busy = [n \in Members |-> busy[n]]
      BY DEF busy
    <3>. QED  BY <3>4, <3>5
  <2>2. CASE op.kind # "claim"
    BY <1>5, <2>2 DEF busy
  <2>. QED  BY <2>1, <2>2
<1>10. Ownership!Take(m, t)
  BY <1>1, <1>6, <1>7, <1>8, <1>9 DEF Ownership!Take, Ownership!Has, own
<1>. QED  BY <1>10 DEF m, t

\* A model step executes the open attempt of its member.
LEMMA StepExecutes == ASSUME IInv, NEW m \in Members, Step(m) PROVE Ownership!Execute(m)
<1>1. row \in [Tasks -> Row] /\ work \in [Members -> SUBSET (Tasks \X Nat)]
  BY DEF IInv, TypeOK
<1>2. \A t \in Tasks : OwnershipOf(row'[t]) = OwnershipOf(row[t])
  <2>. SUFFICES ASSUME NEW t \in Tasks PROVE OwnershipOf(row'[t]) = OwnershipOf(row[t])
    OBVIOUS
  <2>1. CASE ~OpenBy(row[t], m)
    BY <2>1 DEF Step
  <2>2. CASE OpenBy(row[t], m)
    <3>. DEFINE a == [row[t].attempt EXCEPT !.lapsed = FALSE]
    <3>1. row[t] \in Row /\ row[t].attempt \in Attempt /\ row'[t] = [row[t] EXCEPT !.attempt = a]
      BY <2>2, OpenRow DEF Step, OpenBy, RowOK
    <3>2. a \in Attempt /\ a.owner = row[t].attempt.owner
      BY <3>1 DEF Attempt
    <3>. HIDE DEF a
    <3>3. row'[t].attempt = a /\ row'[t].status = row[t].status
      BY <3>1 DEF Row
    <3>. QED  BY <2>2, <3>2, <3>3, NoneIsNoValue DEF OwnershipOf, OpenBy, HoldsOpen
  <2>. QED  BY <2>1, <2>2
<1>3. own' = own
  BY <1>2 DEF own
<1>4. {x[1] : x \in work'[m]} = {t \in Tasks : own[t] = Ownership!Held(m)}
  <2>1. work'[m] = {<<t, row[t].epoch>> : t \in OpenAttempts(m)}
    BY <1>1 DEF Step
  <2>2. {x[1] : x \in work'[m]} = OpenAttempts(m)
    <3>1. \A x \in work'[m] : x[1] \in OpenAttempts(m)
      BY <2>1
    <3>2. ASSUME NEW t \in OpenAttempts(m) PROVE t \in {x[1] : x \in work'[m]}
      <4>. DEFINE x == <<t, row[t].epoch>>
      <4>1. x \in work'[m] /\ x[1] = t
        BY <2>1
      <4>. QED  BY <4>1
    <3>. QED  BY <3>1, <3>2
  <2>3. OpenAttempts(m) = {t \in Tasks : own[t] = Ownership!Held(m)}
    BY RowsOK, HasIsHas DEF OpenAttempts, own
  <2>. QED  BY <2>2, <2>3
<1>5. \A n \in Members \ {m} : work'[n] = work[n]
  BY <1>1 DEF Step
<1>6. busy' = [busy EXCEPT ![m] = {t \in Tasks : own[t] = Ownership!Held(m)}]
  BY <1>4, <1>5 DEF busy
<1>. QED  BY <1>3, <1>6 DEF Ownership!Execute

\* Every other step sheds.
LEMMA OthersShed ==
    ASSUME IInv, IInv', \A t \in Tasks : HandsToNobody(row[t], row'[t]),
           \A m \in Members : work'[m] \subseteq work[m]
    PROVE  Ownership!Shed
<1>1. \A t \in Tasks : RowOK(row'[t]) /\ RowOK(row[t])
  BY RowsOK DEF HandsToNobody
<1>2. own' \in [Tasks -> Ownership!Ownerships]
  BY <1>1, OwnershipTyped DEF own
<1>3. \A m \in Members : work'[m] \subseteq Tasks \X Nat
  BY DEF IInv, TypeOK
<1>4. busy' \in [Members -> SUBSET Tasks]
  <2>1. \A m \in Members : {x[1] : x \in work'[m]} \subseteq Tasks
    BY <1>3
  <2>. QED  BY <2>1 DEF busy
<1>5. \A m \in Members : busy'[m] \subseteq busy[m]
  BY DEF busy
<1>6. \A t \in Tasks, m \in Members : ~Has(row'[t], m) => t \notin busy'[m]
  <2>. SUFFICES ASSUME NEW t \in Tasks, NEW m \in Members, t \in busy'[m]
                PROVE  Has(row'[t], m)
    OBVIOUS
  <2>1. PICK x \in work'[m] : x[1] = t
    BY DEF busy
  <2>. QED  BY <2>1 DEF IInv, HandleQuiescence, Has
<1>7. \A t \in Tasks : Ownership!Sheds(t)
  <2>. SUFFICES ASSUME NEW t \in Tasks PROVE Ownership!Sheds(t)
    OBVIOUS
  <2>1. own[t] = OwnershipOf(row[t]) /\ own'[t] = OwnershipOf(row'[t])
    BY DEF own
  <2>2. \A m \in Members : Has(row[t], m) <=> Ownership!Has(m, t)
    BY <1>1, <2>1, HasIsHas DEF Ownership!Has
  <2>. QED  BY <1>1, <1>6, <2>1, <2>2, OwnershipMoves DEF Ownership!Sheds
<1>. QED  BY <1>2, <1>4, <1>5, <1>7 DEF Ownership!Shed

LEMMA NextRefines == ASSUME IInv, [Next]_vars PROVE Ownership!Next
<1>1. IInv' /\ OnlyAssignGives
  BY NextStepOK DEF StepOK
<1>2. CASE Assign
  <2>1. op.member \in Members /\ op.task \in Tasks
    BY <1>2 DEF Assign, IInv, TypeOK, Op
  <2>. QED  BY <1>1, <1>2, <2>1, AssignTakes DEF Ownership!Next
<1>3. CASE \E m \in Members : Step(m)
  BY <1>3, StepExecutes DEF Ownership!Next
<1>4. CASE ~Assign /\ ~\E m \in Members : Step(m)
  BY <1>1, <1>4, OthersShed DEF OnlyAssignGives, Ownership!Next
<1>. QED  BY <1>2, <1>3, <1>4

\* Every step of the runtime is a step of the ownership protocol: a member takes a
\* task with empty hands, and a task leaves a member that no longer executes it.
THEOREM AttemptsImplementsOwnership == Spec => ImplementsTaskOwnership
<1>1. Init => Ownership!Init
  BY InitRefines
<1>2. IInv /\ [Next]_vars => [Ownership!Next]_(Ownership!vars)
  BY NextRefines
<1>. QED
  BY <1>1, <1>2, Inductive, PTL DEF Spec, ImplementsTaskOwnership, Ownership!Spec
-----------------------------------------------------------------------------
(* 4. The ownership protocol. *)

OInv == Ownership!TypeOK /\ Ownership!ExecutesOnlyItsOwn /\ Ownership!EmptyHanded

\* A task has one owner at most.
LEMMA OwnedByOne ==
    ASSUME NEW t, NEW m, NEW n, Ownership!Has(m, t), Ownership!Has(n, t)
    PROVE  m = n
BY DEF Ownership!Has, Ownership!Held, Ownership!Draining

LEMMA FreeIsNobodys ==
    ASSUME NEW t, NEW m, own[t] \in {Ownership!Free, Ownership!Done}
    PROVE  ~Ownership!Has(m, t)
BY DEF Ownership!Has, Ownership!Held, Ownership!Draining, Ownership!Free, Ownership!Done

LEMMA InitOInv == ASSUME Ownership!Init PROVE OInv
BY FreeIsNobodys DEF Ownership!Init, OInv, Ownership!TypeOK, Ownership!ExecutesOnlyItsOwn,
   Ownership!EmptyHanded, Ownership!Ownerships

LEMMA TakeOK == ASSUME OInv, NEW m \in Members, NEW t \in Tasks, Ownership!Take(m, t) PROVE OInv'
<1>. USE DEF Ownership!Take
<1>1. /\ own \in [Tasks -> Ownership!Ownerships] /\ busy \in [Members -> SUBSET Tasks]
      /\ Ownership!Held(m) \in Ownership!Ownerships
  BY DEF OInv, Ownership!TypeOK, Ownership!Ownerships
<1>2. Ownership!TypeOK'
  BY <1>1 DEF Ownership!TypeOK
<1>3. \A u \in Tasks : own'[u] = IF u = t THEN Ownership!Held(m) ELSE own[u]
  BY <1>1
<1>4. \A n \in Members : Ownership!Has(n, t)' <=> n = m
  BY <1>3 DEF Ownership!Has, Ownership!Held, Ownership!Draining
<1>5. \A n \in Members, u \in Tasks : u # t => (Ownership!Has(n, u)' <=> Ownership!Has(n, u))
  BY <1>3 DEF Ownership!Has
<1>6. \A n \in Members : t \notin busy[n]
  BY FreeIsNobodys DEF OInv, Ownership!ExecutesOnlyItsOwn
<1>7. Ownership!ExecutesOnlyItsOwn'
  BY <1>1, <1>4, <1>5, <1>6 DEF OInv, Ownership!ExecutesOnlyItsOwn
<1>8. Ownership!EmptyHanded'
  BY <1>4, <1>5 DEF OInv, Ownership!EmptyHanded
<1>. QED  BY <1>2, <1>7, <1>8 DEF OInv

LEMMA ExecuteOK == ASSUME OInv, NEW m \in Members, Ownership!Execute(m) PROVE OInv'
<1>1. Ownership!TypeOK'
  BY DEF Ownership!Execute, OInv, Ownership!TypeOK
<1>2. Ownership!ExecutesOnlyItsOwn' /\ Ownership!EmptyHanded'
  BY DEF Ownership!Execute, OInv, Ownership!TypeOK, Ownership!ExecutesOnlyItsOwn,
     Ownership!EmptyHanded, Ownership!Has
<1>. QED  BY <1>1, <1>2 DEF OInv

LEMMA ShedOK == ASSUME OInv, Ownership!Shed PROVE OInv'
<1>. USE DEF Ownership!Shed
<1>1. Ownership!TypeOK'
  BY DEF Ownership!TypeOK
<1>2. \A n \in Members, t \in Tasks : Ownership!Has(n, t)' => Ownership!Has(n, t)
  <2>. SUFFICES ASSUME NEW n \in Members, NEW t \in Tasks, Ownership!Has(n, t)'
                PROVE  Ownership!Has(n, t)
    OBVIOUS
  <2>1. own'[t] \notin {Ownership!Free, Ownership!Done}
    BY DEF Ownership!Has, Ownership!Held, Ownership!Draining, Ownership!Free, Ownership!Done
  <2>2. \A m \in Members : own'[t] = Ownership!Draining(m) => m = n
    BY DEF Ownership!Has, Ownership!Held, Ownership!Draining
  <2>. QED  BY <2>1, <2>2 DEF Ownership!Sheds, Ownership!Has
<1>3. \A n \in Members, t \in Tasks : Ownership!Has(n, t) /\ t \in busy'[n] => Ownership!Has(n, t)'
  <2>. SUFFICES ASSUME NEW n \in Members, NEW t \in Tasks, Ownership!Has(n, t), t \in busy'[n]
                PROVE  Ownership!Has(n, t)'
    OBVIOUS
  <2>1. own[t] # Ownership!Free /\ \A m \in Members : Ownership!Has(m, t) => m = n
    BY FreeIsNobodys, OwnedByOne
  <2>. QED  BY <2>1 DEF Ownership!Sheds, Ownership!Has
<1>4. Ownership!ExecutesOnlyItsOwn' /\ Ownership!EmptyHanded'
  BY <1>2, <1>3 DEF OInv, Ownership!ExecutesOnlyItsOwn, Ownership!EmptyHanded
<1>. QED  BY <1>1, <1>4 DEF OInv

\* The protocol's own inductive invariant.
LEMMA OwnershipInductive == Ownership!Spec => []OInv
<1>1. Ownership!Init => OInv
  BY InitOInv
<1>2. OInv /\ [Ownership!Next]_(Ownership!vars) => OInv'
  <2>1. OInv /\ Ownership!Next => OInv'
    BY TakeOK, ExecuteOK, ShedOK DEF Ownership!Next
  <2>2. OInv /\ UNCHANGED Ownership!vars => OInv'
    BY DEF Ownership!vars, OInv, Ownership!TypeOK, Ownership!ExecutesOnlyItsOwn,
       Ownership!EmptyHanded, Ownership!Has
  <2>. QED  BY <2>1, <2>2
<1>. QED  BY <1>1, <1>2, PTL DEF Ownership!Spec

\* A member executes only a task it holds or is draining.
THEOREM OwnersExecute == Ownership!Spec => []Ownership!ExecutesOnlyItsOwn
<1>1. OInv => Ownership!ExecutesOnlyItsOwn
  BY DEF OInv
<1>. QED  BY <1>1, OwnershipInductive, PTL

\* A member holds or drains one task at most.
THEOREM HandsHoldOne == Ownership!Spec => []Ownership!EmptyHanded
<1>1. OInv => Ownership!EmptyHanded
  BY DEF OInv
<1>. QED  BY <1>1, OwnershipInductive, PTL
=============================================================================
