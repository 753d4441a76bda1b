-------------------------- MODULE SchedulingPassProofs --------------------------
(***************************************************************************)
(* The safety properties of SchedulingPass, for any board and any bounds.  *)
(*                                                                         *)
(* A chain begins with a body that was kicked afresh, hence at member 1,   *)
(* and new members join behind the last: what a chain has reached is an    *)
(* initial segment of the board, and the body that completes the rotation  *)
(* ends with the last member.                                              *)
(***************************************************************************)
EXTENDS SchedulingPass, TLAPS

\* What a chain has reached, stage by stage.
Segment ==
    /\ roster <= team
    /\ pass.chainFrom \in {0, 1}
    /\ pass.sweepFrom <= team
    /\ pass.sweepFrom # 0 => pass.chainFrom = 1
    /\ pass.stage \in {"queued", "recovering"} =>
            /\ pass.sweepFrom = 0 => swept = {}
            /\ pass.sweepFrom # 0 => swept = 1 .. pass.sweepFrom - 1
    /\ pass.stage = "sweeping" =>
            /\ pass.at \in 1 .. pass.last
            /\ roster <= pass.last
            /\ pass.last <= team
            /\ swept = 1 .. pass.at
    /\ pass.stoppedBefore # 0 =>
            /\ pass.stage = "over"
            /\ pass.chainFrom = 1
            /\ pass.stoppedBefore <= team
            /\ swept = 1 .. pass.stoppedBefore - 1

IInv == TypeOK /\ NothingUnpublished /\ Segment

\* A body opened afresh begins a chain that has reached nobody.
LEMMA OpenedFresh ==
    ASSUME NEW S \in {"none", "queued"}, NEW f \in 0 .. MaxTeam, NEW c \in 0 .. MaxTeam
    PROVE  /\ Opened(S, f, c) \in Pass
           /\ Opened(S, f, c).stage = S
           /\ Opened(S, f, c).sweepFrom = f
           /\ Opened(S, f, c).chainFrom = c
           /\ Opened(S, f, c).stoppedBefore = 0
  BY PassConstants DEF Opened, Pass, Stages, Release

LEMMA InitInvariant == Init => IInv
<1>1. 0 \in 0 .. MaxTeam
  BY PassConstants
<1>2. Init => TypeOK
  <2>1. NoPass \in Pass
    BY <1>1, OpenedFresh DEF NoPass
  <2>2. 0 \in 0 .. MaxFailures /\ 0 \in 0 .. MaxPauses
    BY PassConstants
  <2>. QED
    BY <2>1, <2>2, Zenon DEF Init, TypeOK
<1>. QED
  BY <1>1, <1>2, OpenedFresh, PassConstants DEF Init, IInv, TypeOK, NothingUnpublished, Segment, NoPass

\* A kick leaves the open body alone, or opens one that begins a chain.
LEMMA KickedKeeps ==
    ASSUME IInv, Kicked
    PROVE  /\ pass' \in Pass
           /\ swept' \subseteq 1 .. MaxTeam
           /\ roster' \in 1 .. MaxTeam
           /\ pass'.stage # "none"
           /\ \/ UNCHANGED <<pass, history>>
              \/ /\ pass'.stage = "queued" /\ pass'.sweepFrom = 0 /\ pass'.chainFrom = 0
                 /\ pass'.stoppedBefore = 0 /\ swept' = {} /\ roster' = team
<1>1. CASE pass.stage = "none"
  BY <1>1, OpenedFresh, PassConstants DEF Kicked, IInv, TypeOK
<1>2. CASE pass.stage # "none"
  BY <1>2 DEF Kicked, IInv, TypeOK, history
<1>. QED
  BY <1>1, <1>2

\* A stamp changes nothing but the stamps.
LEMMA ProgressedKeeps ==
    ASSUME NEW p \in Pass
    PROVE  Progressed(p) \in Pass
<1>1. 0 \in 0 .. Bound + 1
  BY PassConstants
<1>. QED
  BY <1>1 DEF Progressed, Pass

LEMMA LaterBounded ==
    ASSUME NEW cap \in Nat, NEW t \in 0 .. cap
    PROVE  Later(t, cap) \in 0 .. cap
  BY DEF Later

\* In a sweep the order ends before member 1.
LEMMA EndIsFirst ==
    ASSUME IInv, pass.stage \in {"recovering", "sweeping"}
    PROVE  /\ First \in 1 .. team
           /\ First = (IF pass.sweepFrom = 0 THEN 1 ELSE pass.sweepFrom)
           /\ pass.stage = "sweeping" => End = 1
<1>1. /\ pass.sweepFrom \in 0 .. team
      /\ team \in Nat \ {0}
      /\ pass.last \in Nat
  BY PassConstants DEF IInv, TypeOK, Pass, Segment
<1>2. /\ First \in 1 .. team
      /\ First = (IF pass.sweepFrom = 0 THEN 1 ELSE pass.sweepFrom)
  BY <1>1 DEF First
<1>3. ASSUME pass.stage = "sweeping" PROVE End = 1
  BY <1>1, <1>2, <1>3 DEF End, IInv, Segment
<1>. QED
  BY <1>2, <1>3

LEMMA StepInvariant == IInv /\ [Next]_vars => IInv'
<1>. SUFFICES ASSUME IInv, [Next]_vars
              PROVE  IInv'
  OBVIOUS
<1>. USE PassConstants
<1>0. /\ pass \in Pass
      /\ team \in 1 .. MaxTeam
      /\ TypeOK
  BY DEF IInv, TypeOK
<1>1. CASE Commit
  <2>1. CASE Kicked
    BY <1>0, <1>1, <2>1, KickedKeeps
       DEF Commit, Committed, IInv, TypeOK, NothingUnpublished, Segment, history
  <2>2. CASE UNCHANGED <<pass, history>>
    BY <1>1, <2>2 DEF Commit, Committed, IInv, TypeOK, NothingUnpublished, Segment, history
  <2>. QED
    BY <1>1, <2>1, <2>2 DEF Commit
<1>2. CASE AddMember
  <2>1. team' \in 1 .. MaxTeam /\ team' = team + 1 /\ team \in Nat
    BY <1>0, <1>2 DEF AddMember, TypeOK
  <2>2. pass.last \in Nat /\ pass.sweepFrom \in Nat /\ pass.stoppedBefore \in Nat /\ roster \in Nat
    BY <1>0 DEF Pass, TypeOK
  <2>. QED
    BY <1>2, <2>1, <2>2
       DEF AddMember, Committed, IInv, TypeOK, NothingUnpublished, Segment, history
<1>3. CASE Suspend
  <2>1. pauses' \in 0 .. MaxPauses
    BY <1>0, <1>3 DEF Suspend, TypeOK
  <2>. QED
    BY <1>3, <2>1, Zenon DEF Suspend, Committed, IInv, TypeOK, NothingUnpublished, Segment, history
<1>4. CASE Resume
  BY <1>0, <1>4, KickedKeeps
     DEF Resume, Committed, IInv, TypeOK, NothingUnpublished, Segment, history
<1>5. CASE TickKick
  BY <1>0, <1>5, KickedKeeps
     DEF TickKick, IInv, TypeOK, NothingUnpublished, Segment, history, board, publication
<1>6. CASE Clock
  <2>1. pass' \in Pass
    <3>1. /\ Later(pass.age, Release) \in 0 .. Release
          /\ Later(pass.idle, Bound + 1) \in 0 .. Bound + 1
          /\ Later(pass.held, Bound) \in 0 .. Bound
          /\ 0 \in 0 .. Bound
      BY <1>0, LaterBounded DEF Pass, Release
    <3>. QED
      BY <1>0, <1>6, <3>1 DEF Clock, Pass
  <2>2. /\ pass'.stage = pass.stage /\ pass'.sweepFrom = pass.sweepFrom
        /\ pass'.chainFrom = pass.chainFrom /\ pass'.stoppedBefore = pass.stoppedBefore
        /\ pass'.at = pass.at /\ pass'.last = pass.last
    BY <1>0, <1>6 DEF Clock, Pass
  <2>. QED
    BY <1>6, <2>1, <2>2
       DEF Clock, IInv, TypeOK, NothingUnpublished, Segment, history, board, publication
<1>7. CASE Begin
  <2>1. pass' \in Pass /\ pass'.stage \in {"recovering", "flushing"}
    BY <1>0, <1>7, ProgressedKeeps DEF Begin, Pass, Stages
  <2>2. /\ pass'.sweepFrom = pass.sweepFrom /\ pass'.chainFrom = pass.chainFrom
        /\ pass'.stoppedBefore = pass.stoppedBefore
    BY <1>0, <1>7 DEF Begin, Progressed, Pass
  <2>. QED
    BY <1>7, <2>1, <2>2
       DEF Begin, IInv, TypeOK, NothingUnpublished, Segment, history, board, publication
<1>8. CASE Refused
  <2>1. /\ pass' \in Pass /\ pass'.stage = "over"
        /\ pass'.sweepFrom = pass.sweepFrom /\ pass'.chainFrom = pass.chainFrom
        /\ pass'.stoppedBefore = pass.stoppedBefore
    BY <1>0, <1>8 DEF Refused, Pass, Stages
  <2>2. Committed \/ UNCHANGED publication
    BY <1>8 DEF Refused
  <2>3. /\ UNCHANGED <<board, pauses, history>> /\ failures' \in 0 .. MaxFailures
        /\ pending' \in BOOLEAN /\ naming' \in BOOLEAN /\ unasked' \in BOOLEAN
    <3>1. failures' \in 0 .. MaxFailures
      BY <1>0, <1>8 DEF Refused, TypeOK
    <3>. QED
      BY <1>0, <1>8, <2>2, <3>1, Zenon DEF Refused, Committed, TypeOK, publication
  <2>. QED
    BY <1>0, <2>1, <2>3
       DEF IInv, TypeOK, NothingUnpublished, Segment, history, board
<1>9. CASE Throws
  <2>1. /\ pass' \in Pass /\ pass'.stage = "over"
        /\ pass'.sweepFrom = pass.sweepFrom /\ pass'.chainFrom = pass.chainFrom
        /\ pass'.stoppedBefore = pass.stoppedBefore
    BY <1>0, <1>9 DEF Throws, Pass, Stages
  <2>. QED
    BY <1>9, <2>1
       DEF Throws, IInv, TypeOK, NothingUnpublished, Segment, history, board, publication
<1>10. CASE AwaitReturns
  <2>1. pass' \in Pass
    BY <1>0, <1>10, ProgressedKeeps DEF AwaitReturns
  <2>2. /\ pass'.stage = pass.stage /\ pass'.sweepFrom = pass.sweepFrom
        /\ pass'.chainFrom = pass.chainFrom /\ pass'.stoppedBefore = pass.stoppedBefore
        /\ pass'.at = pass.at /\ pass'.last = pass.last
    BY <1>0, <1>10 DEF AwaitReturns, Progressed, Pass
  <2>. QED
    BY <1>10, <2>1, <2>2
       DEF AwaitReturns, Committed, IInv, TypeOK, NothingUnpublished, Segment, history
<1>11. CASE SweepOpens
  <2>. DEFINE p == [pass EXCEPT !.last = team]
  <2>1. CASE active
    <3>1. pass.stage = "recovering" /\ First \in 1 .. team
          /\ First = (IF pass.sweepFrom = 0 THEN 1 ELSE pass.sweepFrom)
      BY <1>11, EndIsFirst DEF SweepOpens
    <3>2. Reach(p, First)
      BY <1>11, <2>1 DEF SweepOpens
    <3>3. pass' \in Pass
      <4>1. p \in Pass
        BY <1>0 DEF Pass
      <4>2. First \in 0 .. MaxTeam /\ 0 \in 0 .. Bound
        BY <1>0, <3>1
      <4>. QED
        BY <3>2, <4>1, <4>2, ProgressedKeeps DEF Reach, Pass, Stages
    <3>4. /\ pass'.stage = "sweeping" /\ pass'.at = First /\ pass'.last = team
          /\ pass'.sweepFrom = pass.sweepFrom /\ pass'.chainFrom = pass.chainFrom
          /\ pass'.stoppedBefore = pass.stoppedBefore
      BY <1>0, <3>1, <3>2 DEF Reach, Progressed, Pass
    <3>5. /\ roster' = roster
          /\ swept' = swept \cup {First}
      BY <3>2 DEF Reach
    <3>6. swept' = 1 .. First
      <4>1. CASE pass.sweepFrom = 0
        <5>1. swept = {} /\ First = 1
          BY <3>1, <4>1 DEF IInv, Segment
        <5>. QED
          BY <3>5, <5>1
      <4>2. CASE pass.sweepFrom # 0
        <5>1. swept = 1 .. pass.sweepFrom - 1 /\ First = pass.sweepFrom
          BY <3>1, <4>2 DEF IInv, Segment
        <5>. QED
          BY <1>0, <3>1, <3>5, <5>1
      <4>. QED
        BY <4>1, <4>2
    <3>7. TypeOK'
      BY <1>0, <1>11, <3>1, <3>3, <3>5 DEF SweepOpens, TypeOK, board, publication
    <3>. QED
      BY <1>0, <1>11, <3>1, <3>4, <3>5, <3>6, <3>7
         DEF SweepOpens, IInv, TypeOK, NothingUnpublished, Segment, board, publication
  <2>2. CASE ~active
    <3>1. /\ pass' \in Pass /\ pass'.stage = "over"
          /\ pass'.sweepFrom = pass.sweepFrom /\ pass'.chainFrom = pass.chainFrom
          /\ pass'.stoppedBefore = pass.stoppedBefore
      BY <1>0, <1>11, <2>2 DEF SweepOpens, Abandon, Pass, Stages
    <3>. QED
      BY <1>11, <2>2, <3>1
         DEF SweepOpens, Abandon, IInv, TypeOK, NothingUnpublished, Segment, history, board, publication
  <2>. QED
    BY <2>1, <2>2, <1>0 DEF TypeOK
<1>12. CASE MemberDone
  <2>. DEFINE p == Progressed(pass)
              next == After(pass.at)
  <2>1. /\ p \in Pass /\ End = 1
        /\ pass.stage = "sweeping"
        /\ pass.at \in 1 .. pass.last /\ pass.last <= team /\ roster <= pass.last
        /\ swept = 1 .. pass.at
        /\ pass.last \in Nat /\ team \in Nat
    BY <1>0, <1>12, EndIsFirst, ProgressedKeeps DEF MemberDone, IInv, Segment, Pass
  <2>2. next # 1 => next = pass.at + 1 /\ next \in 1 .. pass.last
    BY <2>1 DEF After
  <2>3. /\ p.sweepFrom = pass.sweepFrom /\ p.chainFrom = pass.chainFrom
        /\ p.stoppedBefore = pass.stoppedBefore /\ p.last = pass.last
    BY <1>0 DEF Progressed, Pass
  <2>4. UNCHANGED <<board, failures, pauses>>
    BY <1>12 DEF MemberDone
  <2>5. CASE Complete(p)
    <3>1. /\ pass' \in Pass /\ pass'.stage = "flushing"
          /\ pass'.sweepFrom = pass.sweepFrom /\ pass'.chainFrom = pass.chainFrom
          /\ pass'.stoppedBefore = pass.stoppedBefore
      BY <2>1, <2>3, <2>5 DEF Complete, Pass, Stages
    <3>. QED
      BY <2>1, <2>4, <2>5, <3>1
         DEF Complete, IInv, TypeOK, NothingUnpublished, Segment, history, board
  <2>6. CASE next # End /\ HandOn(p, next)
    <3>1. next \in 1 .. pass.last /\ next = pass.at + 1
      BY <2>1, <2>2, <2>6
    <3>2. pass' \in Pass
      <4>1. next \in 0 .. MaxTeam /\ 1 \in 0 .. MaxTeam
        BY <1>0, <2>1, <3>1
      <4>. QED
        BY <2>1, <2>6, <4>1 DEF HandOn, Pass, Stages
    <3>3. /\ pass'.stage = "over" /\ pass'.stoppedBefore = next /\ pass'.chainFrom = 1
          /\ pass'.sweepFrom = pass.sweepFrom
      BY <1>0, <2>1, <2>3, <2>6, <3>1 DEF HandOn, Pass
    <3>4. swept = 1 .. next - 1
      BY <2>1, <3>1
    <3>. QED
      BY <2>1, <2>4, <2>6, <3>1, <3>2, <3>3, <3>4
         DEF HandOn, IInv, TypeOK, NothingUnpublished, Segment, history, board, publication
  <2>7. CASE next # End /\ Reach(p, next) /\ UNCHANGED publication
    <3>1. next \in 1 .. pass.last /\ next = pass.at + 1
      BY <2>1, <2>2, <2>7
    <3>2. pass' \in Pass
      <4>1. next \in 0 .. MaxTeam /\ 0 \in 0 .. Bound
        BY <1>0, <2>1, <3>1
      <4>. QED
        BY <2>1, <2>7, <4>1, ProgressedKeeps DEF Reach, Pass, Stages
    <3>3. /\ pass'.stage = "sweeping" /\ pass'.at = next /\ pass'.last = pass.last
          /\ pass'.sweepFrom = pass.sweepFrom /\ pass'.chainFrom = pass.chainFrom
          /\ pass'.stoppedBefore = pass.stoppedBefore
      BY <1>0, <2>1, <2>3, <2>7, <3>1 DEF Reach, Progressed, Pass
    <3>4. roster' = roster /\ swept' = swept \cup {next}
      BY <2>7 DEF Reach
    <3>5. swept' = 1 .. next
      BY <2>1, <3>1, <3>4
    <3>6. TypeOK'
      BY <1>0, <2>1, <2>4, <2>7, <3>1, <3>2, <3>4, <3>5 DEF TypeOK, board, publication
    <3>. QED
      BY <2>1, <2>4, <2>7, <3>1, <3>3, <3>4, <3>5, <3>6
         DEF IInv, NothingUnpublished, Segment, board, publication
  <2>8. CASE Abandon(p) /\ UNCHANGED publication
    <3>1. /\ pass' \in Pass /\ pass'.stage = "over"
          /\ pass'.sweepFrom = pass.sweepFrom /\ pass'.chainFrom = pass.chainFrom
          /\ pass'.stoppedBefore = pass.stoppedBefore
      BY <2>1, <2>3, <2>8 DEF Abandon, Pass, Stages
    <3>. QED
      BY <2>4, <2>8, <3>1
         DEF Abandon, IInv, TypeOK, NothingUnpublished, Segment, history, board, publication
  <2>. QED
    BY <1>12, <2>5, <2>6, <2>7, <2>8 DEF MemberDone
<1>13. CASE Flushed
  <2>1. /\ pass' \in Pass /\ pass'.stage = "over"
        /\ pass'.sweepFrom = pass.sweepFrom /\ pass'.chainFrom = pass.chainFrom
        /\ pass'.stoppedBefore = pass.stoppedBefore
    <3>1. /\ Progressed(pass) \in Pass
          /\ Progressed(pass).sweepFrom = pass.sweepFrom
          /\ Progressed(pass).chainFrom = pass.chainFrom
          /\ Progressed(pass).stoppedBefore = pass.stoppedBefore
      BY <1>0, ProgressedKeeps DEF Progressed, Pass
    <3>. QED
      BY <1>13, <3>1 DEF Flushed, Pass, Stages
  <2>. QED
    BY <1>13, <2>1
       DEF Flushed, IInv, TypeOK, NothingUnpublished, Segment, history, board, publication
<1>14. CASE Close
  <2>1. /\ pass.stoppedBefore \in 0 .. MaxTeam /\ pass.chainFrom \in 0 .. MaxTeam
        /\ 0 \in 0 .. MaxTeam
    BY <1>0 DEF Pass
  <2>2. CASE active /\ pass.stoppedBefore # 0
    <3>1. /\ pass' \in Pass /\ pass'.stage = "queued" /\ pass'.stoppedBefore = 0
          /\ pass'.sweepFrom = pass.stoppedBefore /\ pass'.chainFrom = pass.chainFrom
      BY <1>14, <2>1, <2>2, OpenedFresh DEF Close, Successor
    <3>. QED
      BY <1>14, <2>2, <3>1
         DEF Close, IInv, TypeOK, NothingUnpublished, Segment, history, board
  <2>3. CASE ~(active /\ pass.stoppedBefore # 0)
    <3>1. /\ pass' \in Pass /\ pass'.stage = "none" /\ pass'.stoppedBefore = 0
          /\ pass'.sweepFrom = 0 /\ pass'.chainFrom = 0
      BY <1>14, <2>1, <2>3, OpenedFresh DEF Close, NoPass
    <3>. QED
      BY <1>0, <1>14, <3>1
         DEF Close, IInv, TypeOK, NothingUnpublished, Segment, history, board
  <2>. QED
    BY <2>2, <2>3
<1>15. CASE Publish
  BY <1>15, Zenon DEF Publish, LeftToBody, IInv, TypeOK, NothingUnpublished, Segment, history, board
<1>16. CASE Watch
  <2>1. pass' \in Pass
    BY <1>0, <1>16 DEF Watch, Pass
  <2>2. /\ pass'.stage = pass.stage /\ pass'.sweepFrom = pass.sweepFrom
        /\ pass'.chainFrom = pass.chainFrom /\ pass'.stoppedBefore = pass.stoppedBefore
        /\ pass'.at = pass.at /\ pass'.last = pass.last
    BY <1>0, <1>16 DEF Watch, Pass
  <2>. QED
    BY <1>16, <2>1, <2>2
       DEF Watch, IInv, TypeOK, NothingUnpublished, Segment, history, board
<1>17. CASE UNCHANGED vars
  BY <1>17 DEF vars, IInv, TypeOK, NothingUnpublished, Segment, history, board, publication
<1>. QED
  BY <1>1, <1>2, <1>3, <1>4, <1>5, <1>6, <1>7, <1>8, <1>9, <1>10, <1>11, <1>12, <1>13,
     <1>14, <1>15, <1>16, <1>17 DEF Next

\* The invariant holds in every reachable state of the scheduling bodies.
THEOREM PassInvariance == Spec => []IInv
  BY InitInvariant, StepInvariant, PTL DEF Spec

\* A commit nobody has judged has a publication queued or a body open that owes one.
THEOREM CommitsOwed == Spec => []NothingUnpublished
<1>1. IInv => NothingUnpublished
  BY DEF IInv
<1>. QED
  BY <1>1, PassInvariance, PTL

\* Which steps move the sweep to a member, and what those members are.
LEMMA ReachedIsNew ==
    ASSUME IInv, Next, pass'.stage = "sweeping",
           pass.stage # "sweeping" \/ pass'.at # pass.at
    PROVE  pass'.at \notin swept
<1>. USE PassConstants
<1>0. /\ pass \in Pass
      /\ team \in 1 .. MaxTeam
  BY DEF IInv, TypeOK
<1>1. CASE SweepOpens
  <2>1. pass.stage = "recovering" /\ First \in 1 .. team
        /\ First = (IF pass.sweepFrom = 0 THEN 1 ELSE pass.sweepFrom)
    BY <1>1, EndIsFirst DEF SweepOpens
  <2>2. active
    BY <1>0, <1>1 DEF SweepOpens, Abandon, Pass
  <2>3. pass'.at = First
    BY <1>0, <1>1, <2>2 DEF SweepOpens, Reach, Progressed, Pass
  <2>4. CASE pass.sweepFrom = 0
    BY <2>1, <2>3, <2>4 DEF IInv, Segment
  <2>5. CASE pass.sweepFrom # 0
    <3>1. swept = 1 .. pass.sweepFrom - 1 /\ pass'.at = pass.sweepFrom
      BY <2>1, <2>3, <2>5 DEF IInv, Segment
    <3>. QED
      BY <1>0, <2>1, <2>5, <3>1
  <2>. QED
    BY <2>4, <2>5
<1>2. CASE MemberDone
  <2>. DEFINE p == Progressed(pass)
              next == After(pass.at)
  <2>1. /\ End = 1 /\ swept = 1 .. pass.at /\ pass.at \in Nat /\ pass.stage = "sweeping"
    BY <1>0, <1>2, EndIsFirst DEF MemberDone, IInv, Segment, Pass
  <2>2. p \in Pass
    BY <1>0, ProgressedKeeps
  <2>3. ~Complete(p) /\ ~HandOn(p, next) /\ ~Abandon(p)
    BY <2>2 DEF Complete, HandOn, Abandon, Pass
  <2>4. next # End /\ Reach(p, next)
    BY <1>2, <2>3 DEF MemberDone
  <2>5. Progressed(p) \in Pass
    BY <2>2, ProgressedKeeps
  <2>6. pass'.at = next
    BY <2>4, <2>5 DEF Reach, Pass
  <2>. QED
    BY <2>1, <2>4, <2>6 DEF After
<1>3. CASE \/ Commit \/ AddMember \/ Resume \/ TickKick
  <2>1. /\ Kicked => pass' = pass \/ pass' = Opened("queued", 0, 0)
        /\ Opened("queued", 0, 0).stage = "queued"
    BY DEF Kicked, Opened
  <2>2. pass' = pass
    BY <1>3, <2>1 DEF Commit, AddMember, Resume, TickKick
  <2>. QED
    BY <2>2
<1>4. CASE Suspend \/ Publish
  BY <1>4 DEF Suspend, Publish
<1>5. CASE Clock \/ Watch
  BY <1>0, <1>5 DEF Clock, Watch, Pass
<1>6. CASE AwaitReturns
  BY <1>0, <1>6 DEF AwaitReturns, Progressed, Pass
<1>7. CASE Begin \/ Flushed
  <2>1. Progressed(pass) \in Pass
    BY <1>0, ProgressedKeeps
  <2>. QED
    BY <1>7, <2>1 DEF Begin, Flushed, Pass
<1>8. CASE Refused \/ Throws
  BY <1>0, <1>8 DEF Refused, Throws, Pass
<1>9. CASE Close
  BY <1>9 DEF Close, Successor, NoPass, Opened
<1>. QED
  BY <1>1, <1>2, <1>3, <1>4, <1>5, <1>6, <1>7, <1>8, <1>9 DEF Next

\* A chain of early-stopped bodies reaches no member twice.
THEOREM ChainsCoverOneRotation == Spec => OneRotation
<1>1. IInv /\ [Next]_vars
        => [pass'.stage = "sweeping" /\ (pass.stage # "sweeping" \/ pass'.at # pass.at)
                => pass'.at \notin swept]_vars
  <2>1. CASE UNCHANGED vars
    BY <2>1
  <2>2. CASE Next
    BY <2>2, ReachedIsNew
  <2>. QED
    BY <2>1, <2>2
<1>. QED
  BY <1>1, PassInvariance, PTL DEF Spec, OneRotation

\* A sweep that completes has reached the members its chain began with.
LEMMA CompletedIsWhole ==
    ASSUME IInv, Next, pass.stage = "sweeping", pass'.stage = "flushing"
    PROVE  1 .. roster \subseteq swept
<1>. USE PassConstants
<1>0. pass \in Pass
  BY DEF IInv, TypeOK
<1>1. CASE MemberDone
  <2>. DEFINE p == Progressed(pass)
              next == After(pass.at)
  <2>1. /\ End = 1 /\ swept = 1 .. pass.at /\ pass.at \in 1 .. pass.last
        /\ roster <= pass.last /\ pass.last \in Nat /\ roster \in Nat
    BY <1>0, <1>1, EndIsFirst DEF IInv, TypeOK, Segment, Pass
  <2>2. p \in Pass /\ Progressed(p) \in Pass
    BY <1>0, ProgressedKeeps
  <2>3. ~HandOn(p, next) /\ ~Reach(p, next) /\ ~Abandon(p)
    BY <2>2 DEF HandOn, Reach, Abandon, Pass
  <2>4. next = End
    BY <1>1, <2>3 DEF MemberDone
  <2>5. pass.at = pass.last
    BY <2>1, <2>4 DEF After
  <2>. QED
    BY <2>1, <2>5
<1>2. CASE \/ Commit \/ AddMember \/ Suspend \/ Resume \/ TickKick \/ Publish
  <2>1. pass' = pass
    BY <1>2 DEF Commit, AddMember, Suspend, Resume, TickKick, Publish, Kicked
  <2>. QED
    BY <2>1
<1>3. CASE Clock \/ Watch
  BY <1>0, <1>3 DEF Clock, Watch, Pass
<1>4. CASE AwaitReturns
  BY <1>0, <1>4 DEF AwaitReturns, Progressed, Pass
<1>5. CASE Refused \/ Throws
  BY <1>0, <1>5 DEF Refused, Throws, Pass
<1>6. CASE Begin \/ SweepOpens \/ Flushed \/ Close
  BY <1>6 DEF Begin, SweepOpens, Flushed, Close
<1>. QED
  BY <1>1, <1>2, <1>3, <1>4, <1>5, <1>6 DEF Next

\* The pass-end steps run only behind a whole rotation.
THEOREM RotationsAreWhole == Spec => WholeRotation
<1>1. IInv /\ [Next]_vars
        => [pass.stage = "sweeping" /\ pass'.stage = "flushing" => 1 .. roster \subseteq swept]_vars
  <2>1. CASE UNCHANGED vars
    BY <2>1
  <2>2. CASE Next
    BY <2>2, CompletedIsWhole
  <2>. QED
    BY <2>1, <2>2
<1>. QED
  BY <1>1, PassInvariance, PTL DEF Spec, WholeRotation, EndsWhole
=============================================================================
