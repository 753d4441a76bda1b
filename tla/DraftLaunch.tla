----------------------------- MODULE DraftLaunch -----------------------------
(***************************************************************************)
(* One saved plan (a draft) and the mission it is assembled into:          *)
(* createDraft, updateDraft, discardDraft, launchDraft,                    *)
(* repairDraftAdmissions, addMember and the activation commit of           *)
(* src/runtime.ts.                                                         *)
(*                                                                         *)
(* A launch reads the draft ONCE, under exclusive(draftId), and then waits *)
(* for the workspace authorization, the shell preflight of the checks and  *)
(* the route of every member, holding the row it read; saving and          *)
(* discarding are synchronous and take no queue.  An assembly that fails   *)
(* keeps its draft and its staged mission: the next launch repairs what is *)
(* there under the same ids.                                               *)
(*                                                                         *)
(* A plan's content is the keys of its tasks and the settings of one       *)
(* member ("none": the plan has no such member).                           *)
(***************************************************************************)
EXTENDS Naturals, FiniteSets

CONSTANTS Plans,       \* the sets of task keys a plan may have
          Settings,    \* the settings a plan may give the member
          Launches,    \* concurrent launch calls
          MaxRevision, \* bound: revisions of the draft
          MaxSession,  \* bound: worker identities the member goes through
          MaxFaults    \* bound: host restarts

PlansAssumption == /\ \A p \in Plans : IsFiniteSet(p) /\ p # {}
                          /\ {MaxRevision, MaxSession, MaxFaults} \subseteq Nat
                          /\ "none" \notin Settings

VARIABLES draft,    \* the row `drafts`
          mission,  \* the mission's status; "none" before create
          task,     \* the task rows the plan's keys stand for
          member,   \* the member row
          compose,  \* the identity the member's composition file is keyed to, 0: none
          launch,   \* the launch calls, each with the copy of the draft it read
          sessions, \* identities given so far
          faults

vars == <<draft, mission, task, member, compose, launch, sessions, faults>>

Keys == UNION Plans
Inputs == [tasks : Plans, member : Settings \cup {"none"}]
Drafts == [status : {"draft", "launching", "launched", "failed", "discarded"},
           revision : Nat, input : Inputs, assembled : BOOLEAN]
Idle == [pc |-> "idle"]

TypeOK ==
  /\ draft \in Drafts
  /\ mission \in {"none", "staged", "active", "stopped"}
  /\ task \in [Keys -> {"absent", "pending", "cancelled"}]
  /\ member \in [phase : {"absent", "active", "stopped"},
                 set : Settings \cup {"none"}, session : Nat]
  /\ compose \in Nat
  /\ \A l \in Launches : launch[l].pc \in {"idle", "queued", "checking", "repairing",
                                           "stopped", "invalidated", "adding",
                                           "starting", "assembling"}
  /\ Cardinality({l \in Launches : launch[l].pc \notin {"idle", "queued"}}) <= 1
  /\ sessions \in 0..MaxSession
  /\ faults \in 0..MaxFaults

Init ==
  /\ \E i \in Inputs : draft = [status |-> "draft", revision |-> 1, input |-> i,
                                assembled |-> FALSE]
  /\ mission = "none"
  /\ task = [k \in Keys |-> "absent"]
  /\ member = [phase |-> "absent", set |-> "none", session |-> 0]
  /\ compose = 0
  /\ launch = [l \in Launches |-> Idle]
  /\ sessions = 0
  /\ faults = 0

Editable == draft.status \in {"draft", "failed"}
Holding(l) == launch[l].pc \notin {"idle", "queued"}
Copy(l) == launch[l].copy
At(l, pc) == launch[l].pc = pc
Moves(l, pc) == launch' = [launch EXCEPT ![l].pc = pc]
Ends(l) == launch' = [launch EXCEPT ![l] = Idle]

---------------------------------------------------------------------------
(* The owner's saves and decisions; each is one synchronous handler. *)

\* validateDraftRepair: a staged mission only, and of the tasks the plan saved so far has
\* no withdrawn one kept.  A task an earlier repair withdrew, which that plan no longer
\* has, is not looked at: its key may come back, and the next launch refuses it.
Repairable(i) ==
  /\ mission \in {"none", "staged"}
  /\ \A k \in draft.input.tasks \cap i.tasks : task[k] # "cancelled"

UpdateDraft(i) ==
  /\ Editable
  /\ draft.assembled => Repairable(i)
  /\ draft.revision < MaxRevision
  /\ draft' = [draft EXCEPT !.input = i, !.revision = @ + 1]
  /\ UNCHANGED <<mission, task, member, compose, launch, sessions, faults>>

\* A task of a stopped mission is cancelled only if it ran; a staged one never did.
Stopped(m) == IF m = "staged" THEN "stopped" ELSE m

DiscardDraft ==
  /\ Editable
  /\ draft.revision < MaxRevision
  /\ mission' = IF draft.assembled THEN Stopped(mission) ELSE mission
  /\ draft' = [draft EXCEPT !.status = "discarded", !.revision = @ + 1]
  /\ UNCHANGED <<task, member, compose, launch, sessions, faults>>

\* control(stop), on the staged or the active mission.
StopMission ==
  /\ mission \in {"staged", "active"}
  /\ mission' = "stopped"
  /\ UNCHANGED <<draft, task, member, compose, launch, sessions, faults>>

\* The stop's deferred half ends the membership.
EndMembership ==
  /\ mission = "stopped"
  /\ member.phase = "active"
  /\ member' = [member EXCEPT !.phase = "stopped"]
  /\ UNCHANGED <<draft, mission, task, compose, launch, sessions, faults>>

---------------------------------------------------------------------------
(* launchDraft. *)

AskLaunch(l) ==
  /\ At(l, "idle")
  /\ Editable
  /\ draft.revision < MaxRevision
  /\ launch' = [launch EXCEPT ![l] = [pc |-> "queued", revision |-> draft.revision]]
  /\ UNCHANGED <<draft, mission, task, member, compose, sessions, faults>>

\* The one read, under exclusive(draftId); a launched draft answers at once.
ReadDraft(l) ==
  /\ At(l, "queued")
  /\ \A other \in Launches : ~Holding(other)
  /\ launch' = [launch EXCEPT ![l] =
       IF Editable /\ draft.revision = launch[l].revision
       THEN [pc |-> "checking", revision |-> launch[l].revision, copy |-> draft]
       ELSE Idle]
  /\ UNCHANGED <<draft, mission, task, member, compose, sessions, faults>>

\* The bounded wait for the queue, the authorization, the preflight or a route
\* refuses: nothing has changed.
RefuseLaunch(l) ==
  /\ launch[l].pc \in {"queued", "checking"}
  /\ Ends(l)
  /\ UNCHANGED <<draft, mission, task, member, compose, sessions, faults>>

Launching(c) == [c EXCEPT !.status = "launching", !.revision = @ + 1, !.assembled = TRUE]
Failed(c) == [c EXCEPT !.status = "failed"]

\* The checks passed: the copy is written back as launching and the mission created.
BeginAssembly(l) ==
  LET c == Launching(Copy(l)) IN
  /\ At(l, "checking")
  /\ mission' = IF mission = "none" THEN "staged" ELSE mission
  /\ \/ /\ mission \in {"none", "staged"}
        /\ draft' = c
        /\ launch' = [launch EXCEPT ![l].copy = c,
                                    ![l].pc = IF mission = "none" THEN "adding" ELSE "repairing"]
     \/ /\ mission \notin {"none", "staged"}
        /\ draft' = Failed(c)
        /\ Ends(l)
  /\ UNCHANGED <<task, member, compose, sessions, faults>>

Assembling(l) == launch[l].pc \in {"repairing", "stopped", "invalidated", "adding",
                                   "starting", "assembling"}

\* An await of the assembly rejects, or an assertion after it does.
FailAssembly(l) ==
  /\ Assembling(l)
  /\ draft' = IF draft.revision = Copy(l).revision THEN Failed(Copy(l)) ELSE draft
  /\ Ends(l)
  /\ UNCHANGED <<mission, task, member, compose, sessions, faults>>

\* assertStaged: the mission is still staged and the draft still this revision.
Current(l) == mission = "staged" /\ draft.revision = Copy(l).revision

Wanted(l) == Copy(l).input.member
Changed(l) == Wanted(l) # "none" /\ member.set # Wanted(l)
MemberStands(l) ==
  \/ member.phase = "absent"
  \/ Wanted(l) # "none" /\ ~Changed(l) /\ member.phase = "active"

StopMember(l) ==
  /\ At(l, "repairing")
  /\ Current(l)
  /\ ~MemberStands(l)
  /\ Moves(l, "stopped")
  /\ UNCHANGED <<draft, mission, task, member, compose, sessions, faults>>

\* A changed member is a new worker identity: the old composition goes first.
InvalidateComposition(l) ==
  /\ At(l, "stopped")
  /\ Current(l)
  /\ Changed(l)
  /\ compose' = 0
  /\ Moves(l, "invalidated")
  /\ UNCHANGED <<draft, mission, task, member, sessions, faults>>

RepairMember(l) ==
  /\ \/ At(l, "stopped") /\ ~Changed(l)
     \/ At(l, "invalidated")
  /\ Current(l)
  /\ sessions < MaxSession
  /\ member' = IF Wanted(l) = "none" THEN [member EXCEPT !.phase = "stopped"]
               ELSE [phase |-> "active", set |-> Wanted(l),
                     session |-> IF Changed(l) THEN sessions + 1 ELSE member.session]
  /\ sessions' = IF Changed(l) THEN sessions + 1 ELSE sessions
  /\ Moves(l, "repairing")
  /\ UNCHANGED <<draft, mission, task, compose, faults>>

\* Mutant: the repair rewrites a withdrawn task the plan has again, and leaves it withdrawn.
RepairOverWithdrawn(l) ==
  /\ At(l, "repairing")
  /\ Current(l)
  /\ MemberStands(l) \/ (Wanted(l) = "none" /\ member.phase = "stopped")
  /\ task' = [k \in Keys |-> IF task[k] = "pending" /\ k \notin Copy(l).input.tasks
                             THEN "cancelled" ELSE task[k]]
  /\ Moves(l, "adding")
  /\ UNCHANGED <<draft, mission, member, compose, sessions, faults>>

\* One commit withdraws the unused tasks the plan no longer has; a withdrawn one it
\* wants again, which the save let through, makes the whole commit roll back
\* (FailAssembly), whatever the plan is launched for.
RepairTasks(l) ==
  /\ At(l, "repairing")
  /\ Current(l)
  /\ MemberStands(l) \/ (Wanted(l) = "none" /\ member.phase = "stopped")
  /\ \A k \in Copy(l).input.tasks : task[k] # "cancelled"
  /\ task' = [k \in Keys |-> IF task[k] = "pending" /\ k \notin Copy(l).input.tasks
                             THEN "cancelled" ELSE task[k]]
  /\ Moves(l, "adding")
  /\ UNCHANGED <<draft, mission, member, compose, sessions, faults>>

\* addMember: the row is committed before its worker is started.
AddMember(l) ==
  /\ At(l, "adding")
  /\ mission = "staged"
  /\ Wanted(l) # "none"
  /\ \/ /\ member.phase = "absent"
        /\ sessions < MaxSession
        /\ sessions' = sessions + 1
        /\ member' = [phase |-> "active", set |-> Wanted(l), session |-> sessions + 1]
     \/ /\ member.phase = "active"
        /\ UNCHANGED <<member, sessions>>
  /\ Moves(l, "starting")
  /\ UNCHANGED <<draft, mission, task, compose, faults>>

\* The adapter composes an identity that has no file, and refuses another's file.
StartMember(l) ==
  /\ At(l, "starting")
  /\ compose \in {0, member.session}
  /\ compose' = member.session
  /\ Moves(l, "assembling")
  /\ UNCHANGED <<draft, mission, task, member, sessions, faults>>

Proposed(S) == [k \in Keys |-> IF k \in S /\ task[k] = "absent" THEN "pending" ELSE task[k]]
Ready(l) == At(l, "assembling") \/ (At(l, "adding") /\ Wanted(l) = "none")

\* A proposal is refused: the tasks proposed before it stay.
ProposeSome(l) ==
  /\ Ready(l)
  /\ mission = "staged"
  /\ \E S \in SUBSET Copy(l).input.tasks :
       /\ S # Copy(l).input.tasks
       /\ task' = Proposed(S)
  /\ draft' = IF draft.revision = Copy(l).revision THEN Failed(Copy(l)) ELSE draft
  /\ Ends(l)
  /\ UNCHANGED <<mission, member, compose, sessions, faults>>

\* Every task is proposed and the mission activated, on the row the commit reads.
Activate(l) ==
  /\ Ready(l)
  /\ mission = "staged"
  /\ task' = Proposed(Copy(l).input.tasks)
  /\ mission' = "active"
  /\ draft' = [Copy(l) EXCEPT !.status = "launched"]
  /\ Ends(l)
  /\ UNCHANGED <<member, compose, sessions, faults>>

\* The host dies and start() runs: every call is gone, an interrupted plan failed.
Restart ==
  /\ faults < MaxFaults
  /\ faults' = faults + 1
  /\ launch' = [l \in Launches |-> Idle]
  /\ draft' = IF draft.status = "launching" THEN Failed(draft) ELSE draft
  /\ UNCHANGED <<mission, task, member, compose, sessions>>

Owner == \/ \E i \in Inputs : UpdateDraft(i)
         \/ DiscardDraft
         \/ StopMission

Assemble(l) ==
  \/ ReadDraft(l) \/ RefuseLaunch(l) \/ BeginAssembly(l) \/ FailAssembly(l)
  \/ StopMember(l) \/ InvalidateComposition(l) \/ RepairMember(l) \/ RepairTasks(l)
  \/ AddMember(l) \/ StartMember(l) \/ ProposeSome(l) \/ Activate(l)

Next == \/ Owner
        \/ EndMembership
        \/ \E l \in Launches : AskLaunch(l) \/ Assemble(l)
        \/ Restart

Spec == Init /\ [][Next]_vars

-----------------------------------------------------------------------------
(***************************************************************************)
(* Properties.                                                             *)
(***************************************************************************)

\* launchDraft + repairDraftAdmissions: whatever failed, was edited and was
\* repaired before, the board of an active mission has exactly the tasks of
\* the plan saved as launched, and its member works under that plan's settings.
ActiveIsThePlan ==
  mission = "active" =>
    /\ draft.status = "launched"
    /\ {k \in Keys : task[k] = "pending"} = draft.input.tasks
    /\ draft.input.member # "none" => member.phase = "active" /\ member.set = draft.input.member

\* The catch of launchDraft and start(): a plan reads as launching only while
\* a call of this host assembles that very revision; none is left so for good.
LaunchingIsAssembled ==
  draft.status = "launching" =>
    \E l \in Launches : Assembling(l) /\ Copy(l).revision = draft.revision

\* WS-1 of repairDraftAdmissions: the composition file, when there is one, is
\* the member's current identity's, so no crash or failed repair leaves a
\* member that can never start again.
NoStaleComposition == compose \in {0, member.session}

\* The activation re-reads the row: a stopped mission never comes back, though
\* an assembly that began before the stop is still running.
StoppedForGood == [][mission = "stopped" => mission' = "stopped"]_mission

\* docs/design.md: "Launch requires a saved revision".  A launch that begins
\* its assembly does so for the plan as it is saved at that moment: not for an
\* earlier revision, and not for a plan its owner has discarded.
SavedRevisionLaunched ==
  [][draft.status # "launching" /\ draft'.status = "launching"
       => /\ draft.status # "discarded"
          /\ draft'.input = draft.input
          /\ draft'.revision = draft.revision + 1]_draft
=============================================================================
