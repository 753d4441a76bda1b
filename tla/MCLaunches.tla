---------------------------- MODULE MCLaunches -----------------------------
(***************************************************************************)
(* What starts a mission and what suspends it, for TLC, one part of it in  *)
(* each behaviour: the launches of a draft whose plan and settings change  *)
(* between them (DraftLaunch), the automatic starts, with a retry of an    *)
(* assembly or with the messages of the planner (AutoStarts), and the      *)
(* pauses of the budget gate (BudgetGate).                                 *)
(***************************************************************************)
EXTENDS BudgetGate, TLC

CONSTANTS
    Plans, Settings, Launches,              \* what a draft may be, and the calls that launch it
    MaxRevision, MaxSession, MaxRestarts,   \* bounds of its behaviour
    Bodies, MaxEpoch,                       \* the assemblies and the epochs of a request
    Requests                                \* what a behaviour of a request may be about

VARIABLES
    part,  \* the part this behaviour is about
    draft, mission, task, member, compose, launch, sessions, restarts,
    row, late, plan, launched, call, body, deliver, said, saved, watch, owner, extends, faults,
    bound

draftVars == <<draft, mission, task, member, compose, launch, sessions, restarts>>
startVars == <<row, late, plan, launched, call, body, deliver, said, saved, watch, owner, extends,
               faults, bound>>

D == INSTANCE DraftLaunch WITH faults <- restarts, MaxFaults <- MaxRestarts

A == INSTANCE AutoStarts WITH
    req <- row, draft <- plan, mission <- launched, Bounds <- Requests

\* A retry of an assembly, or the messages of the planner.
AllRequests ==
    {[bodies |-> {1, 2}, kinds |-> {}, revision |-> 9, extends |-> 0, faults |-> 1],
     [bodies |-> {1}, kinds |-> {"planning", "failure"}, revision |-> 3, extends |-> 0,
      faults |-> 2]}

ASSUME DraftBounds == D!PlansAssumption
ASSUME RequestBounds == A!AutoAssumption

LaunchesInit ==
    /\ part \in {"draft", "request", "budget"}
    /\ Init /\ D!Init /\ A!Init
    /\ part # "draft" => draft.input = CHOOSE i \in D!Inputs : TRUE
    /\ part # "request" => bound = CHOOSE b \in Requests : TRUE

LaunchesNext ==
    \/ part = "draft" /\ D!Next /\ UNCHANGED <<part, vars, startVars>>
    \/ part = "request" /\ A!Next /\ UNCHANGED <<part, vars, draftVars>>
    \/ part = "budget" /\ Next /\ UNCHANGED <<part, draftVars, startVars>>

LaunchesSpec == LaunchesInit /\ [][LaunchesNext]_<<part, vars, draftVars, startVars>>

\* The members of the pool are alike, and so are the calls.
Symmetry == Permutations(Members) \cup Permutations(Launches)
-----------------------------------------------------------------------------
\* Whatever failed, was edited and was repaired before, an active mission has exactly the
\* plan saved as launched, a plan reads as launching only while it is assembled, and no
\* member is left with a composition of an earlier identity (launchDraft,
\* repairDraftAdmissions).
ActiveIsThePlan ==
    part = "draft" =>
        D!ActiveIsThePlan /\ D!LaunchingIsAssembled /\ D!NoStaleComposition

\* The request follows its mission, its failure is told to the owner once and never lost,
\* whatever restarts and retried sends come in between (syncStarts, failStart), and an
\* assembly a retry superseded writes neither the draft nor the mission any more
\* (fenceStartDraft, the catch of launchDraft).
FailureIsTold ==
    /\ [](part = "request" =>
            A!JournalFollowsMission /\ A!FailureIsTold /\ A!RecoveryToldOnce)
    /\ [][part = "request" => A!SupersededKeepsOff]_<<part, startVars>>
=============================================================================
