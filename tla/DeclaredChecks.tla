--------------------------- MODULE DeclaredChecks ---------------------------
(***************************************************************************)
(* The declared checks of one review: the assignments that tell its        *)
(* attempts which environment the host checks in, the one or two passes of *)
(* a verification, the rows that record them, and what the verdict makes   *)
(* of them (DeclaredChecks).  How the host runs a pass is CheckHost; here  *)
(* a pass ends with the outcomes of its commands, of which only the last   *)
(* may be a failure, or with an exception.                                 *)
(*                                                                         *)
(* Attempts and calls are numbered.  A call outlives the attempt it was    *)
(* made under; the calls and the process's memory do not outlive a crash.  *)
(***************************************************************************)
EXTENDS Naturals, FiniteSets, SequencesExt

CONSTANTS
    Commands,    \* how many checks the source declares
    Failures,    \* bound: how a command may fail here
    Envs,        \* bound: the environments a pass may run in
    Declared,    \* the environment the adapter declares
    None,        \* no environment
    MaxCalls,    \* bound: verifications of the review
    MaxAttempts, \* bound: attempts of the review
    MaxCrashes   \* bound: restarts of the process

\* The outcomes the host names as not the artifact's own (failureKind).
Unexecuted == {"timeout", "infrastructure", "unrunnable"}

DeclaredChecksConstants ==
    /\ Commands \in Nat \ {0}
    /\ Failures \subseteq Unexecuted \cup {"assertion"}
    /\ Declared \in Envs /\ None \notin Envs
    /\ {MaxCalls, MaxAttempts, MaxCrashes} \subseteq Nat

VARIABLES
    attempt,  \* the attempts so far, and whether the last is still held
    mail,     \* the assignments of the last attempt, oldest first
    calls,    \* the verifications, in the order they began
    rows,     \* the durable tool runs, one per pass recorded
    verdict,  \* what the last verdict came to, and rested on
    crashes

vars == <<attempt, mail, calls, rows, verdict, crashes>>

Calls == DOMAIN calls
Outcomes == {"ok", "assertion"} \cup Unexecuted
Results == UNION {[1 .. k -> Outcomes] : k \in 0 .. Commands}
Passed(results) == \A i \in DOMAIN results : results[i] = "ok"

\* What a pass may end with: all its commands, or those up to the first that
\* fails; one the host could not prepare is its own row.
Passes ==
    {[i \in 1 .. Commands |-> "ok"]} \cup
    {[i \in 1 .. k |-> IF i = k THEN f ELSE "ok"] : k \in 1 .. Commands, f \in Failures}

Init ==
    /\ attempt = [n |-> 0, held |-> FALSE]
    /\ mail = <<>>
    /\ calls = <<>> /\ rows = {} /\ verdict = [outcome |-> "none"] /\ crashes = 0

TypeOK ==
    /\ attempt \in [n : 0 .. MaxAttempts, held : BOOLEAN]
    /\ mail \in Seq([env : {Declared, None}, sent : BOOLEAN])
    /\ \A c \in Calls : calls[c] \in
            [phase : {"authorize", "running", "judge", "decided", "over"}, attempt : 1 .. MaxAttempts,
             pass : {1, 2}, results : Results, env : Envs]
    /\ \A row \in rows : row \in
            [call : Calls, attempt : 1 .. MaxAttempts, pass : {1, 2}, results : Results]
-----------------------------------------------------------------------------
\* An assignment, with the environment unless the adapter reports none.
Letter(env) == [env |-> env, sent |-> FALSE]

Sent(letters) == [i \in DOMAIN letters |-> [letters[i] EXCEPT !.sent = TRUE]]

Assign(env) ==
    /\ ~attempt.held /\ attempt.n < MaxAttempts
    /\ attempt' = [n |-> attempt.n + 1, held |-> TRUE]
    /\ mail' = <<Letter(env)>>
    /\ UNCHANGED <<calls, rows, verdict, crashes>>

\* A budget resume hands the attempt its assignment again (once, here): one still
\* unsent is settled, and the resume replaces it.
Redeliver(env) ==
    /\ attempt.held /\ Len(mail) = 1
    /\ mail' = Append(Sent(mail), Letter(env))
    /\ UNCHANGED <<attempt, calls, rows, verdict, crashes>>

\* The outbox hands the worker what is unsent.
Send ==
    /\ attempt.held /\ mail # Sent(mail)
    /\ mail' = Sent(mail)
    /\ UNCHANGED <<attempt, calls, rows, verdict, crashes>>

\* An expiry, a withdrawal, an amendment or a sibling's verdict ends the attempt.
Fence ==
    /\ attempt.held
    /\ attempt' = [attempt EXCEPT !.held = FALSE]
    /\ UNCHANGED <<mail, calls, rows, verdict, crashes>>
-----------------------------------------------------------------------------
\* These calls have returned.
Over(ended) ==
    [c \in Calls |-> IF c \in ended THEN [calls[c] EXCEPT !.phase = "over", !.results = <<>>, !.env = Declared]
                     ELSE calls[c]]

Holds(c) == attempt.held /\ attempt.n = calls[c].attempt

\* The first section proves the attempt and names the rows to come by it.
Begin ==
    /\ attempt.held /\ Len(calls) < MaxCalls
    /\ calls' = Append(calls, [phase |-> "authorize", attempt |-> attempt.n, pass |-> 1,
                               results |-> <<>>, env |-> Declared])
    /\ UNCHANGED <<attempt, mail, rows, verdict, crashes>>

\* Every pass's checkout is made only after the workspace's authorization is asked
\* again; one that is withdrawn fences the mission's work.
Authorize(c) ==
    /\ calls[c].phase = "authorize"
    /\ \/ /\ calls' = [calls EXCEPT ![c].phase = "running"]
          /\ UNCHANGED attempt
       \/ /\ calls' = Over({c})
          /\ attempt' = [attempt EXCEPT !.held = FALSE]
    /\ UNCHANGED <<mail, rows, verdict, crashes>>

\* The host's rows; its own I/O errors are one (unexecutedCheck).
Run(c) ==
    /\ calls[c].phase = "running"
    /\ \E results \in Passes, env \in Envs :
        calls' = [calls EXCEPT ![c] = [@ EXCEPT !.phase = "judge", !.results = results, !.env = env]]
    /\ UNCHANGED <<attempt, mail, rows, verdict, crashes>>

\* A cancellation, an artifact the host refuses or a record that cannot be written
\* leaves the attempt as it is.
Throw(c) ==
    /\ calls[c].phase \in {"running", "judge", "decided"}
    /\ calls' = Over({c})
    /\ UNCHANGED <<attempt, mail, rows, verdict, crashes>>

Row(c, pass) == [call |-> c, attempt |-> calls[c].attempt, pass |-> pass, results |-> calls[c].results]

\* The failing first pass, under the attempt the caller proved it held.
RecordFirstPass(c) == rows \cup {Row(c, 1)}

\* A pass that fails is recorded and run once more; the second decides.
Judge(c) ==
    /\ calls[c].phase = "judge"
    /\ IF Passed(calls[c].results) \/ calls[c].pass = 2
       THEN /\ calls' = [calls EXCEPT ![c].phase = "decided"]
            /\ UNCHANGED rows
       ELSE /\ rows' = RecordFirstPass(c)
            /\ calls' = [calls EXCEPT ![c] = [@ EXCEPT !.phase = "authorize", !.pass = 2]]
    /\ UNCHANGED <<attempt, mail, verdict, crashes>>

\* The environment delivered with the attempt, if an assignment of it carries one.
Delivered ==
    LET told == {i \in DOMAIN mail : mail[i].env # None}
    IN  IF told = {} THEN None ELSE mail[CHOOSE i \in told : \A j \in told : i <= j].env

\* The fields that must agree do; those that differ on every run are left out.
Compared(envelope, env) == envelope = env

Reproduced(c) == Delivered = None \/ Compared(Delivered, calls[c].env)

RecoveryRequired(results) ==
    LET failing == {i \in DOMAIN results : results[i] # "ok"}
    IN  failing # {} /\ \A i \in failing : results[i] \in Unexecuted

\* Mutant: a failing check always rejects.
OutcomeRejecting(c, asked) ==
    IF asked = "accept" /\ Passed(calls[c].results)
    THEN IF Reproduced(c) THEN "accepted" ELSE "refused"
    ELSE "rejected"

Outcome(c, asked) ==
    LET results == calls[c].results
        passed == asked = "accept" /\ Passed(results)
    IN  IF passed /\ ~Reproduced(c) THEN "refused"
        ELSE IF RecoveryRequired(results) THEN "deferred"
        ELSE IF passed THEN "accepted" ELSE "rejected"

DecidingPass(c) == calls[c].pass

\* The second section: what was proved still holds, and the deciding pass's rows
\* commit with the outcome.  All but the refusal of an environment end the attempt.
Verdict(c, asked) ==
    /\ calls[c].phase = "decided"
    /\ calls' = Over({c})
    /\ IF Holds(c)
       THEN LET outcome == Outcome(c, asked)
                row == Row(c, DecidingPass(c))
            IN  /\ rows' = rows \cup {row}
                /\ verdict' = [outcome |-> outcome, asked |-> asked, results |-> calls[c].results,
                                env |-> calls[c].env, told |-> {mail[i].env : i \in DOMAIN mail}]
                /\ attempt' = [attempt EXCEPT !.held = outcome = "refused"]
       ELSE UNCHANGED <<rows, verdict, attempt>>
    /\ UNCHANGED <<mail, crashes>>

\* The process is lost, and the next one re-pends the attempt.
Crash ==
    /\ crashes < MaxCrashes
    /\ crashes' = crashes + 1
    /\ attempt' = [attempt EXCEPT !.held = FALSE]
    /\ calls' = Over(Calls)
    /\ UNCHANGED <<mail, rows, verdict>>

Next ==
    \/ \E env \in {Declared, None} : Assign(env) \/ Redeliver(env)
    \/ Send \/ Fence \/ Begin \/ Crash
    \/ \E c \in Calls :
        \/ Authorize(c) \/ Run(c) \/ Throw(c) \/ Judge(c)
        \/ \E asked \in {"accept", "reject"} : Verdict(c, asked)

Spec == Init /\ [][Next]_vars
-----------------------------------------------------------------------------
\* A retry has its failing first pass on the record of its own call and attempt,
\* whatever was fenced or lost while it ran, and no single pass is called a retry
\* (recordFirstPass, recordRuns).
RetryOnRecord ==
    LET Failed(c, a) == \E row \in rows :
            row.call = c /\ row.attempt = a /\ row.pass = 1 /\ ~Passed(row.results)
    IN  /\ \A c \in Calls : calls[c].pass = 2 => Failed(c, calls[c].attempt)
        /\ \A row \in rows : row.pass = 2 => Failed(row.call, row.attempt)

\* Work is accepted only on a whole passing pass, in every environment its reviewer
\* was told it is checked in; it is rejected by the reviewer or by a failure of its
\* own, never by the host's (reproduce, recoveryRequired).
VerdictFounded ==
    /\ verdict.outcome = "accepted" =>
        /\ Passed(verdict.results) /\ Len(verdict.results) = Commands
        /\ verdict.told \subseteq {None, verdict.env}
    /\ verdict.outcome = "rejected" =>
        IF Passed(verdict.results) THEN verdict.asked = "reject"
        ELSE Last(verdict.results) \notin Unexecuted

\* The worker of an attempt is never owed two assignments (redeliverAssignment).
OneAssignmentOwed ==
    attempt.held => \A i, j \in DOMAIN mail : mail[i].sent \/ mail[j].sent \/ i = j
=============================================================================
