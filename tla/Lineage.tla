------------------------------ MODULE Lineage -------------------------------
(***************************************************************************)
(* The life of a mission's plan: work is proposed, repaired, judged,       *)
(* challenged, withdrawn and reworked, and the mission completes and       *)
(* delivers one artifact.                                                  *)
(*                                                                         *)
(* One step is one committed transition of the runtime.  A task's verdict  *)
(* is one step here: its reviews, and the checks a verdict runs, are       *)
(* Review's.  The attempts under a running task are TaskRow's: a stop that *)
(* is owed is only the outcome it leads to.                                *)
(***************************************************************************)
EXTENDS TaskGraph

\* A mission as it is created: what its first, second, ... proposal may be (kind,
\* deps, replaces, covers), its acceptance criteria, task.maxRework and the bound on
\* the owner's dependency amendments.
CONSTANT Missions

LineageConstants ==
    \A m \in Missions :
        /\ m.rework \in Nat /\ m.amends \in Nat
        /\ \A i \in DOMAIN m.proposals : \A p \in m.proposals[i] : p.covers \subseteq m.criteria

VARIABLES
    mission,    \* the mission; it never changes
    rows,       \* the task rows, in creation order
    content,    \* of each task, the submissions its worktree merged
    amends,     \* the dependency amendments made
    delivered   \* the task a completed mission delivers, 0 while it runs

MaxTasks == Len(mission.proposals)  \* mission.budget.maxTasks

vars == <<mission, rows, content, amends, delivered>>

Rows == DOMAIN rows
Active == delivered = 0

NewRow(p) ==
    [kind |-> p.kind, deps |-> p.deps, replaces |-> p.replaces, covers |-> p.covers,
     status |-> "pending", stop |-> "none", artifact |-> FALSE, refuted |-> FALSE, round |-> 1]

Row ==
    [kind : {"implementation", "integration"}, deps : SUBSET (1 .. MaxTasks),
     replaces : SUBSET (1 .. MaxTasks), covers : SUBSET mission.criteria,
     status : {"pending", "running", "submitted", "accepted", "blocked", "cancelled"},
     stop : {"none", "handoff", "invalidated"}, artifact : BOOLEAN, refuted : BOOLEAN,
     round : 1 .. mission.rework + 1]

TypeOK ==
    /\ mission \in Missions
    /\ rows \in Seq(Row)
    /\ Len(rows) <= MaxTasks
    /\ content \in [1 .. MaxTasks -> SUBSET ((1 .. MaxTasks) \X (1 .. mission.rework + 1))]
    /\ amends \in 0 .. mission.amends
    /\ delivered \in 0 .. Len(rows)

Init ==
    /\ mission \in Missions
    /\ rows = <<>>
    /\ content = [t \in 1 .. MaxTasks |-> {}]
    /\ amends = 0
    /\ delivered = 0

\* fenceForStop: the open attempt of a running task owes a stop, and a stop
\* already owed is kept, its outcome strengthened to an invalidation.
Fenced(row, status, reason) ==
    [row EXCEPT
        !.status = status,
        !.stop = IF row.status = "running" THEN reason
                 ELSE IF row.stop # "none" /\ reason = "invalidated" THEN "invalidated"
                 ELSE row.stop]

\* A repair is admitted of closed work that no live task carries.
Repairable(t, kind, deps) ==
    /\ rows[t].status \in Closed
    /\ LiveReplacement(rows, t) = 0
    /\ \A u \in ReplacedLineage(rows, t) \ {t} :
        rows[u].status = "cancelled" \/ (rows[u].status = "blocked" /\ rows[u].stop = "none")
    /\ rows[t].status = "cancelled" \/ rows[t].stop = "none"
    /\ rows[t].kind = kind
    /\ t \notin deps

Propose(p) ==
    /\ Active
    /\ p.deps \cup p.replaces \subseteq Rows
    /\ \A d \in p.deps : EffectiveStatus(rows, d) \notin Closed
    /\ \A t \in p.replaces : Repairable(t, p.kind, p.deps)
    /\ AdmissibleGraph(Append(rows, NewRow(p)), Len(rows) + 1)
    /\ rows' = Append(rows, NewRow(p))
    /\ UNCHANGED <<mission, content, amends, delivered>>

\* An attempt opens on ready work; its worktree merges the submission of each
\* effective dependency, with everything that one merged.
Start(t) ==
    /\ Active
    /\ rows[t].status = "pending"
    /\ rows[t].stop = "none"
    /\ DependenciesMet(rows, rows[t].deps)
    /\ rows' = [rows EXCEPT ![t].status = "running"]
    /\ content' = [content EXCEPT ![t] = @ \cup UNION
            {content[u] \cup {<<u, rows[u].round>>} :
                u \in {Effective(rows, d) : d \in rows[t].deps}}]
    /\ UNCHANGED <<mission, amends, delivered>>

\* A handoff or an expired lease: the attempt is fenced and its task waits for the stop.
Release(t) ==
    /\ rows[t].status = "running"
    /\ rows' = [rows EXCEPT ![t] = Fenced(@, "blocked", "handoff")]
    /\ UNCHANGED <<mission, content, amends, delivered>>

\* The stop is confirmed: a handed-off task waits again, or stays blocked when
\* its own causes hold it; an invalidated or a cancelled one keeps its status.
Settle(t) ==
    /\ rows[t].stop # "none"
    /\ \E s \in IF rows[t].stop = "handoff" /\ rows[t].status = "blocked"
                THEN {"pending", "blocked"} ELSE {rows[t].status} :
        rows' = [rows EXCEPT ![t].stop = "none", ![t].status = s]
    /\ UNCHANGED <<mission, content, amends, delivered>>

\* A submission needs every prerequisite still met, as every tool call does.
Submit(t) ==
    /\ Active
    /\ rows[t].status = "running"
    /\ DependenciesMet(rows, rows[t].deps)
    /\ rows' = [rows EXCEPT ![t].status = "submitted", ![t].artifact = TRUE]
    /\ UNCHANGED <<mission, content, amends, delivered>>

\* The lineage an accepted repair closes (retireReplacedLineage).
Retired(r, t) ==
    [u \in DOMAIN r |->
        IF /\ u \in ReplacedLineage(r, t) \ {t}
           /\ r[u].status \in {"blocked", "pending"}
           /\ r[u].stop = "none"
        THEN [r[u] EXCEPT !.status = "cancelled"] ELSE r[u]]

Accept(t) ==
    /\ Active
    /\ rows[t].status = "submitted"
    /\ rows' = Retired([rows EXCEPT ![t].status = "accepted"], t)
    /\ UNCHANGED <<mission, content, amends, delivered>>

Reject(t) ==
    /\ Active
    /\ rows[t].status = "submitted"
    /\ rows' = [rows EXCEPT ![t].status = "blocked", ![t].refuted = TRUE]
    /\ UNCHANGED <<mission, content, amends, delivered>>

\* Mutant: a challenge reopens the work and leaves its dependents.
InvalidatedAlone(r0, t) == r0

\* Mutant: the dependents a challenge fences name the challenged task themselves.
InvalidatedNamed(r0, t) ==
    [d \in DOMAIN r0 |->
        IF t \in r0[d].deps /\ r0[d].status \notin {"cancelled", "pending"}
        THEN Fenced(r0[d], "blocked", "invalidated") ELSE r0[d]]

\* What a challenge of task t invalidates: every dependent its lineage reaches,
\* asked again of the rows as they are fenced.
Invalidated(r0, t) ==
    LET hit(r, S) ==
            {d \in DOMAIN r \ S : \E dep \in r[d].deps : ToSet(Lineage(r, dep)) \cap S # {}}
        fence(r, D) ==
            [d \in DOMAIN r |->
                IF d \in D /\ r[d].status \notin {"cancelled", "pending"}
                THEN Fenced(r[d], "blocked", "invalidated") ELSE r[d]]
        pass[i \in 0 .. Len(r0)] ==
            IF i = 0 THEN [r |-> r0, S |-> {t}]
            ELSE LET p == pass[i - 1]
                     D == hit(p.r, p.S)
                 IN  [r |-> fence(p.r, D), S |-> p.S \cup D]
    IN  pass[Len(r0)].r

\* A challenge of a claim of submitted or accepted work no verdict refuted.
Challenge(t) ==
    /\ Active
    /\ rows[t].artifact
    /\ rows[t].status # "cancelled"
    /\ ~rows[t].refuted
    /\ rows' = Invalidated([rows EXCEPT ![t].status = IF @ = "accepted" THEN "submitted" ELSE @], t)
    /\ UNCHANGED <<mission, content, amends, delivered>>

Cancel(t) ==
    /\ Active
    /\ rows[t].status \notin Terminal
    /\ rows' = [rows EXCEPT ![t] = Fenced(@, "cancelled", "handoff")]
    /\ UNCHANGED <<mission, content, amends, delivered>>

\* Owner control of a task acts on the carrier of its obligation.
Controllable(t) ==
    /\ Active
    /\ rows[t].status \notin Terminal
    /\ Carrier(rows, t) = t

\* An owner resume: rejected work is reworked in place, work blocked without an
\* artifact waits again, and an invalidated stop now ends in a retry.
Resume(t) ==
    /\ Controllable(t)
    /\ rows[t].status = "blocked"
    /\ LET rework == [rows EXCEPT ![t].status = "pending", ![t].artifact = FALSE,
                                  ![t].refuted = FALSE, ![t].round = @ + 1]
           retry == [rows EXCEPT ![t].status = "pending"]
           owed == [rows EXCEPT ![t].stop = "handoff"]
       IN  \/ /\ rows[t].stop = "none"
              /\ rows[t].refuted
              /\ rows[t].round <= mission.rework
              /\ AdmissibleGraph(rework, t)
              /\ rows' = rework
           \/ /\ rows[t].stop = "none"
              /\ ~rows[t].artifact
              /\ AdmissibleGraph(retry, t)
              /\ rows' = retry
           \/ /\ rows[t].stop = "invalidated"
              /\ ~rows[t].artifact
              /\ AdmissibleGraph(retry, t)
              /\ rows' = owed
    /\ UNCHANGED <<mission, content, amends, delivered>>

\* Mutant: an amendment leaves the open attempt to go on.
AmendUnfenced(t, deps) ==
    /\ Controllable(t)
    /\ amends < mission.amends
    /\ ~rows[t].artifact
    /\ rows' = [rows EXCEPT ![t].deps = deps]
    /\ amends' = amends + 1
    /\ UNCHANGED <<mission, content, delivered>>

\* An owner amendment of the dependencies of work that holds no artifact: an
\* open attempt is fenced and blocked work waits again.
Amend(t, deps) ==
    /\ Controllable(t)
    /\ amends < mission.amends
    /\ ~rows[t].artifact
    /\ LET next == [rows EXCEPT ![t].deps = deps]
           asked == [next EXCEPT ![t].status = "pending"]
       IN  /\ AdmissibleGraph(asked, t)
           /\ rows' = IF rows[t].status = "running"
                      THEN [next EXCEPT ![t] = Fenced(@, "blocked", "handoff")]
                      ELSE IF rows[t].stop # "none" THEN [next EXCEPT ![t].stop = "handoff"]
                      ELSE asked
    /\ amends' = amends + 1
    /\ UNCHANGED <<mission, content, delivered>>

\* completionError finds nothing: everything is settled, the accepted work covers
\* the criteria, and there is one artifact to deliver.
Completable ==
    /\ rows # <<>>
    /\ \A t \in Rows : rows[t].status \in Terminal
    /\ mission.criteria \subseteq UNION {CriteriaOf(rows, t) : t \in {u \in Rows : rows[u].status = "accepted"}}
    /\ (\E t \in Rows : rows[t].status # "cancelled") => SelectAcceptedDelivery(rows) # 0

Complete ==
    /\ Active
    /\ Completable
    /\ delivered' = SelectAcceptedDelivery(rows)
    /\ UNCHANGED <<mission, rows, content, amends>>

Next ==
    \/ Len(rows) < MaxTasks /\ \E p \in mission.proposals[Len(rows) + 1] : Propose(p)
    \/ \E t \in Rows :
        \/ Start(t) \/ Release(t) \/ Settle(t) \/ Submit(t)
        \/ Accept(t) \/ Reject(t) \/ Challenge(t) \/ Cancel(t) \/ Resume(t)
        \/ \E deps \in SUBSET (Rows \ {t}) : Amend(t, deps)
    \/ Complete

Spec == Init /\ [][Next]_vars
-----------------------------------------------------------------------------
\* A replaced task never runs, waits for a verdict or stands accepted beside an
\* accepted repair of it ("Admission keeps a replaced task from running beside its
\* repair", SwarmRuntime.retireReplacedLineage).
NoDuplicateCarrier ==
    \A t \in Rows : rows[t].status = "accepted" =>
        \A u \in ReplacedLineage(rows, t) \ {t} : rows[u].status \in Closed

\* Live and accepted work rests on accepted prerequisites: whatever is challenged,
\* repaired or withdrawn after it started, every obligation it names keeps an
\* accepted carrier, or the task was fenced (SwarmRuntime.challenge).
RestsOnAccepted ==
    \A t \in Rows : rows[t].status \in {"running", "submitted", "accepted"} =>
        \A d \in rows[t].deps : AcceptedFrontier(rows, d) # {}

\* A challenge that reopens accepted work stops everything that merged it for an
\* obligation it still names: "is prepared with the repair's artifact, and is
\* invalidated when that repair is challenged" (docs/design.md).
MergedWorkFenced ==
    [][\A u \in Rows : rows[u].status = "accepted" /\ rows'[u].status = "submitted" =>
        \A t \in Rows :
            /\ <<u, rows[u].round>> \in content[t]
            /\ \E d \in rows[t].deps : u \in Reach(ReplacedBy(rows), d)
            => rows'[t].status \in {"pending", "blocked", "cancelled"}]_vars

\* The delivered artifact physically holds the accepted submission of every
\* implementation: what covers says of the rows is true of what the worktrees
\* merged (TaskGraphIndex.covers, selectAcceptedDelivery).
DeliversAcceptedContent ==
    delivered # 0 =>
        \A s \in Accepted(rows, "implementation") \ {delivered} :
            <<s, rows[s].round>> \in content[delivered]

\* Whom a pending task of rs waits for, and the pending tasks that wait on each other.
WaitsOn(rs) ==
    LET pending == {t \in DOMAIN rs : rs[t].status = "pending"}
    IN  [t \in DOMAIN rs |-> IF t \in pending
                             THEN {Effective(rs, d) : d \in rs[t].deps} \cap pending ELSE {}]
Ring(rs) ==
    LET waits == WaitsOn(rs)
    IN  {t \in DOMAIN rs : \E u \in waits[t] : t \in Reach(waits, u)}

\* When no task runs, awaits a verdict, waits for a stop or may start, every unfinished
\* task is one the board names unschedulable, or is in a ring or waits behind one.
StallNamedOrRing ==
    \/ \E t \in Rows :
        \/ rows[t].status \in {"running", "submitted"}
        \/ rows[t].stop # "none"
        \/ rows[t].status = "pending" /\ DependenciesMet(rows, rows[t].deps)
    \/ LET unnamed == {t \in Rows : rows[t].status \notin Terminal} \ Unschedulable(rows)
       IN  \A t \in unnamed : Reach(WaitsOn(rows), t) \cap Ring(rows) # {}

\* No plan, repair, withdrawal, resume or amendment closes a ring itself
\* (assertEffectiveTaskGraph): one appears only where a stop of work in it is confirmed,
\* and only through work in it that has a withdrawn repair (see NoPendingCycle).
RingsOnlySettled ==
    [][rows' # rows /\ Ring(rows') # {} /\ Ring(rows) = {} =>
        /\ \E t \in Ring(rows') \cap Rows : rows[t].stop # "none" /\ rows'[t].stop = "none"
        /\ \E t \in Ring(rows') \cap Rows :
               \E u \in ReplacedBy(rows)[t] : rows[u].status = "cancelled"]_vars

\* No stall is silent but behind such a ring.
StallDiagnosed == []StallNamedOrRing /\ RingsOnlySettled

\* Pending tasks never wait on each other in a ring: "Every newly introduced cycle
\* must be reachable from the candidate" (assertEffectiveTaskGraph).
NoPendingCycle == Ring(rows) = {}
=============================================================================
