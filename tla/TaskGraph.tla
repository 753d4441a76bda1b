----------------------------- MODULE TaskGraph ------------------------------
(***************************************************************************)
(* The task graph: the functions src/task-graph.ts computes over the task  *)
(* rows of one mission.                                                    *)
(*                                                                         *)
(* Rows are a sequence in creation order, so a task's id is its place and  *)
(* the oldest of some tasks is the one with the least id.  A row names its *)
(* kind, its status, its dependencies, the tasks it replaces and the       *)
(* mission criteria it covers.                                             *)
(***************************************************************************)
EXTENDS Naturals, FiniteSets, SequencesExt

Terminal == {"accepted", "cancelled"}
Closed == {"blocked", "cancelled"}
Waiting == {"pending", "running", "submitted"}

Oldest(T) == CHOOSE t \in T : \A u \in T : t <= u

Reach(next, id) ==
    LET reach[i \in 0 .. Cardinality(DOMAIN next)] ==
            IF i = 0 THEN {id}
            ELSE UNION {{t} \cup next[t] : t \in reach[i - 1]}
    IN  reach[Cardinality(DOMAIN next)]

\* Reach in order: breadth first from id, no task twice.
Walk(next, id) ==
    LET n == Cardinality(DOMAIN next)
        queue[i \in 0 .. n] ==
            IF i = 0 THEN <<id>>
            ELSE LET q == queue[i - 1] IN
                 IF i > Len(q) THEN q
                 ELSE q \o SetToSortSeq(next[q[i]] \ ToSet(q), <)
    IN  queue[n]

ReplacedBy(rows) ==
    [t \in DOMAIN rows |-> {r \in DOMAIN rows : t \in rows[r].replaces}]

\* The replacements of id, direct and transitive, nearest first.
ReplacementDescendants(rows, id) == Tail(Walk(ReplacedBy(rows), id))

\* The first of them that is not cancelled; none is 0.
LiveReplacement(rows, id) ==
    LET live == SelectSeq(ReplacementDescendants(rows, id),
                          LAMBDA t : rows[t].status # "cancelled")
    IN  IF live = <<>> THEN 0 ELSE Head(live)

\* The task that carries the obligation of id now.
Carrier(rows, id) ==
    LET step[i \in 0 .. Len(rows)] ==
            IF i = 0 THEN id
            ELSE LET t == step[i - 1]
                     next == LiveReplacement(rows, t)
                 IN  IF next = 0 THEN t ELSE next
    IN  step[Len(rows)]

ReplacedLineage(rows, id) == Reach([t \in DOMAIN rows |-> rows[t].replaces], id)

\* The replacements an obligation passes to: of the same kind, from closed work.
Passes(rows) ==
    [t \in DOMAIN rows |->
        IF rows[t].status \in Closed
        THEN {r \in ReplacedBy(rows)[t] : rows[r].kind = rows[t].kind}
        ELSE {}]

AcceptedFrontier(rows, id) ==
    {t \in Reach(Passes(rows), id) : rows[t].status = "accepted"}

\* The next task of the chain from closed work t: towards the accepted repair
\* when there is one, else the oldest live replacement, else the oldest closed.
NextCarrier(rows, t, candidates) ==
    LET accepted == AcceptedFrontier(rows, t)
        toward == {c \in candidates : accepted \cap AcceptedFrontier(rows, c) # {}}
        live == {c \in candidates : rows[c].status \in Waiting}
        closed == {c \in candidates : rows[c].status \in Closed}
    IN  CASE toward # {} -> Oldest(toward)
          [] toward = {} /\ live # {} -> Oldest(live)
          [] toward = {} /\ live = {} /\ closed # {} -> Oldest(closed)
          [] OTHER -> 0

Ambiguous(rows, t) ==
    rows[t].status \in Closed /\ Cardinality(AcceptedFrontier(rows, t)) > 1

\* The chain from id; it stops where two accepted repairs claim the obligation,
\* and the code ends it there with a row of the same id that reads blocked.
Lineage(rows, id) ==
    LET chain[i \in 0 .. Len(rows)] ==
            IF i = 0 THEN <<id>>
            ELSE LET p == chain[i - 1]
                     t == Last(p)
                     next == NextCarrier(rows, t, Passes(rows)[t] \ ToSet(p))
                 IN  IF Len(p) < i \/ rows[t].status \notin Closed \/ Ambiguous(rows, t) \/ next = 0
                     THEN p
                     ELSE Append(p, next)
    IN  chain[Len(rows)]

Effective(rows, id) == Last(Lineage(rows, id))

EffectiveStatus(rows, id) ==
    LET t == Effective(rows, id)
    IN  IF Ambiguous(rows, t) THEN "blocked" ELSE rows[t].status

DependencyMet(rows, id) == EffectiveStatus(rows, id) = "accepted"

DependenciesMet(rows, deps) == \A d \in deps : DependencyMet(rows, d)

\* The obligations of id that its endpoint answers for: every task on a path to
\* an accepted endpoint, the chain otherwise.
Identities(rows, id) ==
    IF DependencyMet(rows, id)
    THEN {t \in Reach(Passes(rows), id) : Effective(rows, id) \in Reach(Passes(rows), t)}
    ELSE ToSet(Lineage(rows, id))

\* The tasks whose content a task's own merge brings in.
ContentEdges(rows) ==
    [t \in DOMAIN rows |-> {Effective(rows, d) : d \in {e \in rows[t].deps : DependencyMet(rows, e)}}]

Covers(rows, task, source) ==
    \E t \in Reach(ContentEdges(rows), task) : \E d \in rows[t].deps :
        DependencyMet(rows, d) /\ source \in Identities(rows, d)

CriteriaOf(rows, id) == UNION {rows[t].covers : t \in ReplacedLineage(rows, id)}

Accepted(rows, kind) ==
    {t \in DOMAIN rows : rows[t].kind = kind /\ rows[t].status = "accepted"}

\* The task a mission delivers, 0 when there is no unique one.
SelectAcceptedDelivery(rows) ==
    LET implementations == Accepted(rows, "implementation")
        whole == {t \in Accepted(rows, "integration") :
                    \A s \in implementations : Covers(rows, t, s)}
        final == {t \in whole : \A o \in whole \ {t} : ~Covers(rows, o, t)}
        candidates ==
            IF \E t \in DOMAIN rows : rows[t].kind = "integration" /\ rows[t].status # "cancelled"
            THEN final
            ELSE implementations
    IN  IF Cardinality(candidates) = 1 THEN Oldest(candidates) ELSE 0

\* Mutant: the declared edges are asked, not the tasks that carry them.
AdmissibleGraphDeclared(rows, id) ==
    LET edges == [t \in DOMAIN rows |-> rows[t].deps]
    IN  \A t \in Reach(edges, id) : \A u \in edges[t] : t \notin Reach(edges, u)

\* No effective edge reachable from id closes a cycle (assertEffectiveTaskGraph).
AdmissibleGraph(rows, id) ==
    LET edges == [t \in DOMAIN rows |->
                    IF rows[t].status \in Waiting \/ (rows[t].status = "blocked" /\ rows[t].stop # "none")
                    THEN {Effective(rows, d) : d \in rows[t].deps} ELSE {}]
    IN  \A t \in Reach(edges, id) : \A u \in edges[t] : t \notin Reach(edges, u)

\* Blocked work no stop is pending on, and the pending work that waits on it.
Unschedulable(rows) ==
    LET pending == {t \in DOMAIN rows : rows[t].status = "pending"}
        waits == [t \in DOMAIN rows |->
                    IF t \in pending THEN {Effective(rows, d) : d \in rows[t].deps} ELSE {}]
        held == {t \in DOMAIN rows : rows[t].status = "blocked" /\ rows[t].stop = "none"}
        lost == {t \in pending : \E d \in rows[t].deps : EffectiveStatus(rows, d) = "cancelled"}
    IN  held \cup {t \in pending : Reach(waits, t) \cap (held \cup lost) # {}}
=============================================================================
