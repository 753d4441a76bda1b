---------------------------- MODULE UsageLedger -----------------------------
(***************************************************************************)
(* How the tokens a worker's session log holds reach the mission's pool:   *)
(* src/harness-workers.ts counts the log and hands cumulative totals to    *)
(* usageSnapshot of src/gates.ts, which charges the difference to a        *)
(* watermark.  The log is written to disk by flushes, the watermark is a   *)
(* row of the store, and a crash may fall between the two.  A session log  *)
(* that is gone restarts at zero under a new generation.                   *)
(***************************************************************************)
EXTENDS Naturals, FiniteSets, FiniteSetsExt

CONSTANTS
    Members,     \* workers
    Charges,     \* what one model response may cost
    MaxTotal,    \* bound on one log's total
    MaxGen,      \* bound on session generations
    Legacy       \* members whose row and log predate generations

ASSUME LedgerBounds ==
    /\ Members # {} /\ Charges # {} /\ Charges \subseteq Nat \ {0}
    /\ MaxTotal \in Nat /\ MaxGen \in Nat \ {0}
    /\ Legacy \subseteq Members

VARIABLES
    saved,       \* members whose session log exists on disk
    flushed,     \* the total the log on disk holds
    total,       \* resident.totalTokens
    gen,         \* composition.usageGeneration, 0 when it has none
    up,          \* members with a live resident
    obs,         \* observations in flight
    mark,        \* member.usageSession; generation 0 when it has none
    life,        \* member.accountedTokens
    used,        \* mission.usedTokens
    spent        \* history: what each member's logs ever held on disk

vars == <<saved, flushed, total, gen, up, obs, mark, life, used, spent>>

Of(m) == {o \in obs : o.m = m}
Larger(a, b) == IF a > b THEN a ELSE b
Over(a, b) == IF a > b THEN a - b ELSE 0

(* A legacy row was charged some prefix of its log; the log's generation   *)
(* is not known yet.                                                       *)
Init ==
    /\ saved = Legacy /\ up = {} /\ obs = {}
    /\ \E n \in {f \in [Members -> 0..1] : \A m \in Members \ Legacy : f[m] = 0} :
         /\ life = n /\ used = MapThenSumSet(LAMBDA m : n[m], Members)
    /\ flushed = [m \in Members |-> IF m \in Legacy THEN 1 ELSE 0]
    /\ spent = flushed /\ total = [m \in Members |-> 0]
    /\ gen = [m \in Members |-> 0]
    /\ mark = [m \in Members |-> [gen |-> 0, at |-> 0]]

-----------------------------------------------------------------------------
(* usageSnapshot: the watermark this observation is measured from.         *)
Migrates(m, restored) == mark[m].gen = 0 /\ restored

Watermark(m, g, restored) ==
    IF mark[m].gen = g THEN mark[m].at
    ELSE IF Migrates(m, restored) THEN life[m] ELSE 0

(* A retired generation's observation writes nothing, a replayed total     *)
(* charges nothing.                                                        *)
Account(m, g, n, restored) ==
    IF g < mark[m].gen THEN UNCHANGED <<mark, life, used>>
    ELSE LET from == Watermark(m, g, restored)
             delta == Over(n, from)
         IN /\ mark' = [mark EXCEPT ![m] = [gen |-> g, at |-> Larger(from, n)]]
            /\ life' = [life EXCEPT ![m] = @ + delta]
            /\ used' = used + delta

-----------------------------------------------------------------------------
(* A log about to be created takes the next generation, written before the *)
(* log exists; a log without one takes its watermark's, or a first.        *)
Generation(m) ==
    IF m \in saved THEN Larger(gen[m], Larger(mark[m].gen, 1))
    ELSE Larger(gen[m], mark[m].gen) + 1

(* The process dies after the write and before the log: a generation is    *)
(* skipped.                                                                *)
DiesOpening(m) ==
    /\ m \notin up /\ Generation(m) <= MaxGen
    /\ gen' = [gen EXCEPT ![m] = Generation(m)]
    /\ UNCHANGED <<saved, flushed, total, up, obs, mark, life, used, spent>>

(* The activation counts the log it resumed and reconciles it before the   *)
(* worker may publish anything.                                            *)
Reconcile(m) == Account(m, Generation(m), flushed[m], m \in saved)

Activate(m) ==
    /\ m \notin up /\ Generation(m) <= MaxGen
    /\ gen' = [gen EXCEPT ![m] = Generation(m)]
    /\ up' = up \cup {m} /\ saved' = saved \cup {m}
    /\ total' = [total EXCEPT ![m] = flushed[m]]
    /\ Reconcile(m)
    /\ UNCHANGED <<flushed, obs, spent>>

(* A model response, or the summary request of a compaction, is charged.   *)
Respond(m) ==
    /\ m \in up
    /\ \E c \in Charges :
         /\ total[m] + c <= MaxTotal
         /\ total' = [total EXCEPT ![m] = @ + c]
         /\ obs' = obs \cup {[m |-> m, gen |-> gen[m], at |-> total[m] + c, flushed |-> FALSE]}
    /\ UNCHANGED <<saved, flushed, gen, up, mark, life, used, spent>>

OnDisk(m) ==
    /\ flushed' = [flushed EXCEPT ![m] = total[m]]
    /\ spent' = [spent EXCEPT ![m] = @ + total[m] - flushed[m]]

(* "The source total must survive a crash before SQLite accounts it."      *)
Flush(o) ==
    /\ ~o.flushed
    /\ OnDisk(o.m)
    /\ obs' = (obs \ {o}) \cup {[o EXCEPT !.flushed = TRUE]}
    /\ UNCHANGED <<saved, total, gen, up, mark, life, used>>

(* Mutant: the total is accounted without waiting for the flush.           *)
AccountableAtOnce(o) == TRUE
Accountable(o) == o.flushed

Observe(o) ==
    /\ Accountable(o)
    /\ obs' = obs \ {o}
    /\ Account(o.m, o.gen, o.at, TRUE)
    /\ UNCHANGED <<saved, flushed, total, gen, up, spent>>

Drained(m) == Of(m) = {}

(* A resident ends once its observations are drained; the log is written.  *)
End(m) ==
    /\ m \in up /\ Drained(m)
    /\ up' = up \ {m}
    /\ OnDisk(m)
    /\ UNCHANGED <<saved, total, gen, obs, mark, life, used>>

(* The host died: what was not flushed is gone, and was never charged.     *)
Crash ==
    /\ up # {}
    /\ up' = {} /\ obs' = {}
    /\ total' = [m \in Members |-> 0]
    /\ UNCHANGED <<saved, flushed, gen, mark, life, used, spent>>

(* The session log of a stopped worker is gone: the next one starts anew,  *)
(* and what the lost log held unaccounted can no longer be charged.        *)
LogLost(m) ==
    /\ m \in saved /\ m \notin up /\ gen[m] # 0
    /\ spent' = [spent EXCEPT ![m] = life[m]]
    /\ saved' = saved \ {m}
    /\ flushed' = [flushed EXCEPT ![m] = 0]
    /\ UNCHANGED <<total, gen, up, obs, mark, life, used>>

Next ==
    \/ \E m \in Members : DiesOpening(m) \/ Activate(m) \/ Respond(m) \/ End(m) \/ LogLost(m)
    \/ \E o \in obs : Flush(o) \/ Observe(o)
    \/ Crash

Spec == Init /\ [][Next]_vars

-----------------------------------------------------------------------------
(* Records are well formed, and the pool is the sum of its members.        *)
TypeOK ==
    /\ saved \subseteq Members /\ up \subseteq saved
    /\ flushed \in [Members -> Nat] /\ total \in [Members -> Nat]
    /\ gen \in [Members -> 0..MaxGen]
    /\ \A m \in Members : mark[m].gen <= gen[m]
    /\ \A o \in obs : o.m \in up
    /\ used = MapThenSumSet(LAMBDA m : life[m], Members)

(* No token is charged twice, and none that a crash took back from the     *)
(* log: across observations out of order, restarts and new generations a   *)
(* member is charged at most what its logs ever held on disk.              *)
NeverOvercharged == \A m \in Members : life[m] <= spent[m]

(* Nothing the log holds escapes the pool: whenever a worker is up and its *)
(* observations have settled, every token its logs held was charged, the   *)
(* ones before a crash or under an earlier generation included.            *)
SettledIsCharged ==
    \A m \in Members : (m \in up /\ Of(m) = {}) => life[m] = spent[m]
=============================================================================
