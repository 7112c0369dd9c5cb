----------------------------- MODULE Leadership -----------------------------
(***************************************************************************)
(* Who runs the cluster tick (ADR 0078): the asyncio task of each API       *)
(* process (_run_cluster_loop, _run_leader_tick, _run_cluster_tick), the    *)
(* worker thread that runs a phase for it, and the advisory lock that       *)
(* PostgresSchedulerLeadership takes on a connection of its own.            *)
(*                                                                          *)
(* The lock belongs to a session of the database, the connection to the     *)
(* process; each may be gone before the other side knows.  What a phase     *)
(* does with the tables is the subject of InProcess.                        *)
(***************************************************************************)
EXTENDS Naturals, FiniteSets

CONSTANTS Process,      \* API processes on one database
          First,        \* the process that leads at first
          Nobody,       \* no session holds the lock
          MaxFailures   \* bound on shutdowns, crashes, lost connections and host faults

ASSUME FirstAssumption == First \in Process
ASSUME NobodyAssumption == Nobody \notin Process
ASSUME MaxFailuresAssumption == MaxFailures \in Nat

VARIABLES
    holder,    \* the process whose session holds the lock, or Nobody
    conn,      \* Process -> its lock connection, as it is
    stage,     \* Process -> what its worker thread runs
    loop,      \* Process -> is the asyncio task alive?
    failures,  \* shutdowns, crashes, lost connections and host faults so far
    parted     \* history: processes that lost or gave up the lock in this tick

leaderVars == <<holder, conn, stage, loop, failures, parted>>

\* cluster and reconcile are the two phases of a tick.
Stage == {"asleep", "cluster", "reconcile"}

LeaderTypeOK ==
    /\ holder \in Process \cup {Nobody}
    /\ conn \in [Process -> {"none", "open", "broken"}]
    /\ stage \in [Process -> Stage]
    /\ loop \in [Process -> BOOLEAN]
    /\ failures \in 0 .. MaxFailures
    /\ parted \in SUBSET Process

LeaderInit ==
    /\ holder = First
    /\ conn = [p \in Process |-> IF p = First THEN "open" ELSE "none"]
    /\ stage = [p \in Process |-> "asleep"]
    /\ loop = [p \in Process |-> TRUE]
    /\ failures = 0
    /\ parted = {}

Ticking(p) == stage[p] \in {"cluster", "reconcile"}
Counted == failures < MaxFailures /\ failures' = failures + 1
To(p, s) == stage' = [stage EXCEPT ![p] = s]
Freed(p) == IF holder = p THEN Nobody ELSE holder
-----------------------------------------------------------------------------
\* _run_leader_tick: try_acquire answers, under its guard, and the tick begins.
Asks(p) == stage[p] = "asleep" /\ loop[p]
Begin(p) ==
    /\ To(p, "cluster")
    /\ parted' = parted \ {p}

\* Mutant: an open connection is trusted without a ping.
MutPinged(p) == conn[p] # "none"
\* _still_connected
Pinged(p) == conn[p] = "open"

StillLeads(p) ==
    /\ Asks(p)
    /\ Pinged(p)
    /\ Begin(p)
    /\ UNCHANGED <<holder, conn, loop, failures>>

\* _take_lock on a new connection, the broken one closed: pg_try_advisory_lock
\* finds the lock free.
TakeLock(p) ==
    /\ Asks(p)
    /\ ~Pinged(p)
    /\ holder = Nobody
    /\ holder' = p
    /\ conn' = [conn EXCEPT ![p] = "open"]
    /\ Begin(p)
    /\ UNCHANGED <<loop, failures>>

\* The broken connection is closed and the lock not had: it is taken, if only by
\* the session of that connection, or the database cannot be reached.
Follow(p) ==
    /\ Asks(p)
    /\ conn[p] = "broken"
    /\ conn' = [conn EXCEPT ![p] = "none"]
    /\ UNCHANGED <<holder, stage, loop, failures, parted>>

\* The worker thread has run ClusterTickService.  A cancelled task does not
\* start the second phase.
ClusterDone(p) ==
    /\ stage[p] = "cluster"
    /\ To(p, IF loop[p] THEN "reconcile" ELSE "asleep")
    /\ UNCHANGED <<holder, conn, loop, failures, parted>>

ReconcileDone(p) ==
    /\ stage[p] = "reconcile"
    /\ To(p, "asleep")
    /\ UNCHANGED <<holder, conn, loop, failures, parted>>
-----------------------------------------------------------------------------
(* Shutdown, lost connections, crashes *)

\* release(): unlock and close.  A session that is already cut off keeps the
\* lock until the database ends it.
ReleaseLock(p) ==
    /\ conn' = [conn EXCEPT ![p] = "none"]
    /\ holder' = IF conn[p] = "open" THEN Freed(p) ELSE holder

\* lifespan: task.cancel(), and the finally of _run_cluster_loop.  The await is
\* cancelled, the worker thread is not: it runs its phase to the end.
Shutdown(p) ==
    /\ Counted
    /\ loop[p]
    /\ loop' = [loop EXCEPT ![p] = FALSE]
    /\ ReleaseLock(p)
    /\ parted' = parted \cup {p}
    /\ UNCHANGED stage

Crash(p) ==
    /\ Counted
    /\ loop[p] \/ Ticking(p)
    /\ To(p, "asleep")
    /\ loop' = [loop EXCEPT ![p] = FALSE]
    /\ ReleaseLock(p)
    /\ UNCHANGED parted

ConnectionFails(p) ==
    /\ Counted
    /\ conn[p] = "open"
    /\ conn' = [conn EXCEPT ![p] = "broken"]
    /\ parted' = parted \cup {p}
    /\ UNCHANGED <<holder, stage, loop>>

\* The host refuses what a phase asks of it; the tick catches it and goes on.
HostFault ==
    /\ Counted
    /\ UNCHANGED <<holder, conn, stage, loop, parted>>

\* The database notices that a session has lost its client.
SessionEnds(p) ==
    /\ holder = p /\ conn[p] # "open"
    /\ holder' = Nobody
    /\ UNCHANGED <<conn, stage, loop, failures, parted>>
-----------------------------------------------------------------------------
LeaderStep(p) ==
    \/ StillLeads(p) \/ TakeLock(p) \/ Follow(p)
    \/ ClusterDone(p) \/ ReconcileDone(p)
    \/ Shutdown(p) \/ Crash(p) \/ ConnectionFails(p) \/ HostFault \/ SessionEnds(p)

LeaderSpec == LeaderInit /\ [][\E p \in Process : LeaderStep(p)]_leaderVars

\* Two processes run a tick at the same time only across a failover: one of them
\* lost its connection, or was told to shut down, while its tick was running
\* (SchedulerLeadership: "Leadership narrows that window to a failover").
OverlapNeedsFailover ==
    \A p, q \in Process : p # q /\ Ticking(p) /\ Ticking(q) => p \in parted \/ q \in parted
=============================================================================
