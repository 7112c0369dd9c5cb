------------------------------ MODULE Cluster ------------------------------
(***************************************************************************)
(* The cluster: the leader's control loop, the agents with the handlers     *)
(* they call, the users' calls, the passage of time and crashes of the API  *)
(* process, over one set of tables.                                         *)
(*                                                                          *)
(* Interleaving is by database statement, which is what the code does: each  *)
(* repository call is a transaction of its own, and a service that saves a   *)
(* row saves all of it, as it read it some statements before.  Nothing stops *)
(* it from saving over a version it has not seen.  Two history variables say *)
(* when that happens (missed, overwritten), so that a property can say what  *)
(* the protocol keeps up to the first such lost update, and others what it   *)
(* keeps, or does not, whatever is lost.                                     *)
(***************************************************************************)
EXTENDS ControlLoop, AgentApi, UserApi

CONSTANTS Scenarios,    \* sets of calls and events of the environment, of which
                        \* a behaviour picks one
          MaxCrashes    \* bound on the crashes of the API process

ASSUME ScenariosAssumption ==
    Scenarios \subseteq SUBSET {"cancel", "retry", "drain", "heartbeat", "staleWorker",
                                "staleNode", "agentDies", "crash"}
ASSUME MaxCrashesAssumption == MaxCrashes \in Nat

VARIABLES crashes,      \* how often the API process has died
          events,       \* the calls and events that may occur
          missed,       \* history: the rows saved by others since a service read them
          overwritten   \* history: has a service saved a row it had missed a version of?

history == <<missed, overwritten>>
vars == <<tables, controlVars, agentVars, userVars, crashes, events, history>>

\* The threads that read rows and save them whole.
ControlThread == <<"control", None>>
UserThread == <<"user", None>>
MainOf(n) == <<"main", n>>
BeatOf(n) == <<"beat", n>>
Thread == {ControlThread, UserThread} \cup {MainOf(n) : n \in Node} \cup {BeatOf(n) : n \in Node}

HistoryTypeOK == missed \in [Thread -> SUBSET RowKey] /\ overwritten \in BOOLEAN
TypeOK == StoreTypeOK /\ ControlTypeOK /\ AgentTypeOK /\ UserTypeOK /\ HistoryTypeOK
          /\ crashes \in 0 .. MaxCrashes /\ events \in Scenarios

Init == StoreInit /\ ControlInit /\ AgentInit /\ UserInit /\ crashes = 0 /\ events \in Scenarios
        /\ missed = [t \in Thread |-> {}] /\ overwritten = FALSE
-----------------------------------------------------------------------------
ControlBusy == cpc \notin ControlRest
MainBusy(n) == apc[n] \notin AgentRest
RenewBusy(n) == rpc[n] # "idle"
BeatBusy(n) == hpc[n] \notin BeatRest
UserBusy == upc # "idle"

\* No service or handler is half done.
Quiescent == /\ ~ControlBusy /\ ~UserBusy
             /\ \A n \in Node : ~MainBusy(n) /\ ~RenewBusy(n) /\ ~BeatBusy(n)

\* A thread inside a service, which may save what it has read.
Busy(t) == \/ t = ControlThread /\ ControlBusy
           \/ t = UserThread /\ UserBusy
           \/ \E n \in Node : \/ t = MainOf(n) /\ MainBusy(n)
                              \/ t = BeatOf(n) /\ BeatBusy(n)

\* Every step of thread t keeps the history: what it saves, the others have
\* missed until they read it again or their service ends.
Track(t, reads, saves) ==
    /\ overwritten' = (overwritten \/ saves \cap missed[t] # {})
    /\ missed' = [u \in Thread |-> CASE overwritten' \/ ~Busy(u)' -> {}
                                     [] ~overwritten' /\ Busy(u)' /\ u = t -> missed[u] \ reads
                                     [] OTHER -> missed[u] \cup saves]

\* The API process dies with everything it was doing.  Another one takes the
\* control loop over; each agent sees its request fail, and is back where it
\* retries: registering, polling, or sending its report.
AfterCrash(n) ==
    CASE apc[n] \in AgentRest -> apc[n]
      [] apc[n] \in RegisterPC -> "down"
      [] apc[n] \in {"poll.lease", "start.saveWorker", "start.saveJob"} -> "idle"
      [] OTHER -> "report.call"

ServerCrash ==
    /\ "crash" \in events
    /\ crashes < MaxCrashes
    /\ ~Quiescent
    /\ crashes' = crashes + 1
    /\ cpc' = "idle" /\ c' = Blank
    /\ upc' = "idle" /\ um' = NoCall
    /\ apc' = [n \in Node |-> AfterCrash(n)]
    /\ am' = [n \in Node |-> IF MainBusy(n) /\ AfterCrash(n) # "report.call"
                             THEN NoMem ELSE Keep(am[n])]
    /\ rpc' = [n \in Node |-> "idle"] /\ rm' = [n \in Node |-> FALSE]
    /\ hpc' = [n \in Node |-> IF BeatBusy(n) THEN "idle" ELSE hpc[n]]
    /\ hm' = [n \in Node |-> NoBeat]
    /\ missed' = [t \in Thread |-> {}]
    /\ UNCHANGED <<tables, events, overwritten>>

Control == /\ ControlStep
           /\ UNCHANGED <<agentVars, userVars, crashes, events>>
           /\ Track(ControlThread, ControlReads, ControlSaves)

AgentAlone == UNCHANGED <<controlVars, userVars, crashes, events>>
MainThread(n) == /\ RegisterWorker(n) \/ RunJob(n)
                 /\ AgentAlone /\ Track(MainOf(n), MainReads(n), MainSaves(n))
RenewThread(n) == Renew(n) /\ AgentAlone /\ UNCHANGED history
BeatThread(n) == /\ "heartbeat" \in events
                 /\ KeepHeartbeating(n)
                 /\ AgentAlone /\ Track(BeatOf(n), {}, BeatSaves(n))
Death(n) == "agentDies" \in events /\ AgentDies(n) /\ AgentAlone /\ UNCHANGED history
Agent(n) == MainThread(n) \/ RenewThread(n) \/ BeatThread(n) \/ Death(n)

UserStep ==
    \/ \E j \in Job : \/ CreateJob(j)
                      \/ "cancel" \in events /\ CancelRead(j)
                      \/ "retry" \in events /\ RetryRead(j)
    \/ \E n \in Node : "drain" \in events /\ DrainRead(n)
    \/ UserSaveJob \/ UserSaveNode
User == /\ UserStep
        /\ UNCHANGED <<controlVars, agentVars, crashes, events>>
        /\ Track(UserThread, {}, UserSaves)

TimePasses ==
    /\ \/ LeaseExpires
       \/ \E n \in Node : \/ "staleWorker" \in events /\ WorkerGoesStale(n)
                          \/ "staleNode" \in events /\ NodeGoesStale(n)
    /\ UNCHANGED <<controlVars, agentVars, userVars, crashes, events, history>>

Next == \/ Control
        \/ \E n \in Node : Agent(n)
        \/ User
        \/ TimePasses
        \/ ServerCrash

Spec == Init /\ [][Next]_vars

\* The control loop ticks for ever, an agent polls, runs and reports, a service
\* that has begun goes on, an execution ends (its timeout), and a lease that is
\* not renewed expires.  Fairness of the main thread is strong because the
\* renewal thread is joined before an execution ends.  Nothing is assumed of users,
\* of heartbeats or of crashes.
FairSpec ==
    /\ Spec
    /\ WF_vars(Control)
    /\ \A n \in Node : SF_vars(MainThread(n))
    /\ \A n \in Node : WF_vars(RenewBusy(n) /\ RenewThread(n))
    /\ \A n \in Node : WF_vars(BeatBusy(n) /\ BeatThread(n))
    /\ WF_vars(User /\ UserBusy)
    /\ WF_vars(TimePasses /\ leases' # leases)
-----------------------------------------------------------------------------
Held == {"SCHEDULED", "RUNNING", "CANCELLING"}
Final == {"COMPLETED", "FAILED", "CANCELLED"}

\* The states up to the first lost update.  What follows one is of no interest to a
\* property that speaks of those only.
NothingLost == ~overwritten

\* No service is half done, no row was ever saved over a version its writer had not
\* read, and the API process has not died: what a crash leaves half done is the
\* subject of the crash_strands run, what a lost update does of outcome_overwritten
\* and lease_conflict.
Undisturbed == ~overwritten /\ Quiescent /\ crashes = 0

\* Ownership: as long as no update was lost and none cut off by a crash, the leases,
\* the workers and the jobs tables agree on who holds what whenever no service is
\* half done, however the services were interleaved before.  Assignment, release, recovery of an expired
\* lease, recovery of an offline node and re-registration each write all three,
\* in different orders; none of them leaves a worker holding a job without a
\* lease, a lease on a job that its worker does not hold, or a job SCHEDULED,
\* RUNNING or CANCELLING that the worker of its node does not hold.  Recovery
\* starts from leases and workers only, and would never pick such a job up.
Ownership ==
    Undisturbed =>
        /\ \A l \in leases : worker[l.worker].job = JobOf(l)
        /\ \A n \in Node : worker[n].job # None =>
               \E l \in LeaseOfWorker(n) : JobOf(l) = worker[n].job
        /\ \A j \in Job : job[j].status \in Held =>
               \E n \in Node : worker[n].job = j /\ job[j].node = n

\* As long as no update was lost and none cut off by a crash, Node.available is the
\* capacity less what is really in use whenever no service is half done, through every
\* allocate() and release(): no unit leaks when an attempt ends in a refused
\* assignment, a report, an expired lease or a restart of the agent, and none
\* is given back twice (which Node.release would hide at full capacity).
CapacityExact ==
    Undisturbed => \A n \in Node :
        node[n].avail + (IF worker[n].job = None THEN 0 ELSE 1) = Capacity

\* The lease fence of ReportJobOutcomeService: a report that began when the lease
\* of its attempt was already gone stops at the fence and writes no row, even
\* if the same worker holds the same job again under a newer lease.
LateReportWritesNothing ==
    \A n \in Node : am[n].late => apc[n] \in AgentRest \cup {"report.fence"}

\* As long as no update was lost, and whatever crashes, every attempt after the first
\* is paid for: the leases granted for a job exceed
\* its retry_count by at most one, whatever sequence of expired leases, restarts,
\* lost responses and user retries it goes through (Job.reclaim: "without it, a
\* single unhealthy node could cause a job to be endlessly reassigned"), and the
\* budget holds: a job reaches a worker at most max_retries + 1 times.
AttemptsPaid ==
    ~overwritten => \A j \in Job : granted[j] <= job[j].retries + 1 /\ job[j].retries <= MaxRetries

\* The control loop never takes away a lease that is valid at that moment,
\* although it works from a list of expired leases read before: delete_if_expired
\* tests again inside the DELETE.
LiveLeaseNotReclaimed ==
    [][controlVars' # controlVars =>
          \A l \in leases : l \in leases' \/ l.expired]_vars

\* A lease that was deleted never comes back under the same identity, on any
\* interleaving of a renewal with the deletion (RenewLeaseService reads the
\* lease, then updates it): the identity every fence compares is used once.
LeaseNeverRevived ==
    [][\A l \in leases' : \/ \E k \in leases : k.id = l.id /\ k.worker = l.worker
                          \/ l.id[2] = granted[JobOf(l)]]_vars


\* Until the first lost update, each row of the job table implements JobLifecycle:
\* what a service writes back, statements after it read the row and with the others
\* in between, is a command of the Job entity on the row as it is now, or no change.
\* No job is special, so the row of an arbitrary one is watched.
Watched == CHOOSE j \in Job : TRUE
Lifecycle == INSTANCE JobLifecycle WITH job <- job[Watched]
RowFollowsLifecycle == Lifecycle!Init /\ [][overwritten' \/ Lifecycle!Next]_(job[Watched])

\* Job.request_cancellation (job.py:314-317): "whichever actually happens first
\* wins, the same way a lease renewal that loses a race against reconciliation
\* drops its result rather than overwrite the real outcome."  No row that reached
\* COMPLETED or CANCELLED changes again.
OutcomeStands ==
    [][\A j \in Job : job[j].status \in {"COMPLETED", "CANCELLED"} =>
           job'[j].status = job[j].status]_vars

\* Every job that was created ends, if no update is ever lost: whatever restarts,
\* lost responses, cancellations and lost leases happen on the way, retries run out
\* at the latest and the job FAILS.
JobSettles ==
    []~overwritten =>
        \A j \in Job : job[j].status \notin Final \cup {"SUBMITTED"} ~> job[j].status \in Final
=============================================================================
