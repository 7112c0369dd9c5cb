----------------------------- MODULE InProcess -----------------------------
(***************************************************************************)
(* API processes that share a database and execute the jobs of workers that *)
(* have no agent: Leadership decides whose loop ticks, ControlLoop is what  *)
(* the scheduling pass and the reconciliation of a tick do, WorkerLoop the  *)
(* execution between them, UserApi the calls of users.                      *)
(*                                                                          *)
(* Statements of an execution interleave with everything.  Scheduling       *)
(* passes and reconciliations of two processes do not interleave with each  *)
(* other: driver is the process that is in one of them.  A command is what  *)
(* a tick spends its time on, and so where a failover finds it.             *)
(***************************************************************************)
EXTENDS ControlLoop, UserApi, WorkerLoop

VARIABLES driver,
          torn      \* history: was a process killed between two writes of a service?

vars == <<tables, controlVars, userVars, loopVars, leaderVars, driver, torn>>

TypeOK == StoreTypeOK /\ ControlTypeOK /\ UserTypeOK /\ LoopTypeOK /\ LeaderTypeOK
          /\ driver \in Process \cup {Nobody} /\ torn \in BOOLEAN

\* The workers are registered, with a heartbeat.
Init ==
    /\ job = [j \in Job |-> NewJob]
    /\ worker = [n \in Node |-> IdleWorker]
    /\ node = [n \in Node |-> NewNode]
    /\ leases = {}
    /\ granted = [j \in Job |-> 0]
    /\ wfresh = Node /\ nfresh = Node
    /\ ControlInit /\ UserInit /\ LoopInit /\ LeaderInit
    /\ driver = Nobody /\ torn = FALSE
-----------------------------------------------------------------------------
(* One tick of process p *)

Drive(p, label) == driver = Nobody /\ driver' = p /\ cpc' = label /\ c' = Blank

\* A process that leads begins its scheduling pass.
Lead(p) ==
    /\ StillLeads(p) \/ TakeLock(p)
    /\ Drive(p, "idle")
    /\ UNCHANGED <<tables, userVars, loopVars, torn>>

Scheduling(p) == driver = p /\ stage[p] = "cluster"

\* The pass is over and the execution begins.
Scheduled(p) ==
    /\ driver' = Nobody
    /\ Loop(p, "x.list", Idle)
    /\ UNCHANGED leaderVars

\* An exception ends the pass and skips the execution of this tick.
ScheduleFails(p) ==
    /\ ClusterDone(p)
    /\ driver' = IF loop[p] THEN p ELSE Nobody
    /\ UNCHANGED loopVars

Schedule(p) ==
    /\ Scheduling(p)
    /\ SchedulerLoop
    /\ CASE cpc' # "dead.list" -> UNCHANGED <<loopVars, leaderVars, driver>>
         [] cpc' = "dead.list" /\ At("sched.pick") -> Scheduled(p)
         [] OTHER -> ScheduleFails(p)
    /\ UNCHANGED <<userVars, torn>>

Execute(p) ==
    /\ ExecutionLoop(p)
    /\ UNCHANGED <<controlVars, userVars, leaderVars, driver, torn>>

KeepLease(p) ==
    /\ RenewalThread(p)
    /\ UNCHANGED <<controlVars, userVars, leaderVars, driver, torn>>

\* Mutant: reconciliation is run only when the first phase failed.
MutExecuted(p) ==
    /\ PassDone(p)
    /\ stage[p] = "cluster"
    /\ To(p, "asleep")
    /\ Loop(p, "off", Idle)
    /\ UNCHANGED <<tables, controlVars, userVars, driver, torn, holder, conn, loop,
                   failures, parted>>
Executed(p) ==
    /\ PassDone(p)
    /\ ClusterDone(p)
    /\ Loop(p, "off", Idle)
    /\ IF loop[p] THEN Drive(p, "dead.list") ELSE UNCHANGED <<driver, controlVars>>
    /\ UNCHANGED <<tables, userVars, torn>>

Reconcile(p) ==
    /\ driver = p /\ stage[p] = "reconcile"
    /\ MarkDeadWorkers \/ RecoverExpiredLease \/ RecoverOfflineNode
    /\ IF cpc' = "idle" THEN ReconcileDone(p) /\ driver' = Nobody
                        ELSE UNCHANGED <<leaderVars, driver>>
    /\ UNCHANGED <<userVars, loopVars, torn>>
-----------------------------------------------------------------------------
(* Faults.  Some process always stays: a deployment replaces, it does not end. *)

Replaceable(p) == \E q \in Process \ {p} : loop[q]

\* Between the first write of a service and its last.
ControlWrites == ControlPC \ (ControlRest \cup {"sched.jobs", "sched.pick", "dead.save", "exp.delete",
                                               "off.list", "off.lease", "off.delete"})
HalfWritten(p) ==
    \/ driver = p /\ cpc \in ControlWrites
    \/ xpc[p] \in {"x.saveWorker", "x.node", "x.saveNode", "x.job", "x.saveJob"}

\* A process is killed, at any statement.
Crashes(p) ==
    /\ Replaceable(p)
    /\ Crash(p)
    /\ xpc' = [xpc EXCEPT ![p] = "off"] /\ x' = [x EXCEPT ![p] = Idle]
    /\ ypc' = [ypc EXCEPT ![p] = "off"]
    /\ IF driver = p THEN driver' = Nobody /\ cpc' = "idle" /\ c' = Blank
                     ELSE UNCHANGED <<driver, controlVars>>
    /\ torn' = (torn \/ HalfWritten(p))
    /\ UNCHANGED <<tables, userVars>>

\* JobExecutionService.execute raises under p.
CommandFaults(p) ==
    /\ CommandRaises(p)
    /\ UNCHANGED <<controlVars, userVars, driver, torn>>

Departs(p) ==
    /\ (Replaceable(p) /\ Shutdown(p)) \/ ConnectionFails(p)
    /\ UNCHANGED <<tables, controlVars, userVars, loopVars, driver, torn>>

LosesLock(p) ==
    /\ SessionEnds(p) \/ Follow(p)
    /\ UNCHANGED <<tables, controlVars, userVars, loopVars, driver, torn>>

Expires ==
    /\ LeaseExpires
    /\ UNCHANGED <<controlVars, userVars, loopVars, leaderVars, driver, torn>>

User ==
    /\ \/ \E j \in Job : CreateJob(j) \/ CancelRead(j)
       \/ UserSaveJob
    /\ UNCHANGED <<controlVars, loopVars, leaderVars, driver, torn>>

Thread(p) == Schedule(p) \/ Execute(p) \/ Executed(p) \/ Reconcile(p)

Next ==
    \/ \E p \in Process : \/ Lead(p) \/ Thread(p) \/ KeepLease(p)
                          \/ Crashes(p) \/ CommandFaults(p) \/ Departs(p) \/ LosesLock(p)
    \/ Expires
    \/ User

Spec == Init /\ [][Next]_vars

\* A loop that is not cancelled asks again after its sleep, the database is not
\* out of reach for ever, a phase that has begun goes on, a command ends (its
\* timeout), a lease that is not renewed expires, and the database notices a
\* lost client.  Fairness is strong where a thread waits for a turn that others
\* can take first; a process that asks for the lead has no phase under way, so one
\* condition does for both.
FairSpec ==
    /\ Spec
    /\ \A p \in Process : /\ SF_vars(Lead(p) \/ Thread(p))
                          /\ WF_vars(KeepLease(p)) /\ WF_vars(LosesLock(p))
    /\ WF_vars(Expires)
    /\ WF_vars(UserSaveJob /\ User)
-----------------------------------------------------------------------------
\* The lease fence of ReleaseLeaseService: a command that ended after its lease
\* was gone, in a process that has lost the lead or in one that still has it,
\* stops at the fence and writes no row, even when its renewal thread had died
\* unnoticed and the same worker holds the same job again.
LateResultWritesNothing == \A p \in Process : x[p].late => xpc[p] = "x.fence"

\* The tick is taken over, and reaches its second phase: as long as one process
\* stays, reconciliation runs again and again, whatever connections are lost,
\* processes replaced or killed, and however many commands hold a tick up.
TickGoesOn == []<>(\E p \in Process : stage[p] = "reconcile")

Final == {"COMPLETED", "FAILED", "CANCELLED"}

\* A row that a user call holds is one command away from the stored row.
FreshCall ==
    upc = "user.saveJob" =>
        um.jr \in {job[um.j], RequestCancellation(job[um.j]), CancelJob(job[um.j])}
Alone == \A p, q \in Process : Ticking(p) /\ Ticking(q) => p = q

\* Every job ends although the process that executes it may be killed half way, at
\* any statement outside a group of writes: the next leader executes a RUNNING job
\* again under the lease it still has, or recovers it.  Three things can strand a
\* job and are excluded: a tick that overlaps with its successor, a user's call that
\* saves a row which has changed since, and a kill between two writes of a service.
JobSettles ==
    [](Alone /\ FreshCall /\ ~torn) =>
        \A j \in Job : job[j].status \notin Final \cup {"SUBMITTED"} ~> job[j].status \in Final
=============================================================================
