-------------------------- MODULE InProcessProofs --------------------------
(***************************************************************************)
(* For any number of processes, workers, jobs and failures: ticks overlap   *)
(* only across a failover, and a result that comes too late is fenced off.  *)
(*                                                                          *)
(* The first invariant relates three views of the lock: a process that      *)
(* ticks undisturbed has its connection, an open connection is the session  *)
(* that holds the lock, and there is one holder.  The second says that the  *)
(* identity of a lease, in the table or in the hands of an execution, has   *)
(* been granted before, so that no later lease has it.                      *)
(***************************************************************************)
EXTENDS InProcess, TLAPS

\* An undisturbed tick runs on an open connection, and only the holder has one.
LockHeld ==
    /\ \A p \in Process : Ticking(p) /\ p \notin parted => conn[p] = "open"
    /\ \A p \in Process : conn[p] = "open" => holder = p

LInv == LeaderTypeOK /\ LockHeld

\* Every step of the composition is a step of Leadership or leaves it alone.
LEMMA StepLeads ==
    ASSUME [Next]_vars
    PROVE  [\E p \in Process : LeaderStep(p)]_leaderVars
<1>1. CASE UNCHANGED vars
  BY <1>1 DEF vars
<1>2. CASE Expires
  BY <1>2 DEF Expires
<1>3. CASE User
  BY <1>3 DEF User
<1>4. ASSUME NEW p \in Process,
             \/ Lead(p) \/ Thread(p) \/ KeepLease(p)
             \/ Crashes(p) \/ CommandFaults(p) \/ Departs(p) \/ LosesLock(p)
      PROVE  LeaderStep(p) \/ UNCHANGED leaderVars
  <2>1. CASE Lead(p)
    BY <2>1 DEF Lead, LeaderStep
  <2>2. CASE Schedule(p)
    BY <2>2 DEF Schedule, Scheduled, ScheduleFails, LeaderStep
  <2>3. CASE Execute(p) \/ Executed(p)
    BY <2>3 DEF Execute, Executed, LeaderStep
  <2>4. CASE Reconcile(p)
    BY <2>4 DEF Reconcile, LeaderStep
  <2>5. CASE KeepLease(p)
    BY <2>5 DEF KeepLease
  <2>6. CASE Crashes(p) \/ CommandFaults(p) \/ Departs(p) \/ LosesLock(p)
    BY <2>6 DEF Crashes, CommandFaults, CommandRaises, Departs, LosesLock, LeaderStep
  <2> QED
    BY <1>4, <2>1, <2>2, <2>3, <2>4, <2>5, <2>6 DEF Thread
<1> QED
  BY <1>1, <1>2, <1>3, <1>4 DEF Next

\* The invariant is inductive over the steps of Leadership.
LEMMA LeaderStepKeeps ==
    ASSUME LInv, NEW p \in Process, LeaderStep(p)
    PROVE  LInv'
<1> USE NobodyAssumption, MaxFailuresAssumption DEF LInv, LeaderTypeOK, LockHeld, Ticking, Stage
<1>1. CASE StillLeads(p)
  BY <1>1 DEF StillLeads, Asks, Begin, Pinged, To
<1>2. CASE TakeLock(p)
  BY <1>2 DEF TakeLock, Asks, Begin, Pinged, To
<1>3. CASE Follow(p)
  BY <1>3 DEF Follow, Asks
<1>4. CASE ClusterDone(p)
  BY <1>4 DEF ClusterDone, To
<1>5. CASE ReconcileDone(p)
  BY <1>5 DEF ReconcileDone, To
<1>6. CASE Shutdown(p)
  BY <1>6 DEF Shutdown, Counted, ReleaseLock, Freed
<1>7. CASE Crash(p)
  BY <1>7 DEF Crash, Counted, ReleaseLock, Freed, To
<1>8. CASE ConnectionFails(p)
  BY <1>8 DEF ConnectionFails, Counted
<1>9. CASE SessionEnds(p)
  BY <1>9 DEF SessionEnds
<1>10. CASE HostFault
  BY <1>10 DEF HostFault, Counted
<1> QED
  BY <1>1, <1>2, <1>3, <1>4, <1>5, <1>6, <1>7, <1>8, <1>9, <1>10 DEF LeaderStep

LEMMA LockHeldAlways == Spec => []LInv
<1>1. Init => LInv
  BY FirstAssumption, MaxFailuresAssumption
  DEF Init, LeaderInit, LInv, LeaderTypeOK, LockHeld, Ticking, Stage
<1>2. LInv /\ [Next]_vars => LInv'
  <2> SUFFICES ASSUME LInv, [Next]_vars PROVE LInv'
    OBVIOUS
  <2>1. CASE UNCHANGED leaderVars
    BY <2>1 DEF LInv, LeaderTypeOK, LockHeld, Ticking, leaderVars
  <2>2. CASE \E p \in Process : LeaderStep(p)
    BY <2>2, LeaderStepKeeps
  <2> QED
    BY <2>1, <2>2, StepLeads
<1> QED
  BY <1>1, <1>2, PTL DEF Spec

\* Two processes tick at once only if one of them lost its connection or was told
\* to stop in the middle of its tick (PostgresSchedulerLeadership.try_acquire,
\* _run_cluster_loop), whatever the number of processes and of failures.
THEOREM TicksOverlapOnlyInFailover == Spec => []OverlapNeedsFailover
<1>1. LInv => OverlapNeedsFailover
  BY DEF LInv, LockHeld, OverlapNeedsFailover
<1> QED
  BY <1>1, LockHeldAlways, PTL
-----------------------------------------------------------------------------
(* The lease fence *)

\* The identities granted so far.
Known == {id \in LeaseId : id[2] < granted[id[1]]}

\* Between the choice of a job and a node and the insertion of the lease.
PickedPC == {"sched.saveJob", "assign.list", "assign.lease", "assign.insert"}

ControlHand ==
    /\ {"j", "n"} \subseteq DOMAIN c
    /\ cpc \in PickedPC => c.j \in Job /\ c.n \in Node

LeasesKnown ==
    /\ granted \in [Job -> Nat]
    /\ leases \subseteq LeaseRow
    /\ \A l \in leases : l.id \in Known

\* An execution has a lease, and a late result is at the fence, its lease gone.
ExecutionHand ==
    /\ DOMAIN xpc = Process /\ DOMAIN x = Process
    /\ \A p \in Process :
          /\ {"lid", "late"} \subseteq DOMAIN x[p]
          /\ xpc[p] \in {"x.start", "x.exec"} => x[p].lid \in Known
          /\ x[p].late => /\ xpc[p] = "x.fence" /\ x[p].lid \in Known
                          /\ ~ \E l \in leases : l.id = x[p].lid

FInv == ControlHand /\ LeasesKnown /\ ExecutionHand

\* What a step may do to the leases: remove, renew or expire some, or grant the
\* next one of a job.
LeaseStep ==
    \/ /\ granted' = granted /\ leases' \subseteq LeaseRow
       /\ \A l \in leases' : \E k \in leases : k.id = l.id
    \/ \E j \in Job, n \in Node : InsertLease(j, n)

\* What a step may do to the executions.
ExecutionStep ==
    /\ DOMAIN xpc' = Process /\ DOMAIN x' = Process
    /\ \A p \in Process :
          /\ {"lid", "late"} \subseteq DOMAIN x'[p]
          /\ xpc'[p] \in {"x.start", "x.exec"} => x'[p].lid \in Known
          /\ x'[p].late => /\ xpc'[p] = "x.fence" /\ x'[p].lid \in Known
                           /\ ~ \E l \in leases : l.id = x'[p].lid

LEMMA LeasesStand ==
    ASSUME FInv, UNCHANGED <<leases, granted>>
    PROVE  LeaseStep
  BY DEF FInv, LeasesKnown, LeaseStep

LEMMA Identities ==
    ASSUME FInv, LeaseStep
    PROVE  /\ granted' \in [Job -> Nat] /\ leases' \subseteq LeaseRow
           /\ \A id \in Known : id \in LeaseId /\ id[2] < granted'[id[1]]
           /\ \A l \in leases' : l.id \in LeaseId /\ l.id[2] < granted'[l.id[1]]
           /\ \A id \in Known : ~(\E l \in leases : l.id = id) => ~ \E l \in leases' : l.id = id
  <1>1. /\ \A l \in leases : l.id \in LeaseId /\ l.id[2] < granted[l.id[1]]
        /\ granted \in [Job -> Nat] /\ leases \subseteq LeaseRow
    BY DEF FInv, LeasesKnown, Known
  <1>2. CASE /\ granted' = granted /\ leases' \subseteq LeaseRow
             /\ \A l \in leases' : \E k \in leases : k.id = l.id
    BY <1>1, <1>2 DEF Known
  <1>3. ASSUME NEW j \in Job, NEW n \in Node, InsertLease(j, n)
        PROVE  /\ granted' \in [Job -> Nat] /\ leases' \subseteq LeaseRow
               /\ \A id \in Known : id \in LeaseId /\ id[2] < granted'[id[1]]
               /\ \A l \in leases' : l.id \in LeaseId /\ l.id[2] < granted'[l.id[1]]
               /\ \A id \in Known : ~(\E l \in leases : l.id = id)
                                     => ~ \E l \in leases' : l.id = id
    <2> DEFINE num == granted[j]
               nid == <<j, num>>
               new == [id |-> nid, worker |-> n, expired |-> FALSE]
    <2>1. leases' = leases \cup {new} /\ granted' = [granted EXCEPT ![j] = num + 1] /\ num \in Nat
      BY <1>1, <1>3 DEF InsertLease
    <2>2. new.id = nid /\ nid \in LeaseId /\ nid[1] = j /\ nid[2] = num /\ new \in LeaseRow
      BY <2>1 DEF LeaseId, LeaseRow
    <2>3. /\ granted'[j] = num + 1 /\ \A i \in Job \ {j} : granted'[i] = granted[i]
          /\ \A id \in LeaseId : id[1] \in Job /\ id[2] \in Nat
      BY <1>1, <2>1 DEF LeaseId
    <2>4. granted' \in [Job -> Nat]
      BY <1>1, <2>1
    <2> HIDE DEF new, nid
    <2>5. \A id \in LeaseId : id[2] < granted[id[1]] => id[2] < granted'[id[1]] /\ id # nid
      <3> SUFFICES ASSUME NEW id \in LeaseId, id[2] < granted[id[1]]
                   PROVE  id[2] < granted'[id[1]] /\ id # nid
        OBVIOUS
      <3> DEFINE b == id[2]
      <3>1. id[1] \in Job /\ b \in Nat /\ b < granted[id[1]]
        BY <2>3
      <3>2. CASE id[1] = j
        <4>1. b < num /\ b < num + 1
          BY <2>1, <3>1, <3>2
        <4> QED
          BY <2>1, <2>2, <2>3, <3>1, <3>2, <4>1
      <3>3. CASE id[1] # j
        BY <2>2, <2>3, <3>1, <3>3
      <3> QED
        BY <3>2, <3>3
    <2>6. nid[2] < granted'[nid[1]]
      BY <2>1, <2>2, <2>3
    <2>7. \A l \in leases' : l.id \in LeaseId /\ l.id[2] < granted'[l.id[1]]
      BY <1>1, <2>1, <2>2, <2>5, <2>6
    <2> QED
      BY <1>1, <2>1, <2>2, <2>4, <2>5, <2>7 DEF Known
  <1> QED
    BY <1>2, <1>3 DEF LeaseStep

\* So what a step did with the identities known before it holds after it.
LEMMA FenceKept ==
    ASSUME FInv, LeaseStep, ExecutionStep, ControlHand'
    PROVE  FInv'
  <1>1. LeasesKnown'
    BY Identities DEF LeasesKnown, Known
  <1>2. ExecutionHand'
    <2>1. \A id \in Known : id \in Known'
      BY Identities DEF Known
    <2> QED
      BY <2>1, Identities DEF ExecutionStep, ExecutionHand
  <1> QED
    BY <1>1, <1>2 DEF FInv

\* A scheduling pass has a job and a node in hand until it inserts their lease.
LEMMA SchedulerKeeps ==
    ASSUME FInv, SchedulerLoop
    PROVE  ControlHand' /\ LeaseStep
  <1> USE DEF ControlHand, PickedPC, Goto, At
  <1>1. {"j", "n"} \subseteq DOMAIN c /\ (cpc \in PickedPC => c.j \in Job /\ c.n \in Node)
    BY DEF FInv
  <1>2. {"j", "n"} \subseteq DOMAIN Blank
    BY DEF Blank
  <1>3. CASE SchedReadNodes
    BY <1>2, <1>3, LeasesStand DEF SchedReadNodes, tables
  <1>4. CASE SchedReadJobs
    BY <1>1, <1>4, LeasesStand DEF SchedReadJobs, tables
  <1>5. ASSUME NEW j \in Job, SchedSkip(j)
        PROVE  ControlHand' /\ LeaseStep
    BY <1>1, <1>5, LeasesStand DEF SchedSkip, tables
  <1>6. ASSUME NEW j \in Job, NEW n \in Node, SchedPick(j, n)
        PROVE  ControlHand' /\ LeaseStep
    BY <1>1, <1>6, LeasesStand DEF SchedPick
  <1>7. CASE SchedDone
    BY <1>2, <1>7, LeasesStand DEF SchedDone, tables
  <1>8. CASE SchedSaveJob
    BY <1>1, <1>8, LeasesStand DEF SchedSaveJob
  <1>9. CASE AssignList
    BY <1>1, <1>9, LeasesStand DEF AssignList, tables
  <1>10. CASE AssignLease
    BY <1>1, <1>2, <1>10, LeasesStand DEF AssignLease, tables
  <1>11. CASE AssignInsert
    <2>1. c.j \in Job /\ c.n \in Node
      BY <1>1, <1>11 DEF AssignInsert
    <2>2. LeaseStep
      BY <1>11, <2>1, LeasesStand DEF AssignInsert, LeaseStep
    <2> QED
      BY <1>1, <1>2, <1>11, <2>2 DEF AssignInsert
  <1>12. CASE AssignSaveWorker
    BY <1>1, <1>12, LeasesStand DEF AssignSaveWorker, NextJob
  <1>13. CASE UnschedSaveNode
    BY <1>1, <1>13, LeasesStand DEF UnschedSaveNode
  <1>14. CASE UnschedSaveJob
    BY <1>1, <1>14, LeasesStand DEF UnschedSaveJob, NextJob
  <1> QED
    BY <1>3, <1>4, <1>5, <1>6, <1>7, <1>8, <1>9, <1>10, <1>11, <1>12, <1>13, <1>14
       DEF SchedulerLoop

\* Reconciliation only deletes.
LEMMA ReconcileKeeps ==
    ASSUME FInv, MarkDeadWorkers \/ RecoverExpiredLease \/ RecoverOfflineNode
    PROVE  ControlHand' /\ LeaseStep
  <1>1. {"j", "n"} \subseteq DOMAIN c /\ {"j", "n"} \subseteq DOMAIN Blank
    BY DEF FInv, ControlHand, Blank
  <1>2. {"j", "n"} \subseteq DOMAIN c' /\ cpc' \notin PickedPC
    <2>1. CASE MarkDeadWorkers
      BY <1>1, <2>1 DEF MarkDeadWorkers, DeadList, DeadSave, DeadDone, Goto, PickedPC
    <2>2. CASE RecoverExpiredLease
      BY <1>1, <2>2 DEF RecoverExpiredLease, ExpList, ExpSkip, ExpDelete, ExpDone, ExpReadWorker,
           ExpReadJob, ExpSaveWorker, ExpReadNode, ExpSaveNode, ExpSaveJob, Goto, PickedPC
    <2>3. CASE RecoverOfflineNode
      BY <1>1, <2>3 DEF RecoverOfflineNode, OffReadNodes, OffList, OffLease, OffDelete,
           OffSaveWorker, OffDeleteLease, OffSaveNode, OffSaveJob, OffDone, Goto, PickedPC
    <2> QED
      BY <2>1, <2>2, <2>3
  <1>3. granted' = granted /\ leases' \subseteq leases
    <2>1. CASE MarkDeadWorkers
      BY <2>1 DEF MarkDeadWorkers, DeadList, DeadSave, DeadDone, tables
    <2>2. CASE RecoverExpiredLease
      BY <2>2 DEF RecoverExpiredLease, ExpList, ExpSkip, ExpDelete, ExpDone, ExpReadWorker,
           ExpReadJob, ExpSaveWorker, ExpReadNode, ExpSaveNode, ExpSaveJob, DeleteIfExpired, tables
    <2>3. CASE RecoverOfflineNode
      BY <2>3 DEF RecoverOfflineNode, OffReadNodes, OffList, OffLease, OffDelete,
           OffSaveWorker, OffDeleteLease, OffSaveNode, OffSaveJob, OffDone, DeleteIfExpired,
           DeleteLease, tables
    <2> QED
      BY <2>1, <2>2, <2>3
  <1> QED
    BY <1>2, <1>3 DEF ControlHand, LeaseStep, FInv, LeasesKnown

\* The execution of process p goes to a place with the memory m.
LEMMA ExecutionMove ==
    ASSUME FInv, NEW p \in Process, NEW label, NEW m,
           xpc' = [xpc EXCEPT ![p] = label], x' = [x EXCEPT ![p] = m],
           {"lid", "late"} \subseteq DOMAIN m,
           label \in {"x.start", "x.exec"} => m.lid \in Known,
           m.late => /\ label = "x.fence" /\ m.lid \in Known
                     /\ ~ \E l \in leases : l.id = m.lid
    PROVE  ExecutionStep
  BY DEF FInv, ExecutionHand, ExecutionStep

\* The executions of the other processes stand when this one changes no place.
LEMMA ExecutionStands ==
    ASSUME FInv, UNCHANGED <<xpc, x>>
    PROVE  ExecutionStep
  BY DEF FInv, ExecutionHand, ExecutionStep

LEMMA IdleIs ==
    /\ {"lid", "late"} \subseteq DOMAIN Idle /\ ~Idle.late
    /\ \A t : LET m == [Idle EXCEPT !.todo = t] IN
               {"lid", "late"} \subseteq DOMAIN m /\ ~m.late
  BY DEF Idle

LEMMA ExecutionKeeps ==
    ASSUME FInv, NEW p \in Process, ExecutionLoop(p)
    PROVE  ExecutionStep /\ LeaseStep
  <1>1. /\ {"lid", "late"} \subseteq DOMAIN x[p]
        /\ xpc[p] \in {"x.start", "x.exec"} => x[p].lid \in Known
        /\ x[p].late => xpc[p] = "x.fence" /\ ~ \E l \in leases : l.id = x[p].lid
        /\ \A l \in leases : l.id \in Known
    BY DEF FInv, ExecutionHand, LeasesKnown
  <1>2. NextWorker(p) => ExecutionStep
    <2> DEFINE m == [Idle EXCEPT !.todo = x[p].todo]
    <2>1. {"lid", "late"} \subseteq DOMAIN m /\ ~m.late
      BY IdleIs
    <2>2. NextWorker(p) => xpc' = [xpc EXCEPT ![p] = "x.worker"] /\ x' = [x EXCEPT ![p] = m]
      BY DEF NextWorker, Loop
    <2> HIDE DEF m
    <2> QED
      BY <2>1, <2>2, ExecutionMove
  <1>3. UNCHANGED tables => LeaseStep
    BY LeasesStand DEF tables
  <1>4. CASE ListWorkers(p)
    <2> DEFINE m == [Idle EXCEPT !.todo = {n \in Node \ AgentDriven : worker[n].job # None}]
    <2>1. {"lid", "late"} \subseteq DOMAIN m /\ ~m.late
      BY IdleIs
    <2>2. xpc' = [xpc EXCEPT ![p] = "x.worker"] /\ x' = [x EXCEPT ![p] = m] /\ UNCHANGED tables
      BY <1>4 DEF ListWorkers, Loop
    <2> HIDE DEF m
    <2> QED
      BY <1>3, <2>1, <2>2, ExecutionMove
  <1>5. ASSUME NEW n \in Node, VisitWorker(p, n)
        PROVE  ExecutionStep /\ LeaseStep
    <2> DEFINE rest == [Idle EXCEPT !.todo = x[p].todo \ {n}]
               m == [rest EXCEPT !.n = n, !.j = worker[n].job, !.wr = worker[n],
                                 !.jr = job[worker[n].job]]
    <2>1. {"lid", "late"} \subseteq DOMAIN rest /\ ~rest.late
      BY IdleIs
    <2>2. \/ xpc' = [xpc EXCEPT ![p] = "x.worker"] /\ x' = [x EXCEPT ![p] = rest]
          \/ xpc' = [xpc EXCEPT ![p] = "x.lease"] /\ x' = [x EXCEPT ![p] = m]
      BY <1>5 DEF VisitWorker, Loop
    <2>3. UNCHANGED tables
      BY <1>5 DEF VisitWorker
    <2> HIDE DEF rest
    <2>4. {"lid", "late"} \subseteq DOMAIN m /\ ~m.late
      BY <2>1
    <2> HIDE DEF m
    <2> QED
      BY <1>3, <2>1, <2>2, <2>3, <2>4, ExecutionMove
  <1>6. CASE ReadLease(p)
    <2>1. xpc[p] = "x.lease" /\ ~x[p].late /\ UNCHANGED tables
      BY <1>1, <1>6 DEF ReadLease
    <2>2. CASE NextWorker(p)
      BY <1>2, <1>3, <2>1, <2>2
    <2>3. ASSUME NEW l \in leases, xpc' = [xpc EXCEPT ![p] = "x.exec"],
                 x' = [x EXCEPT ![p] = [x[p] EXCEPT !.lid = l.id]]
          PROVE  ExecutionStep
      <3> DEFINE m == [x[p] EXCEPT !.lid = l.id]
      <3>1. {"lid", "late"} \subseteq DOMAIN m /\ ~m.late /\ m.lid = l.id
        BY <1>1, <2>1
      <3>2. x' = [x EXCEPT ![p] = m]
        BY <2>3
      <3> HIDE DEF m
      <3> QED
        BY <1>1, <2>3, <3>1, <3>2, ExecutionMove
    <2>4. ASSUME NEW l \in leases,
                 Loop(p, "x.start", [[x[p] EXCEPT !.lid = l.id] EXCEPT !.jr = StartJob(@)])
          PROVE  ExecutionStep
      <3> DEFINE k == [x[p] EXCEPT !.lid = l.id]
                 m == [k EXCEPT !.jr = StartJob(@)]
      <3>1. {"lid", "late"} \subseteq DOMAIN k /\ ~k.late /\ k.lid = l.id
        BY <1>1, <2>1
      <3>2. xpc' = [xpc EXCEPT ![p] = "x.start"] /\ x' = [x EXCEPT ![p] = m]
        BY <2>4 DEF Loop
      <3> HIDE DEF k
      <3>3. {"lid", "late"} \subseteq DOMAIN m /\ ~m.late /\ m.lid = l.id
        BY <3>1
      <3> HIDE DEF m
      <3> QED
        BY <1>1, <3>2, <3>3, ExecutionMove
    <2>5. \/ NextWorker(p)
          \/ \E l \in leases :
                \/ /\ xpc' = [xpc EXCEPT ![p] = "x.exec"]
                   /\ x' = [x EXCEPT ![p] = [x[p] EXCEPT !.lid = l.id]]
                \/ Loop(p, "x.start", [[x[p] EXCEPT !.lid = l.id] EXCEPT !.jr = StartJob(@)])
      BY <1>6 DEF ReadLease, LeaseOfWorker
    <2> QED
      BY <1>3, <2>1, <2>2, <2>3, <2>4, <2>5
  <1>7. CASE PersistStarted(p)
    <2>1. xpc[p] = "x.start" /\ xpc' = [xpc EXCEPT ![p] = "x.exec"] /\ x' = x
          /\ UNCHANGED <<leases, granted>>
      BY <1>7 DEF PersistStarted
    <2>2. ExecutionStep
      BY <1>1, <2>1 DEF FInv, ExecutionHand, ExecutionStep
    <2> QED
      BY <2>1, <2>2, LeasesStand
  <1>8. CASE CommandEnds(p)
    <2>1. xpc[p] = "x.exec" /\ UNCHANGED tables /\ x[p].lid \in Known
      BY <1>1, <1>8 DEF CommandEnds
    <2>2. CASE /\ xpc' = [xpc EXCEPT ![p] = "x.worker"]
               /\ x' = [x EXCEPT ![p] = [Idle EXCEPT !.todo = x[p].todo]]
      <3> DEFINE m == [Idle EXCEPT !.todo = x[p].todo]
      <3>1. {"lid", "late"} \subseteq DOMAIN m /\ ~m.late
        BY IdleIs
      <3>2. x' = [x EXCEPT ![p] = m]
        BY <2>2
      <3> HIDE DEF m
      <3> QED
        BY <1>3, <2>1, <2>2, <3>1, <3>2, ExecutionMove
    <2>3. ASSUME xpc' = [xpc EXCEPT ![p] = "x.fence"], NEW o \in Outcome,
                 x' = [x EXCEPT ![p] = [x[p] EXCEPT !.wr = Conclude(@), !.jr = Finish(@, o),
                                                    !.late = ~LeaseExists(x[p].lid)]]
          PROVE  ExecutionStep
      <3> DEFINE late == ~LeaseExists(x[p].lid)
                 m == [x[p] EXCEPT !.wr = Conclude(@), !.jr = Finish(@, o), !.late = late]
      <3>1. x' = [x EXCEPT ![p] = m]
        BY <2>3
      <3>2. late => ~ \E l \in leases : l.id = x[p].lid
        BY DEF LeaseExists
      <3> HIDE DEF late
      <3>3. {"lid", "late"} \subseteq DOMAIN m /\ m.lid = x[p].lid /\ m.late = late
        BY <1>1
      <3> HIDE DEF m
      <3>4. m.lid \in Known /\ (m.late => ~ \E l \in leases : l.id = m.lid)
        BY <2>1, <3>2, <3>3
      <3> QED
        BY <2>3, <3>1, <3>3, <3>4, ExecutionMove
    <2> QED
      BY <1>3, <1>8, <2>1, <2>2, <2>3 DEF CommandEnds
  <1>9. CASE ReleaseFence(p)
    <2>1. UNCHANGED tables
      BY <1>9 DEF ReleaseFence
    <2>2. CASE OwnLease(x[p].n, x[p].lid)
      <3>1. Loop(p, "x.delete", x[p]) /\ \E l \in leases : l.id = x[p].lid
        BY <1>9, <2>2 DEF ReleaseFence, OwnLease, LeaseOfWorker
      <3>2. ~x[p].late
        BY <1>1, <3>1
      <3> QED
        BY <1>1, <1>3, <2>1, <3>1, <3>2, ExecutionMove DEF Loop
    <2>3. CASE ~OwnLease(x[p].n, x[p].lid)
      BY <1>2, <1>3, <1>9, <2>1, <2>3 DEF ReleaseFence
    <2> QED
      BY <2>2, <2>3
  <1>10. CASE ReleaseDelete(p)
    <2>1. Loop(p, "x.saveWorker", x[p]) /\ xpc[p] = "x.delete" /\ leases' \subseteq leases
          /\ granted' = granted
      BY <1>10 DEF ReleaseDelete, DeleteLease
    <2>2. LeaseStep
      BY <2>1 DEF LeaseStep, FInv, LeasesKnown
    <2> QED
      BY <1>1, <2>1, <2>2, ExecutionMove DEF Loop
  <1>11. CASE LoopSaveWorker(p)
    <2> DEFINE label == IF x[p].jr.node = None THEN "x.job" ELSE "x.node"
    <2>1. Loop(p, label, x[p]) /\ xpc[p] = "x.saveWorker" /\ UNCHANGED <<leases, granted>>
      BY <1>11 DEF LoopSaveWorker
    <2>2. label \notin {"x.start", "x.exec"}
      OBVIOUS
    <2> HIDE DEF label
    <2> QED
      BY <1>1, <2>1, <2>2, ExecutionMove, LeasesStand DEF Loop
  <1>12. CASE LoopReadNode(p)
    <2> DEFINE m == [x[p] EXCEPT !.nr = node[x[p].jr.node]]
    <2>1. Loop(p, "x.saveNode", m) /\ xpc[p] = "x.node" /\ UNCHANGED tables
      BY <1>12 DEF LoopReadNode
    <2>2. {"lid", "late"} \subseteq DOMAIN m /\ ~m.late
      BY <1>1, <2>1
    <2> HIDE DEF m
    <2> QED
      BY <1>3, <2>1, <2>2, ExecutionMove DEF Loop
  <1>13. CASE LoopSaveNode(p)
    BY <1>1, <1>13, ExecutionMove, LeasesStand DEF LoopSaveNode, Loop
  <1>14. CASE LoopReadJob(p)
    <2> DEFINE m == [x[p] EXCEPT !.jr.cancelReq = @ \/ job[x[p].j].cancelReq]
    <2>1. Loop(p, "x.saveJob", m) /\ xpc[p] = "x.job" /\ UNCHANGED tables
      BY <1>14 DEF LoopReadJob
    <2>2. {"lid", "late"} \subseteq DOMAIN m /\ ~m.late
      BY <1>1, <2>1
    <2> HIDE DEF m
    <2> QED
      BY <1>3, <2>1, <2>2, ExecutionMove DEF Loop
  <1>15. CASE LoopSaveJob(p)
    BY <1>2, <1>15, LeasesStand DEF LoopSaveJob
  <1> QED
    BY <1>4, <1>5, <1>6, <1>7, <1>8, <1>9, <1>10, <1>11, <1>12, <1>13, <1>14, <1>15
       DEF ExecutionLoop

\* The renewal thread leaves the identity and the place of its execution.
LEMMA RenewalKeeps ==
    ASSUME FInv, NEW p \in Process, RenewalThread(p)
    PROVE  ExecutionStep /\ LeaseStep
  <1>1. /\ {"lid", "late"} \subseteq DOMAIN x[p] /\ DOMAIN xpc = Process
        /\ xpc[p] \in {"x.start", "x.exec"} => x[p].lid \in Known
        /\ x[p].late => /\ xpc[p] = "x.fence" /\ x[p].lid \in Known
                        /\ ~ \E l \in leases : l.id = x[p].lid
    BY DEF FInv, ExecutionHand
  <1>2. ASSUME NEW label, NEW m, Renewing(p, label, m), m.lid = x[p].lid, m.late = x[p].late,
               {"lid", "late"} \subseteq DOMAIN m
        PROVE  ExecutionStep
    BY <1>1, <1>2 DEF Renewing, FInv, ExecutionHand, ExecutionStep
  <1> DEFINE lost == [x[p] EXCEPT !.lost = TRUE]
             told == [x[p] EXCEPT !.told = TRUE, !.jr = RequestCancellation(@)]
  <1>3. /\ lost.lid = x[p].lid /\ lost.late = x[p].late /\ {"lid", "late"} \subseteq DOMAIN lost
        /\ told.lid = x[p].lid /\ told.late = x[p].late /\ {"lid", "late"} \subseteq DOMAIN told
    BY <1>1
  <1>4. CASE KeepAlive(p)
    <2>1. UNCHANGED tables
          /\ \/ Renewing(p, "off", x[p]) \/ Renewing(p, "update", x[p])
             \/ Renewing(p, "off", lost)
      BY <1>4 DEF KeepAlive
    <2> HIDE DEF lost
    <2> QED
      BY <1>1, <1>2, <1>3, <2>1, LeasesStand DEF tables
  <1>5. CASE KeepAliveUpdate(p)
    <2> DEFINE renewed(l) == IF l.id = x[p].lid THEN [l EXCEPT !.expired = FALSE] ELSE l
    <2>1. leases' = {renewed(l) : l \in leases} /\ granted' = granted
      BY <1>5 DEF KeepAliveUpdate, RenewById
    <2>2. \A l \in LeaseRow : renewed(l) \in LeaseRow /\ renewed(l).id = l.id
      BY DEF LeaseRow
    <2>3. \/ Renewing(p, "wait", x[p]) \/ Renewing(p, "job", x[p]) \/ Renewing(p, "off", lost)
      BY <1>5 DEF KeepAliveUpdate
    <2> HIDE DEF renewed, lost
    <2>4. LeaseStep
      BY <2>1, <2>2 DEF LeaseStep, FInv, LeasesKnown
    <2> QED
      BY <1>1, <1>2, <1>3, <2>3, <2>4
  <1>6. CASE KeepAliveJob(p)
    <2>1. UNCHANGED tables /\ (Renewing(p, "wait", told) \/ Renewing(p, "wait", x[p]))
      BY <1>6 DEF KeepAliveJob
    <2> HIDE DEF told
    <2> QED
      BY <1>1, <1>2, <1>3, <2>1, LeasesStand DEF tables
  <1> QED
    BY <1>4, <1>5, <1>6 DEF RenewalThread

LEMMA FenceAlways == Spec => []FInv
  <1>1. Init => FInv
    <2>1. {"j", "n"} \subseteq DOMAIN Blank /\ {"lid", "late"} \subseteq DOMAIN Idle /\ ~Idle.late
      BY DEF Blank, Idle
    <2> QED
      BY <2>1 DEF Init, ControlInit, LoopInit, FInv, ControlHand, LeasesKnown, ExecutionHand, PickedPC
  <1>2. FInv /\ [Next]_vars => FInv'
    <2> SUFFICES ASSUME FInv, [Next]_vars PROVE FInv'
      OBVIOUS
    <2>1. UNCHANGED controlVars => ControlHand'
      BY DEF FInv, ControlHand, controlVars
    <2>2. UNCHANGED loopVars => ExecutionStep
      BY ExecutionStands DEF loopVars
    <2>3. UNCHANGED tables => LeaseStep
      BY LeasesStand DEF tables
    <2>4. \A p \in Process : \A l : Drive(p, l) /\ l \notin PickedPC => ControlHand'
      BY DEF Drive, ControlHand, Blank
    <2>5. \A p \in Process : \A l : Loop(p, l, Idle) /\ l \notin {"x.start", "x.exec"} => ExecutionStep
      BY ExecutionMove, IdleIs DEF Loop
    <2>6. ASSUME NEW p \in Process, Lead(p)
          PROVE  FInv'
      BY <2>2, <2>3, <2>4, <2>6, FenceKept DEF Lead, PickedPC
    <2>7. ASSUME NEW p \in Process, Schedule(p)
          PROVE  FInv'
      <3>1. UNCHANGED loopVars \/ Loop(p, "x.list", Idle)
        BY <2>7 DEF Schedule, Scheduled, ScheduleFails
      <3> QED
        BY <2>2, <2>5, <2>7, <3>1, SchedulerKeeps, FenceKept DEF Schedule
    <2>8. ASSUME NEW p \in Process, Execute(p) \/ KeepLease(p)
          PROVE  FInv'
      BY <2>1, <2>8, ExecutionKeeps, RenewalKeeps, FenceKept DEF Execute, KeepLease
    <2>9. ASSUME NEW p \in Process, Executed(p)
          PROVE  FInv'
      BY <2>1, <2>3, <2>4, <2>5, <2>9, FenceKept DEF Executed, PickedPC
    <2>10. ASSUME NEW p \in Process, Reconcile(p)
           PROVE  FInv'
      BY <2>2, <2>10, ReconcileKeeps, FenceKept DEF Reconcile
    <2>11. ASSUME NEW p \in Process, Crashes(p)
           PROVE  FInv'
      <3>1. ExecutionStep
        BY <2>11, ExecutionMove, IdleIs DEF Crashes
      <3>2. ControlHand'
        BY <2>1, <2>11 DEF Crashes, ControlHand, Blank, PickedPC
      <3> QED
        BY <2>3, <2>11, <3>1, <3>2, FenceKept DEF Crashes
    <2>16. ASSUME NEW p \in Process, CommandFaults(p)
           PROVE  FInv'
      <3> DEFINE m == [Idle EXCEPT !.todo = x[p].todo]
      <3>1. {"lid", "late"} \subseteq DOMAIN m /\ ~m.late
        BY IdleIs
      <3>2. x' = [x EXCEPT ![p] = m] /\ xpc' = [xpc EXCEPT ![p] = "x.worker"]
        BY <2>16 DEF CommandFaults, CommandRaises
      <3> HIDE DEF m
      <3>3. ExecutionStep
        BY <3>1, <3>2, ExecutionMove
      <3> QED
        BY <2>1, <2>3, <2>16, <3>3, FenceKept DEF CommandFaults, CommandRaises
    <2>12. ASSUME NEW p \in Process, Departs(p) \/ LosesLock(p)
           PROVE  FInv'
      BY <2>1, <2>2, <2>3, <2>12, FenceKept DEF Departs, LosesLock
    <2>13. CASE Expires
      <3>1. PICK l \in leases : leases' = (leases \ {l}) \cup {[l EXCEPT !.expired = TRUE]}
        BY <2>13 DEF Expires, LeaseExpires
      <3> DEFINE k == [l EXCEPT !.expired = TRUE]
      <3>2. k \in LeaseRow /\ k.id = l.id
        BY DEF LeaseRow, FInv, LeasesKnown
      <3>3. leases' = (leases \ {l}) \cup {k} /\ granted' = granted
        BY <2>13, <3>1 DEF Expires, LeaseExpires
      <3> HIDE DEF k
      <3>4. LeaseStep
        BY <3>2, <3>3 DEF LeaseStep, FInv, LeasesKnown
      <3> QED
        BY <2>1, <2>2, <2>13, <3>4, FenceKept DEF Expires
    <2>14. CASE User
      <3>1. UNCHANGED <<leases, granted>>
        BY <2>14 DEF User, CreateJob, CancelRead, UserSaveJob, tables
      <3> QED
        BY <2>1, <2>2, <2>14, <3>1, LeasesStand, FenceKept DEF User
    <2>15. CASE UNCHANGED vars
      BY <2>1, <2>2, <2>3, <2>15, FenceKept DEF vars
    <2> QED
      BY <2>6, <2>7, <2>8, <2>9, <2>10, <2>11, <2>12, <2>13, <2>14, <2>15, <2>16 DEF Next, Thread
  <1> QED
    BY <1>1, <1>2, PTL DEF Spec

\* The lease fence of ReleaseLeaseService holds for every number of processes that
\* execute at once, during a failover too: a result whose lease was gone when the
\* command ended writes no row.
THEOREM LateResultsAreFenced == Spec => []LateResultWritesNothing
  <1>1. FInv => LateResultWritesNothing
    BY DEF FInv, ExecutionHand, LateResultWritesNothing
  <1> QED
    BY <1>1, FenceAlways, PTL
=============================================================================
