---------------------------- MODULE ClusterProofs ----------------------------
(***************************************************************************)
(* The cluster for every number of nodes, jobs, retries, leases and         *)
(* crashes, with every interleaving of statements.  Whatever updates are    *)
(* lost: the tables keep their types, a report that began too late writes   *)
(* nothing, a lease never comes back once it is deleted, and the control    *)
(* loop deletes no valid lease.  Up to the first lost update: every attempt *)
(* is paid for, and the row of a job implements JobLifecycle.               *)
(*                                                                          *)
(* The fences compare identities, so what matters is that an identity is    *)
(* used once.  The invariant of the first half (IInv) says that every       *)
(* identity in use, in the leases table or in the memory of an agent, has   *)
(* been granted before: the next lease of its job gets a number that nobody *)
(* holds.  That of the second half (FInv) says that a row in the memory of  *)
(* a service is the stored row, or what one command makes of it, unless the *)
(* history says that the service has missed a version.                      *)
(***************************************************************************)
EXTENDS Cluster, JobEntityProofs

\* Where the control loop has a job and a node in hand, or a job.
PairPC == {"sched.saveJob", "assign.list", "assign.lease", "assign.insert",
           "assign.saveWorker", "unsched.saveNode", "unsched.saveJob",
           "exp.worker", "exp.job", "exp.saveWorker", "exp.node", "exp.saveNode",
           "off.delete", "off.saveWorker", "off.deleteLease", "off.saveNode", "off.saveJob"}
ExpPC == {"exp.worker", "exp.job", "exp.saveWorker", "exp.node", "exp.saveNode", "exp.saveJob"}
OffPC == {"off.lease", "off.delete", "off.saveWorker", "off.deleteLease", "off.saveNode",
          "off.saveJob"}

ControlAim ==
    /\ cpc \in PairPC => c.j \in Job /\ c.n \in Node
    /\ cpc \in ExpPC => c.j \in Job
    /\ cpc \in OffPC => \A n \in c.nodes :
           c.ws[n].job \in Job /\ (cpc # "off.lease" => n # c.n)

\* Where an agent has a job in hand, and where an outcome as well.
JobPC == {"reg.deleteLease", "reg.saveNode", "reg.saveJob", "poll.lease", "start.call",
          "start.saveWorker", "start.saveJob", "executing"}
ReportPC == {"report.call", "report.fence", "report.delete", "report.saveWorker",
             "report.node", "report.saveNode", "report.saveJob"}

AgentAim ==
    \A n \in Node :
        /\ apc[n] \in JobPC \cup ReportPC => am[n].j \in Job
        /\ apc[n] \in ReportPC => am[n].out \in Outcome
        /\ apc[n] \in {"report.node", "report.saveNode"} => am[n].jr.node \in Node

\* Every identity that is in use was granted.
Granted(id) == id \in LeaseId /\ id[2] < granted[id[1]]
IdsGranted ==
    /\ \A l \in leases : Granted(l.id)
    /\ \A n \in Node : am[n].lid # None => Granted(am[n].lid)

\* A late report is at its fence, and its lease is still gone.
LateStops ==
    \A n \in Node : am[n].late =>
        apc[n] = "report.fence" /\ am[n].lid # None /\ ~LeaseExists(am[n].lid)

\* RecoverOfflineNodeService deletes a lease it has not tested only for a job
\* that had none, and nobody but the control loop grants one.
GoneFirst ==
    \/ cpc = "off.deleteLease"
    \/ cpc = "off.saveWorker" /\ ~c.gone
    => LeaseOfJob(c.j) = {}

UserAim == /\ upc = "user.saveJob" => um.j \in Job
           /\ upc = "user.saveNode" => um.n \in Node

\* The types of everything but the history, which follows from them.
Shapes == StoreTypeOK /\ ControlTypeOK /\ AgentTypeOK /\ UserTypeOK
          /\ crashes \in 0 .. MaxCrashes /\ events \in Scenarios
Types == Shapes /\ ControlAim /\ AgentAim /\ UserAim
IInv == Types /\ IdsGranted /\ LateStops /\ GoneFirst

\* What a step may do to the leases: nothing, remove, renew or expire some, or
\* grant the next one of a job.
LeaseStep ==
    \/ UNCHANGED <<leases, granted>>
    \/ /\ granted' = granted
       /\ \A l \in leases' : \E k \in leases : k.id = l.id /\ k.worker = l.worker
    \/ \E j \in Job, n \in Node : InsertLease(j, n)
-----------------------------------------------------------------------------
(* The entities *)

LEMMA WorkerRows ==
    /\ NoWorker \in WorkerRow /\ IdleWorker \in WorkerRow
    /\ \A w \in WorkerRow :
          /\ Recover(w) \in WorkerRow /\ Conclude(w) \in WorkerRow
          /\ Offline(w) \in WorkerRow /\ Heartbeat(w) \in WorkerRow
          /\ \A j \in Job \cup {None} : Accept(w, j) \in WorkerRow
  BY DEF NoWorker, IdleWorker, WorkerRow, WorkerStatus, Recover, Conclude, Offline, Heartbeat,
         Accept

LEMMA NodeRows ==
    /\ NewNode \in NodeRow
    /\ \A r \in NodeRow : /\ Release(r) \in NodeRow /\ Drain(r) \in NodeRow
                          /\ CanHost(r) => Allocate(r) \in NodeRow
  <1>1. NewNode \in NodeRow
    BY CapacityAssumption DEF NewNode, NodeRow
  <1> SUFFICES ASSUME NEW r \in NodeRow
               PROVE  /\ Release(r) \in NodeRow /\ Drain(r) \in NodeRow
                      /\ CanHost(r) => Allocate(r) \in NodeRow
    BY <1>1
  <1>2. r.avail \in 0 .. Capacity
    BY DEF NodeRow
  <1> DEFINE up == IF r.avail + 1 <= Capacity THEN r.avail + 1 ELSE Capacity
  <1>3. up \in 0 .. Capacity /\ (CanHost(r) => r.avail - 1 \in 0 .. Capacity)
    BY <1>2, CapacityAssumption DEF CanHost
  <1>4. Release(r) = [r EXCEPT !.avail = up]
    BY DEF Release
  <1> HIDE DEF up
  <1> QED
    BY <1>3, <1>4 DEF NodeRow, Drain, Allocate

LEMMA NewJobRow == NewJob \in JobRow
  BY DEF NewJob, JobRow, JobStatus

LEMMA BlankTick ==
    /\ Blank \in Tick /\ Blank.j = None /\ Blank.n = None
    /\ Blank.ws \in [Node -> WorkerRow] /\ Blank.js \in [Job -> JobRow]
    /\ Blank.ns \in [Node -> NodeRow]
  BY WorkerRows, NodeRows, NewJobRow DEF Blank, Tick
-----------------------------------------------------------------------------
(* The control loop *)

ControlKept == StoreTypeOK' /\ ControlTypeOK' /\ ControlAim' /\ LeaseStep

LEMMA ControlFacts ==
    ASSUME Types
    PROVE  /\ c \in Tick /\ cpc \in ControlPC
           /\ c.ws \in [Node -> WorkerRow] /\ c.js \in [Job -> JobRow]
           /\ c.ns \in [Node -> NodeRow] /\ c.ls \in SUBSET LeaseRow
           /\ c.jobs \in SUBSET Job /\ c.nodes \in SUBSET Node
           /\ c.j \in Job \cup {None} /\ c.n \in Node \cup {None} /\ c.gone \in BOOLEAN
           /\ job \in [Job -> JobRow] /\ worker \in [Node -> WorkerRow]
           /\ node \in [Node -> NodeRow] /\ leases \in SUBSET LeaseRow
           /\ granted \in [Job -> Nat] /\ wfresh \in SUBSET Node /\ nfresh \in SUBSET Node
  BY DEF Types, Shapes, ControlTypeOK, StoreTypeOK, Tick

\* A step that moves the loop to a place with the memory m and leaves the leases.
LEMMA ControlMove ==
    ASSUME Types, NEW label \in ControlPC, NEW m \in Tick, Goto(label, m),
           label \in PairPC => m.j \in Job /\ m.n \in Node,
           label \in ExpPC => m.j \in Job,
           label \in OffPC => \A n \in m.nodes :
               m.ws[n].job \in Job /\ (label # "off.lease" => n # m.n),
           job' \in [Job -> JobRow], worker' \in [Node -> WorkerRow],
           node' \in [Node -> NodeRow], UNCHANGED <<leases, granted, wfresh, nfresh>>
    PROVE  ControlKept
  BY DEF ControlKept, Types, Shapes, StoreTypeOK, ControlTypeOK, ControlAim, LeaseStep, Goto

LEMMA SchedulerKeeps ==
    ASSUME Types, SchedulerLoop
    PROVE  ControlKept
  <1> USE ControlFacts
  <1>1. CASE SchedReadNodes
    <2> DEFINE m == [Blank EXCEPT !.ns = node, !.nodes = {n \in nfresh : ~node[n].draining}]
    <2>1. m \in Tick
      BY BlankTick DEF Tick
    <2>2. Goto("sched.jobs", m) /\ UNCHANGED tables
      BY <1>1 DEF SchedReadNodes
    <2> HIDE DEF m
    <2> QED
      BY <2>1, <2>2, ControlMove DEF tables, ControlPC, PairPC, ExpPC, OffPC
  <1>2. CASE SchedReadJobs
    <2> DEFINE queued == {j \in Job : job[j].status = "QUEUED"}
               js == [j \in Job |-> IF j \in queued THEN job[j] ELSE NewJob]
               m == [c EXCEPT !.jobs = queued, !.js = js]
    <2>1. js \in [Job -> JobRow]
      BY NewJobRow
    <2>2. m \in Tick
      BY <2>1 DEF Tick
    <2>3. Goto("sched.pick", m) /\ UNCHANGED tables
      BY <1>2 DEF SchedReadJobs
    <2> HIDE DEF m
    <2> QED
      BY <2>2, <2>3, ControlMove DEF tables, ControlPC, PairPC, ExpPC, OffPC
  <1>3. ASSUME NEW j \in Job, NEW n \in Node, SchedPick(j, n)
        PROVE  ControlKept
    <2> DEFINE row == Allocate(c.ns[n])
               m == [c EXCEPT !.ns[n] = row, !.js[j] = AssignTo(@, n),
                              !.jobs = @ \ {j}, !.j = j, !.n = n]
    <2>1. row \in NodeRow /\ AssignTo(c.js[j], n) \in JobRow
      BY <1>3, NodeRows, AssignToRow DEF SchedPick, Hosts
    <2>2. Goto("sched.saveJob", m) /\ SaveNode(n, row)
          /\ UNCHANGED <<job, worker, leases, granted, wfresh, nfresh>>
      BY <1>3 DEF SchedPick
    <2> HIDE DEF row
    <2>3. m \in Tick /\ m.j = j /\ m.n = n
      BY <2>1 DEF Tick
    <2>4. node' \in [Node -> NodeRow]
      BY <2>1, <2>2 DEF SaveNode
    <2> HIDE DEF m
    <2> QED
      BY <2>2, <2>3, <2>4, ControlMove DEF ControlPC, PairPC, ExpPC, OffPC
  <1>4. ASSUME NEW j \in Job, SchedSkip(j)
        PROVE  ControlKept
    <2> DEFINE m == [c EXCEPT !.jobs = @ \ {j}, !.js[j] = NewJob]
    <2>1. m \in Tick
      BY NewJobRow DEF Tick
    <2>2. Goto("sched.pick", m) /\ UNCHANGED tables
      BY <1>4 DEF SchedSkip
    <2> HIDE DEF m
    <2> QED
      BY <2>1, <2>2, ControlMove DEF tables, ControlPC, PairPC, ExpPC, OffPC
  <1>5. CASE SchedDone
    BY <1>5, BlankTick, ControlMove DEF SchedDone, tables, ControlPC, PairPC, ExpPC, OffPC
  <1>6. CASE SchedSaveJob
    <2>1. c.j \in Job /\ c.n \in Node
      BY <1>6 DEF SchedSaveJob, At, Types, ControlAim, PairPC
    <2>2. job' \in [Job -> JobRow]
      BY <1>6, <2>1 DEF SchedSaveJob, SaveJob
    <2> QED
      BY <1>6, <2>1, <2>2, ControlMove DEF SchedSaveJob, ControlPC, PairPC, ExpPC, OffPC
  <1>7. CASE AssignList
    <2>1. c.j \in Job /\ c.n \in Node
      BY <1>7 DEF AssignList, At, Types, ControlAim, PairPC
    <2> DEFINE m == [c EXCEPT !.ws[c.n] = worker[c.n]]
    <2>2. m \in Tick /\ m.j = c.j /\ m.n = c.n
      BY <2>1 DEF Tick
    <2>3. (Goto("assign.lease", m) \/ Goto("unsched.saveNode", c)) /\ UNCHANGED tables
      BY <1>7 DEF AssignList
    <2> HIDE DEF m
    <2> QED
      BY <2>1, <2>2, <2>3, ControlMove DEF tables, ControlPC, PairPC, ExpPC, OffPC
  <1>8. CASE AssignLease
    <2>1. c.j \in Job /\ c.n \in Node
      BY <1>8 DEF AssignLease, At, Types, ControlAim, PairPC
    <2>2. (Goto("assign.insert", c) \/ Goto("dead.list", Blank)) /\ UNCHANGED tables
      BY <1>8 DEF AssignLease
    <2> QED
      BY <2>1, <2>2, BlankTick, ControlMove DEF tables, ControlPC, PairPC, ExpPC, OffPC
  <1>9. CASE AssignInsert
    <2>1. c.j \in Job /\ c.n \in Node
      BY <1>9 DEF AssignInsert, At, Types, ControlAim, PairPC
    <2>2. CASE CanInsertLease(c.j, c.n)
      <3>1. InsertLease(c.j, c.n) /\ Goto("assign.saveWorker", c)
            /\ UNCHANGED <<job, worker, node, wfresh, nfresh>>
        BY <1>9, <2>2 DEF AssignInsert
      <3> DEFINE l == [id |-> <<c.j, granted[c.j]>>, worker |-> c.n, expired |-> FALSE]
      <3>2. l \in LeaseRow
        BY <2>1 DEF LeaseRow, LeaseId
      <3>3. leases' = leases \cup {l} /\ granted' = [granted EXCEPT ![c.j] = @ + 1]
        BY <3>1 DEF InsertLease
      <3> HIDE DEF l
      <3>4. leases' \in SUBSET LeaseRow /\ granted' \in [Job -> Nat]
        <4>1. granted[c.j] + 1 \in Nat
          BY <2>1
        <4> QED
          BY <3>2, <3>3, <4>1
      <3>5. StoreTypeOK'
        BY <3>1, <3>4 DEF StoreTypeOK
      <3>6. ControlTypeOK' /\ ControlAim'
        BY <2>1, <3>1 DEF ControlTypeOK, ControlAim, Goto, ControlPC, PairPC, ExpPC, OffPC
      <3>7. LeaseStep
        BY <2>1, <3>1 DEF LeaseStep
      <3> QED
        BY <3>5, <3>6, <3>7 DEF ControlKept
    <2>3. CASE ~CanInsertLease(c.j, c.n)
      BY <1>9, <2>3, BlankTick, ControlMove DEF AssignInsert, ControlPC, PairPC, ExpPC, OffPC
    <2> QED
      BY <2>2, <2>3
  <1>10. NextJob \in Tick
    BY NewJobRow, WorkerRows DEF NextJob, Tick
  <1>11. CASE AssignSaveWorker
    <2>1. Accept(c.ws[c.n], c.j) \in WorkerRow \/ c.n \notin Node
      BY WorkerRows
    <2>2. worker' \in [Node -> WorkerRow]
      BY <1>11, <2>1 DEF AssignSaveWorker, SaveWorker
    <2> QED
      BY <1>10, <1>11, <2>2, ControlMove DEF AssignSaveWorker, ControlPC, PairPC, ExpPC, OffPC
  <1>12. CASE UnschedSaveNode
    <2>1. c.j \in Job /\ c.n \in Node
      BY <1>12 DEF UnschedSaveNode, At, Types, ControlAim, PairPC
    <2> DEFINE row == Release(c.ns[c.n])
               m == [c EXCEPT !.ns[c.n] = row, !.js[c.j] = Unschedule(@)]
    <2>2. row \in NodeRow /\ Unschedule(c.js[c.j]) \in JobRow
      BY <2>1, NodeRows, UnscheduleRow
    <2>3. Goto("unsched.saveJob", m) /\ SaveNode(c.n, row)
          /\ UNCHANGED <<job, worker, leases, granted, wfresh, nfresh>>
      BY <1>12 DEF UnschedSaveNode
    <2> HIDE DEF row
    <2>4. m \in Tick /\ m.j = c.j /\ m.n = c.n
      BY <2>1, <2>2 DEF Tick
    <2>5. node' \in [Node -> NodeRow]
      BY <2>2, <2>3 DEF SaveNode
    <2> HIDE DEF m
    <2> QED
      BY <2>1, <2>3, <2>4, <2>5, ControlMove DEF ControlPC, PairPC, ExpPC, OffPC
  <1>13. CASE UnschedSaveJob
    <2>1. job' \in [Job -> JobRow]
      BY <1>13 DEF UnschedSaveJob, SaveJob
    <2> QED
      BY <1>10, <1>13, <2>1, ControlMove DEF UnschedSaveJob, ControlPC, PairPC, ExpPC, OffPC
  <1> QED
    BY <1>1, <1>2, <1>3, <1>4, <1>5, <1>6, <1>7, <1>8, <1>9, <1>11, <1>12, <1>13
       DEF SchedulerLoop

LEMMA DeadKeeps ==
    ASSUME Types, MarkDeadWorkers
    PROVE  ControlKept
  <1> USE ControlFacts
  <1>1. CASE DeadList
    <2> DEFINE dead == {n \in Node \ wfresh : worker[n].status # "ABSENT"}
               ws == [n \in Node |-> IF n \in dead THEN worker[n] ELSE NoWorker]
               m == [Blank EXCEPT !.nodes = dead, !.ws = ws]
    <2>1. ws \in [Node -> WorkerRow] /\ dead \in SUBSET Node
      BY WorkerRows
    <2>2. Goto("dead.save", m) /\ UNCHANGED tables
      BY <1>1 DEF DeadList
    <2> HIDE DEF ws, dead
    <2>3. m \in Tick
      BY <2>1, BlankTick DEF Tick
    <2> HIDE DEF m
    <2> QED
      BY <2>2, <2>3, ControlMove DEF tables, ControlPC, PairPC, ExpPC, OffPC
  <1>2. ASSUME NEW n \in Node, DeadSave(n)
        PROVE  ControlKept
    <2> DEFINE m == [c EXCEPT !.nodes = @ \ {n}, !.ws[n] = NoWorker]
    <2>1. m \in Tick
      BY WorkerRows DEF Tick
    <2>2. Goto("dead.save", m) /\ SaveWorker(n, Offline(c.ws[n]))
          /\ UNCHANGED <<job, node, leases, granted, wfresh, nfresh>>
      BY <1>2 DEF DeadSave
    <2>3. worker' \in [Node -> WorkerRow]
      BY <2>2, WorkerRows DEF SaveWorker
    <2> HIDE DEF m
    <2> QED
      BY <2>1, <2>2, <2>3, ControlMove DEF ControlPC, PairPC, ExpPC, OffPC
  <1>3. CASE DeadDone
    BY <1>3, BlankTick, ControlMove DEF DeadDone, tables, ControlPC, PairPC, ExpPC, OffPC
  <1> QED
    BY <1>1, <1>2, <1>3 DEF MarkDeadWorkers

\* A step that deletes leases, too.
LEMMA ControlDeletes ==
    ASSUME Types, NEW label \in ControlPC, NEW m \in Tick, Goto(label, m),
           label \in PairPC => m.j \in Job /\ m.n \in Node,
           label \in ExpPC => m.j \in Job,
           label \in OffPC => \A n \in m.nodes :
               m.ws[n].job \in Job /\ (label # "off.lease" => n # m.n),
           leases' \subseteq leases, UNCHANGED <<job, worker, node, granted, wfresh, nfresh>>
    PROVE  ControlKept
  <1>1. StoreTypeOK'
    BY DEF Types, Shapes, StoreTypeOK
  <1>2. ControlTypeOK' /\ ControlAim'
    BY DEF ControlTypeOK, ControlAim, Goto
  <1> QED
    BY <1>1, <1>2 DEF ControlKept, LeaseStep

\* reclaim_job's save of the job.
LEMMA ReclaimedSave ==
    ASSUME job \in [Job -> JobRow], NEW j, NEW row, j \in Job => row \in JobRow,
           SaveReclaimed(j, row)
    PROVE  job' \in [Job -> JobRow]
  <1>1. j \in Job => Reclaim(row) \in JobRow
    BY ReclaimRow
  <1> QED
    BY <1>1 DEF SaveReclaimed, SaveJob

LEMMA ExpiredKeeps ==
    ASSUME Types, RecoverExpiredLease
    PROVE  ControlKept
  <1> USE ControlFacts
  <1>1. CASE ExpList
    <2> DEFINE m == [Blank EXCEPT !.ls = leases]
    <2>1. m \in Tick
      BY BlankTick DEF Tick
    <2>2. Goto("exp.delete", m) /\ UNCHANGED tables
      BY <1>1 DEF ExpList
    <2> HIDE DEF m
    <2> QED
      BY <2>1, <2>2, ControlMove DEF tables, ControlPC, PairPC, ExpPC, OffPC
  <1>2. ASSUME NEW l \in c.ls, ExpSkip(l)
        PROVE  ControlKept
    <2> DEFINE m == [c EXCEPT !.ls = @ \ {l}]
    <2>1. m \in Tick
      BY DEF Tick
    <2>2. Goto("exp.delete", m) /\ UNCHANGED tables
      BY <1>2 DEF ExpSkip
    <2> HIDE DEF m
    <2> QED
      BY <2>1, <2>2, ControlMove DEF tables, ControlPC, PairPC, ExpPC, OffPC
  <1>3. ASSUME NEW l \in c.ls, ExpDelete(l)
        PROVE  ControlKept
    <2> DEFINE m == [c EXCEPT !.ls = @ \ {l}, !.j = JobOf(l), !.n = l.worker]
               k == [c EXCEPT !.ls = @ \ {l}]
    <2>1. JobOf(l) \in Job /\ l.worker \in Node
      BY DEF LeaseRow, LeaseId, JobOf
    <2>2. k \in Tick
      BY DEF Tick
    <2>3. m \in Tick /\ m.j \in Job /\ m.n \in Node
      BY <2>1 DEF Tick
    <2>4. (Goto("exp.worker", m) \/ Goto("exp.delete", k)) /\ leases' \subseteq leases
          /\ UNCHANGED <<job, worker, node, granted, wfresh, nfresh>>
      BY <1>3 DEF ExpDelete, DeleteIfExpired
    <2> HIDE DEF m, k
    <2> QED
      BY <2>2, <2>3, <2>4, ControlDeletes DEF ControlPC, PairPC, ExpPC, OffPC
  <1>4. CASE ExpDone
    BY <1>4, BlankTick, ControlMove DEF ExpDone, tables, ControlPC, PairPC, ExpPC, OffPC
  <1>5. (cpc \in ExpPC => c.j \in Job) /\ (cpc \in PairPC => c.n \in Node)
    BY DEF Types, ControlAim
  <1>6. CASE ExpReadWorker
    <2> DEFINE m == [c EXCEPT !.ws[c.n] = worker[c.n]]
    <2>1. m \in Tick /\ m.j = c.j /\ m.n = c.n
      BY DEF Tick
    <2>2. Goto("exp.job", m) /\ UNCHANGED tables /\ cpc \in ExpPC \cap PairPC
      BY <1>6 DEF ExpReadWorker, At, ExpPC, PairPC
    <2> HIDE DEF m
    <2> QED
      BY <1>5, <2>1, <2>2, ControlMove DEF tables, ControlPC, PairPC, ExpPC, OffPC
  <1>7. CASE ExpReadJob
    <2> DEFINE m == [c EXCEPT !.js[c.j] = job[c.j]]
    <2>1. m \in Tick /\ m.j = c.j /\ m.n = c.n
      BY DEF Tick
    <2>2. Goto("exp.saveWorker", m) /\ UNCHANGED tables /\ cpc \in ExpPC \cap PairPC
      BY <1>7 DEF ExpReadJob, At, ExpPC, PairPC
    <2> HIDE DEF m
    <2> QED
      BY <1>5, <2>1, <2>2, ControlMove DEF tables, ControlPC, PairPC, ExpPC, OffPC
  <1>8. CASE ExpSaveWorker
    <2> DEFINE m == [c EXCEPT !.n = c.js[c.j].node, !.ws = Blank.ws]
    <2>1. c.j \in Job
      BY <1>5, <1>8 DEF ExpSaveWorker, At, ExpPC
    <2>2. c.js[c.j].node \in Node \cup {None}
      BY <2>1 DEF JobRow
    <2>3. m \in Tick /\ m.j = c.j /\ m.n = c.js[c.j].node
      BY <2>2, BlankTick DEF Tick
    <2>4. (Goto("exp.saveJob", m) \/ (Goto("exp.node", m) /\ c.js[c.j].node # None))
          /\ SaveWorker(c.n, Recover(c.ws[c.n]))
          /\ UNCHANGED <<job, node, leases, granted, wfresh, nfresh>>
      BY <1>8 DEF ExpSaveWorker
    <2>5. worker' \in [Node -> WorkerRow]
      BY <2>4, WorkerRows DEF SaveWorker
    <2> HIDE DEF m
    <2> QED
      BY <2>1, <2>2, <2>3, <2>4, <2>5, ControlMove DEF ControlPC, PairPC, ExpPC, OffPC
  <1>9. CASE ExpReadNode
    <2> DEFINE m == [c EXCEPT !.ns[c.n] = node[c.n]]
    <2>1. m \in Tick /\ m.j = c.j /\ m.n = c.n
      BY DEF Tick
    <2>2. Goto("exp.saveNode", m) /\ UNCHANGED tables /\ cpc \in ExpPC \cap PairPC
      BY <1>9 DEF ExpReadNode, At, ExpPC, PairPC
    <2> HIDE DEF m
    <2> QED
      BY <1>5, <2>1, <2>2, ControlMove DEF tables, ControlPC, PairPC, ExpPC, OffPC
  <1>10. CASE ExpSaveNode
    <2> DEFINE m == [c EXCEPT !.ns = Blank.ns]
    <2>1. m \in Tick /\ m.j = c.j
      BY BlankTick DEF Tick
    <2>2. Goto("exp.saveJob", m) /\ SaveNode(c.n, Release(c.ns[c.n])) /\ cpc \in ExpPC
          /\ UNCHANGED <<job, worker, leases, granted, wfresh, nfresh>>
      BY <1>10 DEF ExpSaveNode, At, ExpPC
    <2>3. node' \in [Node -> NodeRow]
      BY <2>2, NodeRows DEF SaveNode
    <2> HIDE DEF m
    <2> QED
      BY <1>5, <2>1, <2>2, <2>3, ControlMove DEF ControlPC, PairPC, ExpPC, OffPC
  <1>11. CASE ExpSaveJob
    <2> DEFINE m == [c EXCEPT !.js = Blank.js, !.j = None, !.n = None]
    <2>1. m \in Tick
      BY BlankTick DEF Tick
    <2>2. Goto("exp.delete", m) /\ SaveReclaimed(c.j, c.js[c.j])
          /\ UNCHANGED <<worker, node, leases, granted, wfresh, nfresh>>
      BY <1>11 DEF ExpSaveJob
    <2>3. job' \in [Job -> JobRow]
      BY <2>2, ReclaimedSave
    <2> HIDE DEF m
    <2> QED
      BY <2>1, <2>2, <2>3, ControlMove DEF ControlPC, PairPC, ExpPC, OffPC
  <1> QED
    BY <1>1, <1>2, <1>3, <1>4, <1>6, <1>7, <1>8, <1>9, <1>10, <1>11 DEF RecoverExpiredLease

LEMMA OfflineKeeps ==
    ASSUME Types, RecoverOfflineNode
    PROVE  ControlKept
  <1> USE ControlFacts
  <1>1. CASE OffReadNodes
    <2> DEFINE m == [Blank EXCEPT !.nodes = Node \ nfresh]
    <2>1. m \in Tick
      BY BlankTick DEF Tick
    <2>2. (Goto("idle", Blank) \/ Goto("off.list", m)) /\ UNCHANGED tables
      BY <1>1 DEF OffReadNodes
    <2> HIDE DEF m
    <2> QED
      BY <2>1, <2>2, BlankTick, ControlMove DEF tables, ControlPC, PairPC, ExpPC, OffPC
  <1>2. CASE OffList
    <2> DEFINE held == {n \in c.nodes : worker[n].job # None}
               ws == [n \in Node |-> IF n \in held THEN worker[n] ELSE NoWorker]
               ns == [n \in Node |-> IF n \in held THEN node[n] ELSE NewNode]
               js == [j \in Job |-> IF \E n \in held : worker[n].job = j
                                    THEN job[j] ELSE NewJob]
               m == [c EXCEPT !.nodes = held, !.ws = ws, !.ns = ns, !.js = js]
    <2>1. held \in SUBSET Node /\ ws \in [Node -> WorkerRow] /\ ns \in [Node -> NodeRow]
          /\ js \in [Job -> JobRow]
      BY WorkerRows, NodeRows, NewJobRow
    <2>2. Goto("off.lease", m) /\ UNCHANGED tables
      BY <1>2 DEF OffList
    <2>4. \A n \in held : ws[n].job \in Job
      BY <2>1 DEF WorkerRow
    <2> HIDE DEF held, ws, ns, js
    <2>3. m \in Tick /\ m.nodes = held /\ m.ws = ws
      BY <2>1 DEF Tick
    <2> HIDE DEF m
    <2> QED
      BY <2>2, <2>3, <2>4, ControlMove DEF tables, ControlPC, PairPC, ExpPC, OffPC
  <1>3. ASSUME NEW n \in Node, OffLease(n)
        PROVE  ControlKept
    <2> DEFINE rest == [c EXCEPT !.nodes = @ \ {n}]
               held == [rest EXCEPT !.n = n, !.j = c.ws[n].job]
    <2>1. rest \in Tick /\ rest.nodes = c.nodes \ {n} /\ rest.ws = c.ws
      BY DEF Tick
    <2>2. c.ws[n].job \in Job /\ \A k \in c.nodes : c.ws[k].job \in Job
      BY <1>3 DEF OffLease, At, Types, ControlAim, OffPC
    <2>3. (Goto("off.saveWorker", held) \/ Goto("off.lease", rest) \/ Goto("off.delete", held))
          /\ UNCHANGED tables
      BY <1>3 DEF OffLease
    <2> HIDE DEF rest
    <2>4. held \in Tick /\ held.j = c.ws[n].job /\ held.n = n
          /\ held.nodes = rest.nodes /\ held.ws = rest.ws
      BY <2>1, <2>2 DEF Tick
    <2> HIDE DEF held
    <2> QED
      BY <2>1, <2>2, <2>3, <2>4, ControlMove DEF tables, ControlPC, PairPC, ExpPC, OffPC
  <1>4. CASE OffDelete
    <2> DEFINE m == [c EXCEPT !.gone = TRUE]
               k == [c EXCEPT !.j = None, !.n = None]
    <2>1. m \in Tick /\ k \in Tick /\ m.j = c.j /\ m.n = c.n /\ m.nodes = c.nodes
          /\ m.ws = c.ws /\ k.nodes = c.nodes /\ k.ws = c.ws
      BY DEF Tick
    <2>3. c.j \in Job /\ c.n \in Node /\ \A n \in c.nodes : c.ws[n].job \in Job /\ n # c.n
      BY <1>4 DEF OffDelete, At, Types, ControlAim, OffPC, PairPC
    <2>2. (Goto("off.saveWorker", m) \/ Goto("off.lease", k)) /\ leases' \subseteq leases
          /\ UNCHANGED <<job, worker, node, granted, wfresh, nfresh>>
      BY <1>4 DEF OffDelete, DeleteIfExpired
    <2> HIDE DEF m, k
    <2> QED
      BY <2>1, <2>2, <2>3, ControlDeletes DEF ControlPC, PairPC, ExpPC, OffPC
  <1>5. CASE OffSaveWorker
    <2>1. (Goto("off.saveNode", c) \/ Goto("off.deleteLease", c))
          /\ SaveWorker(c.n, Recover(c.ws[c.n]))
          /\ UNCHANGED <<job, node, leases, granted, wfresh, nfresh>>
      BY <1>5 DEF OffSaveWorker
    <2>2. worker' \in [Node -> WorkerRow]
      BY <2>1, WorkerRows DEF SaveWorker
    <2>9. c.j \in Job /\ c.n \in Node /\ \A n \in c.nodes : c.ws[n].job \in Job /\ n # c.n
      BY <1>5 DEF OffSaveWorker, At, Types, ControlAim, OffPC, PairPC
    <2> QED
      BY <2>9, <2>1, <2>2, ControlMove DEF ControlPC, PairPC, ExpPC, OffPC
  <1>6. CASE OffDeleteLease
    <2>1. Goto("off.saveNode", c) /\ leases' \subseteq leases
          /\ UNCHANGED <<job, worker, node, granted, wfresh, nfresh>>
      BY <1>6 DEF OffDeleteLease, DeleteLease
    <2>9. c.j \in Job /\ c.n \in Node /\ \A n \in c.nodes : c.ws[n].job \in Job /\ n # c.n
      BY <1>6 DEF OffDeleteLease, At, Types, ControlAim, OffPC, PairPC
    <2> QED
      BY <2>9, <2>1, ControlDeletes DEF ControlPC, PairPC, ExpPC, OffPC
  <1>7. CASE OffSaveNode
    <2>1. Goto("off.saveJob", c) /\ SaveNode(c.n, Release(c.ns[c.n]))
          /\ UNCHANGED <<job, worker, leases, granted, wfresh, nfresh>>
      BY <1>7 DEF OffSaveNode
    <2>2. node' \in [Node -> NodeRow]
      BY <2>1, NodeRows DEF SaveNode
    <2>9. c.j \in Job /\ c.n \in Node /\ \A n \in c.nodes : c.ws[n].job \in Job /\ n # c.n
      BY <1>7 DEF OffSaveNode, At, Types, ControlAim, OffPC, PairPC
    <2> QED
      BY <2>9, <2>1, <2>2, ControlMove DEF ControlPC, PairPC, ExpPC, OffPC
  <1>8. CASE OffSaveJob
    <2> DEFINE m == [c EXCEPT !.ws[c.n] = NoWorker, !.ns[c.n] = NewNode,
                              !.j = None, !.n = None, !.gone = FALSE]
    <2>9. c.n \in Node /\ \A n \in c.nodes : c.ws[n].job \in Job /\ n # c.n
      BY <1>8 DEF OffSaveJob, At, Types, ControlAim, OffPC, PairPC
    <2>1. m \in Tick /\ m.nodes = c.nodes /\ m.ws = [c.ws EXCEPT ![c.n] = NoWorker]
      BY WorkerRows, NodeRows DEF Tick
    <2>2. Goto("off.lease", m) /\ SaveReclaimed(c.j, c.js[c.j])
          /\ UNCHANGED <<worker, node, leases, granted, wfresh, nfresh>>
      BY <1>8 DEF OffSaveJob
    <2>3. job' \in [Job -> JobRow]
      BY <2>2, ReclaimedSave
    <2> HIDE DEF m
    <2> QED
      BY <2>9, <2>1, <2>2, <2>3, ControlMove DEF ControlPC, PairPC, ExpPC, OffPC
  <1>9. CASE OffDone
    BY <1>9, BlankTick, ControlMove DEF OffDone, tables, ControlPC, PairPC, ExpPC, OffPC
  <1> QED
    BY <1>1, <1>2, <1>3, <1>4, <1>5, <1>6, <1>7, <1>8, <1>9 DEF RecoverOfflineNode
-----------------------------------------------------------------------------
(* The agents.  Beside the types: an agent learns an identity only from the  *)
(* leases table, and a report is late only if its lease is not there.        *)

AgentKept ==
    /\ StoreTypeOK' /\ AgentTypeOK' /\ AgentAim' /\ LeaseStep
    /\ \A n \in Node : am'[n].lid # None =>
           am'[n].lid = am[n].lid \/ \E l \in leases : am'[n].lid = l.id
    /\ \A n \in Node : am'[n].late =>
           /\ apc'[n] = "report.fence" /\ am'[n].lid # None
           /\ ~ \E l \in leases : l.id = am'[n].lid

LEMMA AgentFacts ==
    ASSUME IInv, NEW n \in Node
    PROVE  /\ am[n] \in AgentMem /\ apc[n] \in AgentPC
           /\ am[n].j \in Job \cup {None} /\ am[n].lid \in LeaseId \cup {None}
           /\ am[n].wr \in WorkerRow /\ am[n].jr \in JobRow /\ am[n].nr \in NodeRow
           /\ am[n].out \in Outcome \cup {None} /\ am[n].told \in BOOLEAN
           /\ am[n].lost \in BOOLEAN /\ am[n].late \in BOOLEAN
           /\ rm[n] \in BOOLEAN /\ rpc[n] \in RenewPC /\ hm[n] \in BeatMem /\ hpc[n] \in BeatPC
           /\ apc[n] \in JobPC \cup ReportPC => am[n].j \in Job
           /\ apc[n] \in ReportPC => am[n].out \in Outcome
           /\ apc[n] \in {"report.node", "report.saveNode"} => am[n].jr.node \in Node
           /\ am[n].late => /\ apc[n] = "report.fence" /\ am[n].lid # None
                            /\ ~ \E l \in leases : l.id = am[n].lid
  <1>1. am[n] \in AgentMem
    BY DEF IInv, Types, Shapes, AgentTypeOK
  <1>2. /\ am[n].j \in Job \cup {None} /\ am[n].lid \in LeaseId \cup {None}
        /\ am[n].wr \in WorkerRow /\ am[n].jr \in JobRow /\ am[n].nr \in NodeRow
        /\ am[n].out \in Outcome \cup {None} /\ am[n].told \in BOOLEAN
        /\ am[n].lost \in BOOLEAN /\ am[n].late \in BOOLEAN
    BY <1>1 DEF AgentMem
  <1> QED
    BY <1>1, <1>2
       DEF IInv, Types, Shapes, AgentTypeOK, AgentAim, LateStops, LeaseExists

LEMMA StoreFacts ==
    ASSUME IInv
    PROVE  /\ job \in [Job -> JobRow] /\ worker \in [Node -> WorkerRow]
           /\ node \in [Node -> NodeRow] /\ leases \in SUBSET LeaseRow
           /\ granted \in [Job -> Nat] /\ wfresh \in SUBSET Node /\ nfresh \in SUBSET Node
  BY DEF IInv, Types, Shapes, StoreTypeOK

LEMMA NoMemIs ==
    /\ NoMem \in AgentMem /\ NoMem.lid = None /\ ~NoMem.late
    /\ \A m \in AgentMem :
          /\ Keep(m) \in AgentMem /\ Keep(m).j = m.j /\ Keep(m).lid = m.lid
          /\ Keep(m).out = m.out /\ ~Keep(m).late
  <1>1. NoMem \in AgentMem /\ NoMem.lid = None /\ ~NoMem.late
    BY WorkerRows, NodeRows, NewJobRow DEF NoMem, AgentMem
  <1> SUFFICES ASSUME NEW m \in AgentMem
               PROVE  /\ Keep(m) \in AgentMem /\ Keep(m).j = m.j /\ Keep(m).lid = m.lid
                      /\ Keep(m).out = m.out /\ ~Keep(m).late
    BY <1>1
  <1> DEFINE j == m.j
             lid == m.lid
             out == m.out
             told == m.told
             lost == m.lost
             k == [NoMem EXCEPT !.j = j, !.lid = lid, !.out = out]
             k2 == [k EXCEPT !.told = told, !.lost = lost]
  <1>2. /\ j \in Job \cup {None} /\ lid \in LeaseId \cup {None} /\ out \in Outcome \cup {None}
        /\ told \in BOOLEAN /\ lost \in BOOLEAN
    BY DEF AgentMem
  <1>3. Keep(m) = k2
    BY DEF Keep
  <1> HIDE DEF j, lid, out, told, lost
  <1>4. k \in AgentMem /\ k.j = j /\ k.lid = lid /\ k.out = out /\ k.late = NoMem.late
    BY <1>1, <1>2 DEF AgentMem
  <1> HIDE DEF k
  <1>5. k2 \in AgentMem /\ k2.j = k.j /\ k2.lid = k.lid /\ k2.out = k.out /\ k2.late = k.late
    BY <1>2, <1>4 DEF AgentMem
  <1> HIDE DEF k2
  <1> QED
    BY <1>1, <1>3, <1>4, <1>5 DEF j, lid, out

\* The main thread of n goes to a place with the memory m.
LEMMA MainMove ==
    ASSUME IInv, NEW n \in Node, NEW label \in AgentPC, NEW m \in AgentMem, Main(n, label, m),
           label \in JobPC \cup ReportPC => m.j \in Job,
           label \in ReportPC => m.out \in Outcome,
           label \in {"report.node", "report.saveNode"} => m.jr.node \in Node,
           m.lid # None => m.lid = am[n].lid \/ \E l \in leases : m.lid = l.id,
           m.late => /\ label = "report.fence" /\ m.lid # None
                     /\ ~ \E l \in leases : l.id = m.lid,
           StoreTypeOK', LeaseStep
    PROVE  AgentKept
  <1>1. /\ apc \in [Node -> AgentPC] /\ am \in [Node -> AgentMem]
        /\ rpc \in [Node -> RenewPC] /\ rm \in [Node -> BOOLEAN]
        /\ hpc \in [Node -> BeatPC] /\ hm \in [Node -> BeatMem]
    BY DEF IInv, Types, Shapes, AgentTypeOK
  <1>2. /\ am'[n] = m /\ apc'[n] = label
        /\ \A q \in Node \ {n} : am'[q] = am[q] /\ apc'[q] = apc[q]
    BY <1>1 DEF Main
  <1>3. AgentTypeOK'
    BY <1>1 DEF Main, AgentTypeOK
  <1>4. AgentAim'
    BY <1>2 DEF IInv, Types, AgentAim
  <1> QED
    BY <1>2, <1>3, <1>4, AgentFacts DEF AgentKept

\* The same for a step that only reads.
LEMMA MainOnlyReads ==
    ASSUME IInv, NEW n \in Node, NEW label \in AgentPC, NEW m \in AgentMem, Main(n, label, m),
           label \in JobPC \cup ReportPC => m.j \in Job,
           label \in ReportPC => m.out \in Outcome,
           label \in {"report.node", "report.saveNode"} => m.jr.node \in Node,
           m.lid # None => m.lid = am[n].lid \/ \E l \in leases : m.lid = l.id,
           m.late => /\ label = "report.fence" /\ m.lid # None
                     /\ ~ \E l \in leases : l.id = m.lid,
           UNCHANGED tables
    PROVE  AgentKept
  <1>1. StoreTypeOK' /\ LeaseStep
    BY DEF IInv, Types, Shapes, StoreTypeOK, LeaseStep, tables
  <1> QED
    BY <1>1, MainMove

\* A step that writes rows but no lease.
LEMMA RowsWritten ==
    ASSUME IInv, job' \in [Job -> JobRow], worker' \in [Node -> WorkerRow],
           node' \in [Node -> NodeRow], wfresh' \in SUBSET Node, nfresh' \in SUBSET Node,
           UNCHANGED <<leases, granted>>
    PROVE  StoreTypeOK' /\ LeaseStep
  BY DEF IInv, Types, Shapes, StoreTypeOK, LeaseStep

\* A step that writes leases but no other row.
LEMMA LeasesWritten ==
    ASSUME IInv, leases' \in SUBSET LeaseRow,
           \A l \in leases' : \E k \in leases : k.id = l.id /\ k.worker = l.worker,
           UNCHANGED <<job, worker, node, granted, wfresh, nfresh>>
    PROVE  StoreTypeOK' /\ LeaseStep
  BY DEF IInv, Types, Shapes, StoreTypeOK, LeaseStep

LEMMA RegisterKeeps ==
    ASSUME IInv, NEW n \in Node, RegisterWorker(n)
    PROVE  AgentKept
  <1> USE StoreFacts, AgentFacts, NoMemIs
  <1>1. CASE RegisterReadNode(n)
    <2> DEFINE m == [NoMem EXCEPT !.nr = node[n]]
    <2>1. m \in AgentMem /\ m.lid = None /\ ~m.late
      BY DEF AgentMem
    <2>2. Main(n, "reg.worker", m) /\ UNCHANGED tables
      BY <1>1 DEF RegisterReadNode
    <2> HIDE DEF m
    <2> QED
      BY <2>1, <2>2, MainOnlyReads DEF AgentPC, RegisterPC, JobPC, ReportPC
  <1>2. CASE RegisterReadWorker(n)
    <2> DEFINE m == [am[n] EXCEPT !.j = worker[n].job, !.jr = job[worker[n].job]]
    <2>1. CASE worker[n].job = None
      <3>1. Main(n, "reg.saveWorker", NoMem) /\ UNCHANGED tables
        BY <1>2, <2>1 DEF RegisterReadWorker
      <3> QED
        BY <3>1, MainOnlyReads DEF AgentPC, RegisterPC, JobPC, ReportPC
    <2>2. CASE worker[n].job # None
      <3>1. worker[n].job \in Job
        BY <2>2 DEF WorkerRow
      <3>2. m \in AgentMem /\ m.lid = am[n].lid /\ m.late = am[n].late /\ m.j = worker[n].job
        BY <3>1 DEF AgentMem
      <3>3. Main(n, "reg.deleteLease", m) /\ UNCHANGED tables /\ apc[n] = "reg.worker"
        BY <1>2, <2>2 DEF RegisterReadWorker
      <3> HIDE DEF m
      <3> QED
        BY <3>1, <3>2, <3>3, MainOnlyReads DEF AgentPC, RegisterPC, JobPC, ReportPC
    <2> QED
      BY <2>1, <2>2
  <1>3. CASE RegisterDeleteLease(n)
    <2>1. Main(n, "reg.saveNode", am[n]) /\ leases' \subseteq leases
          /\ apc[n] = "reg.deleteLease"
          /\ UNCHANGED <<job, worker, node, granted, wfresh, nfresh>>
      BY <1>3 DEF RegisterDeleteLease, DeleteLease
    <2>2. StoreTypeOK' /\ LeaseStep
      BY <2>1, LeasesWritten
    <2> QED
      BY <2>1, <2>2, MainMove DEF AgentPC, RegisterPC, JobPC, ReportPC
  <1>4. CASE RegisterSaveNode(n)
    <2>1. Main(n, "reg.saveJob", am[n]) /\ SaveNode(n, Release(am[n].nr))
          /\ apc[n] = "reg.saveNode"
          /\ UNCHANGED <<job, worker, leases, granted, wfresh, nfresh>>
      BY <1>4 DEF RegisterSaveNode
    <2>2. node' \in [Node -> NodeRow]
      BY <2>1, NodeRows DEF SaveNode
    <2>3. StoreTypeOK' /\ LeaseStep
      BY <2>1, <2>2, RowsWritten
    <2> QED
      BY <2>1, <2>3, MainMove DEF AgentPC, RegisterPC, JobPC, ReportPC
  <1>5. CASE RegisterSaveJob(n)
    <2>1. Main(n, "reg.saveWorker", NoMem)
          /\ (SaveJob(am[n].j, Reclaim(am[n].jr)) \/ UNCHANGED job)
          /\ UNCHANGED <<worker, node, leases, granted, wfresh, nfresh>>
      BY <1>5 DEF RegisterSaveJob
    <2>2. job' \in [Job -> JobRow]
      BY <2>1, ReclaimRow DEF SaveJob
    <2>3. StoreTypeOK' /\ LeaseStep
      BY <2>1, <2>2, RowsWritten
    <2> QED
      BY <2>1, <2>3, MainMove DEF AgentPC, RegisterPC, JobPC, ReportPC
  <1>6. CASE RegisterSaveWorker(n)
    <2>1. Main(n, "reg.ready", NoMem) /\ SaveWorker(n, IdleWorker)
          /\ wfresh' \in SUBSET Node /\ UNCHANGED <<job, node, leases, granted, nfresh>>
      BY <1>6 DEF RegisterSaveWorker
    <2>2. worker' \in [Node -> WorkerRow]
      BY <2>1, WorkerRows DEF SaveWorker
    <2>3. StoreTypeOK' /\ LeaseStep
      BY <2>1, <2>2, RowsWritten
    <2> QED
      BY <2>1, <2>3, MainMove DEF AgentPC, RegisterPC, JobPC, ReportPC
  <1>7. CASE RegisterReady(n)
    <2>1. Main(n, "idle", NoMem) /\ SaveWorker(n, IdleWorker)
          /\ UNCHANGED <<job, node, leases, granted, wfresh, nfresh>>
      BY <1>7 DEF RegisterReady
    <2>2. worker' \in [Node -> WorkerRow]
      BY <2>1, WorkerRows DEF SaveWorker
    <2>3. StoreTypeOK' /\ LeaseStep
      BY <2>1, <2>2, RowsWritten
    <2> QED
      BY <2>1, <2>3, MainMove DEF AgentPC, AgentRest, JobPC, ReportPC
  <1> QED
    BY <1>1, <1>2, <1>3, <1>4, <1>5, <1>6, <1>7 DEF RegisterWorker

LEMMA StartKeeps ==
    ASSUME IInv, NEW n \in Node,
           \/ Poll(n) \/ PollLease(n) \/ StartRead(n) \/ StartRefused(n)
           \/ StartSaveWorker(n) \/ StartSaveJob(n) \/ ExecutionEnds(n)
    PROVE  AgentKept
  <1> USE StoreFacts, AgentFacts, NoMemIs
  <1>1. CASE Poll(n)
    <2> DEFINE m == [NoMem EXCEPT !.j = worker[n].job]
    <2>1. worker[n].job \in Job
      BY <1>1 DEF Poll, WorkerRow
    <2>2. m \in AgentMem /\ m.lid = None /\ ~m.late /\ m.j \in Job
      BY <2>1 DEF AgentMem
    <2>3. Main(n, "poll.lease", m) /\ UNCHANGED tables
      BY <1>1 DEF Poll
    <2> HIDE DEF m
    <2> QED
      BY <2>2, <2>3, MainOnlyReads DEF AgentPC, JobPC, ReportPC
  <1>2. CASE PollLease(n)
    <2>1. apc[n] = "poll.lease" /\ UNCHANGED tables
      BY <1>2 DEF PollLease
    <2>2. CASE Main(n, "start.call", am[n])
      BY <2>1, <2>2, MainOnlyReads DEF AgentPC, AgentRest, JobPC, ReportPC
    <2>3. ASSUME NEW l \in leases, Main(n, "start.call", [am[n] EXCEPT !.lid = l.id])
          PROVE  AgentKept
      <3> DEFINE m == [am[n] EXCEPT !.lid = l.id]
      <3>1. l.id \in LeaseId
        BY DEF LeaseRow
      <3>2. m \in AgentMem /\ m.lid = l.id /\ m.late = am[n].late /\ m.j = am[n].j
        BY <3>1 DEF AgentMem
      <3>3. Main(n, "start.call", m)
        BY <2>3
      <3> HIDE DEF m
      <3> QED
        BY <2>1, <3>2, <3>3, MainOnlyReads DEF AgentPC, AgentRest, JobPC, ReportPC
    <2> QED
      BY <1>2, <2>2, <2>3 DEF PollLease, LeaseOfWorker
  <1>3. CASE StartRead(n)
    <2> DEFINE m == [am[n] EXCEPT !.wr = worker[n], !.jr = StartJob(job[am[n].j])]
    <2>1. apc[n] = "start.call" /\ am[n].j \in Job /\ UNCHANGED tables
      BY <1>3 DEF StartRead, JobPC
    <2>2. StartJob(job[am[n].j]) \in JobRow
      BY <2>1, StartJobRow
    <2>3. m \in AgentMem /\ m.lid = am[n].lid /\ m.late = am[n].late /\ m.j = am[n].j
      BY <2>2 DEF AgentMem
    <2>4. Main(n, "start.saveWorker", m)
      BY <1>3 DEF StartRead
    <2> HIDE DEF m
    <2> QED
      BY <2>1, <2>3, <2>4, MainOnlyReads DEF AgentPC, JobPC, ReportPC
  <1>4. CASE StartRefused(n)
    BY <1>4, MainOnlyReads DEF StartRefused, AgentPC, AgentRest, JobPC, ReportPC
  <1>5. CASE StartSaveWorker(n)
    <2>1. Main(n, "start.saveJob", am[n]) /\ SaveWorker(n, am[n].wr)
          /\ apc[n] = "start.saveWorker"
          /\ UNCHANGED <<job, node, leases, granted, wfresh, nfresh>>
      BY <1>5 DEF StartSaveWorker
    <2>2. worker' \in [Node -> WorkerRow]
      BY <2>1 DEF SaveWorker
    <2>3. StoreTypeOK' /\ LeaseStep
      BY <2>1, <2>2, RowsWritten
    <2> QED
      BY <2>1, <2>3, MainMove DEF AgentPC, JobPC, ReportPC
  <1>6. CASE StartSaveJob(n)
    <2>1. (Main(n, "executing", Keep(am[n])) \/ Main(n, "idle", NoMem))
          /\ SaveJob(am[n].j, am[n].jr) /\ apc[n] = "start.saveJob"
          /\ UNCHANGED <<worker, node, leases, granted, wfresh, nfresh>>
      BY <1>6 DEF StartSaveJob
    <2>2. job' \in [Job -> JobRow]
      BY <2>1 DEF SaveJob
    <2>3. StoreTypeOK' /\ LeaseStep
      BY <2>1, <2>2, RowsWritten
    <2> QED
      BY <2>1, <2>3, MainMove DEF AgentPC, AgentRest, JobPC, ReportPC
  <1>7. CASE ExecutionEnds(n)
    <2>1. apc[n] = "executing" /\ UNCHANGED tables
      BY <1>7 DEF ExecutionEnds
    <2>2. CASE Main(n, "idle", NoMem)
      BY <2>1, <2>2, MainOnlyReads DEF AgentPC, AgentRest, JobPC, ReportPC
    <2>3. ASSUME NEW o \in Outcome, Main(n, "report.call", [am[n] EXCEPT !.out = o])
          PROVE  AgentKept
      <3> DEFINE m == [am[n] EXCEPT !.out = o]
      <3>1. m \in AgentMem /\ m.lid = am[n].lid /\ m.late = am[n].late /\ m.j = am[n].j
            /\ m.out = o
        BY DEF AgentMem
      <3>2. Main(n, "report.call", m)
        BY <2>3
      <3> HIDE DEF m
      <3> QED
        BY <2>1, <3>1, <3>2, MainOnlyReads DEF AgentPC, AgentRest, JobPC, ReportPC
    <2> QED
      BY <1>7, <2>2, <2>3 DEF ExecutionEnds, Outcome
  <1> QED
    BY <1>1, <1>2, <1>3, <1>4, <1>5, <1>6, <1>7

LEMMA ReportKeeps ==
    ASSUME IInv, NEW n \in Node, Report(n)
    PROVE  AgentKept
  <1> USE StoreFacts, AgentFacts, NoMemIs
  <1>1. CASE ReportRead(n)
    <2> DEFINE late == ~LeaseExists(am[n].lid)
               wr == Conclude(worker[n])
               jr == Finish(job[am[n].j], am[n].out)
               m == [am[n] EXCEPT !.wr = wr, !.jr = jr, !.late = late]
    <2>1. apc[n] = "report.call" /\ am[n].j \in Job /\ am[n].out \in Outcome
          /\ am[n].lid # None /\ UNCHANGED tables
      BY <1>1 DEF ReportRead, ReportPC
    <2>2. wr \in WorkerRow /\ jr \in JobRow
      BY <2>1, WorkerRows, FinishRow DEF Outcome, JobStatus
    <2>3. late \in BOOLEAN /\ (late => ~ \E l \in leases : l.id = am[n].lid)
      BY DEF LeaseExists
    <2>4. Main(n, "report.fence", m)
      BY <1>1 DEF ReportRead
    <2> HIDE DEF late, wr, jr
    <2>5. m \in AgentMem /\ m.lid = am[n].lid /\ m.late = late /\ m.j = am[n].j
          /\ m.out = am[n].out
      BY <2>2, <2>3 DEF AgentMem
    <2> HIDE DEF m
    <2>6. m.late => m.lid # None /\ ~ \E l \in leases : l.id = m.lid
      BY <2>1, <2>3, <2>5
    <2>7. m.j \in Job /\ m.out \in Outcome
      BY <2>1, <2>5
    <2>8. "report.fence" \in AgentPC
      BY DEF AgentPC
    <2> QED
      BY <2>1, <2>4, <2>5, <2>6, <2>7, <2>8, MainOnlyReads
  <1>2. CASE ReportMismatch(n)
    BY <1>2, MainOnlyReads DEF ReportMismatch, AgentPC, AgentRest, JobPC, ReportPC
  <1>3. CASE ReportMalformed(n)
    BY <1>3, MainOnlyReads DEF ReportMalformed, AgentPC, AgentRest, JobPC, ReportPC
  <1>4. CASE ReportFence(n)
    <2>1. apc[n] = "report.fence" /\ UNCHANGED tables
      BY <1>4 DEF ReportFence
    <2>2. CASE OwnLease(n, am[n].lid)
      <3>1. Main(n, "report.delete", am[n]) /\ \E l \in leases : l.id = am[n].lid
        BY <1>4, <2>2 DEF ReportFence, OwnLease, LeaseOfWorker
      <3>2. ~am[n].late
        BY <3>1
      <3> QED
        BY <2>1, <3>1, <3>2, MainOnlyReads DEF AgentPC, ReportPC
    <2>3. CASE ~OwnLease(n, am[n].lid)
      BY <1>4, <2>3, MainOnlyReads DEF ReportFence, AgentPC, AgentRest, JobPC, ReportPC
    <2> QED
      BY <2>2, <2>3
  <1>5. CASE ReportDelete(n)
    <2>1. Main(n, "report.saveWorker", am[n]) /\ leases' \subseteq leases
          /\ apc[n] = "report.delete"
          /\ UNCHANGED <<job, worker, node, granted, wfresh, nfresh>>
      BY <1>5 DEF ReportDelete, DeleteLease
    <2>2. StoreTypeOK' /\ LeaseStep
      BY <2>1, LeasesWritten
    <2> QED
      BY <2>1, <2>2, MainMove DEF AgentPC, ReportPC
  <1>6. CASE ReportSaveWorker(n)
    <2> DEFINE label == IF am[n].jr.node = None THEN "report.saveJob" ELSE "report.node"
    <2>1. Main(n, label, am[n]) /\ SaveWorker(n, am[n].wr) /\ apc[n] = "report.saveWorker"
          /\ UNCHANGED <<job, node, leases, granted, wfresh, nfresh>>
      BY <1>6 DEF ReportSaveWorker
    <2>2. worker' \in [Node -> WorkerRow]
      BY <2>1 DEF SaveWorker
    <2>3. StoreTypeOK' /\ LeaseStep
      BY <2>1, <2>2, RowsWritten
    <2>4. am[n].jr.node \in Node \cup {None}
      BY DEF JobRow
    <2>5. label \in AgentPC /\ label \in ReportPC /\ (label \in {"report.node", "report.saveNode"} => am[n].jr.node \in Node)
      BY <2>4 DEF AgentPC, ReportPC
    <2> HIDE DEF label
    <2>6. am[n].j \in Job /\ am[n].out \in Outcome /\ ~am[n].late
      BY <2>1 DEF ReportPC
    <2> QED
      BY <2>1, <2>3, <2>5, <2>6, MainMove
  <1>7. CASE ReportReadNode(n)
    <2> DEFINE m == [am[n] EXCEPT !.nr = node[am[n].jr.node]]
    <2>1. apc[n] = "report.node" /\ am[n].jr.node \in Node /\ UNCHANGED tables
      BY <1>7 DEF ReportReadNode
    <2>2. m \in AgentMem /\ m.lid = am[n].lid /\ m.late = am[n].late /\ m.j = am[n].j
          /\ m.out = am[n].out /\ m.jr = am[n].jr
      BY <2>1 DEF AgentMem
    <2>3. Main(n, "report.saveNode", m)
      BY <1>7 DEF ReportReadNode
    <2> HIDE DEF m
    <2> QED
      BY <2>1, <2>2, <2>3, MainOnlyReads DEF AgentPC, ReportPC
  <1>8. CASE ReportSaveNode(n)
    <2>1. Main(n, "report.saveJob", am[n]) /\ SaveNode(am[n].jr.node, Release(am[n].nr))
          /\ apc[n] = "report.saveNode"
          /\ UNCHANGED <<job, worker, leases, granted, wfresh, nfresh>>
      BY <1>8 DEF ReportSaveNode
    <2>2. node' \in [Node -> NodeRow]
      BY <2>1, NodeRows DEF SaveNode
    <2>3. StoreTypeOK' /\ LeaseStep
      BY <2>1, <2>2, RowsWritten
    <2> QED
      BY <2>1, <2>3, MainMove DEF AgentPC, ReportPC
  <1>9. CASE ReportSaveJob(n)
    <2>1. (Main(n, "report.call", Keep(am[n])) \/ Main(n, "idle", NoMem))
          /\ SaveJob(am[n].j, am[n].jr) /\ apc[n] = "report.saveJob"
          /\ UNCHANGED <<worker, node, leases, granted, wfresh, nfresh>>
      BY <1>9 DEF ReportSaveJob
    <2>2. job' \in [Job -> JobRow]
      BY <2>1 DEF SaveJob
    <2>3. StoreTypeOK' /\ LeaseStep
      BY <2>1, <2>2, RowsWritten
    <2> QED
      BY <2>1, <2>3, MainMove DEF AgentPC, AgentRest, JobPC, ReportPC
  <1> QED
    BY <1>1, <1>2, <1>3, <1>4, <1>5, <1>6, <1>7, <1>8, <1>9 DEF Report

\* The renewal thread moves only its own place, and the flags of the main one.
LEMMA RenewalMove ==
    ASSUME IInv, NEW n \in Node, NEW label \in RenewPC, NEW seen \in BOOLEAN,
           NEW m \in AgentMem, Renewal(n, label, seen, m),
           m.j = am[n].j, m.lid = am[n].lid, m.out = am[n].out, m.jr = am[n].jr,
           m.late = am[n].late, StoreTypeOK', LeaseStep
    PROVE  AgentKept
  <1>1. /\ apc \in [Node -> AgentPC] /\ am \in [Node -> AgentMem]
        /\ rpc \in [Node -> RenewPC] /\ rm \in [Node -> BOOLEAN]
        /\ hpc \in [Node -> BeatPC] /\ hm \in [Node -> BeatMem]
    BY DEF IInv, Types, Shapes, AgentTypeOK
  <1>2. apc' = apc /\ am'[n] = m /\ \A q \in Node \ {n} : am'[q] = am[q]
    BY <1>1 DEF Renewal
  <1>3. AgentTypeOK'
    BY <1>1 DEF Renewal, AgentTypeOK
  <1>4. AgentAim'
    BY <1>2 DEF IInv, Types, AgentAim
  <1>5. \A q \in Node : am'[q].lid = am[q].lid /\ am'[q].late = am[q].late
    BY <1>2
  <1> QED
    BY <1>2, <1>3, <1>4, <1>5, AgentFacts DEF AgentKept

LEMMA RenewKeeps ==
    ASSUME IInv, NEW n \in Node, Renew(n)
    PROVE  AgentKept
  <1> USE StoreFacts, AgentFacts
  <1> DEFINE yes == TRUE
             lost == [am[n] EXCEPT !.lost = yes]
             seen == am[n].told \/ rm[n]
             told == [am[n] EXCEPT !.told = seen]
  <1>0. seen \in BOOLEAN /\ yes \in BOOLEAN
    OBVIOUS
  <1>1. lost \in AgentMem /\ lost.j = am[n].j /\ lost.lid = am[n].lid /\ lost.out = am[n].out
        /\ lost.jr = am[n].jr /\ lost.late = am[n].late
    <2> HIDE DEF yes
    <2> QED
      BY <1>0 DEF AgentMem
  <1>2. told \in AgentMem /\ told.j = am[n].j /\ told.lid = am[n].lid /\ told.out = am[n].out
        /\ told.jr = am[n].jr /\ told.late = am[n].late
    <2> HIDE DEF seen
    <2> QED
      BY <1>0 DEF AgentMem
  <1>3. UNCHANGED tables => StoreTypeOK' /\ LeaseStep
    BY DEF IInv, Types, Shapes, StoreTypeOK, LeaseStep, tables
  <1>4. CASE RenewRead(n)
    <2> DEFINE asked == worker[n].job # None /\ job[worker[n].job].status = "CANCELLING"
    <2>1. Renewal(n, "renew.lease", asked, am[n]) /\ UNCHANGED tables
      BY <1>4 DEF RenewRead
    <2>2. asked \in BOOLEAN
      OBVIOUS
    <2> HIDE DEF asked
    <2> QED
      BY <1>3, <2>1, <2>2, RenewalMove DEF RenewPC
  <1>5. CASE RenewLease(n)
    <2>1. (Renewal(n, "renew.update", rm[n], am[n]) \/ Renewal(n, "idle", FALSE, lost))
          /\ UNCHANGED tables
      BY <1>5 DEF RenewLease, LoseLease
    <2> HIDE DEF lost
    <2> QED
      BY <1>1, <1>3, <2>1, RenewalMove DEF RenewPC
  <1>6. CASE RenewUpdate(n)
    <2> DEFINE renewed(l) == IF l.id = am[n].lid THEN [l EXCEPT !.expired = FALSE] ELSE l
    <2>1. leases' = {renewed(l) : l \in leases}
          /\ UNCHANGED <<job, worker, node, granted, wfresh, nfresh>>
      BY <1>6 DEF RenewUpdate, RenewById
    <2>2. \A l \in LeaseRow : renewed(l) \in LeaseRow /\ renewed(l).id = l.id
                              /\ renewed(l).worker = l.worker
      BY DEF LeaseRow
    <2>3. Renewal(n, "idle", FALSE, told) \/ Renewal(n, "idle", FALSE, lost)
      BY <1>6 DEF RenewUpdate, LoseLease
    <2> HIDE DEF renewed, lost, told
    <2>4. leases' \in SUBSET LeaseRow
          /\ \A l \in leases' : \E k \in leases : k.id = l.id /\ k.worker = l.worker
      BY <2>1, <2>2
    <2>5. StoreTypeOK' /\ LeaseStep
      BY <2>1, <2>4, LeasesWritten
    <2> QED
      BY <1>1, <1>2, <2>3, <2>5, RenewalMove DEF RenewPC
  <1>7. CASE RenewGivesUp(n)
    <2>1. Renewal(n, "idle", FALSE, lost) /\ UNCHANGED tables
      BY <1>7 DEF RenewGivesUp, LoseLease
    <2> HIDE DEF lost
    <2> QED
      BY <1>1, <1>3, <2>1, RenewalMove DEF RenewPC
  <1> QED
    BY <1>4, <1>5, <1>6, <1>7 DEF Renew

\* The heartbeat thread moves neither of the other two.
LEMMA BeatMove ==
    ASSUME IInv, NEW n \in Node, NEW label \in BeatPC, NEW m \in BeatMem, Beat(n, label, m),
           StoreTypeOK', LeaseStep
    PROVE  AgentKept
  <1>1. AgentTypeOK' /\ AgentAim'
    BY DEF IInv, Types, Shapes, AgentTypeOK, AgentAim, Beat
  <1>2. am' = am /\ apc' = apc
    BY DEF Beat
  <1> QED
    BY <1>1, <1>2, AgentFacts DEF AgentKept

LEMMA BeatKeeps ==
    ASSUME IInv, NEW n \in Node, KeepHeartbeating(n)
    PROVE  AgentKept
  <1> USE StoreFacts, AgentFacts
  <1>1. NoBeat \in BeatMem /\ \A b \in BeatMem : b.wr \in WorkerRow /\ b.nr \in NodeRow
    BY WorkerRows, NodeRows DEF NoBeat, BeatMem
  <1>2. UNCHANGED tables => StoreTypeOK' /\ LeaseStep
    BY DEF IInv, Types, Shapes, StoreTypeOK, LeaseStep, tables
  <1>3. CASE BeatReadWorker(n)
    <2> DEFINE m == [NoBeat EXCEPT !.wr = Heartbeat(worker[n])]
    <2>1. Beat(n, "hb.saveWorker", m) /\ UNCHANGED tables
      BY <1>3 DEF BeatReadWorker
    <2>2. Heartbeat(worker[n]) \in WorkerRow
      BY WorkerRows
    <2>3. m \in BeatMem
      BY <1>1, <2>2 DEF BeatMem
    <2> HIDE DEF m
    <2> QED
      BY <1>2, <2>1, <2>3, BeatMove DEF BeatPC
  <1>4. CASE BeatSaveWorker(n)
    <2>1. Beat(n, "hb.node", NoBeat) /\ SaveWorker(n, hm[n].wr) /\ wfresh' \in SUBSET Node
          /\ UNCHANGED <<job, node, leases, granted, nfresh>>
      BY <1>4 DEF BeatSaveWorker
    <2>2. worker' \in [Node -> WorkerRow]
      BY <1>1, <2>1 DEF SaveWorker
    <2>3. StoreTypeOK' /\ LeaseStep
      BY <2>1, <2>2, RowsWritten
    <2> QED
      BY <1>1, <2>1, <2>3, BeatMove DEF BeatPC
  <1>5. CASE BeatReadNode(n)
    <2> DEFINE m == [NoBeat EXCEPT !.nr = node[n]]
    <2>1. Beat(n, "hb.saveNode", m) /\ UNCHANGED tables
      BY <1>5 DEF BeatReadNode
    <2>2. m \in BeatMem
      BY <1>1 DEF BeatMem
    <2> HIDE DEF m
    <2> QED
      BY <1>2, <2>1, <2>2, BeatMove DEF BeatPC
  <1>6. CASE BeatSaveNode(n)
    <2>1. Beat(n, "idle", NoBeat) /\ SaveNode(n, hm[n].nr) /\ nfresh' \in SUBSET Node
          /\ UNCHANGED <<job, worker, leases, granted, wfresh>>
      BY <1>6 DEF BeatSaveNode
    <2>2. node' \in [Node -> NodeRow]
      BY <1>1, <2>1 DEF SaveNode
    <2>3. StoreTypeOK' /\ LeaseStep
      BY <2>1, <2>2, RowsWritten
    <2> QED
      BY <1>1, <2>1, <2>3, BeatMove DEF BeatPC
  <1> QED
    BY <1>3, <1>4, <1>5, <1>6 DEF KeepHeartbeating

LEMMA DeathKeeps ==
    ASSUME IInv, NEW n \in Node, AgentDies(n)
    PROVE  AgentKept
  <1>1. /\ apc \in [Node -> AgentPC] /\ am \in [Node -> AgentMem]
        /\ rpc \in [Node -> RenewPC] /\ rm \in [Node -> BOOLEAN]
        /\ hpc \in [Node -> BeatPC] /\ hm \in [Node -> BeatMem]
    BY DEF IInv, Types, Shapes, AgentTypeOK
  <1>2. /\ am'[n] = NoMem /\ apc'[n] = "down"
        /\ \A q \in Node \ {n} : am'[q] = am[q] /\ apc'[q] = apc[q]
    BY <1>1 DEF AgentDies
  <1>3. "down" \in AgentPC /\ "down" \notin JobPC \cup ReportPC /\ "idle" \in BeatPC
    BY DEF AgentPC, AgentRest, JobPC, ReportPC, BeatPC
  <1>4. AgentTypeOK'
    BY <1>1, <1>3, NoMemIs DEF AgentDies, AgentTypeOK
  <1>5. AgentAim'
    BY <1>2, <1>3 DEF IInv, Types, AgentAim, JobPC, ReportPC
  <1>6. StoreTypeOK' /\ LeaseStep
    BY DEF IInv, Types, Shapes, StoreTypeOK, LeaseStep, tables, AgentDies
  <1> QED
    BY <1>2, <1>4, <1>5, <1>6, AgentFacts, NoMemIs DEF AgentKept

LEMMA AgentKeeps ==
    ASSUME IInv, NEW n \in Node, MainThread(n) \/ RenewThread(n) \/ BeatThread(n) \/ Death(n)
    PROVE  AgentKept
  BY RegisterKeeps, StartKeeps, ReportKeeps, RenewKeeps, BeatKeeps, DeathKeeps
     DEF MainThread, RunJob, RenewThread, BeatThread, Death
-----------------------------------------------------------------------------
(* The users, time and crashes *)

LEMMA UserKeeps ==
    ASSUME IInv, UserStep
    PROVE  StoreTypeOK' /\ UserTypeOK' /\ UserAim' /\ LeaseStep
  <1> USE StoreFacts
  <1>1. NoCall \in UserMem /\ um \in UserMem /\ upc \in UserPC
    BY NodeRows, NewJobRow DEF NoCall, UserMem, IInv, Types, Shapes, UserTypeOK
  <1>2. UNCHANGED tables => StoreTypeOK' /\ LeaseStep
    BY DEF IInv, Types, Shapes, StoreTypeOK, LeaseStep, tables
  <1>3. \A j \in Job, row \in JobRow : HoldJob(j, row) => UserTypeOK' /\ UserAim'
    <2> SUFFICES ASSUME NEW j \in Job, NEW row \in JobRow, HoldJob(j, row)
                 PROVE  UserTypeOK' /\ UserAim'
      OBVIOUS
    <2>1. [NoCall EXCEPT !.j = j, !.jr = row] \in UserMem
          /\ [NoCall EXCEPT !.j = j, !.jr = row].j = j
      BY <1>1 DEF UserMem
    <2> QED
      BY <2>1 DEF HoldJob, UserTypeOK, UserPC, UserAim
  <1>4. ASSUME NEW j \in Job, CreateJob(j)
        PROVE  StoreTypeOK' /\ UserTypeOK' /\ UserAim' /\ LeaseStep
    <2>1. QueueJob(job[j]) \in JobRow
      BY MoveToRow DEF QueueJob, JobStatus
    <2>2. job' \in [Job -> JobRow]
      BY <1>4, <2>1 DEF CreateJob, SaveJob
    <2>3. StoreTypeOK' /\ LeaseStep
      BY <1>4, <2>2, RowsWritten DEF CreateJob
    <2> QED
      BY <1>1, <1>4, <2>3 DEF CreateJob, userVars, UserTypeOK, UserAim
  <1>5. ASSUME NEW j \in Job, CancelRead(j)
        PROVE  StoreTypeOK' /\ UserTypeOK' /\ UserAim' /\ LeaseStep
    <2>1. RequestCancellation(job[j]) \in JobRow /\ CancelJob(job[j]) \in JobRow
      BY RequestCancellationRow, MoveToRow DEF CancelJob, JobStatus
    <2> QED
      BY <1>2, <1>3, <1>5, <2>1 DEF CancelRead
  <1>6. ASSUME NEW j \in Job, RetryRead(j)
        PROVE  StoreTypeOK' /\ UserTypeOK' /\ UserAim' /\ LeaseStep
    BY <1>2, <1>3, <1>6, RetryFailedRow DEF RetryRead
  <1>7. ASSUME NEW n \in Node, DrainRead(n)
        PROVE  StoreTypeOK' /\ UserTypeOK' /\ UserAim' /\ LeaseStep
    <2> DEFINE row == Drain(node[n])
    <2>1. row \in NodeRow
      BY NodeRows
    <2>2. upc' = "user.saveNode" /\ um' = [NoCall EXCEPT !.n = n, !.nr = row] /\ UNCHANGED tables
      BY <1>7 DEF DrainRead
    <2> HIDE DEF row
    <2>3. um' \in UserMem /\ um'.n = n
      BY <1>1, <2>1, <2>2 DEF UserMem
    <2> QED
      BY <1>2, <2>2, <2>3 DEF UserTypeOK, UserPC, UserAim
  <1>8. CASE UserSaveJob
    <2>1. job' \in [Job -> JobRow]
      BY <1>1, <1>8 DEF UserSaveJob, SaveJob, UserMem
    <2>2. StoreTypeOK' /\ LeaseStep
      BY <1>8, <2>1, RowsWritten DEF UserSaveJob
    <2> QED
      BY <1>1, <1>8, <2>2 DEF UserSaveJob, UserTypeOK, UserPC, UserAim
  <1>9. CASE UserSaveNode
    <2>1. node' \in [Node -> NodeRow]
      BY <1>1, <1>9 DEF UserSaveNode, SaveNode, UserMem
    <2>2. StoreTypeOK' /\ LeaseStep
      BY <1>9, <2>1, RowsWritten DEF UserSaveNode
    <2> QED
      BY <1>1, <1>9, <2>2 DEF UserSaveNode, UserTypeOK, UserPC, UserAim
  <1> QED
    BY <1>4, <1>5, <1>6, <1>7, <1>8, <1>9 DEF UserStep

LEMMA TimeKeeps ==
    ASSUME IInv, TimePasses
    PROVE  StoreTypeOK' /\ LeaseStep
  <1> USE StoreFacts
  <1>1. CASE LeaseExpires
    <2>1. PICK l \in leases : leases' = (leases \ {l}) \cup {[l EXCEPT !.expired = TRUE]}
      BY <1>1 DEF LeaseExpires
    <2> DEFINE k == [l EXCEPT !.expired = TRUE]
    <2>2. k \in LeaseRow /\ k.id = l.id /\ k.worker = l.worker
      BY DEF LeaseRow
    <2>3. leases' = (leases \ {l}) \cup {k}
      BY <2>1
    <2> HIDE DEF k
    <2>4. leases' \in SUBSET LeaseRow
          /\ \A r \in leases' : \E q \in leases : q.id = r.id /\ q.worker = r.worker
      BY <2>2, <2>3
    <2> QED
      BY <1>1, <2>4, LeasesWritten DEF LeaseExpires
  <1>2. ASSUME NEW n \in Node, WorkerGoesStale(n)
        PROVE  StoreTypeOK' /\ LeaseStep
    BY <1>2, RowsWritten DEF WorkerGoesStale
  <1>3. ASSUME NEW n \in Node, NodeGoesStale(n)
        PROVE  StoreTypeOK' /\ LeaseStep
    BY <1>3, RowsWritten DEF NodeGoesStale
  <1> QED
    BY <1>1, <1>2, <1>3 DEF TimePasses

\* A crash puts each agent at rest, with the job and the identity it had or none.
LEMMA AfterCrashIs ==
    ASSUME IInv, NEW n \in Node
    PROVE  /\ AfterCrash(n) \in AgentRest
           /\ apc[n] \in AgentRest => AfterCrash(n) = apc[n]
           /\ AfterCrash(n) = "report.call" => apc[n] \in ReportPC
           /\ AfterCrash(n) # "report.call" /\ MainBusy(n) => AfterCrash(n) \in {"down", "idle"}
  <1>1. apc[n] \in AgentPC
    BY AgentFacts
  <1>2. CASE apc[n] \in AgentRest
    <2>1. AfterCrash(n) = apc[n]
      BY <1>2 DEF AfterCrash, AgentRest, RegisterPC
    <2> QED
      BY <1>2, <2>1 DEF MainBusy, ReportPC
  <1>3. CASE apc[n] \in RegisterPC
    <2>1. AfterCrash(n) = "down"
      BY <1>3 DEF AfterCrash, AgentRest, RegisterPC
    <2> QED
      BY <1>3, <2>1 DEF AgentRest, RegisterPC
  <1>4. CASE apc[n] \in {"poll.lease", "start.saveWorker", "start.saveJob"}
    <2>1. AfterCrash(n) = "idle"
      BY <1>4 DEF AfterCrash, AgentRest, RegisterPC
    <2> QED
      BY <1>4, <2>1 DEF AgentRest
  <1>5. CASE apc[n] \in {"report.fence", "report.delete", "report.saveWorker",
                         "report.node", "report.saveNode", "report.saveJob"}
    <2>1. /\ apc[n] \notin AgentRest /\ apc[n] \notin RegisterPC
          /\ apc[n] \notin {"poll.lease", "start.saveWorker", "start.saveJob"}
      BY <1>5 DEF AgentRest, RegisterPC
    <2>2. AfterCrash(n) = "report.call"
      BY <2>1 DEF AfterCrash
    <2> QED
      BY <1>5, <2>1, <2>2 DEF AgentRest, ReportPC
  <1> QED
    BY <1>1, <1>2, <1>3, <1>4, <1>5 DEF AgentPC

LEMMA CrashKeeps ==
    ASSUME IInv, ServerCrash
    PROVE  AgentKept /\ Shapes' /\ ControlAim' /\ UserAim'
  <1> USE AgentFacts, NoMemIs, AfterCrashIs
  <1>1. \A n \in Node : /\ am'[n] \in {NoMem, Keep(am[n])} /\ apc'[n] = AfterCrash(n)
                        /\ am'[n] = NoMem \/ ~MainBusy(n) \/ apc'[n] = "report.call"
                        /\ apc'[n] = "report.call" => am'[n] = Keep(am[n])
                        /\ ~MainBusy(n) => am'[n] = Keep(am[n])
    BY DEF ServerCrash
  <1>2. \A n \in Node : am'[n] \in AgentMem /\ apc'[n] \in AgentPC
                        /\ am'[n].lid \in {None, am[n].lid} /\ ~am'[n].late
    BY <1>1 DEF AgentPC
  <1>3. AgentAim'
    <2> SUFFICES ASSUME NEW n \in Node
                 PROVE  /\ apc'[n] \in JobPC \cup ReportPC => am'[n].j \in Job
                        /\ apc'[n] \in ReportPC => am'[n].out \in Outcome
                        /\ apc'[n] \in {"report.node", "report.saveNode"} => am'[n].jr.node \in Node
      BY DEF AgentAim
    <2>1. CASE apc'[n] = "report.call"
      BY <1>1, <2>1
    <2>2. CASE apc'[n] # "report.call" /\ MainBusy(n)
      <3>1. apc'[n] \in {"down", "idle"}
        BY <1>1, <2>2
      <3> QED
        BY <3>1 DEF JobPC, ReportPC
    <2>3. CASE apc'[n] # "report.call" /\ ~MainBusy(n)
      <3>1. apc'[n] = apc[n] /\ am'[n].j = am[n].j /\ apc[n] \in AgentRest
        BY <1>1, <2>3 DEF MainBusy
      <3> QED
        BY <2>3, <3>1 DEF ReportPC, AgentRest
    <2> QED
      BY <2>1, <2>2, <2>3
  <1>4. StoreTypeOK' /\ LeaseStep
    BY DEF ServerCrash, IInv, Types, Shapes, StoreTypeOK, LeaseStep, tables
  <1>5. AgentTypeOK'
    <2>1. apc' \in [Node -> AgentPC] /\ am' \in [Node -> AgentMem]
      <3>1. apc' = [n \in Node |-> apc'[n]] /\ am' = [n \in Node |-> am'[n]]
        BY DEF ServerCrash
      <3> QED
        BY <1>2, <3>1
    <2>2. NoBeat \in BeatMem
      BY WorkerRows, NodeRows DEF NoBeat, BeatMem
    <2>3. rpc' \in [Node -> RenewPC] /\ rm' \in [Node -> BOOLEAN] /\ hm' \in [Node -> BeatMem]
      BY <2>2 DEF ServerCrash, RenewPC
    <2>4. hpc' \in [Node -> BeatPC]
      BY DEF ServerCrash, BeatPC
    <2> QED
      BY <2>1, <2>3, <2>4 DEF AgentTypeOK
  <1>6. AgentKept
    BY <1>2, <1>3, <1>4, <1>5 DEF AgentKept
  <1>7. ControlTypeOK' /\ ControlAim'
    BY BlankTick DEF ServerCrash, ControlTypeOK, ControlAim, ControlPC, PairPC, ExpPC, OffPC
  <1>8. UserTypeOK' /\ UserAim'
    <2>1. NoCall \in UserMem
      BY NodeRows, NewJobRow DEF NoCall, UserMem
    <2> QED
      BY <2>1 DEF ServerCrash, UserTypeOK, UserPC, UserAim
  <1>9. crashes' \in 0 .. MaxCrashes /\ events' \in Scenarios
    BY MaxCrashesAssumption DEF ServerCrash, IInv, Types, Shapes
  <1> QED
    BY <1>4, <1>5, <1>6, <1>7, <1>8, <1>9 DEF Shapes
-----------------------------------------------------------------------------
(* Identities.  One that is granted stays granted, and one that is granted   *)
(* and not in the table will never be there again.                           *)

LEMMA Identities ==
    ASSUME IInv, LeaseStep
    PROVE  /\ \A id \in LeaseId : id[2] < granted[id[1]] => id[2] < granted'[id[1]]
           /\ \A l \in leases' : l.id \in LeaseId /\ l.id[2] < granted'[l.id[1]]
           /\ \A id \in LeaseId : id[2] < granted[id[1]] /\ ~(\E l \in leases : l.id = id)
                  => ~ \E l \in leases' : l.id = id
  <1> USE StoreFacts
  <1>1. \A l \in leases : l.id \in LeaseId /\ l.id[2] < granted[l.id[1]]
    BY DEF IInv, IdsGranted, Granted
  <1>2. CASE UNCHANGED <<leases, granted>>
    BY <1>1, <1>2
  <1>3. CASE /\ granted' = granted
             /\ \A l \in leases' : \E k \in leases : k.id = l.id /\ k.worker = l.worker
    <2>1. \A l \in leases' : \E k \in leases : k.id = l.id
      BY <1>3
    <2> QED
      BY <1>1, <1>3, <2>1
  <1>4. ASSUME NEW j \in Job, NEW n \in Node, InsertLease(j, n)
        PROVE  /\ \A id \in LeaseId : id[2] < granted[id[1]] => id[2] < granted'[id[1]]
               /\ \A l \in leases' : l.id \in LeaseId /\ l.id[2] < granted'[l.id[1]]
               /\ \A id \in LeaseId : id[2] < granted[id[1]] /\ ~(\E l \in leases : l.id = id)
                      => ~ \E l \in leases' : l.id = id
    <2> DEFINE num == granted[j]
               nid == <<j, num>>
               new == [id |-> nid, worker |-> n, expired |-> FALSE]
    <2>1. leases' = leases \cup {new} /\ granted' = [granted EXCEPT ![j] = num + 1] /\ num \in Nat
      BY <1>4 DEF InsertLease
    <2>2. new.id = nid /\ nid \in LeaseId /\ nid[1] = j /\ nid[2] = num
      BY <2>1 DEF LeaseId
    <2>3. /\ granted'[j] = num + 1 /\ \A i \in Job \ {j} : granted'[i] = granted[i]
          /\ \A id \in LeaseId : id[1] \in Job /\ id[2] \in Nat
      BY <2>1 DEF LeaseId
    <2> HIDE DEF new, nid
    <2>4. \A id \in LeaseId : id[2] < granted[id[1]] => id[2] < granted'[id[1]] /\ id # nid
      <3> SUFFICES ASSUME NEW id \in LeaseId, id[2] < granted[id[1]]
                   PROVE  id[2] < granted'[id[1]] /\ id # nid
        OBVIOUS
      <3> DEFINE b == id[2]
      <3>1. id[1] \in Job /\ b \in Nat /\ b < granted[id[1]]
        BY <2>3
      <3>2. CASE id[1] = j
        <4>1. b < num /\ b < num + 1
          BY <2>1, <3>1, <3>2
        <4> QED
          BY <2>1, <2>2, <2>3, <3>1, <3>2, <4>1
      <3>3. CASE id[1] # j
        BY <2>2, <2>3, <3>1, <3>3
      <3> QED
        BY <3>2, <3>3
    <2>5. \A l \in leases' : l.id \in LeaseId /\ l.id[2] < granted'[l.id[1]]
      <3>1. nid[2] < granted'[nid[1]]
        BY <2>1, <2>2, <2>3
      <3> QED
        BY <1>1, <2>1, <2>2, <2>4, <3>1
    <2> QED
      BY <2>1, <2>2, <2>4, <2>5
  <1> QED
    BY <1>2, <1>3, <1>4 DEF LeaseStep

\* What every step leaves behind: an agent has learnt no identity but from the
\* table, and is late only for one that is not there.
LEMMA IdentitiesKept ==
    ASSUME IInv, LeaseStep,
           \A n \in Node : am'[n].lid # None =>
               am'[n].lid = am[n].lid \/ \E l \in leases : am'[n].lid = l.id,
           \A n \in Node : am'[n].late =>
               /\ apc'[n] = "report.fence" /\ am'[n].lid # None
               /\ ~ \E l \in leases : l.id = am'[n].lid
    PROVE  IdsGranted' /\ LateStops'
  <1>1. \A n \in Node : am'[n].lid # None =>
            am'[n].lid \in LeaseId /\ am'[n].lid[2] < granted[am'[n].lid[1]]
    <2>1. \A l \in leases : l.id \in LeaseId /\ l.id[2] < granted[l.id[1]]
      BY DEF IInv, IdsGranted, Granted
    <2>2. \A n \in Node : am[n].lid # None =>
              am[n].lid \in LeaseId /\ am[n].lid[2] < granted[am[n].lid[1]]
      BY DEF IInv, IdsGranted, Granted
    <2> QED
      BY <2>1, <2>2
  <1>2. IdsGranted'
    BY <1>1, Identities DEF IdsGranted, Granted
  <1>3. LateStops'
    <2> SUFFICES ASSUME NEW n \in Node, am'[n].late
                 PROVE  /\ apc'[n] = "report.fence" /\ am'[n].lid # None
                        /\ ~ \E l \in leases' : l.id = am'[n].lid
      BY DEF LateStops, LeaseExists
    <2> QED
      BY <1>1, Identities
  <1> QED
    BY <1>2, <1>3

\* The control loop comes to these two statements from one place each.
LEMMA RecoveryPlaces ==
    ASSUME ControlStep, cpc' \in {"off.deleteLease", "off.saveWorker"}
    PROVE  OffSaveWorker \/ OffDelete \/ \E n \in Node : OffLease(n)
  <1>1. ~SchedulerLoop
    BY DEF SchedulerLoop, SchedReadNodes, SchedReadJobs, SchedSkip, SchedPick, SchedDone,
           SchedSaveJob, AssignList, AssignLease, AssignInsert, AssignSaveWorker,
           UnschedSaveNode, UnschedSaveJob, Goto
  <1>2. ~MarkDeadWorkers
    BY DEF MarkDeadWorkers, DeadList, DeadSave, DeadDone, Goto
  <1>3. ~RecoverExpiredLease
    BY DEF RecoverExpiredLease, ExpList, ExpSkip, ExpDelete, ExpDone, ExpReadWorker, ExpReadJob,
           ExpSaveWorker, ExpReadNode, ExpSaveNode, ExpSaveJob, Goto
  <1>4. ~OffReadNodes /\ ~OffList /\ ~OffDeleteLease /\ ~OffSaveNode /\ ~OffSaveJob /\ ~OffDone
    BY DEF OffReadNodes, OffList, OffDeleteLease, OffSaveNode, OffSaveJob, OffDone, Goto
  <1> QED
    BY <1>1, <1>2, <1>3, <1>4 DEF ControlStep, RecoverOfflineNode

LEMMA GoneFirstKept ==
    ASSUME IInv, ControlStep
    PROVE  GoneFirst'
  <1> Types
    BY DEF IInv
  <1> USE ControlFacts
  <1>1. SUFFICES ASSUME \/ cpc' = "off.deleteLease"
                        \/ cpc' = "off.saveWorker" /\ ~c'.gone
                 PROVE  {l \in leases' : JobOf(l) = c'.j} = {}
    BY DEF GoneFirst, LeaseOfJob, JobOf
  <1>2. CASE OffSaveWorker
    <2>1. cpc = "off.saveWorker" /\ c' = c /\ leases' = leases
          /\ cpc' = IF c.gone THEN "off.saveNode" ELSE "off.deleteLease"
      BY <1>2 DEF OffSaveWorker, At, Goto
    <2>2. ~c.gone
      BY <1>1, <2>1
    <2> QED
      BY <2>1, <2>2 DEF IInv, GoneFirst, LeaseOfJob
  <1>3. CASE OffDelete
    <2> DEFINE m == [c EXCEPT !.gone = TRUE]
    <2>1. m.gone
      BY DEF Tick
    <2>2. cpc' \in {"off.saveWorker", "off.lease"} /\ (cpc' = "off.saveWorker" => c' = m)
      BY <1>3 DEF OffDelete, Goto
    <2> HIDE DEF m
    <2> QED
      BY <1>1, <2>1, <2>2
  <1>4. ASSUME NEW n \in Node, OffLease(n)
        PROVE  {l \in leases' : JobOf(l) = c'.j} = {}
    <2> DEFINE j == c.ws[n].job
               rest == [c EXCEPT !.nodes = @ \ {n}]
               held == [rest EXCEPT !.n = n, !.j = j]
    <2>1. cpc' \in {"off.saveWorker", "off.lease", "off.delete"} /\ leases' = leases
          /\ (cpc' = "off.saveWorker" => c' = held /\ LeaseOfJob(j) = {})
      BY <1>4 DEF OffLease, Goto, tables
    <2>2. j \in Job \cup {None}
      BY DEF WorkerRow
    <2>3. rest \in Tick
      BY DEF Tick
    <2> HIDE DEF j, rest
    <2>4. held.j = j
      BY <2>2, <2>3 DEF Tick
    <2> HIDE DEF held
    <2> QED
      BY <1>1, <2>1, <2>4 DEF LeaseOfJob
  <1> QED
    BY <1>1, <1>2, <1>3, <1>4, RecoveryPlaces

\* Nobody else grants a lease.
LEMMA OthersGrantNone ==
    ASSUME \/ \E n \in Node : Agent(n)
           \/ User \/ TimePasses
    PROVE  granted' = granted
  <1>1. ASSUME NEW n \in Node, RegisterWorker(n) PROVE granted' = granted
    BY <1>1 DEF RegisterWorker, RegisterReadNode, RegisterReadWorker, RegisterDeleteLease,
                RegisterSaveNode, RegisterSaveJob, RegisterSaveWorker, RegisterReady, tables
  <1>2. ASSUME NEW n \in Node, RunJob(n) PROVE granted' = granted
    BY <1>2 DEF RunJob, Poll, PollLease, StartRead, StartRefused, StartSaveWorker, StartSaveJob,
                ExecutionEnds, Report, ReportRead, ReportMismatch, ReportMalformed, ReportFence,
                ReportDelete, ReportSaveWorker, ReportReadNode, ReportSaveNode, ReportSaveJob, tables
  <1>3. ASSUME NEW n \in Node, Renew(n) PROVE granted' = granted
    BY <1>3 DEF Renew, RenewRead, RenewLease, RenewUpdate, RenewGivesUp, tables
  <1>4. ASSUME NEW n \in Node, KeepHeartbeating(n) \/ AgentDies(n) PROVE granted' = granted
    BY <1>4 DEF KeepHeartbeating, BeatReadWorker, BeatSaveWorker, BeatReadNode, BeatSaveNode,
                AgentDies, tables
  <1>5. CASE User
    BY <1>5 DEF User, UserStep, CreateJob, CancelRead, RetryRead, DrainRead, UserSaveJob,
                UserSaveNode, tables
  <1>6. CASE TimePasses
    BY <1>6 DEF TimePasses, LeaseExpires, WorkerGoesStale, NodeGoesStale
  <1> QED
    BY <1>1, <1>2, <1>3, <1>4, <1>5, <1>6
       DEF Agent, MainThread, RenewThread, BeatThread, Death

\* So none appears for a job that has none while the control loop stands still.
LEMMA NoneStaysNone ==
    ASSUME IInv, LeaseStep, granted' = granted, UNCHANGED controlVars
    PROVE  GoneFirst'
  <1> USE StoreFacts
  <1>1. ~ \E j \in Job, n \in Node : InsertLease(j, n)
    BY DEF InsertLease
  <1>2. \A l \in leases' : \E k \in leases : k.id = l.id
    BY <1>1 DEF LeaseStep
  <1> QED
    BY <1>2 DEF IInv, GoneFirst, LeaseOfJob, JobOf, controlVars
-----------------------------------------------------------------------------
(* The invariant of the cluster *)

LEMMA InitIInv ==
    ASSUME Init
    PROVE  IInv
  <1>1. StoreTypeOK /\ leases = {}
    BY WorkerRows, NodeRows, NewJobRow DEF Init, StoreInit, StoreTypeOK
  <1>2. ControlTypeOK /\ ControlAim /\ cpc = "idle"
    BY BlankTick DEF Init, ControlInit, ControlTypeOK, ControlAim, ControlPC, PairPC, ExpPC, OffPC
  <1>3. NoBeat \in BeatMem /\ NoCall \in UserMem
    BY WorkerRows, NodeRows, NewJobRow DEF NoBeat, BeatMem, NoCall, UserMem
  <1>4. AgentTypeOK
    BY <1>3, NoMemIs DEF Init, AgentInit, AgentTypeOK, AgentPC, AgentRest, RenewPC, BeatPC
  <1>5. \A n \in Node : apc[n] = "down" /\ am[n] = NoMem
    BY DEF Init, AgentInit
  <1>6. AgentAim
    BY <1>5 DEF AgentAim, JobPC, ReportPC
  <1>7. Shapes
    BY <1>1, <1>2, <1>3, <1>4, MaxCrashesAssumption DEF Shapes, Init, UserInit, UserTypeOK, UserPC
  <1>8. IdsGranted /\ LateStops
    BY <1>1, <1>5, NoMemIs DEF IdsGranted, LateStops
  <1>9. GoneFirst
    BY <1>2 DEF GoneFirst
  <1>10. UserAim
    BY DEF UserAim, Init, UserInit
  <1> QED
    BY <1>2, <1>6, <1>7, <1>8, <1>9, <1>10 DEF IInv, Types

LEMMA NextKeeps ==
    ASSUME IInv, [Next]_vars
    PROVE  IInv' /\ LeaseStep
  <1>1. UNCHANGED agentVars => AgentTypeOK' /\ AgentAim'
    BY DEF agentVars, IInv, Types, Shapes, AgentTypeOK, AgentAim
  <1>2. UNCHANGED controlVars => ControlTypeOK' /\ ControlAim'
    BY DEF controlVars, IInv, Types, Shapes, ControlTypeOK, ControlAim
  <1>3. UNCHANGED userVars => UserTypeOK' /\ UserAim'
    BY DEF userVars, IInv, Types, Shapes, UserTypeOK, UserAim
  <1>4. UNCHANGED <<crashes, events>> => crashes' \in 0 .. MaxCrashes /\ events' \in Scenarios
    BY DEF IInv, Types, Shapes
  <1>5. UNCHANGED agentVars /\ LeaseStep => IdsGranted' /\ LateStops'
    <2> SUFFICES ASSUME UNCHANGED agentVars, LeaseStep
                 PROVE  IdsGranted' /\ LateStops'
      OBVIOUS
    <2>1. am' = am /\ apc' = apc
      BY DEF agentVars
    <2> QED
      BY <2>1, IdentitiesKept, AgentFacts
  <1>6. CASE Control
    <2>1. ControlKept
      BY <1>6, SchedulerKeeps, DeadKeeps, ExpiredKeeps, OfflineKeeps DEF Control, ControlStep, IInv
    <2>2. GoneFirst'
      BY <1>6, GoneFirstKept DEF Control
    <2> QED
      BY <1>1, <1>3, <1>4, <1>5, <1>6, <2>1, <2>2 DEF Control, ControlKept, IInv, Types, Shapes
  <1>7. ASSUME NEW n \in Node, Agent(n)
        PROVE  IInv' /\ LeaseStep
    <2>1. AgentKept /\ AgentAlone
      BY <1>7, AgentKeeps DEF Agent, MainThread, RenewThread, BeatThread, Death
    <2>2. IdsGranted' /\ LateStops'
      BY <2>1, IdentitiesKept DEF AgentKept
    <2>3. GoneFirst'
      BY <1>7, <2>1, OthersGrantNone, NoneStaysNone DEF AgentKept, AgentAlone
    <2> QED
      BY <1>2, <1>3, <1>4, <1>7, <2>1, <2>2, <2>3 DEF AgentAlone, AgentKept, IInv, Types, Shapes
  <1>8. CASE User
    <2>1. StoreTypeOK' /\ UserTypeOK' /\ UserAim' /\ LeaseStep
      BY <1>8, UserKeeps DEF User
    <2>2. GoneFirst'
      BY <1>8, <2>1, OthersGrantNone, NoneStaysNone DEF User
    <2> QED
      BY <1>1, <1>2, <1>4, <1>5, <1>8, <2>1, <2>2 DEF User, IInv, Types, Shapes
  <1>9. CASE TimePasses
    <2>1. StoreTypeOK' /\ LeaseStep
      BY <1>9, TimeKeeps
    <2>2. GoneFirst'
      BY <1>9, <2>1, OthersGrantNone, NoneStaysNone DEF TimePasses
    <2> QED
      BY <1>1, <1>2, <1>3, <1>4, <1>5, <1>9, <2>1, <2>2 DEF TimePasses, IInv, Types, Shapes
  <1>10. CASE ServerCrash
    <2>1. AgentKept /\ Shapes' /\ ControlAim' /\ UserAim'
      BY <1>10, CrashKeeps
    <2>2. IdsGranted' /\ LateStops'
      BY <2>1, IdentitiesKept DEF AgentKept
    <2>3. GoneFirst'
      BY <1>10 DEF ServerCrash, GoneFirst
    <2> QED
      BY <2>1, <2>2, <2>3 DEF AgentKept, IInv, Types
  <1>11. CASE UNCHANGED vars
    <2>1. UNCHANGED <<tables, controlVars, agentVars, userVars, crashes, events>>
      BY <1>11 DEF vars
    <2>2. StoreTypeOK' /\ LeaseStep
      BY <2>1 DEF tables, IInv, Types, Shapes, StoreTypeOK, LeaseStep
    <2>3. GoneFirst'
      BY <2>1, <2>2, NoneStaysNone DEF tables
    <2> QED
      BY <1>1, <1>2, <1>3, <1>4, <1>5, <2>1, <2>2, <2>3 DEF IInv, Types, Shapes
  <1> QED
    BY <1>6, <1>7, <1>8, <1>9, <1>10, <1>11 DEF Next

LEMMA Invariance == Spec => []IInv
  BY InitIInv, NextKeeps, PTL DEF Spec

\* The history names rows.
LEMMA SavesAreRows ==
    ASSUME IInv, IInv'
    PROVE  /\ ControlStep => ControlSaves \subseteq RowKey
           /\ \A n \in Node : MainSaves(n) \subseteq RowKey /\ BeatSaves(n) \subseteq RowKey
           /\ UserSaves \subseteq RowKey
  <1>1. /\ \A j \in Job : JobKey(j) \in RowKey
        /\ \A n \in Node : WorkerKey(n) \in RowKey /\ NodeKey(n) \in RowKey
    BY DEF RowKey
  <1>2. c \in Tick /\ c.nodes \in SUBSET Node
    BY ControlFacts DEF IInv
  <1>3. ControlStep => ControlSaves \subseteq RowKey
    <2>1. cpc \in PairPC => c.j \in Job /\ c.n \in Node
      BY DEF IInv, Types, ControlAim
    <2>2. cpc = "exp.saveJob" => c.j \in Job
      BY DEF IInv, Types, ControlAim, ExpPC
    <2>3. cpc' = "sched.saveJob" => c'.n \in Node
      BY DEF IInv, Types, ControlAim, PairPC
    <2> QED
      BY <1>1, <1>2, <2>1, <2>2, <2>3 DEF ControlSaves, PairPC
  <1>4. ASSUME NEW n \in Node PROVE MainSaves(n) \subseteq RowKey /\ BeatSaves(n) \subseteq RowKey
    <2>1. /\ apc[n] \in JobPC \cup ReportPC => am[n].j \in Job
          /\ apc[n] = "report.saveNode" => am[n].jr.node \in Node
      BY AgentFacts
    <2> QED
      BY <1>1, <2>1 DEF MainSaves, BeatSaves, JobPC, ReportPC
  <1>5. UserSaves \subseteq RowKey
    BY <1>1 DEF UserSaves, IInv, Types, UserAim
  <1> QED
    BY <1>3, <1>4, <1>5

LEMMA TrackTypes ==
    ASSUME HistoryTypeOK, NEW t \in Thread, NEW reads, NEW saves \in SUBSET RowKey,
           Track(t, reads, saves)
    PROVE  HistoryTypeOK'
  BY DEF HistoryTypeOK, Track

LEMMA HistoryKept ==
    ASSUME IInv, IInv', HistoryTypeOK, [Next]_vars
    PROVE  HistoryTypeOK'
  <1>1. /\ ControlThread \in Thread /\ UserThread \in Thread
        /\ \A n \in Node : MainOf(n) \in Thread /\ BeatOf(n) \in Thread
    BY DEF Thread
  <1>2. UNCHANGED history => HistoryTypeOK'
    BY DEF history, HistoryTypeOK
  <1>3. CASE Control
    BY <1>1, <1>3, SavesAreRows, TrackTypes DEF Control
  <1>4. ASSUME NEW n \in Node, Agent(n) PROVE HistoryTypeOK'
    BY <1>1, <1>2, <1>4, SavesAreRows, TrackTypes
       DEF Agent, MainThread, RenewThread, BeatThread, Death
  <1>5. CASE User
    BY <1>1, <1>5, SavesAreRows, TrackTypes DEF User
  <1>6. CASE TimePasses \/ UNCHANGED vars
    BY <1>2, <1>6 DEF TimePasses, vars, history
  <1>7. CASE ServerCrash
    BY <1>7 DEF ServerCrash, HistoryTypeOK
  <1> QED
    BY <1>3, <1>4, <1>5, <1>6, <1>7 DEF Next

LEMMA HistoryTyped == Spec => []HistoryTypeOK
  <1>1. Init => HistoryTypeOK
    BY DEF Init, HistoryTypeOK
  <1> QED
    BY <1>1, HistoryKept, Invariance, PTL DEF Spec

\* Every table and every memory keeps its type: no interleaving of statements,
\* no stale row written back, no reclaim, retry or crash puts a row outside the
\* schema, a node above its capacity or below nothing, or leaves the control
\* loop or an agent at a statement without the job and the node it writes to.
THEOREM ClusterTypeCorrect == Spec => []TypeOK
  <1>1. IInv /\ HistoryTypeOK => TypeOK
    BY DEF IInv, Types, Shapes, TypeOK
  <1> QED
    BY <1>1, Invariance, HistoryTyped, PTL

\* The lease fence of ReportJobOutcomeService holds for every number of agents,
\* attempts and crashes: a report that began when its lease was gone writes no
\* row, because the identity it carries is granted only once.
THEOREM LateReportsAreFenced == Spec => []LateReportWritesNothing
  <1>1. IInv => LateReportWritesNothing
    BY DEF IInv, LateStops, LateReportWritesNothing
  <1> QED
    BY <1>1, Invariance, PTL

\* No interleaving of renewals, deletions and grants brings a deleted lease back.
THEOREM LeasesAreNotRevived == Spec => LeaseNeverRevived
  <1>1. ASSUME IInv, [Next]_vars
        PROVE  \A l \in leases' : \/ \E k \in leases : k.id = l.id /\ k.worker = l.worker
                                  \/ l.id[2] = granted[JobOf(l)]
    <2>1. LeaseStep
      BY <1>1, NextKeeps
    <2>2. ASSUME NEW j \in Job, NEW n \in Node, InsertLease(j, n)
          PROVE  \A l \in leases' : l \in leases \/ l.id[2] = granted[JobOf(l)]
      BY <2>2 DEF InsertLease, JobOf
    <2> QED
      BY <2>1, <2>2 DEF LeaseStep
  <1> QED
    BY <1>1, Invariance, PTL DEF Spec, LeaseNeverRevived

\* The recovery services take no valid lease away, however old the list they
\* work from: delete_if_expired tests again, and the one delete without a test
\* is reached only for a job that still has no lease.
THEOREM LiveLeasesAreKept == Spec => LiveLeaseNotReclaimed
  <1>1. ASSUME IInv, ControlStep
        PROVE  \A l \in leases : l \in leases' \/ l.expired
    <2>1. CASE SchedulerLoop
      <3>1. leases \subseteq leases'
        BY <2>1 DEF SchedulerLoop, SchedReadNodes, SchedReadJobs, SchedSkip, SchedPick, SchedDone,
             SchedSaveJob, AssignList, AssignLease, AssignInsert, AssignSaveWorker,
             UnschedSaveNode, UnschedSaveJob, tables, InsertLease
      <3> QED
        BY <3>1
    <2>2. CASE MarkDeadWorkers
      BY <2>2 DEF MarkDeadWorkers, DeadList, DeadSave, DeadDone, tables
    <2>3. CASE RecoverExpiredLease
      <3>1. leases' = leases \/ \E l \in c.ls : DeleteIfExpired(JobOf(l))
        BY <2>3 DEF RecoverExpiredLease, ExpList, ExpSkip, ExpDelete, ExpDone, ExpReadWorker,
             ExpReadJob, ExpSaveWorker, ExpReadNode, ExpSaveNode, ExpSaveJob, tables
      <3> QED
        BY <3>1 DEF DeleteIfExpired
    <2>4. CASE OffDeleteLease
      <3>1. LeaseOfJob(c.j) = {} /\ leases' = leases \ LeaseOfJob(c.j)
        BY <1>1, <2>4 DEF OffDeleteLease, At, DeleteLease, IInv, GoneFirst
      <3> QED
        BY <3>1
    <2>5. CASE RecoverOfflineNode /\ ~OffDeleteLease
      <3>1. leases' = leases \/ DeleteIfExpired(c.j)
        BY <2>5 DEF RecoverOfflineNode, OffReadNodes, OffList, OffLease, OffDelete, OffSaveWorker,
             OffSaveNode, OffSaveJob, OffDone, tables
      <3> QED
        BY <3>1 DEF DeleteIfExpired
    <2> QED
      BY <1>1, <2>1, <2>2, <2>3, <2>4, <2>5 DEF ControlStep
  <1>2. ASSUME IInv, [Next]_vars
        PROVE  controlVars' # controlVars => \A l \in leases : l \in leases' \/ l.expired
    <2>1. CASE Control
      BY <1>1, <1>2, <2>1 DEF Control
    <2>2. CASE ServerCrash
      BY <2>2 DEF ServerCrash, tables
    <2>3. CASE (\E n \in Node : Agent(n)) \/ User \/ TimePasses \/ UNCHANGED vars
      BY <2>3 DEF Agent, MainThread, RenewThread, BeatThread, Death, AgentAlone, User, TimePasses,
                  vars, controlVars
    <2> QED
      BY <1>2, <2>1, <2>2, <2>3 DEF Next
  <1> QED
    BY <1>2, Invariance, PTL DEF Spec, LiveLeaseNotReclaimed
-----------------------------------------------------------------------------
(* The rows of jobs, as long as none was saved over a version its writer had  *)
(* not seen                                                                   *)

\* The commands of the Job entity on a row.  unschedule() is the free way back to
\* the queue.
PaidCommand(r, s) ==
    \/ r.status = "SUBMITTED" /\ s = QueueJob(r)
    \/ \E n \in Node : CanMoveTo(r, "SCHEDULED") /\ s = AssignTo(r, n)
    \/ CanMoveTo(r, "RUNNING") /\ s = StartJob(r)
    \/ \E o \in Outcome : CanMoveTo(r, o) /\ s = Finish(r, o)
    \/ CanMoveTo(r, "CANCELLED") /\ s = CancelJob(r)
    \/ CanMoveTo(r, "CANCELLING") /\ s = RequestCancellation(r)
    \/ CanRetryFailed(r) /\ s = RetryFailed(r)
    \/ CanReclaim(r) /\ s = Reclaim(r)
Command(r, s) == PaidCommand(r, s) \/ (CanUnschedule(r) /\ s = Unschedule(r))

\* What a step does to the rows.
JobStep == \A j \in Job : job'[j] = job[j] \/ Command(job[j], job'[j])

\* The jobs of which a thread has missed a version since it read them.
Lost(t) == {j \in Job : JobKey(j) \in missed[t]}

\* The rows the control loop holds are the rows of the table, or what they are to
\* become, unless it has missed a version.
AwaitPC == {"assign.list", "assign.lease", "assign.insert", "unsched.saveNode"}
SchedRowPC == AwaitPC \cup {"sched.pick", "sched.saveJob", "assign.saveWorker", "unsched.saveJob"}
ExpRowPC == {"exp.saveWorker", "exp.node", "exp.saveNode", "exp.saveJob"}
OffRowPC == {"off.delete", "off.saveWorker", "off.deleteLease", "off.saveNode", "off.saveJob"}

LoopFresh(J, pc, m, lost) ==
    /\ pc = "sched.jobs" => m.j = None
    /\ pc \in SchedRowPC => \A j \in m.jobs :
          j # m.j /\ m.js[j].status = "QUEUED" /\ (j \notin lost => m.js[j] = J[j])
    /\ pc = "sched.saveJob" /\ m.j \notin lost =>
          J[m.j].status = "QUEUED" /\ m.js[m.j] = AssignTo(J[m.j], m.n)
    /\ pc \in AwaitPC /\ m.j \notin lost => J[m.j].status = "SCHEDULED" /\ m.js[m.j] = J[m.j]
    /\ pc = "unsched.saveJob" /\ m.j \notin lost =>
          J[m.j].status = "SCHEDULED" /\ m.js[m.j] = Unschedule(J[m.j])
    /\ pc \in ExpRowPC /\ m.j \notin lost => m.js[m.j] = J[m.j]
    /\ pc \in OffPC => \A n \in m.nodes : m.ws[n].job \notin lost =>
          J[m.ws[n].job] \in {m.js[m.ws[n].job], Reclaim(m.js[m.ws[n].job])}
    /\ pc \in OffRowPC /\ m.j \notin lost => J[m.j] \in {m.js[m.j], Reclaim(m.js[m.j])}

\* So are the rows in the memory of a handler.
RegisterRowPC == {"reg.deleteLease", "reg.saveNode", "reg.saveJob"}
StartRowPC == {"start.saveWorker", "start.saveJob"}
ReportRowPC == ReportPC \ {"report.call"}

HandlerFresh(J, pc, m, lost) ==
    m.j \notin lost =>
        /\ pc \in RegisterRowPC => m.jr = J[m.j]
        /\ pc \in StartRowPC => CanMoveTo(J[m.j], "RUNNING") /\ m.jr = StartJob(J[m.j])
        /\ pc \in ReportRowPC => CanMoveTo(J[m.j], m.out) /\ m.jr = Finish(J[m.j], m.out)

CallFresh(J, pc, m, lost) ==
    pc = "user.saveJob" /\ m.j \notin lost => m.jr = J[m.j] \/ PaidCommand(J[m.j], m.jr)

\* Every lease but the first was paid for with a retry, and a job in the queue has
\* paid for its next one.  A lease is due from the moment the job is SCHEDULED.
Paid(r, g) ==
    /\ g <= r.retries + 1
    /\ r.retries <= MaxRetries
    /\ r.status \in {"SUBMITTED", "QUEUED"} => g <= r.retries
Due(j) == IF cpc \in AwaitPC \cup {"unsched.saveJob"} /\ c.j = j THEN granted[j] + 1 ELSE granted[j]
AllPaid == \A j \in Job : Paid(job[j], Due(j))

RowsFresh == /\ LoopFresh(job, cpc, c, Lost(ControlThread))
             /\ \A n \in Node : HandlerFresh(job, apc[n], am[n], Lost(MainOf(n)))
             /\ CallFresh(job, upc, um, Lost(UserThread))
             /\ AllPaid
FInv == ~overwritten => RowsFresh
-----------------------------------------------------------------------------
(* Commands and what they cost *)

LEMMA PaidCommands ==
    ASSUME NEW r \in JobRow, NEW s, NEW g \in Nat, PaidCommand(r, s), Paid(r, g)
    PROVE  s \in JobRow /\ Paid(s, g)
  <1> USE MaxRetriesAssumption
  <1>0. r.retries \in Nat /\ r.status \in JobStatus
    BY DEF JobRow
  <1>1. CASE r.status = "SUBMITTED" /\ s = QueueJob(r)
    BY <1>0, <1>1, MoveToRow DEF Paid, QueueJob, JobStatus
  <1>2. ASSUME NEW n \in Node, CanMoveTo(r, "SCHEDULED"), s = AssignTo(r, n)
        PROVE  s \in JobRow /\ Paid(s, g)
    BY <1>0, <1>2, AssignToRow DEF Paid
  <1>3. CASE s = StartJob(r)
    BY <1>0, <1>3, StartJobRow DEF Paid
  <1>4. ASSUME NEW o \in Outcome, s = Finish(r, o)
        PROVE  s \in JobRow /\ Paid(s, g)
    BY <1>0, <1>4, FinishRow DEF Paid, Outcome, JobStatus
  <1>5. CASE s = CancelJob(r)
    BY <1>0, <1>5, MoveToRow DEF Paid, CancelJob, JobStatus
  <1>6. CASE s = RequestCancellation(r)
    BY <1>0, <1>6, RequestCancellationRow DEF Paid
  <1>7. CASE CanRetryFailed(r) /\ s = RetryFailed(r)
    <2>1. s \in JobRow /\ s.retries = r.retries + 1 /\ r.retries < MaxRetries
      BY <1>7, RetryFailedRow DEF CanRetryFailed, CanRetry
    <2> QED
      BY <1>0, <2>1 DEF Paid
  <1>8. CASE s = Reclaim(r)
    <2>1. /\ s \in JobRow
          /\ \/ s.retries = r.retries /\ s.status \in {"CANCELLED", "FAILED"}
             \/ s.retries = r.retries + 1 /\ r.retries < MaxRetries
      BY <1>8, ReclaimRow DEF CanRetry
    <2> QED
      BY <1>0, <2>1 DEF Paid
  <1> QED
    BY <1>1, <1>2, <1>3, <1>4, <1>5, <1>6, <1>7, <1>8 DEF PaidCommand

\* What is due is a number, and a smaller one is paid for, too.
LEMMA DueIs ==
    ASSUME Types, NEW j \in Job
    PROVE  Due(j) \in Nat /\ granted[j] \in Nat /\ granted[j] <= Due(j) /\ job[j] \in JobRow
  <1>1. granted[j] \in Nat /\ job[j] \in JobRow
    BY ControlFacts
  <1> QED
    BY <1>1 DEF Due

LEMMA LessIsPaid ==
    ASSUME NEW r \in JobRow, NEW g \in Nat, NEW h \in Nat, Paid(r, g), h <= g
    PROVE  Paid(r, h)
  <1>1. r.retries \in Nat
    BY DEF JobRow
  <1> QED
    BY <1>1 DEF Paid

\* A step that saves a row by a paid command or saves none, and makes nothing due.
LEMMA JobWritten ==
    ASSUME Types, AllPaid,
           \A j \in Job : Due(j)' \in Nat /\ Due(j)' <= Due(j),
           \A j \in Job : job'[j] = job[j] \/ PaidCommand(job[j], job'[j])
    PROVE  AllPaid' /\ JobStep
  <1>1. ASSUME NEW j \in Job PROVE Paid(job'[j], Due(j)')
    <2>1. Due(j) \in Nat /\ job[j] \in JobRow /\ Paid(job[j], Due(j))
      BY DueIs DEF AllPaid
    <2>2. job'[j] \in JobRow /\ Paid(job'[j], Due(j))
      BY <2>1, PaidCommands
    <2> QED
      BY <2>1, <2>2, LessIsPaid
  <1>2. AllPaid'
    BY <1>1 DEF AllPaid
  <1> QED
    BY <1>2 DEF JobStep, Command

\* While the control loop stands still nothing becomes due.
LEMMA DueStands ==
    ASSUME Types, UNCHANGED <<cpc, c, granted>>
    PROVE  \A j \in Job : Due(j)' \in Nat /\ Due(j)' <= Due(j)
  <1> SUFFICES ASSUME NEW j \in Job PROVE Due(j)' \in Nat /\ Due(j)' <= Due(j)
    OBVIOUS
  <1>1. Due(j)' = Due(j)
    BY DEF Due
  <1> QED
    BY <1>1, DueIs
-----------------------------------------------------------------------------
(* Who else is affected by a save *)

LEMMA LoopBystander ==
    ASSUME Types, NEW J, NEW lost, NEW more,
           \A j \in Job : j \notin more => J[j] = job[j], lost \subseteq more,
           LoopFresh(job, cpc, c, lost)
    PROVE  LoopFresh(J, cpc, c, more)
  <1>1. /\ cpc \in PairPC \cup ExpPC => c.j \in Job
        /\ c.jobs \subseteq Job
        /\ cpc \in OffPC => \A n \in c.nodes : c.ws[n].job \in Job
    BY ControlFacts DEF Types, ControlAim
  <1>2. /\ cpc \in AwaitPC \cup {"sched.saveJob", "unsched.saveJob"} => c.j \in Job
        /\ cpc \in ExpRowPC \cup OffRowPC => c.j \in Job
    BY <1>1 DEF PairPC, ExpPC, AwaitPC, ExpRowPC, OffRowPC
  <1> QED
    BY <1>1, <1>2 DEF LoopFresh

LEMMA HandlerBystander ==
    ASSUME IInv, NEW n \in Node, NEW J, NEW lost, NEW more,
           \A j \in Job : j \notin more => J[j] = job[j], lost \subseteq more,
           HandlerFresh(job, apc[n], am[n], lost)
    PROVE  HandlerFresh(J, apc[n], am[n], more)
  <1>1. apc[n] \in RegisterRowPC \cup StartRowPC \cup ReportRowPC => am[n].j \in Job
    BY AgentFacts DEF RegisterRowPC, StartRowPC, ReportRowPC, JobPC, ReportPC
  <1> QED
    BY <1>1 DEF HandlerFresh

LEMMA CallBystander ==
    ASSUME IInv, NEW J, NEW lost, NEW more,
           \A j \in Job : j \notin more => J[j] = job[j], lost \subseteq more,
           CallFresh(job, upc, um, lost)
    PROVE  CallFresh(J, upc, um, more)
  <1>1. upc = "user.saveJob" => um.j \in Job
    BY DEF IInv, Types, UserAim
  <1> QED
    BY <1>1 DEF CallFresh
-----------------------------------------------------------------------------
(* The control loop *)

\* What it has missed after a step, if it goes on; and it saves nothing stale.
LostNext(lost) ==
    CASE cpc \in {"sched.jobs", "off.list"} -> {}
      [] cpc = "exp.job" -> lost \ {c.j}
      [] OTHER -> lost
SavesSeen(lost) ==
    /\ cpc \in {"sched.saveJob", "unsched.saveJob"} => c.j \notin lost
    /\ cpc \in {"exp.saveJob", "off.saveJob"} /\ CanReclaim(c.js[c.j]) => c.j \notin lost
LoopKept(lost) == LoopFresh(job', cpc', c', LostNext(lost)) /\ AllPaid' /\ JobStep

LEMMA NothingDue ==
    ASSUME Types, AllPaid, UNCHANGED <<job, granted>>,
           cpc' \in AwaitPC \cup {"unsched.saveJob"} =>
               cpc \in AwaitPC \cup {"unsched.saveJob"} /\ c'.j = c.j
    PROVE  AllPaid' /\ JobStep
  <1>1. \A j \in Job : Due(j)' \in Nat /\ Due(j)' <= Due(j)
    <2> SUFFICES ASSUME NEW j \in Job PROVE Due(j)' \in Nat /\ Due(j)' <= Due(j)
      OBVIOUS
    <2>1. Due(j)' = granted[j] \/ Due(j)' = Due(j)
      BY DEF Due
    <2> QED
      BY <2>1, DueIs
  <1> QED
    BY <1>1, JobWritten

LEMMA SchedulerFresh ==
    ASSUME Types, NEW lost \in SUBSET Job, LoopFresh(job, cpc, c, lost), SavesSeen(lost), AllPaid,
           SchedulerLoop
    PROVE  LoopKept(lost)
  <1> USE ControlFacts DEF LoopKept
  <1>1. cpc \in PairPC => c.j \in Job /\ c.n \in Node
    BY DEF Types, ControlAim
  <1>2. CASE SchedReadNodes
    <2>1. cpc' = "sched.jobs" /\ UNCHANGED <<job, granted>>
          /\ c' = [Blank EXCEPT !.ns = node, !.nodes = {n \in nfresh : ~node[n].draining}]
      BY <1>2 DEF SchedReadNodes, Goto, tables
    <2>2. c'.j = None
      BY <2>1, BlankTick DEF Tick
    <2> QED
      BY <2>1, <2>2, NothingDue DEF LoopFresh, SchedRowPC, AwaitPC, ExpRowPC, OffPC, OffRowPC
  <1>3. CASE SchedReadJobs
    <2> DEFINE queued == {j \in Job : job[j].status = "QUEUED"}
               js == [j \in Job |-> IF j \in queued THEN job[j] ELSE NewJob]
    <2>1. c' = [c EXCEPT !.jobs = queued, !.js = js] /\ cpc' = "sched.pick"
          /\ UNCHANGED <<job, granted>> /\ cpc = "sched.jobs"
      BY <1>3 DEF SchedReadJobs, Goto, At, tables
    <2>2. \A j \in queued : js[j] = job[j] /\ job[j].status = "QUEUED"
      OBVIOUS
    <2>3. c.j = None
      BY <2>1 DEF LoopFresh
    <2> HIDE DEF queued, js
    <2>4. c'.jobs = queued /\ c'.js = js /\ c'.j = c.j
      BY <2>1 DEF Tick
    <2> QED
      BY <2>1, <2>2, <2>3, <2>4, NothingDue, JobAssumption
         DEF LoopFresh, SchedRowPC, AwaitPC, ExpRowPC, OffPC, OffRowPC, queued
  <1>4. ASSUME NEW j \in Job, NEW n \in Node, SchedPick(j, n)
        PROVE  LoopKept(lost)
    <2> DEFINE row == AssignTo(c.js[j], n)
               ns == Allocate(c.ns[n])
    <2>1. c' = [c EXCEPT !.ns[n] = ns, !.js[j] = row, !.jobs = @ \ {j}, !.j = j, !.n = n]
          /\ cpc' = "sched.saveJob" /\ UNCHANGED <<job, granted>> /\ j \in c.jobs
          /\ cpc = "sched.pick"
      BY <1>4 DEF SchedPick, Goto, At
    <2>2. j \notin lost => row = AssignTo(job[j], n) /\ job[j].status = "QUEUED"
      BY <2>1 DEF LoopFresh, SchedRowPC
    <2> HIDE DEF row, ns
    <2>3. c'.jobs = c.jobs \ {j} /\ c'.js = [c.js EXCEPT ![j] = row] /\ c'.j = j /\ c'.n = n
      BY <2>1 DEF Tick
    <2>4. \A k \in c'.jobs : c'.js[k] = c.js[k]
      BY <2>3
    <2>5. c'.js[j] = row /\ LostNext(lost) = lost
      BY <2>1, <2>3 DEF LostNext
    <2> QED
      BY <2>1, <2>2, <2>3, <2>4, <2>5, NothingDue
         DEF LoopFresh, SchedRowPC, AwaitPC, ExpRowPC, OffPC, OffRowPC
  <1>5. ASSUME NEW j \in Job, SchedSkip(j)
        PROVE  LoopKept(lost)
    <2>1. c' = [c EXCEPT !.jobs = @ \ {j}, !.js[j] = NewJob]
          /\ cpc' = "sched.pick" /\ UNCHANGED <<job, granted>> /\ cpc = "sched.pick"
      BY <1>5 DEF SchedSkip, Goto, At, tables
    <2>2. c'.jobs = c.jobs \ {j} /\ c'.js = [c.js EXCEPT ![j] = NewJob] /\ c'.j = c.j
          /\ LostNext(lost) = lost
      BY <2>1 DEF Tick, LostNext
    <2>3. \A k \in c'.jobs : c'.js[k] = c.js[k]
      BY <2>2
    <2> QED
      BY <2>1, <2>2, <2>3, NothingDue DEF LoopFresh, SchedRowPC, AwaitPC, ExpRowPC, OffPC, OffRowPC
  <1>6. CASE SchedDone
    <2>1. cpc' = "dead.list" /\ UNCHANGED <<job, granted>>
      BY <1>6 DEF SchedDone, Goto, tables
    <2> QED
      BY <2>1, NothingDue DEF LoopFresh, SchedRowPC, AwaitPC, ExpRowPC, OffPC, OffRowPC
  <1>7. CASE SchedSaveJob
    <2>1. c' = c /\ cpc' = "assign.list" /\ SaveJob(c.j, c.js[c.j]) /\ granted' = granted
          /\ cpc = "sched.saveJob" /\ c.j \in Job /\ c.n \in Node /\ c.j \notin lost
      BY <1>1, <1>7 DEF SchedSaveJob, Goto, At, PairPC, SavesSeen
    <2>2. c.js[c.j] = AssignTo(job[c.j], c.n) /\ job[c.j].status = "QUEUED"
          /\ \A k \in c.jobs : k # c.j /\ c.js[k].status = "QUEUED"
                               /\ (k \notin lost => c.js[k] = job[k])
      BY <2>1 DEF LoopFresh, SchedRowPC
    <2>3. job'[c.j] = c.js[c.j] /\ \A k \in Job \ {c.j} : job'[k] = job[k]
      BY <2>1 DEF SaveJob
    <2>4. job[c.j] \in JobRow /\ granted[c.j] \in Nat /\ job[c.j].retries \in Nat
          /\ Paid(job[c.j], granted[c.j])
      BY <2>1 DEF AllPaid, Due, JobRow, AwaitPC
    <2>5. c.js[c.j].status = "SCHEDULED" /\ c.js[c.j].retries = job[c.j].retries
      BY <2>1, <2>2, <2>4, AssignToRow
    <2>6. Paid(job'[c.j], granted[c.j] + 1)
      BY <2>2, <2>3, <2>4, <2>5 DEF Paid
    <2>7. \A k \in Job : Due(k)' = IF k = c.j THEN granted[k] + 1 ELSE Due(k)
      BY <2>1 DEF Due, AwaitPC
    <2>8. AllPaid'
      BY <2>1, <2>3, <2>6, <2>7 DEF AllPaid
    <2>9. Command(job[c.j], job'[c.j])
      BY <2>1, <2>2, <2>3 DEF Command, PaidCommand, CanMoveTo, AllowedTransitions
    <2>10. JobStep
      BY <2>1, <2>3, <2>9 DEF JobStep
    <2>11. LostNext(lost) = lost
      BY <2>1 DEF LostNext
    <2> QED
      BY <2>1, <2>2, <2>3, <2>5, <2>8, <2>10, <2>11
         DEF LoopFresh, SchedRowPC, AwaitPC, ExpRowPC, OffPC, OffRowPC
  <1>8. CASE AssignList
    <2>1. c.j \in Job /\ c.n \in Node /\ cpc = "assign.list" /\ UNCHANGED <<job, granted>>
      BY <1>1, <1>8 DEF AssignList, At, PairPC, tables
    <2>2. \/ c' = c /\ cpc' = "unsched.saveNode"
          \/ c' = [c EXCEPT !.ws[c.n] = worker[c.n]] /\ cpc' = "assign.lease"
      BY <1>8 DEF AssignList, Goto
    <2>3. c'.j = c.j /\ c'.js = c.js /\ c'.jobs = c.jobs /\ LostNext(lost) = lost
      BY <2>1, <2>2 DEF Tick, LostNext
    <2> QED
      BY <2>1, <2>2, <2>3, NothingDue
         DEF LoopFresh, SchedRowPC, AwaitPC, ExpRowPC, OffPC, OffRowPC
  <1>9. CASE AssignLease
    <2>1. c.j \in Job /\ cpc = "assign.lease" /\ UNCHANGED <<job, granted>>
      BY <1>1, <1>9 DEF AssignLease, At, PairPC, tables
    <2>2. (c' = c /\ cpc' = "assign.insert") \/ cpc' = "dead.list"
      BY <1>9 DEF AssignLease, Goto
    <2>3. LostNext(lost) = lost
      BY <2>1 DEF LostNext
    <2> QED
      BY <2>1, <2>2, <2>3, NothingDue DEF LoopFresh, SchedRowPC, AwaitPC, ExpRowPC, OffPC, OffRowPC
  <1>10. CASE AssignInsert
    <2>1. c.j \in Job /\ cpc = "assign.insert" /\ UNCHANGED job /\ LostNext(lost) = lost
      BY <1>1, <1>10 DEF AssignInsert, At, PairPC, LostNext
    <2>2. \/ c' = c /\ cpc' = "assign.saveWorker" /\ InsertLease(c.j, c.n)
          \/ cpc' = "dead.list" /\ UNCHANGED granted
      BY <1>10 DEF AssignInsert, Goto
    <2>3. CASE c' = c /\ cpc' = "assign.saveWorker" /\ InsertLease(c.j, c.n)
      <3>1. \A k \in Job : granted'[k] = IF k = c.j THEN granted[c.j] + 1 ELSE granted[k]
        BY <2>1, <2>3 DEF InsertLease
      <3>2. \A k \in Job : Due(k)' = Due(k)
        BY <2>1, <2>3, <3>1 DEF Due, AwaitPC
      <3>3. AllPaid' /\ JobStep
        BY <2>1, <3>2 DEF AllPaid, JobStep
      <3> QED
        BY <2>1, <2>3, <3>3 DEF LoopFresh, SchedRowPC, AwaitPC, ExpRowPC, OffPC, OffRowPC
    <2>4. CASE cpc' = "dead.list" /\ UNCHANGED granted
      BY <2>1, <2>4, NothingDue DEF LoopFresh, SchedRowPC, AwaitPC, ExpRowPC, OffPC, OffRowPC
    <2> QED
      BY <2>2, <2>3, <2>4
  <1>11. c.j \in Job /\ c.n \in Node =>
            NextJob.jobs = c.jobs /\ NextJob.js = [c.js EXCEPT ![c.j] = NewJob] /\ NextJob.j = None
    BY DEF NextJob, Tick
  <1>12. CASE AssignSaveWorker
    <2>1. c.j \in Job /\ c.n \in Node /\ cpc = "assign.saveWorker" /\ c' = NextJob
          /\ cpc' = "sched.pick" /\ UNCHANGED <<job, granted>> /\ LostNext(lost) = lost
      BY <1>1, <1>12 DEF AssignSaveWorker, At, Goto, PairPC, LostNext
    <2>2. \A k \in c'.jobs : k # c'.j /\ c'.js[k].status = "QUEUED"
                             /\ (k \notin lost => c'.js[k] = job[k])
      BY <1>11, <2>1, JobAssumption DEF LoopFresh, SchedRowPC
    <2> QED
      BY <2>1, <2>2, NothingDue DEF LoopFresh, SchedRowPC, AwaitPC, ExpRowPC, OffPC, OffRowPC
  <1>13. CASE UnschedSaveNode
    <2> DEFINE row == Unschedule(c.js[c.j])
               ns == Release(c.ns[c.n])
    <2>1. c' = [c EXCEPT !.ns[c.n] = ns, !.js[c.j] = row] /\ cpc' = "unsched.saveJob"
          /\ UNCHANGED <<job, granted>> /\ cpc = "unsched.saveNode" /\ c.j \in Job
          /\ LostNext(lost) = lost
      BY <1>1, <1>13 DEF UnschedSaveNode, At, Goto, PairPC, LostNext
    <2>2. c.j \notin lost => row = Unschedule(job[c.j]) /\ job[c.j].status = "SCHEDULED"
      BY <2>1 DEF LoopFresh, AwaitPC
    <2> HIDE DEF row, ns
    <2>3. c'.j = c.j /\ c'.jobs = c.jobs /\ c'.js = [c.js EXCEPT ![c.j] = row]
      BY <2>1 DEF Tick
    <2>4. c'.js[c.j] = row
      BY <2>1, <2>3
    <2>5. \A k \in c'.jobs : k # c'.j /\ c'.js[k].status = "QUEUED"
                             /\ (k \notin lost => c'.js[k] = job[k])
      BY <2>1, <2>3 DEF LoopFresh, SchedRowPC, AwaitPC
    <2> QED
      BY <2>1, <2>2, <2>3, <2>4, <2>5, NothingDue
         DEF LoopFresh, SchedRowPC, AwaitPC, ExpRowPC, OffPC, OffRowPC
  <1>14. CASE UnschedSaveJob
    <2>1. c.j \in Job /\ c.n \in Node /\ cpc = "unsched.saveJob" /\ c' = NextJob
          /\ cpc' = "sched.pick" /\ SaveJob(c.j, c.js[c.j]) /\ granted' = granted
          /\ LostNext(lost) = lost /\ c.j \notin lost
      BY <1>1, <1>14 DEF UnschedSaveJob, At, Goto, PairPC, LostNext, SavesSeen
    <2>2. job[c.j].status = "SCHEDULED" /\ c.js[c.j] = Unschedule(job[c.j])
          /\ \A k \in c.jobs : k # c.j /\ c.js[k].status = "QUEUED"
                               /\ (k \notin lost => c.js[k] = job[k])
      BY <2>1 DEF LoopFresh, SchedRowPC
    <2>3. job'[c.j] = c.js[c.j] /\ \A k \in Job \ {c.j} : job'[k] = job[k]
      BY <2>1 DEF SaveJob
    <2>4. job[c.j] \in JobRow /\ granted[c.j] \in Nat /\ job[c.j].retries \in Nat
          /\ Paid(job[c.j], granted[c.j] + 1)
      BY <2>1 DEF AllPaid, Due, JobRow
    <2>5. c.js[c.j].retries = job[c.j].retries
      BY <2>2, <2>4, UnscheduleRow
    <2>6. Paid(job'[c.j], granted[c.j])
      BY <2>3, <2>4, <2>5 DEF Paid
    <2>7. \A k \in Job : Due(k)' = IF k = c.j THEN granted[k] ELSE Due(k)
      BY <2>1 DEF Due, AwaitPC
    <2>8. AllPaid'
      BY <2>1, <2>3, <2>6, <2>7 DEF AllPaid
    <2>9. JobStep
      BY <2>1, <2>2, <2>3 DEF JobStep, Command, CanUnschedule
    <2>10. \A k \in c'.jobs : k # c'.j /\ c'.js[k].status = "QUEUED"
                              /\ (k \notin lost => c'.js[k] = job'[k])
      BY <1>11, <2>1, <2>2, <2>3, JobAssumption
    <2> QED
      BY <2>1, <2>8, <2>9, <2>10 DEF LoopFresh, SchedRowPC, AwaitPC, ExpRowPC, OffPC, OffRowPC
  <1> QED
    BY <1>2, <1>3, <1>4, <1>5, <1>6, <1>7, <1>8, <1>9, <1>10, <1>12, <1>13, <1>14
       DEF SchedulerLoop

LEMMA DeadFresh ==
    ASSUME Types, NEW lost, AllPaid, MarkDeadWorkers
    PROVE  LoopKept(lost)
  <1>1. cpc' \in {"dead.save", "exp.list"} /\ UNCHANGED <<job, granted>>
    BY DEF MarkDeadWorkers, DeadList, DeadSave, DeadDone, Goto, tables
  <1> QED
    BY <1>1, NothingDue DEF LoopKept, LoopFresh, SchedRowPC, AwaitPC, ExpRowPC, OffPC, OffRowPC

\* reclaim_job saves the row it was given, which is the current one or was
\* reclaimed before.
LEMMA ReclaimedFresh ==
    ASSUME Types, AllPaid, NEW j \in Job, NEW row, SaveReclaimed(j, row), granted' = granted,
           cpc' \notin AwaitPC \cup {"unsched.saveJob"},
           CanReclaim(row) => job[j] \in {row, Reclaim(row)}
    PROVE  /\ AllPaid' /\ JobStep
           /\ \A k \in Job : job'[k] = job[k] \/ (k = j /\ job'[k] = Reclaim(row))
  <1> USE ControlFacts
  <1>1. CASE CanReclaim(row)
    <2>1. job'[j] = Reclaim(row) /\ \A k \in Job \ {j} : job'[k] = job[k]
      BY <1>1 DEF SaveReclaimed, SaveJob
    <2>2. Reclaim(row) = job[j] \/ PaidCommand(job[j], Reclaim(row))
      BY <1>1 DEF PaidCommand
    <2>3. \A k \in Job : job'[k] = job[k] \/ PaidCommand(job[k], job'[k])
      BY <2>1, <2>2
    <2>4. \A k \in Job : Due(k)' \in Nat /\ Due(k)' <= Due(k)
      BY DueIs DEF Due
    <2> QED
      BY <2>1, <2>3, <2>4, JobWritten
  <1>2. CASE ~CanReclaim(row)
    <2>1. job' = job
      BY <1>2 DEF SaveReclaimed
    <2> QED
      BY <2>1, NothingDue
  <1> QED
    BY <1>1, <1>2

LEMMA ExpiredFresh ==
    ASSUME Types, NEW lost \in SUBSET Job, LoopFresh(job, cpc, c, lost), SavesSeen(lost), AllPaid,
           RecoverExpiredLease
    PROVE  LoopKept(lost)
  <1> USE ControlFacts DEF LoopKept
  <1>1. cpc \in ExpPC => c.j \in Job
    BY DEF Types, ControlAim
  <1>2. CASE cpc' \in {"exp.delete", "exp.worker", "exp.job", "off.nodes"} /\ UNCHANGED <<job, granted>>
    BY <1>2, NothingDue DEF LoopFresh, SchedRowPC, AwaitPC, ExpRowPC, OffPC, OffRowPC
  <1>3. CASE ExpReadJob
    <2>1. c.j \in Job /\ c' = [c EXCEPT !.js[c.j] = job[c.j]] /\ cpc' = "exp.saveWorker"
          /\ UNCHANGED <<job, granted>>
      BY <1>1, <1>3 DEF ExpReadJob, At, Goto, ExpPC, tables
    <2>2. c'.j = c.j /\ c'.js[c.j] = job[c.j]
      BY <2>1 DEF Tick
    <2> QED
      BY <2>1, <2>2, NothingDue DEF LoopFresh, SchedRowPC, AwaitPC, ExpRowPC, OffPC, OffRowPC
  <1>4. CASE ExpSaveWorker
    <2> DEFINE to == c.js[c.j].node
               ws == Blank.ws
    <2>1. c' = [c EXCEPT !.n = to, !.ws = ws] /\ cpc' \in {"exp.saveJob", "exp.node"}
          /\ UNCHANGED <<job, granted>> /\ cpc = "exp.saveWorker" /\ LostNext(lost) = lost
      BY <1>4 DEF ExpSaveWorker, At, Goto, LostNext
    <2> HIDE DEF to, ws
    <2>2. c'.j = c.j /\ c'.js = c.js
      BY <2>1 DEF Tick
    <2> QED
      BY <2>1, <2>2, NothingDue DEF LoopFresh, SchedRowPC, AwaitPC, ExpRowPC, OffPC, OffRowPC
  <1>5. CASE ExpReadNode \/ ExpSaveNode
    <2>1. /\ \/ c' = [c EXCEPT !.ns[c.n] = node[c.n]] /\ cpc' = "exp.saveNode"
             \/ c' = [c EXCEPT !.ns = Blank.ns] /\ cpc' = "exp.saveJob"
          /\ UNCHANGED <<job, granted>> /\ cpc \in {"exp.node", "exp.saveNode"}
      BY <1>5 DEF ExpReadNode, ExpSaveNode, At, Goto, tables
    <2>2. c'.j = c.j /\ c'.js = c.js /\ LostNext(lost) = lost
      BY <2>1 DEF Tick, LostNext
    <2> QED
      BY <2>1, <2>2, NothingDue DEF LoopFresh, SchedRowPC, AwaitPC, ExpRowPC, OffPC, OffRowPC
  <1>6. CASE ExpSaveJob
    <2>1. c.j \in Job /\ SaveReclaimed(c.j, c.js[c.j]) /\ granted' = granted
          /\ cpc = "exp.saveJob" /\ cpc' = "exp.delete"
      BY <1>1, <1>6 DEF ExpSaveJob, At, Goto, ExpPC
    <2>2. CanReclaim(c.js[c.j]) => c.js[c.j] = job[c.j]
      BY <2>1 DEF LoopFresh, ExpRowPC, SavesSeen
    <2>3. AllPaid' /\ JobStep
      BY <2>1, <2>2, ReclaimedFresh DEF AwaitPC
    <2> QED
      BY <2>1, <2>3 DEF LoopFresh, SchedRowPC, AwaitPC, ExpRowPC, OffPC, OffRowPC
  <1>7. ASSUME NEW l, ExpSkip(l) \/ ExpDelete(l)
        PROVE  cpc' \in {"exp.delete", "exp.worker"} /\ UNCHANGED <<job, granted>>
    BY <1>7 DEF ExpSkip, ExpDelete, Goto, tables
  <1>8. CASE ExpList \/ ExpDone \/ ExpReadWorker
    BY <1>2, <1>8 DEF ExpList, ExpDone, ExpReadWorker, Goto, tables
  <1> QED
    BY <1>2, <1>3, <1>4, <1>5, <1>6, <1>7, <1>8 DEF RecoverExpiredLease

LEMMA OfflineFresh ==
    ASSUME Types, NEW lost \in SUBSET Job, LoopFresh(job, cpc, c, lost), SavesSeen(lost), AllPaid,
           RecoverOfflineNode
    PROVE  LoopKept(lost)
  <1> USE ControlFacts DEF LoopKept
  <1>1. /\ cpc \in OffRowPC => c.j \in Job /\ c.n \in Node
        /\ cpc \in OffPC => \A n \in c.nodes : c.ws[n].job \in Job /\ (cpc # "off.lease" => n # c.n)
    BY DEF Types, ControlAim, PairPC, OffRowPC
  <1>2. CASE OffReadNodes \/ OffDone
    <2>1. cpc' \in {"idle", "off.list"} /\ UNCHANGED <<job, granted>>
      BY <1>2 DEF OffReadNodes, OffDone, Goto, tables
    <2> QED
      BY <2>1, NothingDue DEF LoopFresh, SchedRowPC, AwaitPC, ExpRowPC, OffPC, OffRowPC
  <1>3. CASE OffList
    <2> DEFINE held == {n \in c.nodes : worker[n].job # None}
               ws == [n \in Node |-> IF n \in held THEN worker[n] ELSE NoWorker]
               ns == [n \in Node |-> IF n \in held THEN node[n] ELSE NewNode]
               js == [j \in Job |-> IF \E n \in held : worker[n].job = j
                                    THEN job[j] ELSE NewJob]
    <2>1. c' = [c EXCEPT !.nodes = held, !.ws = ws, !.ns = ns, !.js = js]
          /\ cpc' = "off.lease" /\ UNCHANGED <<job, granted>>
      BY <1>3 DEF OffList, Goto, tables
    <2>2. \A n \in held : ws[n].job \in Job /\ js[ws[n].job] = job[ws[n].job]
      BY DEF WorkerRow
    <2> HIDE DEF held, ws, ns, js
    <2>3. c'.nodes = held /\ c'.ws = ws /\ c'.js = js
      BY <2>1 DEF Tick
    <2> QED
      BY <2>1, <2>2, <2>3, NothingDue DEF LoopFresh, SchedRowPC, AwaitPC, ExpRowPC, OffPC, OffRowPC
  <1>4. ASSUME NEW n \in Node, OffLease(n)
        PROVE  LoopKept(lost)
    <2> DEFINE rest == [c EXCEPT !.nodes = @ \ {n}]
               held == [rest EXCEPT !.n = n, !.j = c.ws[n].job]
    <2>1. rest \in Tick /\ rest.nodes = c.nodes \ {n} /\ rest.ws = c.ws /\ rest.js = c.js
      BY DEF Tick
    <2>2. /\ \/ cpc' = "off.lease" /\ c' = rest
             \/ cpc' \in {"off.saveWorker", "off.delete"} /\ c' = held
          /\ UNCHANGED <<job, granted>> /\ cpc = "off.lease" /\ n \in c.nodes
      BY <1>4 DEF OffLease, Goto, At, tables
    <2> HIDE DEF rest
    <2>3. held.nodes = rest.nodes /\ held.ws = rest.ws /\ held.js = rest.js
          /\ held.j = c.ws[n].job
      BY <2>1 DEF Tick
    <2> HIDE DEF held
    <2>4. LostNext(lost) = lost
      BY <2>2 DEF LostNext
    <2> QED
      BY <2>1, <2>2, <2>3, <2>4, NothingDue
         DEF LoopFresh, SchedRowPC, AwaitPC, ExpRowPC, OffPC, OffRowPC
  <1>5. CASE OffDelete
    <2>1. /\ \/ cpc' = "off.saveWorker" /\ c' = [c EXCEPT !.gone = TRUE]
             \/ cpc' = "off.lease" /\ c' = [c EXCEPT !.j = None, !.n = None]
          /\ UNCHANGED <<job, granted>> /\ cpc = "off.delete"
      BY <1>5 DEF OffDelete, Goto, At
    <2>2. c'.nodes = c.nodes /\ c'.ws = c.ws /\ c'.js = c.js
          /\ (cpc' = "off.saveWorker" => c'.j = c.j) /\ LostNext(lost) = lost
      BY <2>1 DEF Tick, LostNext
    <2> QED
      BY <2>1, <2>2, NothingDue DEF LoopFresh, SchedRowPC, AwaitPC, ExpRowPC, OffPC, OffRowPC
  <1>6. CASE OffSaveWorker \/ OffDeleteLease \/ OffSaveNode
    <2>1. /\ cpc \in {"off.saveWorker", "off.deleteLease", "off.saveNode"}
          /\ cpc' \in {"off.deleteLease", "off.saveNode", "off.saveJob"} /\ c' = c
          /\ UNCHANGED <<job, granted>>
      BY <1>6 DEF OffSaveWorker, OffDeleteLease, OffSaveNode, Goto, At
    <2>2. LostNext(lost) = lost
      BY <2>1 DEF LostNext
    <2> QED
      BY <2>1, <2>2, NothingDue DEF LoopFresh, SchedRowPC, AwaitPC, ExpRowPC, OffPC, OffRowPC
  <1>7. CASE OffSaveJob
    <2>1. /\ cpc = "off.saveJob" /\ cpc' = "off.lease" /\ SaveReclaimed(c.j, c.js[c.j])
          /\ c' = [c EXCEPT !.ws[c.n] = NoWorker, !.ns[c.n] = NewNode, !.j = None, !.n = None,
                            !.gone = FALSE]
          /\ granted' = granted /\ c.j \in Job /\ c.n \in Node /\ c.n \notin c.nodes
      BY <1>1, <1>7 DEF OffSaveJob, Goto, At, OffRowPC, OffPC
    <2>2. c'.nodes = c.nodes /\ c'.ws = [c.ws EXCEPT ![c.n] = NoWorker] /\ c'.js = c.js
          /\ LostNext(lost) = lost
      BY <2>1 DEF Tick, LostNext
    <2>3. \A n \in c'.nodes : c'.ws[n].job = c.ws[n].job /\ c.ws[n].job \in Job
      BY <1>1, <2>1, <2>2 DEF OffPC
    <2>4. CanReclaim(c.js[c.j]) => job[c.j] \in {c.js[c.j], Reclaim(c.js[c.j])}
      BY <2>1 DEF LoopFresh, OffRowPC, SavesSeen
    <2>5. /\ AllPaid' /\ JobStep
          /\ \A k \in Job : job'[k] = job[k] \/ (k = c.j /\ job'[k] = Reclaim(c.js[c.j]))
      BY <2>1, <2>4, ReclaimedFresh DEF AwaitPC
    <2> QED
      BY <2>1, <2>2, <2>3, <2>5 DEF LoopFresh, SchedRowPC, AwaitPC, ExpRowPC, OffPC, OffRowPC
  <1> QED
    BY <1>2, <1>3, <1>4, <1>5, <1>6, <1>7 DEF RecoverOfflineNode
-----------------------------------------------------------------------------
(* The agents and the users: what they save is a command that was paid for *)

PaidStep == \A j \in Job : job'[j] = job[j] \/ PaidCommand(job[j], job'[j])

MainLostNext(n, lost) == IF apc[n] = "reg.worker" THEN {} ELSE lost
MainSavesSeen(n, lost) ==
    \/ apc[n] \in {"start.saveJob", "report.saveJob"}
    \/ apc[n] = "reg.saveJob" /\ CanReclaim(am[n].jr)
    => am[n].j \notin lost
HandlerKept(n, lost) ==
    HandlerFresh(job', apc'[n], am'[n], MainLostNext(n, lost)) /\ PaidStep /\ granted' = granted

RowPC == RegisterRowPC \cup StartRowPC \cup ReportRowPC

\* A step of the main thread that leaves the job table: it goes to a place where the
\* handler holds no row, or keeps the row it holds.
LEMMA MainQuiet ==
    ASSUME IInv, NEW n \in Node, NEW lost, NEW label, NEW m, Main(n, label, m),
           UNCHANGED <<job, granted>>,
           \/ label \notin RowPC
           \/ HandlerFresh(job, label, m, MainLostNext(n, lost))
    PROVE  HandlerKept(n, lost)
  <1>1. apc'[n] = label /\ am'[n] = m
    BY DEF Main, IInv, Types, Shapes, AgentTypeOK
  <1> QED
    BY <1>1 DEF HandlerKept, PaidStep, HandlerFresh, RowPC

\* The handler saves a row; where it goes next it holds none.
LEMMA MainWrites ==
    ASSUME IInv, NEW n \in Node, NEW lost, NEW j \in Job, NEW row, SaveJob(j, row),
           granted' = granted, PaidCommand(job[j], row),
           NEW label, NEW m, Main(n, label, m), label \notin RowPC
    PROVE  HandlerKept(n, lost)
  <1>1. job'[j] = row /\ \A k \in Job \ {j} : job'[k] = job[k]
    BY StoreFacts DEF SaveJob
  <1>2. apc'[n] = label
    BY DEF Main, IInv, Types, Shapes, AgentTypeOK
  <1> QED
    BY <1>1, <1>2 DEF HandlerKept, PaidStep, HandlerFresh, RowPC

LEMMA RegisterFresh ==
    ASSUME IInv, NEW n \in Node, NEW lost, RegisterWorker(n),
           HandlerFresh(job, apc[n], am[n], lost), MainSavesSeen(n, lost)
    PROVE  HandlerKept(n, lost)
  <1> USE StoreFacts, AgentFacts DEF RegisterRowPC, StartRowPC, ReportRowPC, ReportPC, RowPC
  <1>1. CASE RegisterReadNode(n) \/ RegisterSaveWorker(n) \/ RegisterReady(n)
    <2>1. UNCHANGED <<job, granted>> /\ \E m :
             Main(n, "reg.worker", m) \/ Main(n, "reg.ready", m) \/ Main(n, "idle", m)
      BY <1>1 DEF RegisterReadNode, RegisterSaveWorker, RegisterReady, tables
    <2> QED
      BY <2>1, MainQuiet
  <1>2. CASE RegisterReadWorker(n)
    <2> DEFINE j == worker[n].job
               m == [am[n] EXCEPT !.j = j, !.jr = job[j]]
    <2>1. UNCHANGED <<job, granted>> /\ (Main(n, "reg.saveWorker", NoMem) \/ Main(n, "reg.deleteLease", m))
      BY <1>2 DEF RegisterReadWorker, tables
    <2>2. m.j = j /\ m.jr = job[j]
      BY DEF AgentMem
    <2> HIDE DEF m, j
    <2>3. HandlerFresh(job, "reg.deleteLease", m, MainLostNext(n, lost))
      BY <2>2 DEF HandlerFresh
    <2> QED
      BY <2>1, <2>3, MainQuiet
  <1>3. CASE RegisterDeleteLease(n) \/ RegisterSaveNode(n)
    <2>1. UNCHANGED <<job, granted>> /\ apc[n] \in {"reg.deleteLease", "reg.saveNode"}
          /\ (Main(n, "reg.saveNode", am[n]) \/ Main(n, "reg.saveJob", am[n]))
      BY <1>3 DEF RegisterDeleteLease, RegisterSaveNode
    <2>2. \A label \in {"reg.saveNode", "reg.saveJob"} :
             HandlerFresh(job, label, am[n], MainLostNext(n, lost))
      BY <2>1 DEF HandlerFresh, MainLostNext
    <2> QED
      BY <2>1, <2>2, MainQuiet
  <1>4. CASE RegisterSaveJob(n)
    <2>1. SaveReclaimed(am[n].j, am[n].jr) /\ granted' = granted /\ apc[n] = "reg.saveJob"
          /\ Main(n, "reg.saveWorker", NoMem)
      BY <1>4 DEF RegisterSaveJob, SaveReclaimed
    <2>2. CASE CanReclaim(am[n].jr)
      <3>1. am[n].jr = job[am[n].j] /\ am[n].j \in Job
        BY <2>1, <2>2 DEF HandlerFresh, MainSavesSeen, JobPC
      <3>2. SaveJob(am[n].j, Reclaim(am[n].jr)) /\ PaidCommand(job[am[n].j], Reclaim(am[n].jr))
        BY <2>1, <2>2, <3>1 DEF SaveReclaimed, PaidCommand
      <3> QED
        BY <2>1, <3>1, <3>2, MainWrites
    <2>3. CASE ~CanReclaim(am[n].jr)
      BY <2>1, <2>3, MainQuiet DEF SaveReclaimed
    <2> QED
      BY <2>2, <2>3
  <1> QED
    BY <1>1, <1>2, <1>3, <1>4 DEF RegisterWorker

LEMMA RunFresh ==
    ASSUME IInv, NEW n \in Node, NEW lost, RunJob(n), HandlerFresh(job, apc[n], am[n], lost),
           MainSavesSeen(n, lost)
    PROVE  HandlerKept(n, lost)
  <1> USE StoreFacts, AgentFacts DEF RegisterRowPC, StartRowPC, ReportRowPC, ReportPC, RowPC
  <1>1. CASE \/ Poll(n) \/ PollLease(n) \/ StartRefused(n) \/ ExecutionEnds(n)
             \/ ReportMismatch(n) \/ ReportMalformed(n)
    <2>1. UNCHANGED <<job, granted>> /\ \E m :
             \E label \in {"poll.lease", "start.call", "idle", "report.call", "down"} :
                Main(n, label, m)
      BY <1>1 DEF Poll, PollLease, StartRefused, ExecutionEnds, ReportMismatch, ReportMalformed,
                  tables
    <2> QED
      BY <2>1, MainQuiet
  <1>2. CASE StartRead(n)
    <2> DEFINE row == StartJob(job[am[n].j])
               m == [am[n] EXCEPT !.wr = worker[n], !.jr = row]
    <2>1. UNCHANGED <<job, granted>> /\ Main(n, "start.saveWorker", m)
          /\ CanMoveTo(job[am[n].j], "RUNNING")
      BY <1>2 DEF StartRead, StartAccepted, tables
    <2> HIDE DEF row
    <2>2. m.j = am[n].j /\ m.jr = row
      BY DEF AgentMem
    <2> HIDE DEF m
    <2>3. HandlerFresh(job, "start.saveWorker", m, MainLostNext(n, lost))
      BY <2>1, <2>2 DEF HandlerFresh, row
    <2> QED
      BY <2>1, <2>3, MainQuiet
  <1>3. CASE StartSaveWorker(n)
    <2>1. UNCHANGED <<job, granted>> /\ Main(n, "start.saveJob", am[n]) /\ apc[n] = "start.saveWorker"
      BY <1>3 DEF StartSaveWorker
    <2>2. HandlerFresh(job, "start.saveJob", am[n], MainLostNext(n, lost))
      BY <2>1 DEF HandlerFresh, MainLostNext
    <2> QED
      BY <2>1, <2>2, MainQuiet
  <1>4. CASE StartSaveJob(n)
    <2>1. SaveJob(am[n].j, am[n].jr) /\ granted' = granted /\ apc[n] = "start.saveJob"
          /\ (Main(n, "executing", Keep(am[n])) \/ Main(n, "idle", NoMem))
      BY <1>4 DEF StartSaveJob
    <2>2. am[n].j \in Job /\ PaidCommand(job[am[n].j], am[n].jr)
      BY <2>1 DEF HandlerFresh, PaidCommand, JobPC, MainSavesSeen
    <2> QED
      BY <2>1, <2>2, MainWrites
  <1>5. CASE ReportRead(n)
    <2> DEFINE row == Finish(job[am[n].j], am[n].out)
               wr == Conclude(worker[n])
               late == ~LeaseExists(am[n].lid)
               m == [am[n] EXCEPT !.wr = wr, !.jr = row, !.late = late]
    <2>1. UNCHANGED <<job, granted>> /\ Main(n, "report.fence", m)
          /\ CanMoveTo(job[am[n].j], am[n].out)
      BY <1>5 DEF ReportRead, tables
    <2> HIDE DEF row, wr, late
    <2>2. m.j = am[n].j /\ m.jr = row /\ m.out = am[n].out
      BY DEF AgentMem
    <2> HIDE DEF m
    <2>3. HandlerFresh(job, "report.fence", m, MainLostNext(n, lost))
      BY <2>1, <2>2 DEF HandlerFresh, row
    <2> QED
      BY <2>1, <2>3, MainQuiet
  <1>6. CASE ReportFence(n) \/ ReportDelete(n) \/ ReportSaveWorker(n) \/ ReportSaveNode(n)
    <2>1. /\ UNCHANGED <<job, granted>> /\ apc[n] \in ReportRowPC
          /\ \/ Main(n, "idle", NoMem)
             \/ \E label \in ReportRowPC : Main(n, label, am[n])
      BY <1>6 DEF ReportFence, ReportDelete, ReportSaveWorker, ReportSaveNode, tables
    <2>2. \A label \in ReportRowPC : HandlerFresh(job, label, am[n], MainLostNext(n, lost))
      BY <2>1 DEF HandlerFresh, MainLostNext
    <2> QED
      BY <2>1, <2>2, MainQuiet
  <1>7. CASE ReportReadNode(n)
    <2> DEFINE m == [am[n] EXCEPT !.nr = node[am[n].jr.node]]
    <2>1. UNCHANGED <<job, granted>> /\ Main(n, "report.saveNode", m) /\ apc[n] = "report.node"
      BY <1>7 DEF ReportReadNode, tables
    <2>2. m.j = am[n].j /\ m.jr = am[n].jr /\ m.out = am[n].out
      BY DEF AgentMem
    <2> HIDE DEF m
    <2>3. HandlerFresh(job, "report.saveNode", m, MainLostNext(n, lost))
      BY <2>1, <2>2 DEF HandlerFresh, MainLostNext
    <2> QED
      BY <2>1, <2>3, MainQuiet
  <1>8. CASE ReportSaveJob(n)
    <2>1. SaveJob(am[n].j, am[n].jr) /\ granted' = granted /\ apc[n] = "report.saveJob"
          /\ (Main(n, "idle", NoMem) \/ Main(n, "report.call", Keep(am[n])))
      BY <1>8 DEF ReportSaveJob
    <2>2. am[n].j \in Job /\ PaidCommand(job[am[n].j], am[n].jr)
      BY <2>1 DEF HandlerFresh, PaidCommand, MainSavesSeen
    <2> QED
      BY <2>1, <2>2, MainWrites
  <1> QED
    BY <1>1, <1>2, <1>3, <1>4, <1>5, <1>6, <1>7, <1>8 DEF RunJob, Report

LEMMA UserStepFresh ==
    ASSUME IInv, NEW lost, CallFresh(job, upc, um, lost), UserStep,
           upc = "user.saveJob" => um.j \notin lost
    PROVE  CallFresh(job', upc', um', lost) /\ PaidStep /\ granted' = granted
  <1> USE StoreFacts
  <1>1. ASSUME NEW j \in Job, CreateJob(j)
        PROVE  CallFresh(job', upc', um', lost) /\ PaidStep /\ granted' = granted
    <2>1. SaveJob(j, QueueJob(job[j])) /\ granted' = granted /\ upc' = "idle"
          /\ job[j].status = "SUBMITTED"
      BY <1>1 DEF CreateJob, userVars
    <2>2. job'[j] = QueueJob(job[j]) /\ \A k \in Job \ {j} : job'[k] = job[k]
      BY <2>1 DEF SaveJob
    <2> QED
      BY <2>1, <2>2 DEF CallFresh, PaidStep, PaidCommand
  <1>2. ASSUME NEW j \in Job, CancelRead(j) \/ RetryRead(j)
        PROVE  CallFresh(job', upc', um', lost) /\ PaidStep /\ granted' = granted
    <2>1. PICK row : HoldJob(j, row) /\ (row = job[j] \/ PaidCommand(job[j], row))
      <3>1. job[j].status = "RUNNING" => CanMoveTo(job[j], "CANCELLING")
        BY DEF CanMoveTo, AllowedTransitions
      <3> QED
        BY <1>2, <3>1 DEF CancelRead, RetryRead, PaidCommand
    <2>2. UNCHANGED <<job, granted>>
      BY <1>2 DEF CancelRead, RetryRead, tables
    <2>3. um'.j = j /\ um'.jr = row
      BY <2>1 DEF HoldJob, NoCall
    <2> QED
      BY <2>1, <2>2, <2>3 DEF CallFresh, PaidStep
  <1>3. ASSUME \/ \E n \in Node : DrainRead(n)
               \/ UserSaveNode
        PROVE  CallFresh(job', upc', um', lost) /\ PaidStep /\ granted' = granted
    BY <1>3 DEF DrainRead, UserSaveNode, tables, CallFresh, PaidStep
  <1>4. CASE UserSaveJob
    <2>1. SaveJob(um.j, um.jr) /\ granted' = granted /\ upc' = "idle" /\ upc = "user.saveJob"
          /\ um.j \in Job
      BY <1>4 DEF UserSaveJob, IInv, Types, UserAim
    <2>2. job'[um.j] = um.jr /\ \A k \in Job \ {um.j} : job'[k] = job[k]
      BY <2>1 DEF SaveJob
    <2> QED
      BY <2>1, <2>2 DEF CallFresh, PaidStep
  <1> QED
    BY <1>1, <1>2, <1>3, <1>4 DEF UserStep
-----------------------------------------------------------------------------
(* What the history says of a step *)

LEMMA ThreadsDiffer ==
    /\ ControlThread \in Thread /\ UserThread \in Thread /\ ControlThread # UserThread
    /\ \A n \in Node : /\ MainOf(n) \in Thread /\ BeatOf(n) \in Thread
                       /\ MainOf(n) \notin {ControlThread, UserThread}
                       /\ BeatOf(n) \notin {ControlThread, UserThread}
                       /\ \A k \in Node : MainOf(n) # BeatOf(k) /\ (MainOf(n) = MainOf(k) => n = k)
  BY DEF ControlThread, UserThread, MainOf, BeatOf, Thread

LEMMA BusyNext ==
    /\ Busy(ControlThread)' <=> cpc' \notin ControlRest
    /\ Busy(UserThread)' <=> upc' # "idle"
    /\ \A n \in Node : Busy(MainOf(n))' <=> apc'[n] \notin AgentRest
  <1>1. (ControlThread)' = ControlThread /\ (UserThread)' = UserThread
        /\ \A n \in Node : (MainOf(n))' = MainOf(n) /\ (BeatOf(n))' = BeatOf(n)
    BY DEF ControlThread, UserThread, MainOf, BeatOf
  <1> QED
    BY <1>1, ThreadsDiffer DEF Busy, ControlBusy, UserBusy, MainBusy

\* A thread that holds no row claims nothing about one.
LEMMA RestIsFresh ==
    ASSUME NEW J, NEW m, NEW lost
    PROVE  /\ \A pc \in ControlRest : LoopFresh(J, pc, m, lost)
           /\ \A pc \in AgentRest : HandlerFresh(J, pc, m, lost)
           /\ CallFresh(J, "idle", m, lost)
  BY DEF ControlRest, AgentRest, LoopFresh, HandlerFresh, CallFresh, SchedRowPC, AwaitPC,
         ExpRowPC, OffPC, OffRowPC, RegisterRowPC, StartRowPC, ReportRowPC, ReportPC

LEMMA Tracked ==
    ASSUME HistoryTypeOK, NEW t \in Thread, NEW reads, NEW saves, Track(t, reads, saves),
           ~overwritten'
    PROVE  /\ ~overwritten /\ saves \cap missed[t] = {}
           /\ \A u \in Thread : Busy(u)' =>
                 missed'[u] = IF u = t THEN missed[u] \ reads ELSE missed[u] \cup saves
  BY DEF HistoryTypeOK, Track

\* Another thread has missed what a thread saves.
LEMMA OthersMiss ==
    ASSUME HistoryTypeOK, NEW t \in Thread, NEW reads, NEW saves, Track(t, reads, saves),
           ~overwritten', NEW u \in Thread \ {t}, Busy(u)',
           \A j \in Job : JobKey(j) \notin saves => job'[j] = job[j]
    PROVE  /\ Lost(u) \subseteq Lost(u)'
           /\ \A j \in Job : j \notin Lost(u)' => job'[j] = job[j]
  <1>1. missed'[u] = missed[u] \cup saves
    BY DEF HistoryTypeOK, Track
  <1>2. Lost(u)' = {j \in Job : JobKey(j) \in missed'[u]}
    BY DEF Lost
  <1> QED
    BY <1>1, <1>2 DEF Lost

LEMMA LoopStands ==
    ASSUME IInv, HistoryTypeOK, RowsFresh, NEW t \in Thread \ {ControlThread}, NEW reads, NEW saves,
           Track(t, reads, saves), ~overwritten', UNCHANGED controlVars,
           \A j \in Job : JobKey(j) \notin saves => job'[j] = job[j]
    PROVE  LoopFresh(job', cpc', c', Lost(ControlThread)')
  <1>1. cpc' = cpc /\ c' = c /\ ControlThread \in Thread
    BY ThreadsDiffer DEF controlVars
  <1>2. CASE Busy(ControlThread)'
    <2>1. /\ Lost(ControlThread) \subseteq Lost(ControlThread)'
          /\ \A j \in Job : j \notin Lost(ControlThread)' => job'[j] = job[j]
      BY <1>1, <1>2, OthersMiss
    <2> HIDE DEF Lost
    <2> QED
      BY <1>1, <2>1, LoopBystander DEF RowsFresh, IInv
  <1>3. CASE ~Busy(ControlThread)'
    BY <1>3, BusyNext, RestIsFresh
  <1> QED
    BY <1>2, <1>3

LEMMA HandlerStands ==
    ASSUME IInv, HistoryTypeOK, RowsFresh, NEW n \in Node, NEW t \in Thread \ {MainOf(n)},
           NEW reads, NEW saves,
           Track(t, reads, saves), ~overwritten', apc'[n] = apc[n], am'[n] = am[n],
           \A j \in Job : JobKey(j) \notin saves => job'[j] = job[j]
    PROVE  HandlerFresh(job', apc'[n], am'[n], Lost(MainOf(n))')
  <1>1. MainOf(n) \in Thread
    BY ThreadsDiffer
  <1>2. CASE Busy(MainOf(n))'
    <2>1. /\ Lost(MainOf(n)) \subseteq Lost(MainOf(n))'
          /\ \A j \in Job : j \notin Lost(MainOf(n))' => job'[j] = job[j]
      BY <1>1, <1>2, OthersMiss
    <2> HIDE DEF Lost
    <2> QED
      BY <1>1, <2>1, HandlerBystander DEF RowsFresh
  <1>3. CASE ~Busy(MainOf(n))'
    BY <1>3, BusyNext, RestIsFresh
  <1> QED
    BY <1>2, <1>3

LEMMA CallStands ==
    ASSUME IInv, HistoryTypeOK, RowsFresh, NEW t \in Thread \ {UserThread}, NEW reads, NEW saves,
           Track(t, reads, saves), ~overwritten', UNCHANGED userVars,
           \A j \in Job : JobKey(j) \notin saves => job'[j] = job[j]
    PROVE  CallFresh(job', upc', um', Lost(UserThread)')
  <1>1. upc' = upc /\ um' = um /\ UserThread \in Thread
    BY ThreadsDiffer DEF userVars
  <1>2. CASE Busy(UserThread)'
    <2>1. /\ Lost(UserThread) \subseteq Lost(UserThread)'
          /\ \A j \in Job : j \notin Lost(UserThread)' => job'[j] = job[j]
      BY <1>1, <1>2, OthersMiss
    <2> HIDE DEF Lost
    <2> QED
      BY <1>1, <2>1, CallBystander DEF RowsFresh
  <1>3. CASE ~Busy(UserThread)'
    BY <1>3, BusyNext, RestIsFresh
  <1> QED
    BY <1>2, <1>3
-----------------------------------------------------------------------------
(* One thread steps *)

LEMMA KeysDiffer ==
    /\ \A j, k \in Job : JobKey(j) = JobKey(k) => j = k
    /\ \A j \in Job : \A n : JobKey(j) # WorkerKey(n) /\ JobKey(j) # NodeKey(n)
    /\ \A j \in Job : JobKey(j) \in RowKey
  BY DEF JobKey, WorkerKey, NodeKey, RowKey

\* The control loop writes the row of a job only where it counts as saved.
LEMMA ControlTouches ==
    ASSUME IInv, ControlStep, NEW j \in Job, JobKey(j) \notin ControlSaves
    PROVE  job'[j] = job[j]
  <1> USE ControlFacts
  <1>0. Types
    BY DEF IInv
  <1>1. CASE SchedulerLoop
    <2>1. \/ job' = job
          \/ cpc \in {"sched.saveJob", "unsched.saveJob"} /\ SaveJob(c.j, c.js[c.j])
      BY <1>1 DEF SchedulerLoop, SchedReadNodes, SchedReadJobs, SchedPick, SchedSkip, SchedDone,
                  SchedSaveJob, AssignList, AssignLease, AssignInsert, AssignSaveWorker,
                  UnschedSaveNode, UnschedSaveJob, At, tables
    <2>2. cpc \in {"sched.saveJob", "unsched.saveJob"} => ControlSaves = {JobKey(c.j)}
      BY DEF ControlSaves
    <2> QED
      BY <1>0, <2>1, <2>2 DEF SaveJob
  <1>2. CASE MarkDeadWorkers
    BY <1>2 DEF MarkDeadWorkers, DeadList, DeadSave, DeadDone, tables
  <1>3. CASE RecoverExpiredLease \/ RecoverOfflineNode
    <2>1. \/ job' = job
          \/ cpc \in {"exp.saveJob", "off.saveJob"} /\ SaveReclaimed(c.j, c.js[c.j])
      BY <1>3 DEF RecoverExpiredLease, ExpList, ExpSkip, ExpDelete, ExpDone, ExpReadWorker,
                  ExpReadJob, ExpSaveWorker, ExpReadNode, ExpSaveNode, ExpSaveJob,
                  RecoverOfflineNode, OffReadNodes, OffList, OffLease, OffDelete, OffSaveWorker,
                  OffDeleteLease, OffSaveNode, OffSaveJob, OffDone, At, tables
    <2>2. cpc \in {"exp.saveJob", "off.saveJob"} /\ CanReclaim(c.js[c.j])
             => ControlSaves = {JobKey(c.j)}
      BY DEF ControlSaves
    <2> QED
      BY <1>0, <2>1, <2>2 DEF SaveReclaimed, SaveJob
  <1> QED
    BY <1>1, <1>2, <1>3 DEF ControlStep

LEMMA ControlFresh ==
    ASSUME IInv, HistoryTypeOK, RowsFresh, Control, ~overwritten'
    PROVE  /\ LoopFresh(job', cpc', c', Lost(ControlThread)') /\ AllPaid' /\ JobStep
  <1> DEFINE lost == Lost(ControlThread)
  <1>1. ControlThread \in Thread /\ Track(ControlThread, ControlReads, ControlSaves) /\ ControlStep
    BY ThreadsDiffer DEF Control
  <1>2. ControlSaves \cap missed[ControlThread] = {}
    BY <1>1, Tracked
  <1>3. SavesSeen(lost)
    <2>1. cpc \in {"sched.saveJob", "unsched.saveJob"} => JobKey(c.j) \in ControlSaves
      BY DEF ControlSaves
    <2>2. cpc \in {"exp.saveJob", "off.saveJob"} /\ CanReclaim(c.js[c.j])
             => JobKey(c.j) \in ControlSaves
      BY DEF ControlSaves
    <2> QED
      BY <1>2, <2>1, <2>2 DEF SavesSeen, Lost
  <1>4. lost \in SUBSET Job
    BY DEF Lost
  <1>5. Types /\ LoopFresh(job, cpc, c, lost) /\ AllPaid
    BY DEF IInv, RowsFresh
  <1>6. LoopKept(lost)
    <2> HIDE DEF lost
    <2> QED
      BY <1>1, <1>3, <1>4, <1>5, SchedulerFresh, DeadFresh, ExpiredFresh, OfflineFresh
         DEF ControlStep
  <1>7. CASE Busy(ControlThread)'
    <2>1. missed'[ControlThread] = missed[ControlThread] \ ControlReads
      BY <1>1, <1>7 DEF HistoryTypeOK, Track
    <2>2. Lost(ControlThread)' = {j \in Job : JobKey(j) \in missed[ControlThread] \ ControlReads}
      BY <2>1 DEF Lost
    <2>3. Lost(ControlThread)' = LostNext(lost)
      <3>1. CASE cpc \in {"sched.jobs", "off.list"}
        <4>1. \A j \in Job : JobKey(j) \in ControlReads
          BY <3>1, KeysDiffer DEF ControlReads
        <4> QED
          BY <2>2, <3>1, <4>1 DEF LostNext
      <3>2. CASE cpc = "exp.job"
        <4>1. c.j \in Job /\ ControlReads = {JobKey(c.j)}
          BY <3>2 DEF ControlReads, IInv, Types, ControlAim, ExpPC
        <4>2. \A j \in Job : JobKey(j) \in ControlReads <=> j = c.j
          BY <4>1, KeysDiffer
        <4> QED
          BY <2>2, <3>2, <4>2 DEF LostNext, Lost
      <3>3. CASE cpc \notin {"sched.jobs", "off.list", "exp.job"}
        <4>1. \A j \in Job : JobKey(j) \notin ControlReads
          BY <3>3, KeysDiffer DEF ControlReads
        <4> QED
          BY <2>2, <3>3, <4>1 DEF LostNext, Lost
      <3> QED
        BY <3>1, <3>2, <3>3
    <2> QED
      BY <1>6, <2>3 DEF LoopKept
  <1>8. CASE ~Busy(ControlThread)'
    BY <1>6, <1>8, BusyNext, RestIsFresh DEF LoopKept
  <1> QED
    BY <1>7, <1>8

\* So does the main thread of an agent.
LEMMA MainTouches ==
    ASSUME IInv, NEW n \in Node, RegisterWorker(n) \/ RunJob(n), NEW j \in Job,
           JobKey(j) \notin MainSaves(n)
    PROVE  job'[j] = job[j]
  <1> USE StoreFacts
  <1>1. \/ job' = job
        \/ apc[n] \in {"start.saveJob", "report.saveJob"} /\ SaveJob(am[n].j, am[n].jr)
        \/ apc[n] = "reg.saveJob" /\ SaveReclaimed(am[n].j, am[n].jr)
    BY DEF RegisterWorker, RegisterReadNode, RegisterReadWorker, RegisterDeleteLease,
           RegisterSaveNode, RegisterSaveJob, RegisterSaveWorker, RegisterReady, SaveReclaimed,
           RunJob, Poll, PollLease, StartRead, StartRefused, StartSaveWorker, StartSaveJob,
           ExecutionEnds, Report, ReportRead, ReportMismatch, ReportMalformed, ReportFence,
           ReportDelete, ReportSaveWorker, ReportReadNode, ReportSaveNode, ReportSaveJob, tables
  <1>2. \/ apc[n] \in {"start.saveJob", "report.saveJob"}
        \/ apc[n] = "reg.saveJob" /\ CanReclaim(am[n].jr)
        => MainSaves(n) = {JobKey(am[n].j)}
    BY DEF MainSaves
  <1> QED
    BY <1>1, <1>2 DEF SaveReclaimed, SaveJob

LEMMA MainFresh ==
    ASSUME IInv, HistoryTypeOK, RowsFresh, NEW n \in Node, MainThread(n), ~overwritten'
    PROVE  HandlerFresh(job', apc'[n], am'[n], Lost(MainOf(n))') /\ PaidStep /\ granted' = granted
  <1> DEFINE lost == Lost(MainOf(n))
  <1>1. MainOf(n) \in Thread /\ Track(MainOf(n), MainReads(n), MainSaves(n))
        /\ (RegisterWorker(n) \/ RunJob(n))
    BY ThreadsDiffer DEF MainThread
  <1>2. MainSaves(n) \cap missed[MainOf(n)] = {}
    BY <1>1, Tracked
  <1>3. MainSavesSeen(n, lost)
    <2>1. \/ apc[n] \in {"start.saveJob", "report.saveJob"}
          \/ apc[n] = "reg.saveJob" /\ CanReclaim(am[n].jr)
          => JobKey(am[n].j) \in MainSaves(n)
      BY DEF MainSaves
    <2> QED
      BY <1>2, <2>1 DEF MainSavesSeen, Lost
  <1>4. HandlerFresh(job, apc[n], am[n], lost)
    BY DEF RowsFresh
  <1>5. HandlerKept(n, lost)
    <2> HIDE DEF lost
    <2> QED
      BY <1>1, <1>3, <1>4, RegisterFresh, RunFresh
  <1>6. CASE Busy(MainOf(n))'
    <2>1. missed'[MainOf(n)] = missed[MainOf(n)] \ MainReads(n)
      BY <1>1, <1>6 DEF HistoryTypeOK, Track
    <2>2. Lost(MainOf(n))' = {j \in Job : JobKey(j) \in missed[MainOf(n)] \ MainReads(n)}
      BY <2>1 DEF Lost
    <2>3. Lost(MainOf(n))' = MainLostNext(n, lost)
      <3>1. CASE apc[n] = "reg.worker"
        <4>1. \A j \in Job : JobKey(j) \in MainReads(n)
          BY <3>1 DEF MainReads
        <4> QED
          BY <2>2, <3>1, <4>1 DEF MainLostNext
      <3>2. CASE apc[n] # "reg.worker"
        <4>1. \A j \in Job : JobKey(j) \notin MainReads(n)
          BY <3>2, KeysDiffer DEF MainReads
        <4> QED
          BY <2>2, <3>2, <4>1 DEF MainLostNext, Lost
      <3> QED
        BY <3>1, <3>2
    <2> QED
      BY <1>5, <2>3 DEF HandlerKept
  <1>7. CASE ~Busy(MainOf(n))'
    BY <1>5, <1>7, BusyNext, RestIsFresh DEF HandlerKept
  <1> QED
    BY <1>6, <1>7

LEMMA UserTouches ==
    ASSUME IInv, UserStep, NEW j \in Job, JobKey(j) \notin UserSaves
    PROVE  job'[j] = job[j]
  <1> USE StoreFacts
  <1>1. CASE upc = "user.saveJob"
    <2>1. UserSaves = {JobKey(um.j)} /\ (UserSaveJob => SaveJob(um.j, um.jr))
      BY <1>1 DEF UserSaves, UserSaveJob
    <2>2. UserSaveJob \/ job' = job
      BY <1>1 DEF UserStep, CreateJob, CancelRead, RetryRead, DrainRead, UserSaveNode, tables
    <2> QED
      BY <2>1, <2>2 DEF SaveJob
  <1>2. CASE upc = "user.saveNode"
    BY <1>2 DEF UserStep, CreateJob, CancelRead, RetryRead, DrainRead, UserSaveJob, UserSaveNode,
                tables
  <1>3. CASE upc \notin {"user.saveJob", "user.saveNode"}
    BY <1>3 DEF UserSaves
  <1> QED
    BY <1>1, <1>2, <1>3

LEMMA CallerFresh ==
    ASSUME IInv, HistoryTypeOK, RowsFresh, User, ~overwritten'
    PROVE  CallFresh(job', upc', um', Lost(UserThread)') /\ PaidStep /\ granted' = granted
  <1> DEFINE lost == Lost(UserThread)
  <1>1. UserThread \in Thread /\ Track(UserThread, {}, UserSaves) /\ UserStep
    BY ThreadsDiffer DEF User
  <1>2. UserSaves \cap missed[UserThread] = {}
    BY <1>1, Tracked
  <1>3. upc = "user.saveJob" => um.j \notin lost
    BY <1>2 DEF UserSaves, Lost
  <1>4. CallFresh(job, upc, um, lost)
    BY DEF RowsFresh
  <1>5. CallFresh(job', upc', um', lost) /\ PaidStep /\ granted' = granted
    <2> HIDE DEF lost
    <2> QED
      BY <1>1, <1>3, <1>4, UserStepFresh
  <1>6. CASE Busy(UserThread)'
    <2>1. missed'[UserThread] = missed[UserThread] \ {}
      BY <1>1, <1>6 DEF HistoryTypeOK, Track
    <2>2. Lost(UserThread)' = lost
      BY <2>1 DEF Lost
    <2> QED
      BY <1>5, <2>2
  <1>7. CASE ~Busy(UserThread)'
    BY <1>5, <1>7, BusyNext, RestIsFresh
  <1> QED
    BY <1>6, <1>7
-----------------------------------------------------------------------------
(* The rows of jobs, whoever steps *)

\* A step that reads and saves nothing of the kind that is tracked.
LEMMA QuietFresh ==
    ASSUME IInv, RowsFresh, UNCHANGED <<job, granted, missed, controlVars, userVars>>,
           \A n \in Node : \/ apc'[n] \in AgentRest
                           \/ /\ apc'[n] = apc[n] /\ am'[n].j = am[n].j
                              /\ am'[n].jr = am[n].jr /\ am'[n].out = am[n].out
    PROVE  RowsFresh' /\ JobStep
  <1>1. cpc' = cpc /\ c' = c /\ upc' = upc /\ um' = um
    BY DEF controlVars, userVars
  <1>2. \A t : Lost(t)' = Lost(t)
    BY DEF Lost
  <1>3. LoopFresh(job', cpc', c', Lost(ControlThread)') /\ CallFresh(job', upc', um', Lost(UserThread)')
    BY <1>1, <1>2 DEF RowsFresh, Lost
  <1>4. ASSUME NEW n \in Node PROVE HandlerFresh(job', apc'[n], am'[n], Lost(MainOf(n))')
    <2>1. CASE apc'[n] \in AgentRest
      BY <2>1, RestIsFresh
    <2>2. CASE apc'[n] \notin AgentRest
      <3>1. HandlerFresh(job, apc[n], am[n], Lost(MainOf(n)))
        BY DEF RowsFresh
      <3>2. Lost(MainOf(n))' = Lost(MainOf(n))
        BY DEF Lost
      <3> QED
        BY <2>2, <3>1, <3>2 DEF HandlerFresh
    <2> QED
      BY <2>1, <2>2
  <1>5. AllPaid' /\ JobStep
    BY <1>1, DueStands, JobWritten DEF RowsFresh, IInv
  <1> QED
    BY <1>3, <1>4, <1>5 DEF RowsFresh

LEMMA NextFresh ==
    ASSUME IInv, HistoryTypeOK, FInv, [Next]_vars
    PROVE  FInv' /\ (~overwritten' => JobStep)
  <1> SUFFICES ASSUME ~overwritten' PROVE RowsFresh' /\ JobStep
    BY DEF FInv
  <1> USE ThreadsDiffer
  <1>1. ~overwritten /\ RowsFresh
    <2>1. \/ overwritten' = overwritten
          \/ \E t, reads, saves : overwritten' = (overwritten \/ saves \cap missed[t] # {})
      BY DEF Next, Control, Agent, MainThread, RenewThread, BeatThread, Death, User,
             TimePasses, ServerCrash, Track, history, vars
    <2> QED
      BY <2>1 DEF FInv, HistoryTypeOK
  <1>2. ASSUME UNCHANGED controlVars, granted' = granted, PaidStep
        PROVE  AllPaid' /\ JobStep
    BY <1>1, <1>2, DueStands, JobWritten DEF controlVars, RowsFresh, IInv, PaidStep
  <1>3. CASE Control
    <2>1. LoopFresh(job', cpc', c', Lost(ControlThread)') /\ AllPaid' /\ JobStep
      BY <1>1, <1>3, ControlFresh
    <2>2. /\ Track(ControlThread, ControlReads, ControlSaves) /\ UNCHANGED userVars
          /\ apc' = apc /\ am' = am
          /\ \A j \in Job : JobKey(j) \notin ControlSaves => job'[j] = job[j]
      BY <1>3, ControlTouches DEF Control, agentVars
    <2>3. CallFresh(job', upc', um', Lost(UserThread)')
      BY <1>1, <2>2, CallStands
    <2>4. \A n \in Node : HandlerFresh(job', apc'[n], am'[n], Lost(MainOf(n))')
      BY <1>1, <2>2, HandlerStands
    <2> QED
      BY <2>1, <2>3, <2>4 DEF RowsFresh
  <1>4. ASSUME NEW n \in Node, MainThread(n) PROVE RowsFresh' /\ JobStep
    <2>1. HandlerFresh(job', apc'[n], am'[n], Lost(MainOf(n))') /\ PaidStep /\ granted' = granted
      BY <1>1, <1>4, MainFresh
    <2>2. /\ Track(MainOf(n), MainReads(n), MainSaves(n)) /\ UNCHANGED <<controlVars, userVars>>
          /\ \A j \in Job : JobKey(j) \notin MainSaves(n) => job'[j] = job[j]
      BY <1>4, MainTouches DEF MainThread, AgentAlone
    <2>3. LoopFresh(job', cpc', c', Lost(ControlThread)') /\ CallFresh(job', upc', um', Lost(UserThread)')
      BY <1>1, <2>2, LoopStands, CallStands
    <2>4. \A k \in Node \ {n} : apc'[k] = apc[k] /\ am'[k] = am[k]
      <3>1. \E label, m : Main(n, label, m)
        BY <1>4 DEF MainThread, RegisterWorker, RegisterReadNode, RegisterReadWorker,
             RegisterDeleteLease, RegisterSaveNode, RegisterSaveJob, RegisterSaveWorker,
             RegisterReady, RunJob, Poll, PollLease, StartRead, StartRefused, StartSaveWorker,
             StartSaveJob, ExecutionEnds, Report, ReportRead, ReportMismatch, ReportMalformed,
             ReportFence, ReportDelete, ReportSaveWorker, ReportReadNode, ReportSaveNode,
             ReportSaveJob
      <3> QED
        BY <3>1 DEF Main, IInv, Types, Shapes, AgentTypeOK
    <2>5. \A k \in Node \ {n} : HandlerFresh(job', apc'[k], am'[k], Lost(MainOf(k))')
      BY <1>1, <2>2, <2>4, HandlerStands
    <2>6. AllPaid' /\ JobStep
      BY <1>2, <2>1, <2>2
    <2> QED
      BY <2>1, <2>3, <2>5, <2>6 DEF RowsFresh
  <1>5. ASSUME NEW n \in Node, RenewThread(n) \/ Death(n) PROVE RowsFresh' /\ JobStep
    <2>1. UNCHANGED <<job, granted, missed, controlVars, userVars>>
      BY <1>5 DEF RenewThread, Renew, RenewRead, RenewLease, RenewUpdate, RenewGivesUp, Death,
                  AgentDies, AgentAlone, history, tables
    <2>2. ASSUME RenewThread(n)
          PROVE  apc' = apc /\ \A k \in Node :
                     am'[k].j = am[k].j /\ am'[k].jr = am[k].jr /\ am'[k].out = am[k].out
      <3>1. PICK label, seen, mem : Renewal(n, label, seen, mem) /\
                mem \in {am[n], [am[n] EXCEPT !.lost = TRUE], [am[n] EXCEPT !.told = @ \/ rm[n]]}
        BY <2>2 DEF RenewThread, Renew, RenewRead, RenewLease, RenewUpdate, RenewGivesUp, LoseLease
      <3>2. mem.j = am[n].j /\ mem.jr = am[n].jr /\ mem.out = am[n].out
        BY <3>1, AgentFacts DEF AgentMem
      <3> QED
        BY <3>1, <3>2 DEF Renewal, IInv, Types, Shapes, AgentTypeOK
    <2>3. ASSUME Death(n)
          PROVE  apc'[n] = "down" /\ \A k \in Node \ {n} : apc'[k] = apc[k] /\ am'[k] = am[k]
      BY <2>3 DEF Death, AgentDies, IInv, Types, Shapes, AgentTypeOK
    <2> QED
      BY <1>1, <1>5, <2>1, <2>2, <2>3, QuietFresh DEF AgentRest
  <1>6. ASSUME NEW n \in Node, BeatThread(n) PROVE RowsFresh' /\ JobStep
    <2>1. /\ Track(BeatOf(n), {}, BeatSaves(n)) /\ UNCHANGED <<controlVars, userVars>>
          /\ apc' = apc /\ am' = am /\ UNCHANGED <<job, granted>>
      BY <1>6 DEF BeatThread, AgentAlone, KeepHeartbeating, BeatReadWorker, BeatSaveWorker,
                  BeatReadNode, BeatSaveNode, Beat, tables
    <2>2. LoopFresh(job', cpc', c', Lost(ControlThread)') /\ CallFresh(job', upc', um', Lost(UserThread)')
      BY <1>1, <2>1, LoopStands, CallStands
    <2>3. \A k \in Node : HandlerFresh(job', apc'[k], am'[k], Lost(MainOf(k))')
      BY <1>1, <2>1, HandlerStands
    <2>4. AllPaid' /\ JobStep
      BY <1>2, <2>1 DEF PaidStep
    <2> QED
      BY <2>2, <2>3, <2>4 DEF RowsFresh
  <1>7. CASE User
    <2>1. CallFresh(job', upc', um', Lost(UserThread)') /\ PaidStep /\ granted' = granted
      BY <1>1, <1>7, CallerFresh
    <2>2. /\ Track(UserThread, {}, UserSaves) /\ UNCHANGED controlVars /\ apc' = apc /\ am' = am
          /\ \A j \in Job : JobKey(j) \notin UserSaves => job'[j] = job[j]
      BY <1>7, UserTouches DEF User, agentVars
    <2>3. LoopFresh(job', cpc', c', Lost(ControlThread)')
      BY <1>1, <2>2, LoopStands
    <2>4. \A n \in Node : HandlerFresh(job', apc'[n], am'[n], Lost(MainOf(n))')
      BY <1>1, <2>2, HandlerStands
    <2>5. AllPaid' /\ JobStep
      BY <1>2, <2>1, <2>2
    <2> QED
      BY <2>1, <2>3, <2>4, <2>5 DEF RowsFresh
  <1>8. CASE TimePasses \/ UNCHANGED vars
    <2>1. UNCHANGED <<job, granted, missed, controlVars, userVars>> /\ apc' = apc /\ am' = am
      BY <1>8 DEF TimePasses, LeaseExpires, WorkerGoesStale, NodeGoesStale, vars, history, tables,
                  agentVars
    <2> QED
      BY <1>1, <2>1, QuietFresh
  <1>9. CASE ServerCrash
    <2>1. cpc' = "idle" /\ upc' = "idle" /\ UNCHANGED <<job, granted>>
          /\ \A n \in Node : apc'[n] \in AgentRest
      BY <1>9 DEF ServerCrash, tables, AfterCrash, AgentRest
    <2>2. \A j \in Job : Due(j)' = granted[j]
      BY <2>1 DEF Due, AwaitPC
    <2>3. \A j \in Job : Due(j)' \in Nat /\ Due(j)' <= Due(j)
      BY <2>2, DueIs DEF IInv
    <2>4. AllPaid' /\ JobStep
      BY <1>1, <2>1, <2>3, JobWritten DEF RowsFresh, IInv
    <2> QED
      BY <2>1, <2>4, RestIsFresh DEF RowsFresh, ControlRest
  <1> QED
    BY <1>3, <1>4, <1>5, <1>6, <1>7, <1>8, <1>9 DEF Next, Agent

LEMMA FreshInvariance == Spec => []FInv
  <1>1. ASSUME Init PROVE FInv
    <2>1. cpc = "idle" /\ upc = "idle" /\ \A n \in Node : apc[n] = "down"
      BY <1>1 DEF Init, ControlInit, UserInit, AgentInit
    <2>2. AllPaid
      BY <1>1, <2>1, MaxRetriesAssumption DEF Init, StoreInit, NewJob, AllPaid, Paid, Due, AwaitPC
    <2> QED
      BY <2>1, <2>2, RestIsFresh DEF FInv, RowsFresh, ControlRest, AgentRest
  <1> QED
    BY <1>1, NextFresh, Invariance, HistoryTyped, PTL DEF Spec

\* Every lease of a job but the first is paid for with a retry, however the statements of the
\* control loop, the agents and the users interleave and wherever the API process dies, as
\* long as no service saves a row over a version it has not read.
THEOREM AttemptsArePaid == Spec => []AttemptsPaid
  <1>1. IInv /\ FInv => AttemptsPaid
    <2> SUFFICES ASSUME IInv, RowsFresh, NEW j \in Job
                 PROVE  granted[j] <= job[j].retries + 1 /\ job[j].retries <= MaxRetries
      BY DEF FInv, AttemptsPaid
    <2>1. Due(j) \in Nat /\ granted[j] \in Nat /\ granted[j] <= Due(j) /\ job[j].retries \in Nat
      BY DueIs DEF IInv, JobRow
    <2> QED
      BY <2>1 DEF RowsFresh, AllPaid, Paid
  <1> QED
    BY <1>1, Invariance, FreshInvariance, PTL

\* With every interleaving of statements and crashes at any of them, each save of the row of a
\* job is a command of the Job entity on the row as it is at that moment, or no change: until
\* the first save of a row over a version that was not read, and not beyond.
THEOREM RowsFollowLifecycle ==
    ASSUME Job # {}
    PROVE  Spec => RowFollowsLifecycle
  <1>1. Watched \in Job
    BY DEF Watched
  <1>2. Init => Lifecycle!Init
    BY <1>1 DEF Init, StoreInit, Lifecycle!Init, Lifecycle!NewJob, NewJob
  <1>3. ASSUME NEW r, NEW s, r = job[Watched], s = job'[Watched], Command(r, s)
        PROVE  Lifecycle!Next
    <2> USE <1>3
    <2>1. CASE r.status = "SUBMITTED" /\ s = QueueJob(r)
      BY <2>1 DEF QueueJob, MoveTo, Lifecycle!Next, Lifecycle!Queue, Lifecycle!QueueJob, Lifecycle!MoveTo
    <2>2. ASSUME NEW n \in Node, CanMoveTo(r, "SCHEDULED"), s = AssignTo(r, n)
          PROVE  Lifecycle!Next
      BY <2>2 DEF CanMoveTo, AllowedTransitions, AssignTo, MoveTo, Lifecycle!Next, Lifecycle!Assign, 
                  Lifecycle!CanMoveTo, Lifecycle!AllowedTransitions, Lifecycle!AssignTo, Lifecycle!MoveTo
    <2>3. CASE CanMoveTo(r, "RUNNING") /\ s = StartJob(r)
      BY <2>3 DEF CanMoveTo, AllowedTransitions, StartJob, MoveTo, Lifecycle!Next, Lifecycle!Start,
                  Lifecycle!CanMoveTo, Lifecycle!AllowedTransitions, Lifecycle!StartJob, Lifecycle!MoveTo
    <2>4. ASSUME NEW o \in Outcome, CanMoveTo(r, o), s = Finish(r, o)
          PROVE  Lifecycle!Next
      BY <2>4 DEF Outcome, CanMoveTo, AllowedTransitions, Finish, MoveTo, Lifecycle!Next,
                  Lifecycle!Settle, Lifecycle!CanMoveTo, Lifecycle!AllowedTransitions,
                  Lifecycle!Finish, Lifecycle!MoveTo
    <2>5. CASE CanMoveTo(r, "CANCELLED") /\ s = CancelJob(r)
      BY <2>5 DEF CanMoveTo, AllowedTransitions, CancelJob, MoveTo, Lifecycle!Next, Lifecycle!Cancel,
                  Lifecycle!CanMoveTo, Lifecycle!AllowedTransitions, Lifecycle!CancelJob, Lifecycle!MoveTo
    <2>6. CASE CanMoveTo(r, "CANCELLING") /\ s = RequestCancellation(r)
      BY <2>6 DEF CanMoveTo, AllowedTransitions, RequestCancellation, MoveTo, Lifecycle!Next,
                  Lifecycle!AskToCancel, Lifecycle!CanMoveTo, Lifecycle!AllowedTransitions,
                  Lifecycle!RequestCancellation, Lifecycle!MoveTo
    <2>7. CASE CanRetryFailed(r) /\ s = RetryFailed(r)
      BY <2>7 DEF CanRetryFailed, CanRetry, RetryFailed, RecordRetry, ForgetAttempt, MoveTo,
                  Lifecycle!Next, Lifecycle!RetryIt, Lifecycle!CanRetryFailed, Lifecycle!CanRetry,
                  Lifecycle!RetryFailed, Lifecycle!RecordRetry, Lifecycle!ForgetAttempt,
                  Lifecycle!MoveTo
    <2>8. CASE CanReclaim(r) /\ s = Reclaim(r)
      BY <2>8 DEF CanReclaim, CanRetry, Reclaim, ReclaimFinally, RecordRetry, ForgetAttempt, MoveTo,
                  Lifecycle!Next, Lifecycle!ReclaimIt, Lifecycle!CanReclaim, Lifecycle!CanRetry,
                  Lifecycle!Reclaim, Lifecycle!ReclaimFinally, Lifecycle!RecordRetry,
                  Lifecycle!ForgetAttempt, Lifecycle!MoveTo
    <2>9. CASE CanUnschedule(r) /\ s = Unschedule(r)
      BY <2>9 DEF CanUnschedule, Unschedule, MoveTo, Lifecycle!Next, Lifecycle!ReturnToQueue,
                  Lifecycle!CanUnschedule, Lifecycle!Unschedule, Lifecycle!MoveTo
    <2> QED
      BY <2>1, <2>2, <2>3, <2>4, <2>5, <2>6, <2>7, <2>8, <2>9 DEF Command, PaidCommand
  <1>4. IInv /\ HistoryTypeOK /\ FInv /\ [Next]_vars
           => [overwritten' \/ Lifecycle!Next]_(job[Watched])
    BY <1>1, <1>3, NextFresh DEF JobStep
  <1> QED
    BY <1>2, <1>4, FreshInvariance, HistoryTyped, Invariance, PTL DEF Spec, RowFollowsLifecycle
=============================================================================
