---------------------------- MODULE ControlLoop ----------------------------
(***************************************************************************)
(* The leader's tick (app/presentation/api.py:_run_cluster_tick), one       *)
(* sequential thread: SchedulerLoopService with AssignWorkerService and     *)
(* AcquireLeaseService, then MarkDeadWorkersService,                        *)
(* RecoverExpiredLeaseService and RecoverOfflineNodeService.                *)
(*                                                                          *)
(* cpc names the statement the thread issues next and c holds the Python    *)
(* objects it has read: worker, job and node rows (ws, js, ns), listed      *)
(* leases (ls), the jobs and nodes still to visit, and the current pair.    *)
(* An exception ends the phase it escapes from; the next phase still runs.  *)
(***************************************************************************)
EXTENDS Store

VARIABLES cpc, c

controlVars == <<cpc, c>>

Blank == [ws |-> [n \in Node |-> NoWorker], js |-> [j \in Job |-> NewJob],
          ns |-> [n \in Node |-> NewNode], ls |-> {},
          jobs |-> {}, nodes |-> {}, j |-> None, n |-> None, gone |-> FALSE]

ControlPC == {"idle", "sched.jobs", "sched.pick", "sched.saveJob", "assign.list",
              "assign.lease", "assign.insert", "assign.saveWorker",
              "unsched.saveNode", "unsched.saveJob",
              "dead.list", "dead.save",
              "exp.list", "exp.delete", "exp.worker", "exp.job", "exp.saveWorker",
              "exp.node", "exp.saveNode", "exp.saveJob",
              "off.nodes", "off.list", "off.lease", "off.delete", "off.saveWorker",
              "off.deleteLease", "off.saveNode", "off.saveJob"}

\* Between two services of a tick the thread holds no rows.
ControlRest == {"idle", "dead.list", "exp.list", "off.nodes"}

Tick == [ws : [Node -> WorkerRow], js : [Job -> JobRow], ns : [Node -> NodeRow],
         ls : SUBSET LeaseRow, jobs : SUBSET Job, nodes : SUBSET Node,
         j : Job \cup {None}, n : Node \cup {None}, gone : BOOLEAN]

ControlTypeOK == cpc \in ControlPC /\ c \in Tick
ControlInit == cpc = "idle" /\ c = Blank

Goto(label, mem) == cpc' = label /\ c' = mem
At(label) == cpc = label
-----------------------------------------------------------------------------
(* SchedulerLoopService.execute *)

\* list_available_across_tenants: not draining and alive.
SchedReadNodes ==
    /\ At("idle")
    /\ Goto("sched.jobs",
            [Blank EXCEPT !.ns = node,
                          !.nodes = {n \in nfresh : ~node[n].draining}])
    /\ UNCHANGED tables

SchedReadJobs ==
    /\ At("sched.jobs")
    /\ LET queued == {j \in Job : job[j].status = "QUEUED"} IN
       Goto("sched.pick",
            [c EXCEPT !.jobs = queued,
                      !.js = [j \in Job |-> IF j \in queued THEN job[j] ELSE NewJob]])
    /\ UNCHANGED tables

Hosts == {n \in c.nodes : CanHost(c.ns[n])}

\* allocate() and assign_to() on the objects, then the node is saved.  Which
\* job comes first (priority) and which host wins (best fit) is left open.
SchedPick(j, n) ==
    /\ At("sched.pick")
    /\ j \in c.jobs /\ n \in Hosts
    /\ granted[j] < MaxAttempts
    /\ SaveNode(n, Allocate(c.ns[n]))
    /\ Goto("sched.saveJob",
            [c EXCEPT !.ns[n] = Allocate(@), !.js[j] = AssignTo(@, n),
                      !.jobs = @ \ {j}, !.j = j, !.n = n])
    /\ UNCHANGED <<job, worker, leases, granted, wfresh, nfresh>>

SchedSkip(j) ==
    /\ At("sched.pick")
    /\ j \in c.jobs
    /\ Hosts = {} \/ granted[j] >= MaxAttempts
    /\ Goto("sched.pick", [c EXCEPT !.jobs = @ \ {j}, !.js[j] = NewJob])
    /\ UNCHANGED tables

SchedDone ==
    /\ At("sched.pick") /\ c.jobs = {}
    /\ Goto("dead.list", Blank)
    /\ UNCHANGED tables

SchedSaveJob ==
    /\ At("sched.saveJob")
    /\ SaveJob(c.j, c.js[c.j])
    /\ Goto("assign.list", c)
    /\ UNCHANGED <<worker, node, leases, granted, wfresh, nfresh>>

\* Mutant: NoAvailableNodeError is swallowed, the job stays SCHEDULED.
MutAssignList ==
    /\ At("assign.list")
    /\ IF worker[c.n].status = "IDLE"
       THEN Goto("assign.lease", [c EXCEPT !.ws[c.n] = worker[c.n]])
       ELSE Goto("sched.pick", [c EXCEPT !.j = None, !.n = None])
    /\ UNCHANGED tables
\* AssignWorkerService: the idle worker of the node, or NoAvailableNodeError.
AssignList ==
    /\ At("assign.list")
    /\ IF worker[c.n].status = "IDLE"
       THEN Goto("assign.lease", [c EXCEPT !.ws[c.n] = worker[c.n]])
       ELSE Goto("unsched.saveNode", c)
    /\ UNCHANGED tables

\* AcquireLeaseService: "Job already has an active lease." escapes the tick.
AssignLease ==
    /\ At("assign.lease")
    /\ IF LeaseOfJob(c.j) = {} THEN Goto("assign.insert", c)
                               ELSE Goto("dead.list", Blank)
    /\ UNCHANGED tables

\* So does a violated unique constraint of the leases table.
AssignInsert ==
    /\ At("assign.insert")
    /\ IF CanInsertLease(c.j, c.n)
       THEN InsertLease(c.j, c.n) /\ Goto("assign.saveWorker", c)
       ELSE UNCHANGED <<leases, granted>> /\ Goto("dead.list", Blank)
    /\ UNCHANGED <<job, worker, node, wfresh, nfresh>>

\* The lookahead is over: rows of this job are dropped with the iteration.
NextJob == [c EXCEPT !.ws[c.n] = NoWorker, !.js[c.j] = NewJob,
                     !.j = None, !.n = None]

AssignSaveWorker ==
    /\ At("assign.saveWorker")
    /\ SaveWorker(c.n, Accept(c.ws[c.n], c.j))
    /\ Goto("sched.pick", NextJob)
    /\ UNCHANGED <<job, node, leases, granted, wfresh, nfresh>>

\* Mutant: the job goes back to the queue, its share of the node does not.
MutUnschedSaveNode ==
    /\ At("unsched.saveNode")
    /\ Goto("unsched.saveJob", [c EXCEPT !.js[c.j] = Unschedule(@)])
    /\ UNCHANGED tables
\* NoAvailableNodeError: unschedule() and release(), node saved, job saved.
UnschedSaveNode ==
    /\ At("unsched.saveNode")
    /\ SaveNode(c.n, Release(c.ns[c.n]))
    /\ Goto("unsched.saveJob", [c EXCEPT !.ns[c.n] = Release(@), !.js[c.j] = Unschedule(@)])
    /\ UNCHANGED <<job, worker, leases, granted, wfresh, nfresh>>

UnschedSaveJob ==
    /\ At("unsched.saveJob")
    /\ SaveJob(c.j, c.js[c.j])
    /\ Goto("sched.pick", NextJob)
    /\ UNCHANGED <<worker, node, leases, granted, wfresh, nfresh>>

SchedulerLoop ==
    \/ SchedReadNodes \/ SchedReadJobs
    \/ \E j \in Job : SchedSkip(j) \/ \E n \in Node : SchedPick(j, n)
    \/ SchedDone \/ SchedSaveJob
    \/ AssignList \/ AssignLease \/ AssignInsert \/ AssignSaveWorker
    \/ UnschedSaveNode \/ UnschedSaveJob
-----------------------------------------------------------------------------
(* MarkDeadWorkersService.execute *)

DeadList ==
    /\ At("dead.list")
    /\ LET dead == {n \in Node \ wfresh : worker[n].status # "ABSENT"} IN
       Goto("dead.save",
            [Blank EXCEPT !.nodes = dead,
                          !.ws = [n \in Node |-> IF n \in dead THEN worker[n] ELSE NoWorker]])
    /\ UNCHANGED tables

DeadSave(n) ==
    /\ At("dead.save")
    /\ n \in c.nodes
    /\ SaveWorker(n, Offline(c.ws[n]))
    /\ Goto("dead.save", [c EXCEPT !.nodes = @ \ {n}, !.ws[n] = NoWorker])
    /\ UNCHANGED <<job, node, leases, granted, wfresh, nfresh>>

DeadDone ==
    /\ At("dead.save") /\ c.nodes = {}
    /\ Goto("exp.list", Blank)
    /\ UNCHANGED tables

MarkDeadWorkers == DeadList \/ (\E n \in Node : DeadSave(n)) \/ DeadDone
-----------------------------------------------------------------------------
(* RecoverExpiredLeaseService.execute *)

ExpList ==
    /\ At("exp.list")
    /\ Goto("exp.delete", [Blank EXCEPT !.ls = leases])
    /\ UNCHANGED tables

\* is_expired() on the listed row: true if it was then, and if not, perhaps true
\* by now.
ExpSkip(l) ==
    /\ At("exp.delete")
    /\ l \in c.ls /\ ~l.expired
    /\ Goto("exp.delete", [c EXCEPT !.ls = @ \ {l}])
    /\ UNCHANGED tables

\* A lease renewed since it was listed is left alone.
ExpDelete(l) ==
    /\ At("exp.delete")
    /\ l \in c.ls
    /\ DeleteIfExpired(JobOf(l))
    /\ IF leases' # leases
       THEN Goto("exp.worker", [c EXCEPT !.ls = @ \ {l}, !.j = JobOf(l), !.n = l.worker])
       ELSE Goto("exp.delete", [c EXCEPT !.ls = @ \ {l}])
    /\ UNCHANGED <<job, worker, node, granted, wfresh, nfresh>>

ExpDone ==
    /\ At("exp.delete") /\ c.ls = {}
    /\ Goto("off.nodes", Blank)
    /\ UNCHANGED tables

ExpReadWorker ==
    /\ At("exp.worker")
    /\ Goto("exp.job", [c EXCEPT !.ws[c.n] = worker[c.n]])
    /\ UNCHANGED tables

ExpReadJob ==
    /\ At("exp.job")
    /\ Goto("exp.saveWorker", [c EXCEPT !.js[c.j] = job[c.j]])
    /\ UNCHANGED tables

ExpSaveWorker ==
    /\ At("exp.saveWorker")
    /\ SaveWorker(c.n, Recover(c.ws[c.n]))
    /\ Goto(IF c.js[c.j].node = None THEN "exp.saveJob" ELSE "exp.node",
            [c EXCEPT !.n = c.js[c.j].node, !.ws = Blank.ws])
    /\ UNCHANGED <<job, node, leases, granted, wfresh, nfresh>>

\* The node of the job row, not of the lease, is the one released.
ExpReadNode ==
    /\ At("exp.node")
    /\ Goto("exp.saveNode", [c EXCEPT !.ns[c.n] = node[c.n]])
    /\ UNCHANGED tables

ExpSaveNode ==
    /\ At("exp.saveNode")
    /\ SaveNode(c.n, Release(c.ns[c.n]))
    /\ Goto("exp.saveJob", [c EXCEPT !.ns = Blank.ns])
    /\ UNCHANGED <<job, worker, leases, granted, wfresh, nfresh>>

\* Mutant: a refused reclaim() is ignored and the job requeued all the same.
MutSaveReclaimed(j, row) == SaveJob(j, Reclaim(row))
\* reclaim_job's last step: nothing is saved when reclaim() refuses.
SaveReclaimed(j, row) ==
    IF CanReclaim(row) THEN SaveJob(j, Reclaim(row)) ELSE UNCHANGED job

ExpSaveJob ==
    /\ At("exp.saveJob")
    /\ SaveReclaimed(c.j, c.js[c.j])
    /\ Goto("exp.delete", [c EXCEPT !.js = Blank.js, !.j = None, !.n = None])
    /\ UNCHANGED <<worker, node, leases, granted, wfresh, nfresh>>

RecoverExpiredLease ==
    \/ ExpList \/ (\E l \in c.ls : ExpSkip(l) \/ ExpDelete(l)) \/ ExpDone
    \/ ExpReadWorker \/ ExpReadJob \/ ExpSaveWorker
    \/ ExpReadNode \/ ExpSaveNode \/ ExpSaveJob
-----------------------------------------------------------------------------
(* RecoverOfflineNodeService.execute *)

OffReadNodes ==
    /\ At("off.nodes")
    /\ IF nfresh = Node THEN Goto("idle", Blank)
                        ELSE Goto("off.list", [Blank EXCEPT !.nodes = Node \ nfresh])
    /\ UNCHANGED tables

\* The workers are listed, and the job and the node of each read by SELECTs of their
\* own (PostgresWorkerRepository._to_entity); here in one step.
OffList ==
    /\ At("off.list")
    /\ LET held == {n \in c.nodes : worker[n].job # None} IN
       Goto("off.lease",
            [c EXCEPT !.nodes = held,
                      !.ws = [n \in Node |-> IF n \in held THEN worker[n] ELSE NoWorker],
                      !.ns = [n \in Node |-> IF n \in held THEN node[n] ELSE NewNode],
                      !.js = [j \in Job |-> IF \E n \in held : worker[n].job = j
                                            THEN job[j] ELSE NewJob]])
    /\ UNCHANGED tables

\* No lease: go on.  A valid one: skip the worker.  An expired one: delete it.
OffLease(n) ==
    /\ At("off.lease")
    /\ n \in c.nodes
    /\ LET j == c.ws[n].job
           rest == [c EXCEPT !.nodes = @ \ {n}]
           held == [rest EXCEPT !.n = n, !.j = j]
       IN \/ /\ LeaseOfJob(j) = {}
             /\ Goto("off.saveWorker", held)
          \/ /\ \E l \in LeaseOfJob(j) : ~l.expired
             /\ Goto("off.lease", rest)
          \/ /\ HasExpired(j)
             /\ Goto("off.delete", held)
    /\ UNCHANGED tables

OffDelete ==
    /\ At("off.delete")
    /\ DeleteIfExpired(c.j)
    /\ IF leases' # leases
       THEN Goto("off.saveWorker", [c EXCEPT !.gone = TRUE])
       ELSE Goto("off.lease", [c EXCEPT !.j = None, !.n = None])
    /\ UNCHANGED <<job, worker, node, granted, wfresh, nfresh>>

OffSaveWorker ==
    /\ At("off.saveWorker")
    /\ SaveWorker(c.n, Recover(c.ws[c.n]))
    /\ Goto(IF c.gone THEN "off.saveNode" ELSE "off.deleteLease", c)
    /\ UNCHANGED <<job, node, leases, granted, wfresh, nfresh>>

\* reclaim_job deletes the lease itself when its caller saw none.
OffDeleteLease ==
    /\ At("off.deleteLease")
    /\ DeleteLease(c.j)
    /\ Goto("off.saveNode", c)
    /\ UNCHANGED <<job, worker, node, granted, wfresh, nfresh>>

\* The node row is the one read with the worker when it was listed.
OffSaveNode ==
    /\ At("off.saveNode")
    /\ SaveNode(c.n, Release(c.ns[c.n]))
    /\ Goto("off.saveJob", c)
    /\ UNCHANGED <<job, worker, leases, granted, wfresh, nfresh>>

OffSaveJob ==
    /\ At("off.saveJob")
    /\ SaveReclaimed(c.j, c.js[c.j])
    /\ Goto("off.lease", [c EXCEPT !.ws[c.n] = NoWorker, !.ns[c.n] = NewNode,
                                   !.j = None, !.n = None, !.gone = FALSE])
    /\ UNCHANGED <<worker, node, leases, granted, wfresh, nfresh>>

OffDone ==
    /\ At("off.lease") /\ c.nodes = {}
    /\ Goto("idle", Blank)
    /\ UNCHANGED tables

RecoverOfflineNode ==
    \/ OffReadNodes \/ OffList \/ (\E n \in Node : OffLease(n)) \/ OffDelete
    \/ OffSaveWorker \/ OffDeleteLease \/ OffSaveNode \/ OffSaveJob \/ OffDone

-----------------------------------------------------------------------------
\* The rows a step reads after its service has begun, and the rows it saves.
ControlReads ==
    CASE cpc = "sched.jobs" -> {JobKey(j) : j \in Job}
      [] cpc \in {"assign.list", "exp.worker"} -> {WorkerKey(c.n)}
      [] cpc = "exp.job" -> {JobKey(c.j)}
      [] cpc = "exp.node" -> {NodeKey(c.n)}
      [] cpc = "off.list" -> RowKey
      [] OTHER -> {}

ControlSaves ==
    CASE cpc = "sched.pick" /\ cpc' = "sched.saveJob" -> {NodeKey(c'.n)}
      [] cpc \in {"unsched.saveNode", "exp.saveNode", "off.saveNode"} -> {NodeKey(c.n)}
      [] cpc = "dead.save" -> {WorkerKey(n) : n \in c.nodes \ c'.nodes}
      [] cpc \in {"assign.saveWorker", "exp.saveWorker", "off.saveWorker"} -> {WorkerKey(c.n)}
      [] \/ cpc \in {"sched.saveJob", "unsched.saveJob"}
         \/ cpc \in {"exp.saveJob", "off.saveJob"} /\ CanReclaim(c.js[c.j]) -> {JobKey(c.j)}
      [] OTHER -> {}

ControlStep == SchedulerLoop \/ MarkDeadWorkers \/ RecoverExpiredLease
               \/ RecoverOfflineNode
=============================================================================
