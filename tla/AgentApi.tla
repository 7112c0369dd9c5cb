------------------------------ MODULE AgentApi ------------------------------
(***************************************************************************)
(* The standalone agent of a node (scripts/run_agent.py) and the API        *)
(* handlers it calls.  The agent has three threads, each with at most one   *)
(* request under way: the main thread registers, polls, starts, executes    *)
(* and reports; while it executes, a second thread renews the lease; a      *)
(* third sends heartbeats.  The program counters apc, rpc and hpc name the  *)
(* next database statement of the handler a thread waits for, or the place  *)
(* in the agent ("down", "idle" = between polls, "start.call", "executing", *)
(* "report.call") when no handler is running for it.                        *)
(*                                                                          *)
(* A response may be lost after the handler has done its work: the agent    *)
(* then returns to its poll loop (start) or sends the report again.         *)
(***************************************************************************)
EXTENDS Store

VARIABLES apc, am,    \* main thread: place, and what it and its handler hold
          rpc, rm,    \* renewal thread: place, "the job was CANCELLING"
          hpc, hm     \* heartbeat thread: place, and the rows its handler read

agentVars == <<apc, am, rpc, rm, hpc, hm>>

AgentRest == {"down", "idle", "start.call", "executing", "report.call"}
RegisterPC == {"reg.worker", "reg.deleteLease", "reg.saveNode", "reg.saveJob",
               "reg.saveWorker", "reg.ready"}
AgentPC == AgentRest \cup RegisterPC \cup
           {"poll.lease", "start.saveWorker", "start.saveJob",
            "report.fence", "report.delete", "report.saveWorker",
            "report.node", "report.saveNode", "report.saveJob"}
RenewPC == {"idle", "renew.lease", "renew.update"}
BeatPC == {"idle", "hb.saveWorker", "hb.node", "hb.saveNode"}
BeatRest == {"idle", "hb.node"}

Outcome == {"COMPLETED", "FAILED", "CANCELLED"}

AgentMem == [j : Job \cup {None}, lid : LeaseId \cup {None},
             wr : WorkerRow, jr : JobRow, nr : NodeRow,
             out : Outcome \cup {None},
             told : BOOLEAN,     \* cancel_event
             lost : BOOLEAN,     \* lost_lease
             late : BOOLEAN]     \* history: the report began after its lease was gone
NoMem == [j |-> None, lid |-> None, wr |-> NoWorker, jr |-> NewJob, nr |-> NewNode,
          out |-> None, told |-> FALSE, lost |-> FALSE, late |-> FALSE]
BeatMem == [wr : WorkerRow, nr : NodeRow]
NoBeat == [wr |-> NoWorker, nr |-> NewNode]

AgentTypeOK ==
    /\ apc \in [Node -> AgentPC] /\ am \in [Node -> AgentMem]
    /\ rpc \in [Node -> RenewPC] /\ rm \in [Node -> BOOLEAN]
    /\ hpc \in [Node -> BeatPC] /\ hm \in [Node -> BeatMem]

AgentInit ==
    /\ apc = [n \in Node |-> "down"] /\ am = [n \in Node |-> NoMem]
    /\ rpc = [n \in Node |-> "idle"] /\ rm = [n \in Node |-> FALSE]
    /\ hpc = [n \in Node |-> "idle"] /\ hm = [n \in Node |-> NoBeat]

Main(n, label, mem) ==
    /\ apc' = [apc EXCEPT ![n] = label] /\ am' = [am EXCEPT ![n] = mem]
    /\ UNCHANGED <<rpc, rm, hpc, hm>>

\* What the agent itself remembers between two requests of one job.
Keep(m) == [NoMem EXCEPT !.j = m.j, !.lid = m.lid, !.out = m.out,
                         !.told = m.told, !.lost = m.lost]
-----------------------------------------------------------------------------
(* POST /workers: CreateWorkerService, then RegisterWorkerService *)

RegisterReadNode(n) ==
    /\ apc[n] = "down"
    /\ Main(n, "reg.worker", [NoMem EXCEPT !.nr = node[n]])
    /\ UNCHANGED tables

\* The worker and the job it points to are read by two SELECTs (_to_entity), here in
\* one step, and so in StartRead, ReportRead and RenewRead.
RegisterReadWorker(n) ==
    /\ apc[n] = "reg.worker"
    /\ LET w == worker[n] IN
       IF w.job = None
       THEN Main(n, "reg.saveWorker", NoMem)
       ELSE Main(n, "reg.deleteLease", [am[n] EXCEPT !.j = w.job, !.jr = job[w.job]])
    /\ UNCHANGED tables

\* reclaim_job: the lease, the node, the job.
RegisterDeleteLease(n) ==
    /\ apc[n] = "reg.deleteLease"
    /\ DeleteLease(am[n].j)
    /\ Main(n, "reg.saveNode", am[n])
    /\ UNCHANGED <<job, worker, node, granted, wfresh, nfresh>>

RegisterSaveNode(n) ==
    /\ apc[n] = "reg.saveNode"
    /\ SaveNode(n, Release(am[n].nr))
    /\ Main(n, "reg.saveJob", am[n])
    /\ UNCHANGED <<job, worker, leases, granted, wfresh, nfresh>>

RegisterSaveJob(n) ==
    /\ apc[n] = "reg.saveJob"
    /\ IF CanReclaim(am[n].jr) THEN SaveJob(am[n].j, Reclaim(am[n].jr))
                               ELSE UNCHANGED job
    /\ Main(n, "reg.saveWorker", NoMem)
    /\ UNCHANGED <<worker, node, leases, granted, wfresh, nfresh>>

\* A new worker starts with a heartbeat; recover() keeps the old one's.
RegisterSaveWorker(n) ==
    /\ apc[n] = "reg.saveWorker"
    /\ SaveWorker(n, IdleWorker)
    /\ wfresh' = IF worker[n].status = "ABSENT" THEN wfresh \cup {n} ELSE wfresh
    /\ Main(n, "reg.ready", NoMem)
    /\ UNCHANGED <<job, node, leases, granted, nfresh>>

\* RegisterWorkerService marks it ready and saves the same row again.
RegisterReady(n) ==
    /\ apc[n] = "reg.ready"
    /\ SaveWorker(n, IdleWorker)
    /\ Main(n, "idle", NoMem)
    /\ UNCHANGED <<job, node, leases, granted, wfresh, nfresh>>

RegisterWorker(n) ==
    \/ RegisterReadNode(n) \/ RegisterReadWorker(n) \/ RegisterDeleteLease(n)
    \/ RegisterSaveNode(n) \/ RegisterSaveJob(n) \/ RegisterSaveWorker(n)
    \/ RegisterReady(n)
-----------------------------------------------------------------------------
(* GET /workers/{id}, then POST .../start: StartJobService *)

Poll(n) ==
    /\ apc[n] = "idle"
    /\ worker[n].job # None
    /\ Main(n, "poll.lease", [NoMem EXCEPT !.j = worker[n].job])
    /\ UNCHANGED tables

PollLease(n) ==
    /\ apc[n] = "poll.lease"
    /\ \/ /\ LeaseOfWorker(n) = {}
          /\ Main(n, "start.call", am[n])
       \/ \E l \in LeaseOfWorker(n) : Main(n, "start.call", [am[n] EXCEPT !.lid = l.id])
    /\ UNCHANGED tables

StartAccepted(n) == worker[n].job = am[n].j /\ CanMoveTo(job[am[n].j], "RUNNING")

StartRead(n) ==
    /\ apc[n] = "start.call"
    /\ StartAccepted(n)
    /\ Main(n, "start.saveWorker",
            [am[n] EXCEPT !.wr = worker[n], !.jr = StartJob(job[am[n].j])])
    /\ UNCHANGED tables

\* 409 (not this worker's job) or 500 (not SCHEDULED): back to the poll loop.
StartRefused(n) ==
    /\ apc[n] = "start.call"
    /\ ~StartAccepted(n)
    /\ Main(n, "idle", NoMem)
    /\ UNCHANGED tables

StartSaveWorker(n) ==
    /\ apc[n] = "start.saveWorker"
    /\ SaveWorker(n, am[n].wr)
    /\ Main(n, "start.saveJob", am[n])
    /\ UNCHANGED <<job, node, leases, granted, wfresh, nfresh>>

\* persist_job_started; a lost response sends the agent back to its poll loop.
StartSaveJob(n) ==
    /\ apc[n] = "start.saveJob"
    /\ SaveJob(am[n].j, am[n].jr)
    /\ Main(n, "executing", Keep(am[n])) \/ Main(n, "idle", NoMem)
    /\ UNCHANGED <<worker, node, leases, granted, wfresh, nfresh>>
-----------------------------------------------------------------------------
(* The renewal thread and POST .../lease/renew: RenewLeaseService *)

Renewal(n, label, seen, mem) ==
    /\ rpc' = [rpc EXCEPT ![n] = label]
    /\ rm' = [rm EXCEPT ![n] = seen]
    /\ am' = [am EXCEPT ![n] = mem]
    /\ UNCHANGED <<apc, hpc, hm>>
LoseLease(n) == Renewal(n, "idle", FALSE, [am[n] EXCEPT !.lost = TRUE])

\* The router reads the worker, and with it the job status it will answer,
\* before the lease is renewed.
RenewRead(n) ==
    /\ apc[n] = "executing" /\ rpc[n] = "idle" /\ ~am[n].lost
    /\ LET w == worker[n] IN
       Renewal(n, "renew.lease", w.job # None /\ job[w.job].status = "CANCELLING", am[n])
    /\ UNCHANGED tables

RenewLease(n) ==
    /\ rpc[n] = "renew.lease"
    /\ IF OwnLease(n, am[n].lid) THEN Renewal(n, "renew.update", rm[n], am[n])
                                 ELSE LoseLease(n)
    /\ UNCHANGED tables

RenewUpdate(n) ==
    /\ rpc[n] = "renew.update"
    /\ RenewById(am[n].lid, n)
    /\ IF LeaseExists(am[n].lid)
       THEN Renewal(n, "idle", FALSE, [am[n] EXCEPT !.told = @ \/ rm[n]])
       ELSE LoseLease(n)
    /\ UNCHANGED <<job, worker, node, granted, wfresh, nfresh>>

\* The API stayed out of reach until the trust window closed.
RenewGivesUp(n) ==
    /\ apc[n] = "executing" /\ rpc[n] = "idle" /\ ~am[n].lost
    /\ LoseLease(n)
    /\ UNCHANGED tables

Renew(n) == RenewRead(n) \/ RenewLease(n) \/ RenewUpdate(n) \/ RenewGivesUp(n)
-----------------------------------------------------------------------------
(* The subprocess ends; POST .../complete, fail or cancel: ReportJobOutcomeService *)

\* The result is dropped when the lease was lost; a cancelled result needs a
\* renewal that answered CANCELLING.  The renewal thread is joined first.
ExecutionEnds(n) ==
    /\ apc[n] = "executing" /\ rpc[n] = "idle"
    /\ IF am[n].lost
       THEN Main(n, "idle", NoMem)
       ELSE \E o \in {"COMPLETED", "FAILED"} \cup (IF am[n].told THEN {"CANCELLED"} ELSE {}) :
                Main(n, "report.call", [am[n] EXCEPT !.out = o])
    /\ UNCHANGED tables

\* _get_owning_worker and worker.complete()/fail()/cancel_job() in memory.  A
\* job that refuses the outcome answers 500 and the agent tries again later.
ReportRead(n) ==
    /\ apc[n] = "report.call"
    /\ am[n].lid # None
    /\ worker[n].job = am[n].j
    /\ CanMoveTo(job[am[n].j], am[n].out)
    /\ Main(n, "report.fence",
            [am[n] EXCEPT !.wr = Conclude(worker[n]), !.jr = Finish(job[am[n].j], am[n].out),
                          !.late = ~LeaseExists(am[n].lid)])
    /\ UNCHANGED tables

\* 409: the job is no longer this worker's and the result is dropped.
ReportMismatch(n) ==
    /\ apc[n] = "report.call"
    /\ am[n].lid # None
    /\ worker[n].job # am[n].j
    /\ Main(n, "idle", NoMem)
    /\ UNCHANGED tables

\* A report without a lease id is malformed (422) and stops the agent.
ReportMalformed(n) ==
    /\ apc[n] = "report.call"
    /\ am[n].lid = None
    /\ Main(n, "down", NoMem)
    /\ UNCHANGED tables

\* ReleaseLeaseService: the identity is tested here ...
ReportFence(n) ==
    /\ apc[n] = "report.fence"
    /\ IF OwnLease(n, am[n].lid) THEN Main(n, "report.delete", am[n])
                                 ELSE Main(n, "idle", NoMem)
    /\ UNCHANGED tables

\* ... and whatever lease the job has is deleted here.
ReportDelete(n) ==
    /\ apc[n] = "report.delete"
    /\ DeleteLease(am[n].lid[1])
    /\ Main(n, "report.saveWorker", am[n])
    /\ UNCHANGED <<job, worker, node, granted, wfresh, nfresh>>

ReportSaveWorker(n) ==
    /\ apc[n] = "report.saveWorker"
    /\ SaveWorker(n, am[n].wr)
    /\ Main(n, IF am[n].jr.node = None THEN "report.saveJob" ELSE "report.node", am[n])
    /\ UNCHANGED <<job, node, leases, granted, wfresh, nfresh>>

ReportReadNode(n) ==
    /\ apc[n] = "report.node"
    /\ Main(n, "report.saveNode", [am[n] EXCEPT !.nr = node[am[n].jr.node]])
    /\ UNCHANGED tables

ReportSaveNode(n) ==
    /\ apc[n] = "report.saveNode"
    /\ SaveNode(am[n].jr.node, Release(am[n].nr))
    /\ Main(n, "report.saveJob", am[n])
    /\ UNCHANGED <<job, worker, leases, granted, wfresh, nfresh>>

ReportSaveJob(n) ==
    /\ apc[n] = "report.saveJob"
    /\ SaveJob(am[n].j, am[n].jr)
    /\ Main(n, "idle", NoMem) \/ Main(n, "report.call", Keep(am[n]))
    /\ UNCHANGED <<worker, node, leases, granted, wfresh, nfresh>>

Report(n) ==
    \/ ReportRead(n) \/ ReportMismatch(n) \/ ReportMalformed(n)
    \/ ReportFence(n) \/ ReportDelete(n) \/ ReportSaveWorker(n)
    \/ ReportReadNode(n) \/ ReportSaveNode(n) \/ ReportSaveJob(n)

RunJob(n) ==
    \/ Poll(n) \/ PollLease(n)
    \/ StartRead(n) \/ StartRefused(n) \/ StartSaveWorker(n) \/ StartSaveJob(n)
    \/ ExecutionEnds(n) \/ Report(n)
-----------------------------------------------------------------------------
(* The heartbeat thread: WorkerHeartbeatService, then HeartbeatNodeService *)

Beat(n, label, mem) ==
    /\ hpc' = [hpc EXCEPT ![n] = label] /\ hm' = [hm EXCEPT ![n] = mem]
    /\ UNCHANGED <<apc, am, rpc, rm>>

BeatReadWorker(n) ==
    /\ hpc[n] = "idle"
    /\ apc[n] \notin RegisterPC \cup {"down"}
    /\ Beat(n, "hb.saveWorker", [NoBeat EXCEPT !.wr = Heartbeat(worker[n])])
    /\ UNCHANGED tables

BeatSaveWorker(n) ==
    /\ hpc[n] = "hb.saveWorker"
    /\ SaveWorker(n, hm[n].wr)
    /\ wfresh' = wfresh \cup {n}
    /\ Beat(n, "hb.node", NoBeat)
    /\ UNCHANGED <<job, node, leases, granted, nfresh>>

BeatReadNode(n) ==
    /\ hpc[n] = "hb.node"
    /\ Beat(n, "hb.saveNode", [NoBeat EXCEPT !.nr = node[n]])
    /\ UNCHANGED tables

BeatSaveNode(n) ==
    /\ hpc[n] = "hb.saveNode"
    /\ SaveNode(n, hm[n].nr)
    /\ nfresh' = nfresh \cup {n}
    /\ Beat(n, "idle", NoBeat)
    /\ UNCHANGED <<job, worker, leases, granted, wfresh>>

KeepHeartbeating(n) ==
    \/ BeatReadWorker(n) \/ BeatSaveWorker(n) \/ BeatReadNode(n) \/ BeatSaveNode(n)
-----------------------------------------------------------------------------
\* The rows a step reads after its handler has begun, and the rows it saves.
MainReads(n) ==
    CASE apc[n] = "reg.worker" -> {WorkerKey(n)} \cup {JobKey(j) : j \in Job}
      [] apc[n] = "report.node" -> {NodeKey(am[n].jr.node)}
      [] OTHER -> {}

MainSaves(n) ==
    CASE apc[n] = "reg.saveNode" -> {NodeKey(n)}
      [] apc[n] = "report.saveNode" -> {NodeKey(am[n].jr.node)}
      [] apc[n] \in {"reg.saveWorker", "reg.ready", "start.saveWorker",
                     "report.saveWorker"} -> {WorkerKey(n)}
      [] \/ apc[n] \in {"start.saveJob", "report.saveJob"}
         \/ apc[n] = "reg.saveJob" /\ CanReclaim(am[n].jr) -> {JobKey(am[n].j)}
      [] OTHER -> {}

BeatSaves(n) ==
    CASE hpc[n] = "hb.saveWorker" -> {WorkerKey(n)}
      [] hpc[n] = "hb.saveNode" -> {NodeKey(n)}
      [] OTHER -> {}
-----------------------------------------------------------------------------
\* The agent process dies; its supervisor starts it again (RegisterReadNode).  It
\* dies while no request of its own is being served: a handler that goes on beside
\* the requests of the next process, or beside a retry after the client's timeout of
\* 10 s, is not modelled.
AgentDies(n) ==
    /\ apc[n] \in AgentRest \ {"down"} /\ rpc[n] = "idle" /\ hpc[n] \in BeatRest
    /\ apc' = [apc EXCEPT ![n] = "down"] /\ am' = [am EXCEPT ![n] = NoMem]
    /\ hpc' = [hpc EXCEPT ![n] = "idle"]
    /\ UNCHANGED <<rpc, rm, hm>>
    /\ UNCHANGED tables
=============================================================================
