----------------------------- MODULE WorkerLoop -----------------------------
(***************************************************************************)
(* In-process execution: the second half of ClusterTickService.execute and  *)
(* WorkerExecutionLoop.execute with its renewal thread, run by the worker   *)
(* thread of an API process for each worker that no agent drives.           *)
(*                                                                          *)
(* xpc names the next statement of the thread and x what it holds: the      *)
(* workers still to visit, the worker n with its row, and the job object    *)
(* (jr) that both threads change in memory.  ypc is the renewal thread.     *)
(* An exception ends the visit of a worker, not the pass.                   *)
(***************************************************************************)
EXTENDS Store, Leadership

CONSTANT AgentDriven   \* nodes whose worker is managed_by AGENT

ASSUME AgentDrivenAssumption == AgentDriven \subseteq Node

VARIABLES xpc, x, ypc

loopVars == <<xpc, x, ypc>>

LoopPC == {"off", "x.list", "x.worker", "x.lease", "x.start", "x.exec", "x.fence",
           "x.delete", "x.saveWorker", "x.node", "x.saveNode", "x.job", "x.saveJob"}
RenewalPC == {"off", "wait", "update", "job"}

Outcome == {"COMPLETED", "FAILED", "CANCELLED"}

LoopMem == [todo : SUBSET Node, n : Node \cup {None}, j : Job \cup {None},
            lid : LeaseId \cup {None}, wr : WorkerRow, jr : JobRow, nr : NodeRow,
            told : BOOLEAN,     \* cancel_event
            lost : BOOLEAN,     \* lost_lease
            late : BOOLEAN]     \* history: the command ended after its lease was gone
Idle == [todo |-> {}, n |-> None, j |-> None, lid |-> None, wr |-> NoWorker,
         jr |-> NewJob, nr |-> NewNode, told |-> FALSE, lost |-> FALSE, late |-> FALSE]

LoopTypeOK ==
    /\ xpc \in [Process -> LoopPC]
    /\ x \in [Process -> LoopMem]
    /\ ypc \in [Process -> RenewalPC]

LoopInit ==
    /\ xpc = [p \in Process |-> "off"]
    /\ x = [p \in Process |-> Idle]
    /\ ypc = [p \in Process |-> "off"]

Loop(p, label, mem) ==
    /\ xpc' = [xpc EXCEPT ![p] = label] /\ x' = [x EXCEPT ![p] = mem]
    /\ ypc' = ypc
\* The visit of a worker is over, by an exception or by its last save.
NextWorker(p) == Loop(p, "x.worker", [Idle EXCEPT !.todo = x[p].todo])
-----------------------------------------------------------------------------
(* ClusterTickService.execute after the scheduling pass *)

ListWorkers(p) ==
    /\ xpc[p] = "x.list"
    /\ Loop(p, "x.worker",
            [Idle EXCEPT !.todo = {n \in Node \ AgentDriven : worker[n].job # None}])
    /\ UNCHANGED tables

PassDone(p) == xpc[p] = "x.worker" /\ x[p].todo = {}

\* get_by_id_across_tenants: the worker and then, in a SELECT of its own, the job
\* it points to, taken as one read.  A worker that has lost its job since it was
\* listed is left alone.
VisitWorker(p, n) ==
    /\ xpc[p] = "x.worker"
    /\ n \in x[p].todo
    /\ LET w == worker[n]
           rest == [Idle EXCEPT !.todo = x[p].todo \ {n}]
       IN  IF w.job = None
           THEN Loop(p, "x.worker", rest)
           ELSE Loop(p, "x.lease",
                     [rest EXCEPT !.n = n, !.j = w.job, !.wr = w, !.jr = job[w.job]])
    /\ UNCHANGED tables

\* NoActiveLeaseError without a lease.  A job that is RUNNING is executed again;
\* one that is neither RUNNING nor SCHEDULED refuses worker.start().
ReadLease(p) ==
    /\ xpc[p] = "x.lease"
    /\ LET m == x[p]
           own(l) == [m EXCEPT !.lid = l.id]
       IN  \/ LeaseOfWorker(m.n) = {} /\ NextWorker(p)
           \/ \E l \in LeaseOfWorker(m.n) :
                 \/ /\ m.jr.status = "RUNNING"
                    /\ xpc' = [xpc EXCEPT ![p] = "x.exec"]
                    /\ x' = [x EXCEPT ![p] = own(l)]
                    /\ ypc' = [ypc EXCEPT ![p] = "wait"]
                 \/ /\ CanMoveTo(m.jr, "RUNNING")
                    /\ Loop(p, "x.start", [own(l) EXCEPT !.jr = StartJob(@)])
                 \/ /\ m.jr.status # "RUNNING" /\ ~CanMoveTo(m.jr, "RUNNING")
                    /\ NextWorker(p)
    /\ UNCHANGED tables

\* persist_job_started, then the renewal thread and the command.
PersistStarted(p) ==
    /\ xpc[p] = "x.start"
    /\ SaveJob(x[p].j, x[p].jr)
    /\ xpc' = [xpc EXCEPT ![p] = "x.exec"] /\ x' = x
    /\ ypc' = [ypc EXCEPT ![p] = "wait"]
    /\ UNCHANGED <<worker, node, leases, granted, wfresh, nfresh>>
-----------------------------------------------------------------------------
(* keep_lease_alive *)

Renewing(p, label, mem) ==
    /\ ypc' = [ypc EXCEPT ![p] = label] /\ x' = [x EXCEPT ![p] = mem]
    /\ xpc' = xpc

\* RenewLeaseService.  Another lease of the worker is LeaseNotFoundError and
\* the lease is lost; no lease at all is NoActiveLeaseError, which nothing
\* catches: the thread ends and nobody is told.
KeepAlive(p) ==
    /\ ypc[p] = "wait" /\ xpc[p] = "x.exec"
    /\ LET m == x[p] IN
       \/ LeaseOfWorker(m.n) = {} /\ Renewing(p, "off", m)
       \/ OwnLease(m.n, m.lid) /\ Renewing(p, "update", m)
       \/ /\ LeaseOfWorker(m.n) # {} /\ ~OwnLease(m.n, m.lid)
          /\ Renewing(p, "off", [m EXCEPT !.lost = TRUE])
    /\ UNCHANGED tables

KeepAliveUpdate(p) ==
    /\ ypc[p] = "update"
    /\ RenewById(x[p].lid, x[p].n)
    /\ IF LeaseExists(x[p].lid)
       THEN Renewing(p, IF x[p].told THEN "wait" ELSE "job", x[p])
       ELSE Renewing(p, "off", [x[p] EXCEPT !.lost = TRUE])
    /\ UNCHANGED <<job, worker, node, granted, wfresh, nfresh>>

\* A cancellation is delivered to the object and to the command.
KeepAliveJob(p) ==
    /\ ypc[p] = "job"
    /\ IF job[x[p].j].status = "CANCELLING"
       THEN Renewing(p, "wait", [x[p] EXCEPT !.told = TRUE, !.jr = RequestCancellation(@)])
       ELSE Renewing(p, "wait", x[p])
    /\ UNCHANGED tables

RenewalThread(p) == KeepAlive(p) \/ KeepAliveUpdate(p) \/ KeepAliveJob(p)
-----------------------------------------------------------------------------
(* The command ends *)

\* The renewal thread is joined.  With the lease lost the result is dropped;
\* otherwise the objects take the outcome.  CANCELLED needs a delivered
\* cancellation.
CommandEnds(p) ==
    /\ xpc[p] = "x.exec" /\ ypc[p] \in {"wait", "off"}
    /\ LET m == x[p] IN
       \/ /\ m.lost
          /\ xpc' = [xpc EXCEPT ![p] = "x.worker"]
          /\ x' = [x EXCEPT ![p] = [Idle EXCEPT !.todo = m.todo]]
       \/ /\ ~m.lost
          /\ xpc' = [xpc EXCEPT ![p] = "x.fence"]
          /\ \E o \in Outcome :
                /\ o = "CANCELLED" => m.told
                /\ x' = [x EXCEPT ![p] = [m EXCEPT !.wr = Conclude(@), !.jr = Finish(@, o),
                                                  !.late = ~LeaseExists(m.lid)]]
    /\ ypc' = [ypc EXCEPT ![p] = "off"]
    /\ UNCHANGED tables

\* JobExecutionService.execute raises instead, on a fault of the host: the renewal
\* thread is joined, nothing is written, and the tick goes on with the next worker.
\* The job is RUNNING under its lease, and is executed again.
CommandRaises(p) ==
    /\ xpc[p] = "x.exec" /\ ypc[p] \in {"wait", "off"}
    /\ xpc' = [xpc EXCEPT ![p] = "x.worker"]
    /\ x' = [x EXCEPT ![p] = [Idle EXCEPT !.todo = x[p].todo]]
    /\ ypc' = [ypc EXCEPT ![p] = "off"]
    /\ HostFault
    /\ UNCHANGED tables

\* ReleaseLeaseService: the identity is tested in one statement ...
ReleaseFence(p) ==
    /\ xpc[p] = "x.fence"
    /\ IF OwnLease(x[p].n, x[p].lid) THEN Loop(p, "x.delete", x[p])
                                     ELSE NextWorker(p)
    /\ UNCHANGED tables

\* ... and the lease of the job, whichever it is by then, deleted in another.
ReleaseDelete(p) ==
    /\ xpc[p] = "x.delete"
    /\ DeleteLease(x[p].j)
    /\ Loop(p, "x.saveWorker", x[p])
    /\ UNCHANGED <<job, worker, node, granted, wfresh, nfresh>>

LoopSaveWorker(p) ==
    /\ xpc[p] = "x.saveWorker"
    /\ SaveWorker(x[p].n, x[p].wr)
    /\ Loop(p, IF x[p].jr.node = None THEN "x.job" ELSE "x.node", x[p])
    /\ UNCHANGED <<job, node, leases, granted, wfresh, nfresh>>

LoopReadNode(p) ==
    /\ xpc[p] = "x.node"
    /\ Loop(p, "x.saveNode", [x[p] EXCEPT !.nr = node[x[p].jr.node]])
    /\ UNCHANGED tables

LoopSaveNode(p) ==
    /\ xpc[p] = "x.saveNode"
    /\ SaveNode(x[p].jr.node, Release(x[p].nr))
    /\ Loop(p, "x.job", x[p])
    /\ UNCHANGED <<job, worker, leases, granted, wfresh, nfresh>>

\* The request of a cancellation that came too late is kept on the record.
LoopReadJob(p) ==
    /\ xpc[p] = "x.job"
    /\ Loop(p, "x.saveJob", [x[p] EXCEPT !.jr.cancelReq = @ \/ job[x[p].j].cancelReq])
    /\ UNCHANGED tables

LoopSaveJob(p) ==
    /\ xpc[p] = "x.saveJob"
    /\ SaveJob(x[p].j, x[p].jr)
    /\ NextWorker(p)
    /\ UNCHANGED <<worker, node, leases, granted, wfresh, nfresh>>

ExecutionLoop(p) ==
    \/ ListWorkers(p) \/ (\E n \in Node : VisitWorker(p, n))
    \/ ReadLease(p) \/ PersistStarted(p) \/ CommandEnds(p)
    \/ ReleaseFence(p) \/ ReleaseDelete(p) \/ LoopSaveWorker(p)
    \/ LoopReadNode(p) \/ LoopSaveNode(p) \/ LoopReadJob(p) \/ LoopSaveJob(p)
=============================================================================
