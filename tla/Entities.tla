------------------------------ MODULE Entities ------------------------------
(***************************************************************************)
(* The Worker, Node and Lease entities (app/domain/entities), as records    *)
(* and operators on them.  A node hosts at most one worker, which           *)
(* CreateWorkerService maintains by looking the worker up by its node, so a *)
(* worker is named by its node.  Every job asks for one unit of a node.     *)
(***************************************************************************)
EXTENDS JobEntity, FiniteSets

CONSTANTS Job,        \* the jobs
          Capacity    \* Node.capacity, in units of one job

ASSUME JobAssumption == None \notin Job
ASSUME CapacityAssumption == Capacity \in Nat

\* ABSENT stands for a worker row that does not exist yet.  STARTING is never
\* stored (CreateWorkerService calls ready() before it saves) and nothing in
\* the application calls Worker.drain().
WorkerStatus == {"ABSENT", "IDLE", "BUSY", "OFFLINE"}
WorkerRow == [status : WorkerStatus, job : Job \cup {None}]
NoWorker == [status |-> "ABSENT", job |-> None]

IdleWorker == [status |-> "IDLE", job |-> None]

\* Worker.accept; its guards (IDLE, on the job's node) are the caller's.
Accept(w, j) == [w EXCEPT !.status = "BUSY", !.job = j]

\* Mutant: recover() that forgets to clear running_job.
MutRecover(w) == [w EXCEPT !.status = "IDLE"]
Recover(w) == [w EXCEPT !.status = "IDLE", !.job = None]
\* complete(), fail() and cancel_job(), once the job has taken the outcome.
Conclude(w) == [w EXCEPT !.status = "IDLE", !.job = None]

Offline(w) == [w EXCEPT !.status = "OFFLINE"]

\* Worker.heartbeat brings a jobless OFFLINE worker back, and only that one.
Heartbeat(w) ==
    IF w.status = "OFFLINE" /\ w.job = None THEN [w EXCEPT !.status = "IDLE"] ELSE w

NodeRow == [avail : 0 .. Capacity, draining : BOOLEAN]
NewNode == [avail |-> Capacity, draining |-> FALSE]

CanHost(n) == n.avail >= 1
Allocate(n) == [n EXCEPT !.avail = @ - 1]
\* Mutant: a release that trusts its callers never to release twice.
MutRelease(n) == [n EXCEPT !.avail = @ + 1]
\* Node.release never exceeds the capacity, however often it is called.
Release(n) == [n EXCEPT !.avail = IF @ + 1 <= Capacity THEN @ + 1 ELSE Capacity]
Drain(n) == [n EXCEPT !.draining = TRUE]

\* A lease is identified by its job and the number of the attempt it was
\* granted for: a fresh identity each time, as Lease.create's uuid4 is.
LeaseId == Job \X Nat
LeaseRow == [id : LeaseId, worker : Node, expired : BOOLEAN]
JobOf(l) == l.id[1]
=============================================================================
