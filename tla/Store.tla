------------------------------- MODULE Store -------------------------------
(***************************************************************************)
(* The Postgres tables that every service shares, and the statements the    *)
(* repositories issue on them.  Each repository call runs in a transaction  *)
(* of its own, so one statement is one atomic step; save() is an upsert of  *)
(* the whole row, whatever the row has become since the caller read it.     *)
(*                                                                          *)
(* Time is abstracted: a lease may expire, and a heartbeat may grow stale,  *)
(* at any moment.  last_seen_at is kept out of the rows as "recent enough", *)
(* a set of workers and a set of nodes: writing an older timestamp back     *)
(* with a stale row can only make a heartbeat stale sooner, which the model *)
(* allows at any moment anyway.                                             *)
(***************************************************************************)
EXTENDS Entities

CONSTANT MaxAttempts    \* bound on the leases granted for one job

ASSUME MaxAttemptsAssumption == MaxAttempts \in Nat

VARIABLES job,       \* jobs table: Job -> JobRow (SUBMITTED: not created yet)
          worker,    \* workers table: Node -> WorkerRow
          node,      \* nodes table: Node -> NodeRow
          leases,    \* leases table: a set of LeaseRow
          granted,   \* number of leases ever granted for each job
          wfresh,    \* workers with a heartbeat inside HEARTBEAT_TIMEOUT
          nfresh     \* nodes with a heartbeat inside HEARTBEAT_TIMEOUT

tables == <<job, worker, node, leases, granted, wfresh, nfresh>>

StoreTypeOK ==
    /\ job \in [Job -> JobRow]
    /\ worker \in [Node -> WorkerRow]
    /\ node \in [Node -> NodeRow]
    /\ leases \in SUBSET LeaseRow
    /\ granted \in [Job -> Nat]
    /\ wfresh \in SUBSET Node
    /\ nfresh \in SUBSET Node

StoreInit ==
    /\ job = [j \in Job |-> NewJob]
    /\ worker = [n \in Node |-> NoWorker]
    /\ node = [n \in Node |-> NewNode]
    /\ leases = {}
    /\ granted = [j \in Job |-> 0]
    /\ wfresh = {}
    /\ nfresh = Node

\* PostgresJobRepository.save, PostgresWorkerRepository.save and
\* PostgresNodeRepository.save: the whole row is overwritten.
SaveJob(j, row) == job' = [job EXCEPT ![j] = row]
SaveWorker(n, row) == worker' = [worker EXCEPT ![n] = row]
SaveNode(n, row) == node' = [node EXCEPT ![n] = row]

\* get_by_job_id and get_by_worker_id, as sets of at most one row.
LeaseOfJob(j) == {l \in leases : JobOf(l) = j}
LeaseOfWorker(n) == {l \in leases : l.worker = n}

\* save() of a new lease: the schema has UNIQUE(worker_id) and UNIQUE(job_id).
CanInsertLease(j, n) == LeaseOfJob(j) = {} /\ LeaseOfWorker(n) = {}
InsertLease(j, n) ==
    /\ leases' = leases \cup {[id |-> <<j, granted[j]>>, worker |-> n,
                               expired |-> FALSE]}
    /\ granted' = [granted EXCEPT ![j] = @ + 1]

\* delete(job_id) says nothing of which lease of the job it removes.
DeleteLease(j) == leases' = leases \ LeaseOfJob(j)

\* Mutant: a delete that trusts the caller's earlier look at the expiry.
MutDeleteIfExpired(j) == leases' = {l \in leases : JobOf(l) # j}
\* delete_if_expired(job_id) tests the expiry in the DELETE itself.
DeleteIfExpired(j) == leases' = {l \in leases : JobOf(l) # j \/ ~l.expired}
HasExpired(j) == \E l \in leases : JobOf(l) = j /\ l.expired

\* Mutant: a renewal written as an upsert brings a deleted lease back.
MutRenewById(id, n) ==
    leases' = {l \in leases : l.id # id /\ JobOf(l) # id[1] /\ l.worker # n}
              \cup {[id |-> id, worker |-> n, expired |-> FALSE]}
\* renew(lease_id) is a plain UPDATE by id, on behalf of worker n.
RenewById(id, n) ==
    leases' = {IF l.id = id THEN [l EXCEPT !.expired = FALSE] ELSE l : l \in leases}
LeaseExists(id) == \E l \in leases : l.id = id

\* Mutant: any lease of the worker will do, as before ADR 0038.
MutOwnLease(n, id) == LeaseOfWorker(n) # {}
\* The fence of renew and release: the worker's lease is the caller's.
OwnLease(n, id) == \E l \in LeaseOfWorker(n) : l.id = id

\* The rows of the three tables that are saved whole, by name.
JobKey(j) == <<"job", j>>
WorkerKey(n) == <<"worker", n>>
NodeKey(n) == <<"node", n>>
RowKey == {JobKey(j) : j \in Job} \cup {WorkerKey(n) : n \in Node} \cup {NodeKey(n) : n \in Node}
-----------------------------------------------------------------------------
\* The passage of time, as the tables show it.
LeaseExpires ==
    /\ \E l \in leases : /\ ~l.expired
                         /\ leases' = (leases \ {l}) \cup {[l EXCEPT !.expired = TRUE]}
    /\ UNCHANGED <<job, worker, node, granted, wfresh, nfresh>>

WorkerGoesStale(n) ==
    /\ n \in wfresh
    /\ wfresh' = wfresh \ {n}
    /\ UNCHANGED <<job, worker, node, leases, granted, nfresh>>

NodeGoesStale(n) ==
    /\ n \in nfresh
    /\ nfresh' = nfresh \ {n}
    /\ UNCHANGED <<job, worker, node, leases, granted, wfresh>>
=============================================================================
