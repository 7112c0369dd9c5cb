------------------------------ MODULE UserApi ------------------------------
(***************************************************************************)
(* The calls of users and operators: CreateJobService, CancelJobService,    *)
(* RetryJobService and DrainNodeService.  The last three read a row, change *)
(* it in memory and save it whole; one such call is under way at a time.    *)
(***************************************************************************)
EXTENDS Store

VARIABLES upc, um

userVars == <<upc, um>>

UserPC == {"idle", "user.saveJob", "user.saveNode"}
UserMem == [j : Job \cup {None}, jr : JobRow, n : Node \cup {None}, nr : NodeRow]
NoCall == [j |-> None, jr |-> NewJob, n |-> None, nr |-> NewNode]

UserTypeOK == upc \in UserPC /\ um \in UserMem
UserInit == upc = "idle" /\ um = NoCall

CreateJob(j) ==
    /\ upc = "idle"
    /\ job[j].status = "SUBMITTED"
    /\ SaveJob(j, QueueJob(job[j]))
    /\ UNCHANGED <<worker, node, leases, granted, wfresh, nfresh>>
    /\ UNCHANGED userVars

HoldJob(j, row) == upc' = "user.saveJob" /\ um' = [NoCall EXCEPT !.j = j, !.jr = row]

\* RUNNING: ask.  CANCELLING: save it as it is.  Anything else: cancel(), which
\* answers 409 when the job is final.
CancelRead(j) ==
    /\ upc = "idle"
    /\ \/ /\ job[j].status = "RUNNING"
          /\ HoldJob(j, RequestCancellation(job[j]))
       \/ /\ job[j].status = "CANCELLING"
          /\ HoldJob(j, job[j])
       \/ /\ job[j].status \notin {"RUNNING", "CANCELLING"}
          /\ CanMoveTo(job[j], "CANCELLED")
          /\ HoldJob(j, CancelJob(job[j]))
    /\ UNCHANGED tables

RetryRead(j) ==
    /\ upc = "idle"
    /\ CanRetryFailed(job[j])
    /\ HoldJob(j, RetryFailed(job[j]))
    /\ UNCHANGED tables

DrainRead(n) ==
    /\ upc = "idle"
    /\ ~node[n].draining
    /\ upc' = "user.saveNode" /\ um' = [NoCall EXCEPT !.n = n, !.nr = Drain(node[n])]
    /\ UNCHANGED tables

UserSaveJob ==
    /\ upc = "user.saveJob"
    /\ SaveJob(um.j, um.jr)
    /\ upc' = "idle" /\ um' = NoCall
    /\ UNCHANGED <<worker, node, leases, granted, wfresh, nfresh>>

UserSaveNode ==
    /\ upc = "user.saveNode"
    /\ SaveNode(um.n, um.nr)
    /\ upc' = "idle" /\ um' = NoCall
    /\ UNCHANGED <<job, worker, leases, granted, wfresh, nfresh>>

\* The rows a step saves; a new job is inserted.
UserSaves ==
    CASE upc = "user.saveJob" -> {JobKey(um.j)}
      [] upc = "user.saveNode" -> {NodeKey(um.n)}
      [] OTHER -> {JobKey(j) : j \in {k \in Job : job'[k] # job[k]}}
=============================================================================
