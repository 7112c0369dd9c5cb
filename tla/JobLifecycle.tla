---------------------------- MODULE JobLifecycle ----------------------------
(***************************************************************************)
(* What one job promises: the state machine of the Job entity, one action   *)
(* per command, possible whenever the entity accepts it.  The one command   *)
(* narrowed is queue(): its only caller is CreateJobService, on a new job.  *)
(* Cluster shows that the rows of its job table implement this.             *)
(***************************************************************************)
EXTENDS JobEntity

VARIABLE job

Init == job = NewJob

Queue == job.status = "SUBMITTED" /\ job' = QueueJob(job)
Assign(n) == CanMoveTo(job, "SCHEDULED") /\ job' = AssignTo(job, n)
ReturnToQueue == CanUnschedule(job) /\ job' = Unschedule(job)
Start == CanMoveTo(job, "RUNNING") /\ job' = StartJob(job)
Settle(s) == CanMoveTo(job, s) /\ job' = Finish(job, s)
Cancel == CanMoveTo(job, "CANCELLED") /\ job' = CancelJob(job)
AskToCancel == CanMoveTo(job, "CANCELLING") /\ job' = RequestCancellation(job)
RetryIt == CanRetryFailed(job) /\ job' = RetryFailed(job)
ReclaimIt == CanReclaim(job) /\ job' = Reclaim(job)

Next ==
    \/ Queue
    \/ \E n \in Node : Assign(n)
    \/ ReturnToQueue
    \/ Start
    \/ \E s \in {"COMPLETED", "FAILED", "CANCELLED"} : Settle(s)
    \/ Cancel
    \/ AskToCancel
    \/ RetryIt
    \/ ReclaimIt

Spec == Init /\ [][Next]_job
-----------------------------------------------------------------------------
\* The row keeps the shape of the jobs table.
TypeOK == job \in JobRow

\* The retry budget bounds every way back to the queue: no sequence of retry()
\* and reclaim() takes retry_count past max_retries.
RetryBudget == job.retries <= MaxRetries

\* An attempt never inherits anything from an earlier one: a job waiting for a
\* node carries no node, start, end or cancellation request of a past attempt,
\* and a job a worker may hold has a node, has not ended, and shows a
\* cancellation request only once somebody asked for it in this attempt.
AttemptClean ==
    /\ job.status \in {"SUBMITTED", "QUEUED"} =>
          job.node = None /\ ~job.started /\ ~job.completed
    /\ job.status \in {"SCHEDULED", "RUNNING", "CANCELLING"} =>
          job.node \in Node /\ ~job.completed
    /\ job.status \in {"SUBMITTED", "QUEUED", "SCHEDULED", "RUNNING"} =>
          ~job.cancelReq

\* COMPLETED and CANCELLED are final, a FAILED job leaves that state only for
\* the queue, and every return to the queue of a job that has run costs one
\* retry; nothing ever gives a retry back.
FinalAndPaid ==
    [][/\ job.status \notin {"COMPLETED", "CANCELLED"}
       /\ job.status = "FAILED" => job'.status = "QUEUED"
       /\ job.started /\ job'.status = "QUEUED" => job'.retries = job.retries + 1
       /\ job'.retries >= job.retries]_job
=============================================================================
