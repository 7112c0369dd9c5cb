----------------------------- MODULE JobEntity -----------------------------
(***************************************************************************)
(* The Job entity of app/domain/entities/job.py as a record and the        *)
(* commands on it as operators.  A command that the entity refuses (it      *)
(* raises InvalidJobTransition or ValueError) is an operator whose guard,   *)
(* the matching Can... operator, is false: every caller lets the exception  *)
(* escape before it saves the row, so a refused command persists nothing.   *)
(*                                                                          *)
(* Timestamps are kept as "is it set", the resources, command, exit code    *)
(* and tenant of a job are left out: no command reads them.                 *)
(***************************************************************************)
EXTENDS Naturals

CONSTANTS Node,        \* the compute nodes
          None,        \* Python's None, for a node, a job or a lease id
          MaxRetries   \* Job.max_retries, the same for every job

ASSUME NodeAssumption == None \notin Node
ASSUME MaxRetriesAssumption == MaxRetries \in Nat

JobStatus == {"SUBMITTED", "QUEUED", "SCHEDULED", "RUNNING", "CANCELLING",
              "COMPLETED", "FAILED", "CANCELLED"}

\* Job._ALLOWED_TRANSITIONS
AllowedTransitions ==
    [SUBMITTED  |-> {"QUEUED"},
     QUEUED     |-> {"SCHEDULED", "CANCELLED"},
     SCHEDULED  |-> {"RUNNING", "CANCELLED", "QUEUED", "FAILED"},
     RUNNING    |-> {"COMPLETED", "FAILED", "QUEUED", "CANCELLING"},
     CANCELLING |-> {"COMPLETED", "FAILED", "CANCELLED"},
     COMPLETED  |-> {},
     FAILED     |-> {"QUEUED"},
     CANCELLED  |-> {}]

JobRow == [status    : JobStatus,
           node      : Node \cup {None},    \* assigned_node_id
           retries   : Nat,                 \* retry_count
           started   : BOOLEAN,             \* started_at is set
           completed : BOOLEAN,             \* completed_at is set
           cancelReq : BOOLEAN]             \* cancellation_requested_at is set

NewJob == [status |-> "SUBMITTED", node |-> None, retries |-> 0,
           started |-> FALSE, completed |-> FALSE, cancelReq |-> FALSE]

\* Job._transition_to: refused unless the table allows it.
CanMoveTo(j, s) == s \in AllowedTransitions[j.status]
MoveTo(j, s) == [j EXCEPT !.status = s]

QueueJob(j) == MoveTo(j, "QUEUED")

AssignTo(j, n) == [MoveTo(j, "SCHEDULED") EXCEPT !.node = n]

\* unschedule() tests for SCHEDULED itself before it transitions.
CanUnschedule(j) == j.status = "SCHEDULED"
Unschedule(j) == [MoveTo(j, "QUEUED") EXCEPT !.node = None]

StartJob(j) == [MoveTo(j, "RUNNING") EXCEPT !.started = TRUE]

\* complete(), fail() and confirm_cancelled() differ in the status only.
Finish(j, s) == [MoveTo(j, s) EXCEPT !.completed = TRUE]

CancelJob(j) == MoveTo(j, "CANCELLED")

RequestCancellation(j) == [MoveTo(j, "CANCELLING") EXCEPT !.cancelReq = TRUE]

CanRetry(j) == j.retries < MaxRetries
\* Mutant: the counter runs the wrong way.
MutRecordRetry(j) == [j EXCEPT !.retries = @ - 1]
RecordRetry(j) == [j EXCEPT !.retries = @ + 1]

\* The fields that belong to one execution attempt.
ForgetAttempt(j) == [j EXCEPT !.node = None, !.started = FALSE,
                              !.completed = FALSE]

\* Mutant: retry() that forgets to clear cancellation_requested_at.
MutRetryFailed(j) == MoveTo(ForgetAttempt(RecordRetry(j)), "QUEUED")
CanRetryFailed(j) == j.status = "FAILED" /\ CanRetry(j)
RetryFailed(j) ==
    [MoveTo(ForgetAttempt(RecordRetry(j)), "QUEUED") EXCEPT !.cancelReq = FALSE]

\* Mutant: an attempt that is being cancelled is not reclaimed.
MutCanReclaim(j) == j.status \in {"SCHEDULED", "RUNNING"}
\* reclaim(): CANCELLING settles as CANCELLED at no cost, a held job goes back
\* to the queue for one retry, or FAILED when none is left.
CanReclaim(j) == j.status \in {"SCHEDULED", "RUNNING", "CANCELLING"}
ReclaimFinally(j, s) == [MoveTo(j, s) EXCEPT !.node = None, !.completed = TRUE]
\* Mutants: reclaim() without its can_retry() test, and without record_retry().
MutReclaimUnbounded(j) ==
    IF j.status = "CANCELLING" THEN ReclaimFinally(j, "CANCELLED")
    ELSE MoveTo(ForgetAttempt(RecordRetry(j)), "QUEUED")
MutReclaimFree(j) ==
    IF j.status = "CANCELLING" THEN ReclaimFinally(j, "CANCELLED")
    ELSE MoveTo(ForgetAttempt(j), "QUEUED")
Reclaim(j) ==
    CASE j.status = "CANCELLING" -> ReclaimFinally(j, "CANCELLED")
      [] j.status # "CANCELLING" /\ ~CanRetry(j) -> ReclaimFinally(j, "FAILED")
      [] OTHER -> MoveTo(ForgetAttempt(RecordRetry(j)), "QUEUED")
=============================================================================
