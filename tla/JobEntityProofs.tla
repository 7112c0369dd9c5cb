-------------------------- MODULE JobEntityProofs --------------------------
(***************************************************************************)
(* What each command of the Job entity does to a row: the facts that the    *)
(* proofs about one job and about the job table rest on.                    *)
(***************************************************************************)
EXTENDS JobEntity, TLAPS

\* Job._transition_to changes the status and nothing else.
LEMMA MoveToRow ==
    ASSUME NEW j \in JobRow, NEW s \in JobStatus
    PROVE  /\ MoveTo(j, s) \in JobRow
           /\ MoveTo(j, s).status = s
           /\ MoveTo(j, s).node = j.node
           /\ MoveTo(j, s).retries = j.retries
           /\ MoveTo(j, s).started = j.started
           /\ MoveTo(j, s).completed = j.completed
           /\ MoveTo(j, s).cancelReq = j.cancelReq
BY DEF JobRow, MoveTo

\* record_retry() adds one to retry_count.
LEMMA RecordRetryRow ==
    ASSUME NEW j \in JobRow
    PROVE  /\ RecordRetry(j) \in JobRow
           /\ RecordRetry(j).status = j.status
           /\ RecordRetry(j).retries = j.retries + 1
           /\ RecordRetry(j).cancelReq = j.cancelReq
BY DEF JobRow, RecordRetry

\* retry() and reclaim() forget the node and the times of the last attempt.
LEMMA ForgetAttemptRow ==
    ASSUME NEW j \in JobRow
    PROVE  /\ ForgetAttempt(j) \in JobRow
           /\ ForgetAttempt(j).status = j.status
           /\ ForgetAttempt(j).retries = j.retries
           /\ ForgetAttempt(j).cancelReq = j.cancelReq
           /\ ForgetAttempt(j).node = None
           /\ ~ForgetAttempt(j).started /\ ~ForgetAttempt(j).completed
BY DEF JobRow, ForgetAttempt

\* assign_to() sets the node.
LEMMA AssignToRow ==
    ASSUME NEW j \in JobRow, NEW n \in Node
    PROVE  /\ AssignTo(j, n) \in JobRow
           /\ AssignTo(j, n).status = "SCHEDULED"
           /\ AssignTo(j, n).node = n
           /\ AssignTo(j, n).retries = j.retries
           /\ AssignTo(j, n).started = j.started
           /\ AssignTo(j, n).completed = j.completed
           /\ AssignTo(j, n).cancelReq = j.cancelReq
<1> DEFINE m == MoveTo(j, "SCHEDULED")
<1>1. m \in JobRow /\ m.status = "SCHEDULED" /\ m.retries = j.retries
      /\ m.started = j.started /\ m.completed = j.completed /\ m.cancelReq = j.cancelReq
      BY MoveToRow DEF JobStatus
<1>2. AssignTo(j, n) = [m EXCEPT !.node = n]
      BY DEF AssignTo
<1> HIDE DEF m
<1> QED BY <1>1, <1>2 DEF JobRow
\* unschedule() keeps everything but the status and the node.
LEMMA UnscheduleRow ==
    ASSUME NEW j \in JobRow
    PROVE  /\ Unschedule(j) \in JobRow
           /\ Unschedule(j).status = "QUEUED"
           /\ Unschedule(j).node = None
           /\ Unschedule(j).retries = j.retries
           /\ Unschedule(j).started = j.started
           /\ Unschedule(j).completed = j.completed
           /\ Unschedule(j).cancelReq = j.cancelReq
<1> DEFINE m == MoveTo(j, "QUEUED")
<1>1. m \in JobRow /\ m.status = "QUEUED" /\ m.retries = j.retries
      /\ m.started = j.started /\ m.completed = j.completed /\ m.cancelReq = j.cancelReq
      BY MoveToRow DEF JobStatus
<1>2. Unschedule(j) = [m EXCEPT !.node = None]
      BY DEF Unschedule
<1> HIDE DEF m
<1> QED BY <1>1, <1>2 DEF JobRow

\* start() sets started_at.
LEMMA StartJobRow ==
    ASSUME NEW j \in JobRow
    PROVE  /\ StartJob(j) \in JobRow
           /\ StartJob(j).status = "RUNNING"
           /\ StartJob(j).node = j.node
           /\ StartJob(j).retries = j.retries
           /\ StartJob(j).started
           /\ StartJob(j).completed = j.completed
           /\ StartJob(j).cancelReq = j.cancelReq
<1> DEFINE m == MoveTo(j, "RUNNING")
<1>1. m \in JobRow /\ m.status = "RUNNING" /\ m.retries = j.retries /\ m.node = j.node
      /\ m.completed = j.completed /\ m.cancelReq = j.cancelReq
      BY MoveToRow DEF JobStatus
<1>2. StartJob(j) = [m EXCEPT !.started = TRUE]
      BY DEF StartJob
<1> HIDE DEF m
<1> QED BY <1>1, <1>2 DEF JobRow

\* complete(), fail() and confirm_cancelled() set completed_at.
LEMMA FinishRow ==
    ASSUME NEW j \in JobRow, NEW s \in JobStatus
    PROVE  /\ Finish(j, s) \in JobRow
           /\ Finish(j, s).status = s
           /\ Finish(j, s).node = j.node
           /\ Finish(j, s).retries = j.retries
           /\ Finish(j, s).completed
           /\ Finish(j, s).cancelReq = j.cancelReq
<1> DEFINE m == MoveTo(j, s)
<1>1. m \in JobRow /\ m.status = s /\ m.retries = j.retries /\ m.node = j.node
      /\ m.cancelReq = j.cancelReq
      BY MoveToRow
<1>2. Finish(j, s) = [m EXCEPT !.completed = TRUE]
      BY DEF Finish
<1> HIDE DEF m
<1> QED BY <1>1, <1>2 DEF JobRow

\* request_cancellation() sets cancellation_requested_at.
LEMMA RequestCancellationRow ==
    ASSUME NEW j \in JobRow
    PROVE  /\ RequestCancellation(j) \in JobRow
           /\ RequestCancellation(j).status = "CANCELLING"
           /\ RequestCancellation(j).node = j.node
           /\ RequestCancellation(j).retries = j.retries
           /\ RequestCancellation(j).started = j.started
           /\ RequestCancellation(j).completed = j.completed
<1> DEFINE m == MoveTo(j, "CANCELLING")
<1>1. m \in JobRow /\ m.status = "CANCELLING" /\ m.retries = j.retries /\ m.node = j.node
      /\ m.started = j.started /\ m.completed = j.completed
      BY MoveToRow DEF JobStatus
<1>2. RequestCancellation(j) = [m EXCEPT !.cancelReq = TRUE]
      BY DEF RequestCancellation
<1> HIDE DEF m
<1> QED BY <1>1, <1>2 DEF JobRow

\* A job that goes back to the queue for one retry, as retry() and reclaim() do.
LEMMA RequeueRow ==
    ASSUME NEW j \in JobRow
    PROVE  LET q == MoveTo(ForgetAttempt(RecordRetry(j)), "QUEUED") IN
           /\ q \in JobRow
           /\ q.status = "QUEUED"
           /\ q.node = None /\ ~q.started /\ ~q.completed
           /\ q.retries = j.retries + 1
           /\ q.cancelReq = j.cancelReq
<1> DEFINE r == RecordRetry(j)
           f == ForgetAttempt(r)
<1>1. r \in JobRow /\ r.retries = j.retries + 1 /\ r.cancelReq = j.cancelReq
      BY RecordRetryRow
<1> HIDE DEF r
<1>2. f \in JobRow /\ f.retries = j.retries + 1 /\ f.cancelReq = j.cancelReq
      /\ f.node = None /\ ~f.started /\ ~f.completed
      BY <1>1, ForgetAttemptRow
<1> HIDE DEF f
<1>3. "QUEUED" \in JobStatus
      BY DEF JobStatus
<1> QED BY <1>2, <1>3, MoveToRow DEF r, f

\* retry() also clears the cancellation request.
LEMMA RetryFailedRow ==
    ASSUME NEW j \in JobRow
    PROVE  /\ RetryFailed(j) \in JobRow
           /\ RetryFailed(j).status = "QUEUED"
           /\ RetryFailed(j).node = None
           /\ RetryFailed(j).retries = j.retries + 1
           /\ ~RetryFailed(j).started
           /\ ~RetryFailed(j).completed
           /\ ~RetryFailed(j).cancelReq
<1> DEFINE m == MoveTo(ForgetAttempt(RecordRetry(j)), "QUEUED")
<1>1. m \in JobRow /\ m.status = "QUEUED" /\ m.node = None /\ ~m.started
      /\ ~m.completed /\ m.retries = j.retries + 1
      BY RequeueRow
<1>2. RetryFailed(j) = [m EXCEPT !.cancelReq = FALSE]
      BY DEF RetryFailed
<1> HIDE DEF m
<1> QED BY <1>1, <1>2 DEF JobRow

\* The two ways reclaim() ends a job for good.
LEMMA ReclaimFinallyRow ==
    ASSUME NEW j \in JobRow, NEW s \in JobStatus
    PROVE  /\ ReclaimFinally(j, s) \in JobRow
           /\ ReclaimFinally(j, s).status = s
           /\ ReclaimFinally(j, s).node = None
           /\ ReclaimFinally(j, s).retries = j.retries
           /\ ReclaimFinally(j, s).completed
           /\ ReclaimFinally(j, s).cancelReq = j.cancelReq
<1> DEFINE m == MoveTo(j, s)
<1>1. m \in JobRow /\ m.status = s /\ m.retries = j.retries /\ m.cancelReq = j.cancelReq
      BY MoveToRow
<1>2. ReclaimFinally(j, s) = [m EXCEPT !.node = None, !.completed = TRUE]
      BY DEF ReclaimFinally
<1> HIDE DEF m
<1> QED BY <1>1, <1>2 DEF JobRow

\* The three outcomes of reclaim(): cancelled for free, failed because no retry
\* is left, or requeued for one retry.
LEMMA ReclaimRow ==
    ASSUME NEW j \in JobRow
    PROVE  LET r == Reclaim(j) IN
           /\ r \in JobRow
           /\ r.node = None
           /\ r.cancelReq = j.cancelReq
           /\ \/ r.status = "CANCELLED" /\ j.status = "CANCELLING"
                 /\ r.retries = j.retries /\ r.completed
              \/ r.status = "FAILED" /\ j.status # "CANCELLING" /\ ~CanRetry(j)
                 /\ r.retries = j.retries /\ r.completed
              \/ r.status = "QUEUED" /\ j.status # "CANCELLING" /\ CanRetry(j)
                 /\ r.retries = j.retries + 1 /\ ~r.started /\ ~r.completed
<1>1. CASE j.status = "CANCELLING"
      <2>1. Reclaim(j) = ReclaimFinally(j, "CANCELLED")
            BY <1>1 DEF Reclaim
      <2>2. "CANCELLED" \in JobStatus
            BY DEF JobStatus
      <2> QED BY <1>1, <2>1, <2>2, ReclaimFinallyRow
<1>2. CASE j.status # "CANCELLING" /\ ~CanRetry(j)
      <2>1. Reclaim(j) = ReclaimFinally(j, "FAILED")
            BY <1>2 DEF Reclaim
      <2>2. "FAILED" \in JobStatus
            BY DEF JobStatus
      <2> QED BY <1>2, <2>1, <2>2, ReclaimFinallyRow
<1>3. CASE j.status # "CANCELLING" /\ CanRetry(j)
      <2>1. Reclaim(j) = MoveTo(ForgetAttempt(RecordRetry(j)), "QUEUED")
            BY <1>3 DEF Reclaim
      <2> QED BY <1>3, <2>1, RequeueRow
<1> QED BY <1>1, <1>2, <1>3
=============================================================================
