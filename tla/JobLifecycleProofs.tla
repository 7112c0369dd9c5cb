------------------------ MODULE JobLifecycleProofs ------------------------
(***************************************************************************)
(* The promises of the Job entity, for every set of nodes and every retry   *)
(* budget.                                                                  *)
(***************************************************************************)
EXTENDS JobLifecycle, JobEntityProofs

\* _ALLOWED_TRANSITIONS read as a relation on statuses.
LEMMA TransitionTable ==
    ASSUME NEW j \in JobRow, NEW s, CanMoveTo(j, s)
    PROVE  \/ j.status = "SUBMITTED"  /\ s = "QUEUED"
           \/ j.status = "QUEUED"     /\ s \in {"SCHEDULED", "CANCELLED"}
           \/ j.status = "SCHEDULED"  /\ s \in {"RUNNING", "CANCELLED", "QUEUED", "FAILED"}
           \/ j.status = "RUNNING"    /\ s \in {"COMPLETED", "FAILED", "QUEUED", "CANCELLING"}
           \/ j.status = "CANCELLING" /\ s \in {"COMPLETED", "FAILED", "CANCELLED"}
           \/ j.status = "FAILED"     /\ s = "QUEUED"
<1>1. j.status \in JobStatus
      BY DEF JobRow
<1> QED BY <1>1 DEF CanMoveTo, AllowedTransitions, JobStatus

\* An attempt that has not started has no start time: with it, the return of a
\* SCHEDULED job to the queue by unschedule() is known to be the free one.
NotStartedYet == job.status = "SCHEDULED" => ~job.started

\* The inductive invariant.
IInv == TypeOK /\ RetryBudget /\ AttemptClean /\ NotStartedYet

\* A job as CreateJobService builds it satisfies the invariant.
LEMMA InitIInv == Init => IInv
BY NodeAssumption, MaxRetriesAssumption
   DEF Init, IInv, TypeOK, RetryBudget, AttemptClean, NotStartedYet, NewJob,
       JobRow, JobStatus

\* What a step of one job may do, as FinalAndPaid states it.
PaidStep ==
    /\ job.status \notin {"COMPLETED", "CANCELLED"}
    /\ job.status = "FAILED" => job'.status = "QUEUED"
    /\ job.started /\ job'.status = "QUEUED" => job'.retries = job.retries + 1
    /\ job'.retries >= job.retries

\* Every command of job.py preserves the invariant and is a paid step.
LEMMA NextIInv == IInv /\ Next => IInv' /\ PaidStep
<1> SUFFICES ASSUME IInv, Next PROVE IInv' /\ PaidStep
    OBVIOUS
<1> USE NodeAssumption, MaxRetriesAssumption
<1>0. job \in JobRow /\ job.retries \in Nat /\ job.status \in JobStatus
      /\ job.retries <= MaxRetries /\ AttemptClean /\ NotStartedYet
      BY DEF IInv, TypeOK, RetryBudget, JobRow
<1> DEFINE Goal == IInv' /\ PaidStep
<1>1. CASE Queue
      <2>1. job' = MoveTo(job, "QUEUED") /\ job.status = "SUBMITTED" /\ "QUEUED" \in JobStatus
            BY <1>1 DEF Queue, QueueJob, JobStatus
      <2> QED BY <1>0, <2>1, MoveToRow
              DEF IInv, TypeOK, RetryBudget, AttemptClean, NotStartedYet, PaidStep
<1>2. ASSUME NEW n \in Node, Assign(n) PROVE Goal
      <2>1. job' = AssignTo(job, n) /\ job.status = "QUEUED"
            BY <1>0, <1>2, TransitionTable DEF Assign
      <2> QED BY <1>0, <2>1, AssignToRow
              DEF IInv, TypeOK, RetryBudget, AttemptClean, NotStartedYet, PaidStep
<1>3. CASE ReturnToQueue
      <2>1. job' = Unschedule(job) /\ job.status = "SCHEDULED"
            BY <1>3 DEF ReturnToQueue, CanUnschedule
      <2> QED BY <1>0, <2>1, UnscheduleRow
              DEF IInv, TypeOK, RetryBudget, AttemptClean, NotStartedYet, PaidStep
<1>4. CASE Start
      <2>1. job' = StartJob(job) /\ job.status = "SCHEDULED"
            BY <1>0, <1>4, TransitionTable DEF Start
      <2> QED BY <1>0, <2>1, StartJobRow
              DEF IInv, TypeOK, RetryBudget, AttemptClean, NotStartedYet, PaidStep
<1>5. ASSUME NEW s \in {"COMPLETED", "FAILED", "CANCELLED"}, Settle(s) PROVE Goal
      <2>1. /\ job' = Finish(job, s)
            /\ job.status \notin {"COMPLETED", "CANCELLED", "FAILED"}
            /\ s \in JobStatus
            BY <1>0, <1>5, TransitionTable DEF Settle, JobStatus
      <2> QED BY <1>0, <1>5, <2>1, FinishRow
              DEF IInv, TypeOK, RetryBudget, AttemptClean, NotStartedYet, PaidStep
<1>6. CASE Cancel
      <2>1. /\ job' = MoveTo(job, "CANCELLED")
            /\ job.status \notin {"COMPLETED", "CANCELLED", "FAILED"}
            /\ "CANCELLED" \in JobStatus
            BY <1>0, <1>6, TransitionTable DEF Cancel, CancelJob, JobStatus
      <2> QED BY <1>0, <2>1, MoveToRow
              DEF IInv, TypeOK, RetryBudget, AttemptClean, NotStartedYet, PaidStep
<1>7. CASE AskToCancel
      <2>1. job' = RequestCancellation(job) /\ job.status = "RUNNING"
            BY <1>0, <1>7, TransitionTable DEF AskToCancel
      <2> QED BY <1>0, <2>1, RequestCancellationRow
              DEF IInv, TypeOK, RetryBudget, AttemptClean, NotStartedYet, PaidStep
<1>8. CASE RetryIt
      <2>1. job' = RetryFailed(job) /\ job.status = "FAILED" /\ job.retries < MaxRetries
            BY <1>8 DEF RetryIt, CanRetryFailed, CanRetry
      <2> QED BY <1>0, <2>1, RetryFailedRow
              DEF IInv, TypeOK, RetryBudget, AttemptClean, NotStartedYet, PaidStep
<1>9. CASE ReclaimIt
      <2>1. job' = Reclaim(job) /\ job.status \in {"SCHEDULED", "RUNNING", "CANCELLING"}
            BY <1>9 DEF ReclaimIt, CanReclaim
      <2> QED BY <1>0, <2>1, ReclaimRow
              DEF IInv, TypeOK, RetryBudget, AttemptClean, NotStartedYet, PaidStep, CanRetry
<1> QED BY <1>1, <1>2, <1>3, <1>4, <1>5, <1>6, <1>7, <1>8, <1>9 DEF Next

\* The invariant holds of every behaviour of a job.
LEMMA SpecIInv == Spec => []IInv
<1>1. IInv /\ UNCHANGED job => IInv'
      BY DEF IInv, TypeOK, RetryBudget, AttemptClean, NotStartedYet
<1> QED BY InitIInv, NextIInv, <1>1, PTL DEF Spec

\* Whatever commands are called in whatever order, the row keeps its shape.
THEOREM TypeCorrect == Spec => []TypeOK
BY SpecIInv, PTL DEF IInv

\* retry() and reclaim() together never take retry_count past max_retries.
THEOREM BudgetKept == Spec => []RetryBudget
BY SpecIInv, PTL DEF IInv

\* No attempt inherits the node, the times or the cancellation request of an
\* earlier one.
THEOREM AttemptsAreClean == Spec => []AttemptClean
BY SpecIInv, PTL DEF IInv

\* COMPLETED and CANCELLED are final, FAILED leads to the queue only, and a
\* started job returns to the queue for exactly one retry.
THEOREM FinalAndPaidHolds == Spec => FinalAndPaid
<1>1. IInv /\ [Next]_job => [PaidStep]_job
      BY NextIInv
<1>2. FinalAndPaid <=> [][PaidStep]_job
      BY DEF FinalAndPaid, PaidStep
<1> QED BY SpecIInv, <1>1, <1>2, PTL DEF Spec
=============================================================================
