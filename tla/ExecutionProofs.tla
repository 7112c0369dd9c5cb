-------------------------- MODULE ExecutionProofs --------------------------
(***************************************************************************)
(* Type correctness, NothingLeftRunning and ResultTruthful of Execution.    *)
(*                                                                          *)
(* A result is written long after the fact it tells of, so the invariant    *)
(* says what each process knows on the way: what the status pipe and the    *)
(* supervisor's exit code mean while the owner has not read them, and what  *)
(* a result means once it is written and nothing can change it any more.    *)
(***************************************************************************)
EXTENDS Execution, TLAPS

\* Before the supervisor is started there is nothing; before it has launched the
\* command there is no command, and without one there is no child.
Launching ==
    /\ owner = "start" => sup = "none"
    /\ sup \in {"none", "booting", "armed", "faulted"} => cmd = "none"
    /\ cmd = "none" => kid = "none"
    /\ owner = "collect" => sup = "ended"

\* A launch failure on the status pipe: the command was not and will not be started.
StatusMeans ==
    status \in {"fault", "hostFault"} => cmd = "none" /\ sup \in {"faulted", "ended"}

\* The supervisor's exit code, as long as the owner has not begun to kill: it is
\* the command's, unless the supervisor was killed alone.
CodeMeans ==
    /\ supCode = "zero" => cmd = "ended" /\ cmdCode = "zero"
    /\ owner \in {"loop", "launch", "wait", "collect"} /\ sup = "ended" /\ fault # "supervisor" =>
          cmd = "none" \/ (cmd = "ended" /\ supCode = cmdCode)

\* An early termination has a reason, and the reason was given.
ReasonGiven == owner = "grace" => reason \in stops

\* A written result cannot become false: the command has ended or cannot start.
ResultMeans ==
    result.final =>
        /\ owner \in {"close", "returned", "raised", "dead"}
        /\ sup # "none" =>
             /\ result.reason = "none" /\ result.code = "zero" => cmd = "ended" /\ cmdCode = "zero"
             /\ result.reason = "none" =>
                   /\ sup = "ended"
                   /\ \/ cmd = "none" \/ fault = "supervisor"
                      \/ cmd = "ended" /\ result.code = cmdCode
             /\ result.reason = "launch" => cmd = "none" /\ sup \in {"faulted", "ended"}
             /\ result.reason \in Reason => result.reason \in stops

IInv == /\ TypeOK
        /\ Launching /\ StatusMeans /\ CodeMeans /\ ReasonGiven /\ ResultMeans
        /\ NothingLeftRunning
-----------------------------------------------------------------------------
LEMMA InitIInv == Init => IInv
BY DEF Init, IInv, TypeOK, Launching, StatusMeans, CodeMeans, ReasonGiven, ResultMeans,
       NothingLeftRunning, NoResult, Done, OwnerPC, Reason, Code, SupAlive, KidAlive

\* What Finish writes.
LEMMA FinishWrites ==
    ASSUME NEW why \in Reason \cup {"none", "launch", "raised"}, NEW code \in Code,
           Finish(why, code)
    PROVE  /\ owner' = "close"
           /\ result' \in [reason : Reason \cup {"none", "launch", "raised"}, code : Code, final : BOOLEAN]
           /\ result'.reason = why /\ result'.code = code /\ result'.final
BY DEF Finish

LEMMA NextIInv == IInv /\ [Next]_vars => IInv'
<1> SUFFICES ASSUME IInv, [Next]_vars PROVE IInv'
    OBVIOUS
<1> USE DEF IInv, TypeOK, Launching, StatusMeans, CodeMeans, ReasonGiven, ResultMeans,
            NothingLeftRunning, Done, OwnerPC, Reason, Code, SupAlive, KidAlive
<1>1. CASE NothingToRun
  <2>1. CASE owner' = "returned" /\ result' = [reason |-> "none", code |-> "zero", final |-> TRUE]
    BY <1>1, <2>1 DEF NothingToRun, osVars
  <2>2. CASE owner' = "raised" /\ result' = [reason |-> "raised", code |-> "none", final |-> TRUE]
    BY <1>1, <2>2 DEF NothingToRun, osVars
  <2> QED
    BY <1>1, <2>1, <2>2 DEF NothingToRun
<1>2. CASE StartSupervised
    BY <1>2 DEF StartSupervised
<1>3. CASE LoopHead
    BY <1>3 DEF LoopHead, TermGroup, First, osVars
<1>4. CASE ReadLaunch
  <2>1. CASE status \in {"silent", "eof"}
    BY <1>4, <2>1 DEF ReadLaunch, osVars
  <2>2. CASE status = "fault"
    <3>1. Finish("launch", "none") /\ pending' = FALSE
      BY <1>4, <2>2 DEF ReadLaunch
    <3> QED
      BY <1>4, <2>2, <3>1, FinishWrites DEF ReadLaunch, osVars
  <2>3. CASE status = "hostFault"
    <3>1. Finish("raised", "none") /\ pending' = FALSE
      BY <1>4, <2>3 DEF ReadLaunch
    <3> QED
      BY <1>4, <2>3, <3>1, FinishWrites DEF ReadLaunch, osVars
  <2> QED
    BY <2>1, <2>2, <2>3
<1>5. CASE Communicate
  <2>1. CASE PipesClosed
    BY <1>5, <2>1, FinishWrites DEF Communicate, PipesClosed, osVars
  <2>2. CASE ~PipesClosed /\ sup = "ended"
    BY <1>5, <2>2 DEF Communicate, KillGroup
  <2>3. CASE ~PipesClosed /\ sup # "ended"
    BY <1>5, <2>3 DEF Communicate, osVars
  <2> QED
    BY <2>1, <2>2, <2>3
<1>6. CASE CollectAfterSupervisorEnded
    BY <1>6 DEF CollectAfterSupervisorEnded, Finish, osVars
<1>7. CASE TerminateEarly
    BY <1>7 DEF TerminateEarly, Finish, PipesClosed, KillGroup, osVars
<1>8. CASE KillOnExit
    BY <1>8 DEF KillOnExit, KillGroup
<1>9. CASE Interrupted
    BY <1>9 DEF Interrupted, Finish, osVars
<1>10. CASE OwnerDies
    BY <1>10 DEF OwnerDies, osVars
<1>11. CASE Supervisor
    BY <1>11 DEF Supervisor, Arm, LaunchCommand, ReportLaunchFailure, CloseStatus, EndLike, Watch, KillGroup
<1>12. CASE SupervisorDies
    BY <1>12 DEF SupervisorDies
<1>13. CASE Processes
    BY <1>13 DEF Processes, CommandEnds, CommandForks, KidEnds
<1>14. CASE StopRequested
    BY <1>14 DEF StopRequested, osVars
<1>15. CASE UNCHANGED vars
    BY <1>15 DEF vars
<1> QED
    BY <1>1, <1>2, <1>3, <1>4, <1>5, <1>6, <1>7, <1>8, <1>9, <1>10, <1>11, <1>12, <1>13, <1>14, <1>15 DEF Next, Owner

LEMMA IInvHolds == Spec => []IInv
BY InitIInv, NextIInv, PTL DEF Spec

\* Every variable of an execution keeps its type.
THEOREM ExecutionTypeCorrect == Spec => []TypeOK
<1>1. IInv => TypeOK
  BY DEF IInv
<1> QED
  BY <1>1, IInvHolds, PTL

\* On every path out of JobExecutionService.execute, supervisor, command and child
\* are gone, whatever was stopped, interrupted or killed before.
THEOREM NothingIsLeftRunning == Spec => []NothingLeftRunning
<1>1. IInv => NothingLeftRunning
  BY DEF IInv
<1> QED
  BY <1>1, IInvHolds, PTL

\* The result that execute() returns is what happened to the command.
THEOREM ResultIsTruthful == Spec => []ResultTruthful
<1>1. IInv => ResultTruthful
  BY DEF IInv, ResultMeans, ResultTruthful, Reason
<1> QED
  BY <1>1, IInvHolds, PTL
=============================================================================
