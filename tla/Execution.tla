----------------------------- MODULE Execution -----------------------------
(***************************************************************************)
(* One execution of a command: JobExecutionService.execute in the owner     *)
(* (an agent, or the API process), the supervisor it starts                 *)
(* (job_supervisor.py), the command the supervisor starts, and a child that *)
(* the command may leave behind.  The last three form one process group.    *)
(* Signals, pipes and exit codes are the operating system's.                *)
(*                                                                          *)
(* The child either holds the output pipes or is detached from them.  At    *)
(* most one fault strikes: the owner dies, or the supervisor is killed      *)
(* alone.  The owner's threads, a clock and the fleet set the three stop    *)
(* flags at any moment.                                                     *)
(***************************************************************************)
VARIABLES owner,      \* place of execute()
          reason,     \* why _terminate_early was called, or "none"
          result,     \* JobExecutionResult: its reason and exit code
          pending,    \* launch_pending
          sup, supCode,   \* the supervisor and its exit code
          cmd, cmdCode,   \* the command and its exit code
          kid,        \* the child the command leaves behind
          status,     \* what the status pipe holds
          stops,      \* the stop flags that are set
          fault       \* "none", or which process died

vars == <<owner, reason, result, pending, sup, supCode, cmd, cmdCode, kid,
          status, stops, fault>>
osVars == <<sup, supCode, cmd, cmdCode, kid>>

Done == {"returned", "raised"}
OwnerPC == {"start", "loop", "launch", "wait", "grace", "collect", "close"} \cup Done \cup {"dead"}
Reason == {"timed_out", "lease_lost", "cancelled"}
Code == {"none", "zero", "nonzero", "term", "kill"}
SupAlive == {"booting", "armed", "started", "launched", "faulted"}
KidAlive == {"holding", "detached"}
NoResult == [reason |-> "none", code |-> "none", final |-> FALSE]

TypeOK ==
    /\ owner \in OwnerPC
    /\ reason \in Reason \cup {"none"}
    /\ result \in [reason : Reason \cup {"none", "launch", "raised"}, code : Code, final : BOOLEAN]
    /\ pending \in BOOLEAN
    /\ sup \in SupAlive \cup {"none", "ended"} /\ supCode \in Code
    /\ cmd \in {"none", "running", "ended"} /\ cmdCode \in Code
    /\ kid \in KidAlive \cup {"none", "ended"}
    /\ status \in {"silent", "eof", "fault", "hostFault"}
    /\ stops \in SUBSET Reason
    /\ fault \in {"none", "owner", "supervisor"}

Init ==
    /\ owner = "start" /\ reason = "none" /\ result = NoResult /\ pending = TRUE
    /\ sup = "none" /\ supCode = "none" /\ cmd = "none" /\ cmdCode = "none"
    /\ kid = "none" /\ status = "silent" /\ stops = {} /\ fault = "none"
-----------------------------------------------------------------------------
(* Signals to the group *)

\* SIGKILL ends every member; the status pipe closes with the supervisor.
KillGroup ==
    /\ sup' = IF sup \in SupAlive THEN "ended" ELSE sup
    /\ supCode' = IF sup \in SupAlive THEN "kill" ELSE supCode
    /\ cmd' = IF cmd = "running" THEN "ended" ELSE cmd
    /\ cmdCode' = IF cmd = "running" THEN "kill" ELSE cmdCode
    /\ kid' = IF kid \in KidAlive THEN "ended" ELSE kid
    /\ status' = IF status = "silent" THEN "eof" ELSE status

\* SIGTERM ends a supervisor that has no handler yet, and whichever of the
\* command and its child do not catch it.
TermGroup ==
    /\ IF sup = "booting"
       THEN sup' = "ended" /\ supCode' = "term" /\ status' = "eof"
       ELSE UNCHANGED <<sup, supCode, status>>
    /\ \/ UNCHANGED <<cmd, cmdCode>>
       \/ cmd = "running" /\ cmd' = "ended" /\ cmdCode' = "term"
    /\ \/ UNCHANGED kid
       \/ kid \in KidAlive /\ kid' = "ended"

\* communicate() returns when nobody holds the output pipes any more.
PipesClosed == sup = "ended" /\ cmd # "running" /\ kid # "holding"
-----------------------------------------------------------------------------
(* The owner: JobExecutionService.execute *)

\* No command: success at once.  Popen fails: a fault of the host, raised.
NothingToRun ==
    /\ owner = "start"
    /\ \/ owner' = "returned" /\ result' = [reason |-> "none", code |-> "zero", final |-> TRUE]
       \/ owner' = "raised" /\ result' = [reason |-> "raised", code |-> "none", final |-> TRUE]
    /\ UNCHANGED <<reason, pending, osVars, status, stops, fault>>

StartSupervised ==
    /\ owner = "start"
    /\ owner' = "loop" /\ sup' = "booting"
    /\ UNCHANGED <<reason, result, pending, supCode, cmd, cmdCode, kid, status, stops, fault>>

\* Mutant: one flag "we killed it" for all three reasons.
MutFirst(s) == "killed"
\* The head of the loop: timeout, then a lost lease, then a cancellation.
First(s) == CASE "timed_out" \in s -> "timed_out"
              [] "timed_out" \notin s /\ "lease_lost" \in s -> "lease_lost"
              [] OTHER -> "cancelled"
LoopHead ==
    /\ owner = "loop"
    /\ IF stops = {}
       THEN /\ owner' = IF pending THEN "launch" ELSE "wait"
            /\ UNCHANGED <<reason, osVars, status>>
       ELSE /\ owner' = "grace" /\ reason' = First(stops)
            /\ TermGroup
    /\ UNCHANGED <<result, pending, stops, fault>>

Finish(why, code) ==
    /\ owner' = "close"
    /\ result' = [reason |-> why, code |-> code, final |-> TRUE]

\* _read_launch_failure: silence until the poll interval is over, a command
\* that runs (or a report cut short), or why it could not be started.
ReadLaunch ==
    /\ owner = "launch"
    /\ pending' = (status = "silent")
    /\ \/ status \in {"silent", "eof"} /\ owner' = "loop" /\ UNCHANGED result
       \/ status = "fault" /\ Finish("launch", "none")
       \/ status = "hostFault" /\ Finish("raised", "none")
    /\ UNCHANGED <<reason, osVars, status, stops, fault>>

\* Mutant: as before ADR 0083, only the pipes tell that the job is over.
MutCommunicate ==
    /\ owner = "wait"
    /\ IF PipesClosed THEN Finish("none", supCode) ELSE owner' = "loop" /\ UNCHANGED result
    /\ UNCHANGED <<reason, pending, osVars, status, stops, fault>>
\* communicate() for one poll interval; if it ran out, did the supervisor end?
Communicate ==
    /\ owner = "wait"
    /\ IF PipesClosed
       THEN Finish("none", supCode) /\ UNCHANGED <<osVars, status>>
       ELSE /\ UNCHANGED result
            /\ IF sup = "ended" THEN owner' = "collect" /\ KillGroup
                                ELSE owner' = "loop" /\ UNCHANGED <<osVars, status>>
    /\ UNCHANGED <<reason, pending, stops, fault>>

CollectAfterSupervisorEnded ==
    /\ owner = "collect"
    /\ Finish("none", supCode)
    /\ UNCHANGED <<reason, pending, osVars, status, stops, fault>>

\* Mutant: the grace period has no end, SIGTERM is trusted.
MutTerminateEarly ==
    /\ owner = "grace" /\ PipesClosed
    /\ Finish(reason, supCode)
    /\ UNCHANGED <<reason, pending, osVars, status, stops, fault>>
\* _terminate_early after its SIGTERM: the pipes close within the grace period,
\* or SIGKILL follows.
TerminateEarly ==
    /\ owner = "grace"
    /\ \/ PipesClosed /\ UNCHANGED <<osVars, status>>
       \/ KillGroup
    /\ Finish(reason, supCode')
    /\ UNCHANGED <<reason, pending, stops, fault>>

\* Mutant: the group is not killed when the wait ends, as before ADR 0079.
MutKillOnExit ==
    /\ owner = "close"
    /\ owner' = IF result.reason = "raised" THEN "raised" ELSE "returned"
    /\ UNCHANGED <<reason, result, pending, osVars, status, stops, fault>>
\* _kill_the_group_on_exit, whatever ended the wait; then the pipes are closed.
KillOnExit ==
    /\ owner = "close"
    /\ KillGroup
    /\ owner' = IF result.reason = "raised" THEN "raised" ELSE "returned"
    /\ UNCHANGED <<reason, result, pending, stops, fault>>

\* An exception escapes the wait, a KeyboardInterrupt for one.
Interrupted ==
    /\ owner \in {"loop", "launch", "wait", "grace", "collect"}
    /\ Finish("raised", "none")
    /\ UNCHANGED <<reason, pending, osVars, status, stops, fault>>

\* The owner's process is killed: no handler of its own runs.
OwnerDies ==
    /\ owner \notin Done \cup {"start", "dead"} /\ fault = "none"
    /\ owner' = "dead" /\ fault' = "owner"
    /\ UNCHANGED <<reason, result, pending, osVars, status, stops>>

Owner == \/ StartSupervised \/ LoopHead \/ ReadLaunch \/ Communicate
         \/ CollectAfterSupervisorEnded \/ TerminateEarly \/ KillOnExit
-----------------------------------------------------------------------------
(* The supervisor: job_supervisor.main *)

\* The SIGTERM handler is installed and the watch thread started.
Arm ==
    /\ sup = "booting" /\ sup' = "armed"
    /\ UNCHANGED <<supCode, cmd, cmdCode, kid, status>>

LaunchCommand ==
    /\ sup = "armed" /\ sup' = "started"
    /\ cmd' = "running"
    /\ UNCHANGED <<supCode, cmdCode, kid, status>>

ReportLaunchFailure ==
    /\ sup = "armed" /\ sup' = "faulted"
    /\ status' \in {"fault", "hostFault"}
    /\ UNCHANGED <<supCode, cmd, cmdCode, kid>>

CloseStatus ==
    /\ sup = "started" /\ sup' = "launched"
    /\ status' = "eof"
    /\ UNCHANGED <<supCode, cmd, cmdCode, kid>>

\* Mutant: the supervisor reports its own success, not the command's end.
MutEndLike ==
    /\ \/ sup = "launched" /\ cmd = "ended" /\ supCode' = "zero"
       \/ sup = "faulted" /\ supCode' = "nonzero"
    /\ sup' = "ended"
    /\ UNCHANGED <<cmd, cmdCode, kid, status>>
\* _end_like: the command's exit code or signal; 127 if it never started.
EndLike ==
    /\ \/ sup = "launched" /\ cmd = "ended" /\ supCode' = cmdCode
       \/ sup = "faulted" /\ supCode' = "nonzero"
    /\ sup' = "ended"
    /\ UNCHANGED <<cmd, cmdCode, kid, status>>

\* Mutant: the owner is looked at once, before the command is started.
MutWatch ==
    /\ owner = "dead" /\ sup = "armed"
    /\ KillGroup
\* _watch: the owner's end of the pipe is closed, the group is killed.
Watch ==
    /\ owner = "dead" /\ sup \in SupAlive \ {"booting"}
    /\ KillGroup

Supervisor ==
    /\ Arm \/ LaunchCommand \/ ReportLaunchFailure \/ CloseStatus \/ EndLike \/ Watch
    /\ UNCHANGED <<owner, reason, result, pending, stops, fault>>

\* Somebody kills the supervisor alone: its pipe ends close, the command runs on.
SupervisorDies ==
    /\ sup \in SupAlive /\ fault = "none" /\ owner \notin Done
    /\ fault' = "supervisor" /\ sup' = "ended" /\ supCode' = "kill"
    /\ status' = IF status = "silent" THEN "eof" ELSE status
    /\ UNCHANGED <<owner, reason, result, pending, cmd, cmdCode, kid, stops>>
-----------------------------------------------------------------------------
(* The command and its child, and the events that stop an execution *)

CommandEnds ==
    /\ cmd = "running"
    /\ cmd' = "ended" /\ cmdCode' \in {"zero", "nonzero"}
    /\ UNCHANGED <<sup, supCode, kid>>
CommandForks ==
    /\ cmd = "running" /\ kid = "none"
    /\ kid' \in KidAlive
    /\ UNCHANGED <<sup, supCode, cmd, cmdCode>>
KidEnds ==
    /\ kid \in KidAlive /\ kid' = "ended"
    /\ UNCHANGED <<sup, supCode, cmd, cmdCode>>
Processes ==
    /\ CommandEnds \/ CommandForks \/ KidEnds
    /\ UNCHANGED <<owner, reason, result, pending, status, stops, fault>>

StopRequested ==
    /\ owner \notin Done \cup {"dead"}
    /\ \E s \in Reason \ stops : stops' = stops \cup {s}
    /\ UNCHANGED <<owner, reason, result, pending, osVars, status, fault>>

Next == \/ NothingToRun \/ Owner \/ Interrupted \/ OwnerDies
        \/ Supervisor \/ SupervisorDies
        \/ Processes \/ StopRequested

Spec == Init /\ [][Next]_vars

\* The owner's loop goes on and the supervisor, while it lives, acts.  Nothing
\* is assumed of the command, its child, or the stop flags, the clock's included.
FairSpec == Spec /\ WF_vars(Owner) /\ WF_vars(Supervisor)
-----------------------------------------------------------------------------
\* execute() leaves nothing running, on any path out of it: the command may
\* ignore SIGTERM, have left a child that does or does not hold the pipes, or
\* have lost its supervisor (ADR 0079, ADR 0083).
NothingLeftRunning ==
    owner \in Done => sup \notin SupAlive /\ cmd # "running" /\ kid \notin KidAlive

\* What execute() says is what happened: success only if the command ended with
\* exit code 0 by itself, a launch failure only if it never ran, and otherwise,
\* unless the supervisor was killed, the command's own code or signal.
ResultTruthful ==
    result.final /\ sup # "none" =>
        /\ result.reason = "none" /\ result.code = "zero" => cmdCode = "zero"
        /\ result.reason = "launch" => cmd = "none"
        /\ result.reason = "none" /\ cmd = "ended" /\ fault # "supervisor" =>
              result.code = cmdCode
        /\ result.reason \in Reason => result.reason \in stops

\* A job ends with its command: once the command has ended, execute() returns,
\* although a child may hold the pipes for ever and no timeout strikes
\* (ADR 0083: "the job ends within a poll interval of the supervisor ending").
EndsWithCommand == (cmd = "ended" /\ owner # "dead") ~> (owner \in Done \cup {"dead"})

\* A timeout, a cancellation or a lost lease ends the execution, even one whose
\* command ignores SIGTERM or whose supervisor stays silent.
StopIsHeeded == (stops # {} /\ owner # "start") ~> (owner \in Done \cup {"dead"})

\* When the owner dies, by any means and at any moment, the command does not
\* outlive it (ADR 0080: "there is no moment when the command runs and nothing
\* watches its owner").
OwnerDeathEndsCommand == owner = "dead" ~> [](cmd # "running")
=============================================================================
