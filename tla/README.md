# Formal verification of AetherGrid

AetherGrid is a job orchestrator: users create jobs over an HTTP API, a control
loop schedules them on nodes, agents on the nodes execute them, and a
reconciliation pass repairs what failures leave behind. All shared state lives in
Postgres tables; every repository call is a transaction of its own, and `save()`
upserts the whole row that the caller holds in memory. There is no transaction
around a service, no row version and no `SELECT ... FOR UPDATE`. The protocol
therefore rests on three things: the order in which each service writes its tables, the lease
identity that fences a stale agent, and two conditional statements
(`delete_if_expired`, `renew`). These are what the modules model, what TLC
checks on small instances and what TLAPS proves.

## Inventory

| Component | State | Operations | Interacts with | Hard behaviour | Correct when |
|---|---|---|---|---|---|
| Job entity (`app/domain/entities/job.py`) | status, node, retry_count, started/completed, cancellation request | queue, assign_to, unschedule, start, complete, fail, cancel, request_cancellation, confirm_cancelled, retry, reclaim | every service | long legal call sequences; retry accounting over three paths back to the queue | budget kept, attempts independent, outcomes final |
| Worker, Node, Lease entities | worker status and job; available capacity, draining; identity and expiry of a lease | ready, accept, recover, offline, heartbeat; allocate, release, drain; create, renew, is_expired | services below | capped release hides double releases | capacity exact, worker and lease agree |
| Postgres repositories | the tables nodes, jobs, workers, leases | whole-row upserts, inserts under UNIQUE(job_id), UNIQUE(worker_id), conditional delete and update | all services | lost updates | conditional statements decide on current rows |
| Scheduler loop, worker assignment, lease acquisition | rows read at the start of the tick | list nodes, list queued jobs, allocate and save node, save job, find worker, acquire lease, save worker; undo on refusal | agents poll the worker row it writes; users cancel the jobs it holds | exceptions in the middle of four writes | no stranded job, no leaked unit |
| Reconciliation: dead workers, expired leases, offline nodes | listed rows | mark offline; delete lease, recover worker, release node, reclaim job | races reports, renewals, heartbeats | works from lists that age | never takes a valid lease; every job ends |
| Agent protocol on the server: register, poll, start, renew, report, heartbeat | rows read by the handler | read, change in memory, save in a fixed order | control loop, user calls | lost responses, repeated reports, restarts | a late report changes nothing |
| Standalone agent (`scripts/run_agent.py`) | job, lease id, cancel and lost-lease events, outcome | main, renewal and heartbeat threads | HTTP API | three threads; death while it polls, runs or reports | gives up when its lease is gone |
| User and operator calls | one row | create, cancel, retry, drain | control loop, agents | read-modify-write against everyone else | an answered call is not undone |
| Control loop process (`app/presentation/api.py`) | leadership, phase of the tick | tick: schedule, execute in process, reconcile | all | crash between two statements | a crash loses nothing for ever |
| In-process execution (`worker_execution_loop.py`) | as an agent, inside the tick | run the jobs of DASHBOARD workers, renew in a thread | tick, reconciliation, the next leader | renewal thread that ends silently; takeover of a RUNNING job | a late result changes nothing; every job ends |
| Removal of offline nodes | - | test, delete with cascade | heartbeats, registration | check then delete | not modelled, see below |
| Scheduler leadership (`postgres_scheduler_leadership.py`) | advisory lock, its session, the connection | try_acquire, release | ticks of several processes | overlap after a lost connection or a shutdown | ticks overlap only across a failover; somebody always ticks |
| Subprocess execution and supervision (`job_execution_service.py`, `job_supervisor.py`) | process group, pipes, stop flags | start under a supervisor, wait, time out, cancel, give up, kill | agent threads, the operating system | timeout racing the exit; death of owner or supervisor; children that hold the pipes | nothing left running, no false result, always returns |
| Events | append-only table | record | all services | separated from the row it tells of by a crash | not modelled, see below |
| Rate limiter, authentication, API keys | token buckets; keys with tenant, scopes, issuer, revocation | consume; authenticate, mark used; issue, revoke, list | every request | clock read outside the lock; rows that age in a request | rate bounded in every window; revocation final; tenants walled off |
| Migrations (`app/infrastructure/migrations`) | `schema_migrations`, advisory lock | load, plan, apply, record; check at start-up | API processes, other releases | crash in a no-transaction migration; releases that disagree | applied once and in order; a running process stays covered |
| Resilient client (`integrations/resilient_client`) | circuit state, attempts of a call | call, retry, trip, probe | partner services; threads share the breaker | lost answers; an unlocked breaker | no side effect repeated, no failure misreported, breaker consistent |
| Queries, statistics, dashboard, SQLite and in-memory stand-ins, HTTP plumbing | none of their own | read | - | - | not modelled: projections, presentation, wiring |

## Modules

    JobEntity --- JobLifecycle                      one job, as its entity allows
        |              ^
        |              | implements (INSTANCE ... WITH job <- a row)
    Entities --- Store --+-- ControlLoop --+
                         +-- AgentApi -----+-- Cluster
                         +-- UserApi ------+
                         +-- WorkerLoop ---+-- InProcess (EXTENDS ControlLoop, UserApi, WorkerLoop)
                               |
    Leadership ----------------+                    whose loop ticks
    JobEntityProofs (EXTENDS JobEntity) --+-- JobLifecycleProofs (EXTENDS JobLifecycle)
                                          +-- ClusterProofs (EXTENDS Cluster)
    InProcess --- InProcessProofs
    Execution --- ExecutionProofs                   one command and its processes
    ResilientClient --- ResilientClientProofs       threads sharing one client
    RateLimiter                                     token buckets
        +---------- Access --- MCAccess             requests to the /api-keys routes
                       +------ AccessProofs
    Migrations --- MCMigrations                     runners and starting API processes
        |  implements SchemaHistory
        +---------- MigrationsProofs

* **JobEntity** - the row of a job and one operator per command of `Job`, each with
  its guard (`CanMoveTo` is the lookup in `_ALLOWED_TRANSITIONS`, `CanRetry` the
  budget). Times are kept as "set or not": the code compares no timestamps of a job.
* **JobLifecycle** - the abstract specification of a job: any command, whenever the
  entity accepts it. `queue()` is narrowed to a new job, its only caller being
  `CreateJobService`.
* **Entities** - Worker, Node and Lease. `Conclude` stands for `complete`, `fail`
  and `cancel_job`, which leave the worker alike. A worker is named by
  its node, since registration looks the worker up by the node. A job asks for
  one unit and a node has `Capacity` units.
* **Store** - the tables and the statements on them, one operator per repository
  call, and the passage of time: a lease or a heartbeat may become too old at
  any moment. A lease identity is the pair of job and attempt number, fresh at
  every grant as a `uuid4` is.
* **ControlLoop** - the leader's tick. `cpc` is the next statement, `c` the Python
  objects held. Every read and every write of `SchedulerLoopService`,
  `AssignWorkerService`, `AcquireLeaseService`, `MarkDeadWorkersService`,
  `RecoverExpiredLeaseService`, `RecoverOfflineNodeService` and `reclaim_job` is an action,
  in the code's order; an escaping exception ends its phase.
* **AgentApi** - per node, the three threads of `run_agent.py` and the handlers they
  call. A response may be lost after the handler did its work.
* **UserApi** - create, cancel, retry and drain: a read action and a save action.
* **Cluster** - everything over one set of tables, plus death of agents and
  crashes of the API process. The constants choose what happens: `Scenarios` the calls and
  events of the environment (a behaviour picks one of the sets), `MaxCrashes` the
  crashes. Statements of all services interleave, as in the code. Two history variables say what the code
  cannot see: `missed[t]` are the rows that others saved since thread `t` read them, and `overwritten` says
  that a service has saved a row it had missed a version of, which is a lost update. Nothing in the model prevents one.
  The properties about whole rows (`Ownership`, `CapacityExact`, `AttemptsPaid`, `RowFollowsLifecycle`,
  `JobSettles`) say what the services keep up to the first lost update; the violation runs show what one does; the
  lease protocol (`LateReportWritesNothing`, `LiveLeaseNotReclaimed`, `LeaseNeverRevived`) holds whatever is lost.

* **Execution** - `ExecutionEnds` of AgentApi looked at from the inside: the owner in
  `JobExecutionService.execute`, the supervisor, the command, and a child that may
  hold the output pipes or be detached. One action per turn of the wait loop and per
  step of `job_supervisor.main`. Signals and pipes behave as the operating system's: SIGTERM ends what
  does not catch it, SIGKILL ends the group, `communicate()` returns when the
  supervisor has ended and nobody holds the pipes. The owner may be interrupted or die,
  or the supervisor be killed alone, at any moment.
* **ResilientClient** - `_request` per caller, one action per way an attempt can
  go, and `CircuitBreaker` shared by all of them. The README of the client recommends
  one client for the life of the process and a thread pool, and the breaker
  has no lock, so its methods are cut into steps where CPython (3.11, 3.12) may
  switch threads: at their calls. `acted` counts, for each call, how often the partner acted on it, which the
  client cannot see.

* **Leadership** - who ticks: for each API process its asyncio loop, the thread that
  runs a phase, and the connection that carries the advisory lock; and the session of the
  database that really holds it. The two sides of a connection notice its end
  separately: a process pings before each tick (`_still_connected`), the database ends a
  session when it finds its client gone (`SessionEnds`). `Shutdown` is
  `lifespan` cancelling the task: the `finally` of `_run_cluster_loop` releases the lock while
  `asyncio.to_thread` lets the phase in its thread run to the end.
* **WorkerLoop** - the part of `ClusterTickService` after scheduling:
  `WorkerExecutionLoop.execute` for each worker without an agent, one action per statement, and
  `keep_lease_alive` as a thread of its own, which ends without a word on `NoActiveLeaseError`.
* **InProcess** - Leadership, ControlLoop, WorkerLoop and UserApi over one set of
  tables. Statements of executions interleave with everything, and a process may be killed at any statement
  (`torn` records a kill between the writes of one service); `JobExecutionService.execute` may raise, which
  ends the visit with the job RUNNING under its lease. Scheduling passes and
  reconciliations of two processes exclude each other (`driver`), which the code does not ensure after a failover: a
  command is what a tick spends its time on and where a failover usually finds it.
* **Migrations** - runners (`python -m app.infrastructure.migrations`) of several
  releases and API processes that run `check_schema`. A release is a set of files; a file is a
  version, a text (its checksum) and whether it runs in a transaction. Lock and statements share a
  connection, so losing it and losing the lock are one event (`Crash`). `ran` and `lost`
  are history: what SQL was committed, and which commits lost their row to a death.
* **SchemaHistory** - what `schema_migrations` promises: it gains the next version, and
  nothing else ever happens to it.
* **RateLimiter** - `check()` in the two steps other threads can separate: read the clock,
  take the lock. The unit is what a bucket gains in one tick of the clock, so
  `elapsed * refill_rate` is an integer.
* **Access** - a request to an /api-keys route: authenticate, mark the key used, the two
  steps of the limiter, then the handler, one step per statement; and the bootstrap script. The request
  keeps the key row it authenticated with.

What the abstraction of the cluster leaves out: priorities and best fit (any queued job, any node with
room), tenants and labels, resource vectors, the events table (append-only,
read by no service), log output, exit codes. Rows are never deleted in this model, so the branches for a
missing job, worker or node are not reached; they belong to the removal of nodes.
The initial heartbeats of an agent are those of its heartbeat thread.
`last_seen_at` is kept out of the rows: writing an older time back can only make
a heartbeat stale sooner, which the model allows at any moment.

## Runs

Every run uses the definitions of the modules as they stand; the configurations
only give the constants values.

Passing:

* `job_lifecycle` - one job, three nodes, four retries: every order of commands.
* `no_lost_update` - one node, one job, one retry, every interleaving of statements, with the events in four
  groups. States after a lost update, where all four properties hold by their premise, are not explored (`NothingLost`). Up to the first lost update: the budget and its price (`AttemptsPaid`), and the refinement, each save of the job row
  being a command of `JobLifecycle` on the row as it is (`RowFollowsLifecycle`); both also when the API process dies between
  any two statements. As long as it has not died, and whenever no service is half done: leases, workers and jobs agree on who holds
  what (`Ownership`), and no unit of capacity is lost or returned twice (`CapacityExact`). What a crash leaves
  behind is not repaired (`crash_strands`), so these two speak of a system without one.
* `settles` - liveness under `FairSpec`, one node, one job: every created job ends, with agents dying, responses and
  leases lost and cancellations, if no update is lost. No crash of the API process and no stale heartbeat.
* `interleaved` - lost updates included, in four groups of events: the tick against the agent's
  three threads with its deaths, against deaths and a stale heartbeat of the node, against cancel and deaths, and against retry and drain. The fence
  holds (`LateReportWritesNothing`), reconciliation never takes a valid lease
  (`LiveLeaseNotReclaimed`), no identity comes back (`LeaseNeverRevived`), and the rows keep their shapes, the
  bounds of a node's capacity among them (`TypeOK`).
* `in_process` - two API processes, one job, one fault (shutdown, kill at any statement, lost connection, or a
  host that refuses to run the command): ticks overlap only across a failover
  (`OverlapNeedsFailover`), a result that comes after its lease stops at the fence
  (`LateResultWritesNothing`), and the tick is taken over and reconciliation runs again and again
  (`TickGoesOn`). The job ends (`JobSettles`), also when the successor finds it RUNNING or CANCELLING, unless one of
  three things that can strand it happens: ticks that overlap, a user call that saves a row which has changed since, or a kill
  between the writes of one service. Without any one of the three conditions TLC finds a stranded job. Heartbeats
  of nodes do not lapse in this run.
* `migrations` - two runners, two deaths, five releases (three that follow each other, one
  with an edited file, one with a gap): `AppliedOnceInOrder`, `RecordedHasRun`, `AppCovered`,
  the refinement `HistoryOnlyGrows`, and `Finishes`.
* `access` - two threads, three keys, two tenants, three requests: `RevocationStands`,
  `RevokedKeyShutOut`, `TenantWalled`, and the limiter's `WindowBound`.
* `execution` - one command, at most one child, at most one fault: nothing is left
  running (`NothingLeftRunning`), the result is what happened (`ResultTruthful`), a job ends with
  its command (`EndsWithCommand`), every stop request ends it (`StopIsHeeded`), and a command does not
  outlive its owner (`OwnerDeathEndsCommand`).
* `resilient_client` - two threads, two attempts, threshold two: replay safety (`AtMostOnce`), honest
  failures (`KnownFailureDidNothing`), and the breaker under every thread switch
  (`BreakerSettled`). The mutant of the last one, a test for equality with the threshold, is
  wrong only when two threads count before either of them judges.

Violations, each a statement of the repository that the code does not keep
(details under `findings` in `PROJECT.json`):

* `outcome_overwritten` - a tick saves SCHEDULED over a cancellation that was answered.
* `crash_strands` - a crash between saving the job and granting its lease leaves a
  job no pass ever visits.
* `lease_conflict` - a heartbeat saves the whole worker row it read (`worker_heartbeat_service.py:50`) and puts
  a worker that has just been assigned a job back to IDLE; the next assignment meets `leases_worker_id_key`, the
  race that the comment in `worker_execution_loop.py:288-297` sets out to avoid.

Seen while modelling and not a run:

* ADR 0078 says of the tick that "Only one runs the tick at a time, including during a rolling
  deploy". A clean shutdown in the middle of a tick releases the lock while the thread of the
  tick goes on, so the new process ticks beside it. The "Not Claimed" section of the ADR admits a
  failover; `OverlapNeedsFailover` states what does hold.
* Two such overlapping ticks and an expired lease can strand a job: the old leader's
  `persist_job_started` writes RUNNING over the QUEUED row of the reclaimed job. `JobSettles` of `InProcess` therefore
  assumes that ticks do not overlap. The same goes for a user's call that saves
  a stale row (`outcome_overwritten`).
* The in-process loop records the outcome event before the fenced release that may refuse
  the outcome (`worker_execution_loop.py:257-310`): the history then tells of a completion that was dropped.
* A request of a key that is revoked after it was authenticated still acts. Two
  requests that revoke one key both succeed, and `save()` may write an older `last_used_at` back.
* The path of `authorize_key_revocation` for the issuer of a key never decides: who issued a key
  holds keys:manage.

* `ReleaseLeaseService` checks the identity of the lease and deletes by job id in two
  transactions (`release_lease_service.py:133`): a lease that expired after the check and was granted
  again is deleted in place of the old one.
* POST /workers saves the worker twice (`create_worker_service.py`, then
  `register_worker_service.py:33`): an assignment between the saves is undone while its lease stays.
* `confirm_cancelled()` says it is "Only legal from CANCELLING" (`job.py:333`), while the
  transition table accepts it from QUEUED and SCHEDULED as well; no caller
  reaches it there.
* A half-open circuit lets every caller through, not "one trial call"
  (`resilient_api_client.py:153`); a success between the decision to trip and the trip leaves the
  circuit OPEN with no failure counted; the `state` property can meet `None`
  in a subtraction when another thread succeeds. A 501 or 507 is a `ClientError` without `outcome_unknown`.

### Bounds

`MaxRetries` 1 makes both ends of the budget happen: a paid return to the
queue and the refusal of the next. `MaxAttempts`, the cap on leases of one job, is
above `MaxRetries + 1` wherever the price of an attempt is checked, so the cap
never hides a free attempt; with free interleaving it is 2, the least that lets a
lease be outlived by its successor. `Capacity` 2 leaves room for a second
job on the node while the worker is busy, which is what makes an assignment be
refused. One node is enough for the races on worker, lease and node rows, which
all concern one worker; two jobs are needed for a second assignment to meet the lease of the
first (`lease_conflict`). That an attempt follows another on a different node, and that two jobs compete where
no update is lost, is not checked by a run: `AttemptsArePaid`, `RowsFollowLifecycle` and the theorems about leases
cover any number of nodes and jobs, `Ownership`, `CapacityExact` and `JobSettles` are known for one of each. One crash is
enough: recovery keeps no state across crashes but the tables. The events of the environment are taken in groups
(`Scenarios`) to keep the state space within minutes, deaths of the agent being in nearly all of them.

`execution` has no bound but one child and one fault: its state space is whole.
Two faults are left out because the design gives the supervisor the watch over
the owner (ADR 0080): when it is killed alone and the owner dies next, nobody is left to kill the
command. In `resilient_client` the threshold 2 needs two failed calls to
trip, and three calls a caller suffice for open, probe, and close or reopen; two
attempts give a first and a last one. Two threads are enough for two steps of one
method to be separated by a whole call of another; `ResilientClientProofs` covers
any number of them.

In `in_process` one fault is what a failover is; a second one would only repeat it on the process
that is left, which is kept (`Replaceable`) so that somebody can take over. Two leases
(`MaxAttempts`) let a result outlive its lease. With one job, no assignment meets a
leftover lease, so the branch of `Schedule` for a pass that fails (`ScheduleFails`) is not taken there;
the proofs of `InProcessProofs` cover it. In `migrations` two deaths let both runners lose a
no-transaction migration; three versions give a prefix, a successor and a gap. In `access` three
requests suffice for one to be overtaken by another that revokes its key or that a third one issued; a
full bucket of one token and a clock of two values make readings arrive in the wrong
order, and `AccessProofs` covers every size. Keys, threads and tenants of `access` are
interchangeable and the run uses that symmetry; it checks no liveness. The other runs use none.

### Fairness

`FairSpec` assumes what the deployment schedules. The control loop ticks for ever
(`_run_cluster_loop` is `while True` with exceptions caught) and an agent polls for
ever (`main` loops; its supervisor restarts it). Fairness of the agent's main
thread is strong because `run_job` joins the renewal thread after the
execution, which ends by its timeout; of everything else it is weak. A service that has begun goes on, and a lease that is
not renewed expires. Users, heartbeats and crashes are free: nothing is assumed of
them. `MaxCrashes` bounds the crashes in `crash_strands`, so its counterexample is a
behaviour with one crash and fair continuation.

In `Execution`, `FairSpec` lets the owner's loop and a living supervisor go on, which is the
scheduler of the operating system. Of the command, its child and the three
stop flags nothing is assumed, not even that the timeout comes: `EndsWithCommand`
must not need it.

In `InProcess`, a loop that was not cancelled asks for the lock again after its sleep, and gets it if it is
free infinitely often (strong: another process may be first); a phase that has begun goes on, a
command ends by its timeout, a lease that is not renewed expires, and Postgres ends the session
of a lost client (the `keepalives` settings of the lock's connection). Nothing is assumed of users, of shutdowns or of crashes. In
`Migrations` a runner that was started goes on; nobody has to start one, and the lock need not
ever be free, which is what the deadline is for.

## Proofs

`JobEntityProofs` has one lemma per command: what it does to a row, and that the
result is a row. `JobLifecycleProofs` proves, for every set of nodes and every
`max_retries`, from `NodeAssumption` (None is no node) and `MaxRetriesAssumption`:

* `TypeCorrect`: `Spec => []TypeOK`;
* `BudgetKept`: `Spec => []RetryBudget`;
* `AttemptsAreClean`: `Spec => []AttemptClean`;
* `FinalAndPaidHolds`: `Spec => FinalAndPaid`, an action property.

The inductive invariant is `IInv == TypeOK /\ RetryBudget /\ AttemptClean /\ NotStartedYet`.
The last conjunct is the strengthening: a SCHEDULED job has no start time. Without it the free
return of `unschedule()` could not be told from the paid one of `reclaim()`.
`NextIInv` goes through `Next` command by command with the lemmas, and shows
invariance and the paid step at once.

`ResilientClientProofs` proves, for every number of threads and calls, every
`max_attempts` and `failure_threshold` that `_validate_config` admits (`ConfigAssumption`):

* `ClientTypeCorrect`: `Spec => []TypeOK`, with no attempt beyond `max_attempts`;
* `ReplaySafe`: `Spec => []AtMostOnce`;
* `KnownFailures`: `Spec => []KnownFailureDidNothing`;
* `BreakerSettles`: `Spec => []BreakerSettled`.

Its invariant has two parts. `CallOK` holds of every call by itself: an unsafe call
that is under way has had no effect, unless it was given up with `outcome_unknown`; so
`PutKeeps` reduces a step to the one record it changes. `Heeded` and `Stamped`
name who is responsible while the breaker is in disorder: if the count has reached the threshold and the
circuit is closed, some thread inside `on_failure` is still to judge or to trip; if
the circuit is open without a time, some thread is about to set it. `BystanderKeeps`
and `HeedPassedOn` say that no step of a thread takes the duty from another and how it
hands on its own.

`ClusterProofs` is about the cluster, for every number of nodes, jobs,
retries, leases, crashes and calls, and every interleaving of the statements of all services. Whatever updates are lost:

* `ClusterTypeCorrect`: `Spec => []TypeOK`, the bounds of a node's capacity among them;
* `LateReportsAreFenced`: `Spec => []LateReportWritesNothing`;
* `LeasesAreNotRevived`: `Spec => LeaseNeverRevived`;
* `LiveLeasesAreKept`: `Spec => LiveLeaseNotReclaimed`.

The fence compares identities, so the invariant is about who may hold one. `IdsGranted`: every identity in the
leases table or in an agent's memory was granted before, so that the next grant of a job gets a number nobody
holds. `LateStops`: a report that began after its lease was gone is still at the fence, and the lease still
gone. `GoneFirst`: `RecoverOfflineNodeService` deletes without a test of the expiry only where it has found
no lease of the job, and nobody but the control loop itself can have granted one since. `LeaseStep` is
all that a step can do to the leases: nothing, remove, renew or expire some, or grant the next one of a job; every action is
shown to make such a step once (`SchedulerKeeps`, `ExpiredKeeps`, `ReportKeeps`, ...), and the three conjuncts are
then preserved by the step and not by the action. `ControlAim` and `AgentAim` say what a program counter implies about the objects in
hand; types need them. The rows that services write are those of `JobEntityProofs`.

Up to the first lost update, which the two properties state themselves:

* `AttemptsArePaid`: `Spec => []AttemptsPaid`;
* `RowsFollowLifecycle`: `Spec => RowFollowsLifecycle`, the refinement of `JobLifecycle` (for `Job` not empty).

The invariant `FInv` says why. `LoopFresh`, `HandlerFresh` and `CallFresh`: the job row that a service holds is the row of
the table, or a command applied to it, unless the service has missed a version (`Lost`); `RecoverOfflineNodeService` is the
exception that lists all rows first, and may hold a row that it has itself reclaimed meanwhile for another worker of the list. So a
save that overwrites nothing is a command on the row as it is now, however many statements lie between the read and the save.
`LoopStands`, `HandlerStands` and `CallStands` carry this through the steps of all other threads: either they leave the row alone, or
the row is missed from then on. `AllPaid` strengthens `AttemptsPaid` by: a job in the queue has paid for its next lease. `unschedule()`
brings a job back to the queue for free, so a job between its assignment and its lease is counted as if it had the lease (`Due`).
`PaidCommands` shows `Paid` of every other command from the lemmas of `JobEntityProofs`, and `NextFresh` shows
invariance and the step of `JobLifecycle` at once. A crash forgets what the services held and leaves `FInv` alone.

`InProcessProofs` proves, for any number of processes, nodes and jobs,

* `TicksOverlapOnlyInFailover`: `Spec => []OverlapNeedsFailover`;
* `LateResultsAreFenced`: `Spec => []LateResultWritesNothing`, overlapping ticks included.

For the first, `StepLeads` shows that every step of `InProcess` is a step of
`Leadership` or leaves its variables alone; `LockHeldAlways` is the invariant that a ticking process which
has not parted holds the lock. For the second, `FInv` says of the leases and executions what `IdsGranted` and `LateStops` say
of agents in `ClusterProofs`; two processes that tick at once cannot give one identity to two leases, because the
insertion takes the number and the lease in one statement.

`ExecutionProofs` proves `ExecutionTypeCorrect`, `NothingIsLeftRunning` (`Spec => []NothingLeftRunning`) and
`ResultIsTruthful` (`Spec => []ResultTruthful`) for any set of faults the model admits. A result is
written long after the fact it tells of, so the invariant says what each process knows on the way: `StatusMeans`
what a launch failure on the status pipe means while the owner has not read it, `CodeMeans` the same of the
supervisor's exit code, `ReasonGiven` that an early termination has a reason that was given, and `ResultMeans` that
what was written cannot become false.

`MigrationsProofs` proves, for every set of releases (`FilesAssumption`), any number of runners, API
processes and deaths:

* `CoveredForLife`: `Spec => []AppCovered`;
* `HistoryGrows`: `Spec => HistoryOnlyGrows`, the refinement of `SchemaHistory`;
* `MigrationsTypeOK`: `Spec => []TypeOK`;
* `EachAppliedOnce`: `Spec => []AppliedOnceInOrder`;
* `HistoryIsTrue`: `Spec => []RecordedHasRun`.

The inductive invariant is `IInv == TypeOK /\ Exclusive /\ NoHole /\ PendingExact /\ AppCovered`: only the
holder of the lock is past taking it; the recorded versions are 1..n; and the pending versions of a runner at work are
exactly those of its release above n, because nobody else records while it holds the lock. The last two theorems
need `HInv` on top of it, about the SQL that was committed: a version that is neither recorded nor about to
be has run only as often as a death lost it (`Unapplied`), and the runner about to record ran its file last (`JustRun`).

`AccessProofs` proves, for any keys, tenants, threads and requests,

* `LimiterRateIsBounded`: `LimiterSpec => []WindowBound`, for every window, capacity and cost;
* `RequestsUseTheLimiter`: `Spec => LimiterSpec`, and with it `RateIsBounded`: `Spec => []WindowBound`;
* `RevocationIsFinal`: `Spec => RevocationStands`;
* `RevokedKeysShutOut`: `Spec => []RevokedKeyShutOut`;
* `TenantsAreWalled`: `Spec => []TenantWalled`.

The strengthening for the limiter is
`Conserved`: from the first grant in the window on, `tokens - last_refilled_at + spent <= Full -
WindowStart`. A refill leaves the left side alone or lowers it (the cap), a grant moves its cost from
`tokens` to `spent`; moving `last_refilled_at` back with negative elapsed time is harmless because the
two changes cancel. For the requests, `Held` says at each step of a request how the row it read earlier agrees with the
table as it is now: all but its revocation. It stays true because rows only gain a revocation (`KeepsRows`, `HeldStays`),
so each action is looked at for its own request only. `OneLevel` (a key that was issued was issued by a
managing key of its tenant, and issues none) and `RightfullyRevoked` carry the right to act from the moment it
was judged to the moment the row is saved.

Only model-checked: `Ownership` and `CapacityExact`, on one node and one job, and liveness (`JobSettles`, `TickGoesOn`, `Finishes` and
the three temporal properties of `Execution`), which is out of TLAPS's reach.

## Not modelled

* Removal of offline nodes. `DELETE FROM nodes` takes workers and leases with it and clears
  `assigned_node_id`; after it, every save of a row that was read before either fails on a foreign key
  or brings the node back. Each statement of `Store` would have these outcomes, in every service. By
  reading: a job that the removed node was running keeps its status and no pass visits it.
* A second worker for one node (two registrations at once), because a worker is named by its node.
* Events: append-only, and no service reads them back.
* Node selection beyond "a node with room": tenant, labels and best fit only narrow the choice.
* The clocks of the agent (trust window, back-off): a renewal may give up at any moment. Its client's timeout of 10 s
  (`run_agent.py:117`) loses a response in the model and does not leave the first handler running beside a second
  one; for the same reason the agent dies only when the server works on none of its requests.
* The SELECTs of one read. `_to_entity` of the worker repository reads the worker, its node and its job one after the
  other; `VisitWorker`, `OffList`, `RegisterReadWorker`, `StartRead`, `ReportRead` and `RenewRead` read them in one step.
* A job that must end although the heartbeat of its node lapses: no liveness run has a stale node.
* In `Leadership`, a cancellation that overtakes the thread in which `try_acquire` runs; in
  `InProcess`, scheduling and reconciliation passes of two processes interleaved with each other.
* Queries, statistics, the dashboard, logging, `scripts/upgrade_rehearsal.py` (a test tool), and the SQLite and
  in-memory repositories, which serve one process.

## Plan

1. *(done)* JobEntity, JobLifecycle, Entities, Store, ControlLoop, AgentApi,
   UserApi, Cluster, Execution, ResilientClient; their runs; the theorems about one job
   and about the client.
2. *(done)* Migrations, RateLimiter, Access, Leadership, WorkerLoop, InProcess; their runs;
   the theorems about migrations, the limiter and leadership. Runs are kept few: a new question
   replaces a run it subsumes.
3. *(done)* The theorems about Access, Execution, what has run in Migrations, the lease fence of
   Cluster and InProcess, and of Cluster type correctness, the price of attempts and the refinement of `JobLifecycle`.
4. *(open)* `Ownership` and `CapacityExact` as theorems up to the first lost update; liveness with a stale node.
