----------------------------- MODULE Migrations -----------------------------
(***************************************************************************)
(* Versioned SQL migrations: runners (python -m app.infrastructure.migrations) *)
(* that bring one database to the set of files their release ships, and    *)
(* API processes that check the schema when they start.                    *)
(*                                                                         *)
(* A file is a version, a text (told apart by its checksum) and whether it *)
(* runs in a transaction.  Each runner has one connection; the advisory    *)
(* lock belongs to it and so does every statement of the run, which is why *)
(* losing the connection and losing the lock are the same event.           *)
(***************************************************************************)
EXTENDS Naturals, Sequences, FiniteSets

CONSTANTS Runner,       \* runner processes
          App,          \* API processes
          Release,      \* releases of the program
          Files,        \* Release -> the set of files in its directory
          Text,         \* texts of files
          MaxVersion,   \* bound on the version of a file (four digits in the code)
          None,
          MaxCrashes    \* bound on deaths of runners

Version == 1 .. MaxVersion
File == [version : Version, text : Text, transactional : BOOLEAN]

ASSUME FilesAssumption == Files \in [Release -> SUBSET File]
ASSUME MaxVersionAssumption == MaxVersion \in Nat
ASSUME NoneAssumption == None \notin Runner \cup Release
ASSUME MaxCrashesAssumption == MaxCrashes \in Nat

VARIABLES table,      \* does schema_migrations exist?
          recorded,   \* its rows: version -> text
          lock,       \* the runner whose connection holds the advisory lock
          proc,       \* Runner -> what the runner is doing
          app,        \* App -> the release it runs, None when it is down
          ran,        \* history: the files whose SQL was committed, in order
          lost,       \* history: version -> runs that died before their row
          crashes

vars == <<table, recorded, lock, proc, app, ran, lost, crashes>>
-----------------------------------------------------------------------------
(* load_migrations and plan_migrations *)

Versions(files) == {f.version : f \in files}

\* load_migrations: no version twice, no gap from 0001 on.
Loads(files) ==
    /\ \A f, g \in files : f.version = g.version => f = g
    /\ \E n \in 0 .. MaxVersion : Versions(files) = 1 .. n

TheFile(files, v) == CHOOSE f \in files : f.version = v

\* plan_migrations refuses a history with a hole, a history against an empty
\* set, a recorded version below the highest one that has no file, and a
\* checksum that differs.
Highest(files) == IF files = {} THEN 0
                  ELSE CHOOSE n \in Versions(files) : \A v \in Versions(files) : v <= n
PlanRefuses(rows, files) ==
    \/ ~ \E n \in 0 .. MaxVersion : DOMAIN rows = 1 .. n
    \/ DOMAIN rows # {} /\ files = {}
    \/ \E v \in DOMAIN rows : v \notin Versions(files) /\ v <= Highest(files)
    \/ \E v \in DOMAIN rows : \E f \in files : f.version = v /\ f.text # rows[v]

\* Its pending migrations: every version above the number of rows, which is
\* asked only of a history without a hole.
Count(rows) == CHOOSE n \in 0 .. MaxVersion : DOMAIN rows = 1 .. n
Pending(rows, files) == {v \in Versions(files) : v > Count(rows)}
-----------------------------------------------------------------------------
PC == {"idle", "lock", "table", "plan", "run", "record", "unlock", "exit"}
ExitCode == {0, 1, 2}
Process == [pc : PC, release : Release \cup {None}, pending : SUBSET Version,
            code : ExitCode]
Asleep == [pc |-> "idle", release |-> None, pending |-> {}, code |-> 0]

TypeOK ==
    /\ table \in BOOLEAN
    /\ \E d \in SUBSET Version : recorded \in [d -> Text]
    /\ lock \in Runner \cup {None}
    /\ proc \in [Runner -> Process]
    /\ app \in [App -> Release \cup {None}]
    /\ ran \in Seq(File)
    /\ lost \in [Version -> Nat]
    /\ crashes \in 0 .. MaxCrashes

\* A database without history, or one with no table at all: nothing has run.
Init ==
    /\ table = FALSE
    /\ recorded = [v \in {} |-> None]
    /\ lock = None
    /\ proc = [r \in Runner |-> Asleep]
    /\ app = [a \in App |-> None]
    /\ ran = <<>>
    /\ lost = [v \in Version |-> 0]
    /\ crashes = 0

At(r, label) == proc[r].pc = label
Goto(r, label) == proc' = [proc EXCEPT ![r].pc = label]
Fail(r) == proc' = [proc EXCEPT ![r].pc = "unlock", ![r].code = 1, ![r].pending = {}]
Shipped(r) == Files[proc[r].release]
\* Mutant: the pending migrations are run from the last one on.
MutCurrent(r) == CHOOSE v \in proc[r].pending : \A w \in proc[r].pending : v >= w
Current(r) == CHOOSE v \in proc[r].pending : \A w \in proc[r].pending : v <= w
-----------------------------------------------------------------------------
(* cli.main and apply_migrations *)

\* A set that cannot be loaded ends the process before any database work.
Start(r, rel) ==
    /\ proc[r].pc \in {"idle", "exit"}
    /\ proc' = [proc EXCEPT ![r] =
           IF Loads(Files[rel])
           THEN [Asleep EXCEPT !.pc = "lock", !.release = rel]
           ELSE [Asleep EXCEPT !.pc = "exit", !.release = rel, !.code = 2]]
    /\ UNCHANGED <<table, recorded, lock, app, ran, lost, crashes>>

\* Mutant: the result of pg_try_advisory_lock is ignored.
MutTakeLock(r) ==
    /\ At(r, "lock")
    /\ lock' = r
    /\ Goto(r, "table")
    /\ UNCHANGED <<table, recorded, app, ran, lost, crashes>>
TakeLock(r) ==
    /\ At(r, "lock")
    /\ lock = None
    /\ lock' = r
    /\ Goto(r, "table")
    /\ UNCHANGED <<table, recorded, app, ran, lost, crashes>>

\* Mutant: a runner without a deadline polls for ever.
MutLockTimeout(r) ==
    /\ At(r, "lock") /\ lock = r
    /\ UNCHANGED vars
\* The last try before the deadline found the lock taken.
LockTimeout(r) ==
    /\ At(r, "lock")
    /\ lock # None
    /\ proc' = [proc EXCEPT ![r].pc = "exit", ![r].code = 1]
    /\ UNCHANGED <<table, recorded, lock, app, ran, lost, crashes>>

CreateTable(r) ==
    /\ At(r, "table")
    /\ table' = TRUE
    /\ Goto(r, "plan")
    /\ UNCHANGED <<recorded, lock, app, ran, lost, crashes>>

Plan(r) ==
    /\ At(r, "plan")
    /\ IF PlanRefuses(recorded, Shipped(r))
       THEN Fail(r)
       ELSE proc' = [proc EXCEPT ![r].pc = "run",
                                 ![r].pending = Pending(recorded, Shipped(r))]
    /\ UNCHANGED <<table, recorded, lock, app, ran, lost, crashes>>

\* INSERT INTO schema_migrations; the version is the primary key.
CanRecord(v) == v \notin DOMAIN recorded
\* Mutant: versions are recorded as they are counted, from zero.
MutRecord(v, text) ==
    recorded' = [w \in DOMAIN recorded \cup {v - 1} |->
                    IF w = v - 1 THEN text ELSE recorded[w]]
Record(v, text) ==
    recorded' = [w \in DOMAIN recorded \cup {v} |-> IF w = v THEN text ELSE recorded[w]]

\* The SQL and its row commit together, or not at all.
RunTransactional(r) ==
    /\ At(r, "run") /\ proc[r].pending # {}
    /\ LET v == Current(r)
           f == TheFile(Shipped(r), v)
       IN /\ f.transactional
          /\ IF CanRecord(v)
             THEN /\ Record(v, f.text)
                  /\ ran' = Append(ran, f)
                  /\ proc' = [proc EXCEPT ![r].pending = @ \ {v}]
             ELSE Fail(r) /\ UNCHANGED <<recorded, ran>>
    /\ UNCHANGED <<table, lock, app, lost, crashes>>

\* A no-transaction migration commits as it is written ...
RunAsWritten(r) ==
    /\ At(r, "run") /\ proc[r].pending # {}
    /\ LET f == TheFile(Shipped(r), Current(r))
       IN /\ ~f.transactional
          /\ ran' = Append(ran, f)
    /\ Goto(r, "record")
    /\ UNCHANGED <<table, recorded, lock, app, lost, crashes>>

\* ... and is recorded by a statement of its own.
RecordRow(r) ==
    /\ At(r, "record")
    /\ LET v == Current(r) IN
       IF CanRecord(v)
       THEN /\ Record(v, TheFile(Shipped(r), v).text)
            /\ proc' = [proc EXCEPT ![r].pc = "run", ![r].pending = @ \ {v}]
       ELSE Fail(r) /\ UNCHANGED recorded
    /\ UNCHANGED <<table, lock, app, ran, lost, crashes>>

\* Mutant: the error of the SQL is swallowed, and the migration recorded.
MutRunFails(r) ==
    /\ At(r, "run") /\ proc[r].pending # {}
    /\ Goto(r, "record")
    /\ UNCHANGED <<table, recorded, lock, app, ran, lost, crashes>>
\* The SQL of a migration fails: what came before stays, the rest is not tried.
RunFails(r) ==
    /\ At(r, "run") /\ proc[r].pending # {}
    /\ Fail(r)
    /\ UNCHANGED <<table, recorded, lock, app, ran, lost, crashes>>

AllRun(r) ==
    /\ At(r, "run") /\ proc[r].pending = {}
    /\ Goto(r, "unlock")
    /\ UNCHANGED <<table, recorded, lock, app, ran, lost, crashes>>

\* The finally clause, and the connection closes behind it.
Unlock(r) ==
    /\ At(r, "unlock")
    /\ lock' = None
    /\ Goto(r, "exit")
    /\ UNCHANGED <<table, recorded, app, ran, lost, crashes>>

\* The process dies, or its connection breaks: Postgres ends the session, rolls
\* back an open transaction and drops the lock.
Crash(r) ==
    /\ crashes < MaxCrashes
    /\ proc[r].pc \notin {"idle", "exit"}
    /\ crashes' = crashes + 1
    /\ lock' = IF lock = r THEN None ELSE lock
    /\ lost' = IF At(r, "record") THEN [lost EXCEPT ![Current(r)] = @ + 1] ELSE lost
    /\ proc' = [proc EXCEPT ![r].pc = "exit", ![r].code = 1, ![r].pending = {}]
    /\ UNCHANGED <<table, recorded, app, ran>>
-----------------------------------------------------------------------------
(* check_schema, when an API process starts *)

\* Mutant: the check asks only whether the history is one the release knows.
MutCheckSchema(files) ==
    /\ table
    /\ ~PlanRefuses(recorded, files)
\* Rows above the highest version of the release are reported and tolerated.
CheckSchema(files) ==
    /\ table
    /\ ~PlanRefuses(recorded, files)
    /\ Pending(recorded, files) = {}

AppStart(a, rel) ==
    /\ app[a] = None
    /\ Loads(Files[rel])
    /\ CheckSchema(Files[rel])
    /\ app' = [app EXCEPT ![a] = rel]
    /\ UNCHANGED <<table, recorded, lock, proc, ran, lost, crashes>>

AppStop(a) ==
    /\ app[a] # None
    /\ app' = [app EXCEPT ![a] = None]
    /\ UNCHANGED <<table, recorded, lock, proc, ran, lost, crashes>>
-----------------------------------------------------------------------------
Step(r) == \/ TakeLock(r) \/ LockTimeout(r) \/ CreateTable(r) \/ Plan(r)
           \/ RunTransactional(r) \/ RunAsWritten(r) \/ RecordRow(r) \/ RunFails(r)
           \/ AllRun(r) \/ Unlock(r)

Next == \/ \E r \in Runner : Step(r) \/ Crash(r)
        \/ \E r \in Runner, rel \in Release : Start(r, rel)
        \/ \E a \in App : AppStop(a) \/ \E rel \in Release : AppStart(a, rel)

Spec == Init /\ [][Next]_vars

\* A runner that was started goes on by itself.
FairSpec == Spec /\ \A r \in Runner : WF_vars(Step(r))
-----------------------------------------------------------------------------
\* Runs of one version's SQL, over all releases.
Runs(v) == Cardinality({i \in 1 .. Len(ran) : ran[i].version = v})

\* Two runners of one database never apply the same migration twice, nor out of
\* order.  The SQL of a version is committed once, and once more for each runner
\* that died between a no-transaction migration and its row; a transactional
\* migration has no such gap.  Over all runners, releases and crashes, when the SQL of
\* a version runs, every lower version has run and been recorded.
AppliedOnceInOrder ==
    /\ \A v \in Version : Runs(v) <= 1 + lost[v]
    /\ \A i, k \in 1 .. Len(ran) : i < k => ran[i].version <= ran[k].version
    /\ \A i \in 1 .. Len(ran) : \A v \in 1 .. ran[i].version - 1 : v \in DOMAIN recorded

\* The history tells the truth: a recorded version ran with the recorded text,
\* and was its last run.  A no-transaction migration whose row was lost may have
\* run before with the text of another release.
RecordedHasRun ==
    \A v \in DOMAIN recorded :
        \E i \in 1 .. Len(ran) :
            /\ ran[i].version = v /\ ran[i].text = recorded[v]
            /\ \A k \in i + 1 .. Len(ran) : ran[k].version # v

\* check_schema holds for as long as the process runs: whatever newer or older
\* releases migrate meanwhile, every migration an API process was built with
\* stays recorded with the text it was built with.
AppCovered ==
    \A a \in App : app[a] # None =>
        \A f \in Files[app[a]] : f.version \in DOMAIN recorded /\ recorded[f.version] = f.text

\* schema_migrations is an append-only history.
History == INSTANCE SchemaHistory
HistoryOnlyGrows == History!Spec

\* Every runner ends and says how: a held lock delays it until its deadline and
\* no longer, although other runners keep taking the lock.
Finishes == \A r \in Runner : At(r, "lock") ~> At(r, "exit")
=============================================================================
