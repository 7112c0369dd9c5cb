-------------------------- MODULE MigrationsProofs --------------------------
(***************************************************************************)
(* For any number of runners, releases and API processes: the history of    *)
(* migrations only grows, and a started API process stays covered by it.    *)
(*                                                                          *)
(* Neither fact is inductive.  What makes it so is the lock: between the     *)
(* moment a runner plans and the moment it gives the lock back nobody else  *)
(* writes a row, so what it has pending is exactly what the history lacks.  *)
(***************************************************************************)
EXTENDS Migrations, FiniteSetTheorems, TLAPS

Locked == {"table", "plan", "run", "record", "unlock"}

\* Nobody works on the schema without the lock.
Exclusive == \A r \in Runner : proc[r].pc \in Locked => lock = r

\* The history has no hole.
NoHole == \E n \in 0 .. MaxVersion : DOMAIN recorded = 1 .. n

Lacking(r) == {v \in Versions(Shipped(r)) : v \notin DOMAIN recorded}

\* A runner that has planned ships a set without gaps, and has pending what the
\* history lacks of it.
PendingExact ==
    \A r \in Runner :
        /\ proc[r].pc \in Locked \cup {"lock"} =>
               proc[r].release \in Release /\ Loads(Shipped(r))
        /\ proc[r].pc \in {"run", "record"} => proc[r].pending = Lacking(r)
        /\ proc[r].pc = "record" => proc[r].pending # {}

IInv == TypeOK /\ Exclusive /\ NoHole /\ PendingExact /\ AppCovered
-----------------------------------------------------------------------------
LEMMA InitIInv == Init => IInv
  <1> SUFFICES ASSUME Init PROVE IInv
    OBVIOUS
  <1>1. TypeOK
    <2>1. recorded \in [{} -> Text] /\ {} \in SUBSET Version
      BY DEF Init
    <2>2. proc \in [Runner -> Process]
      BY DEF Init, Asleep, Process, PC, ExitCode
    <2>3. ran \in Seq(File) /\ lost \in [Version -> Nat] /\ crashes \in 0 .. MaxCrashes
      BY MaxCrashesAssumption DEF Init
    <2> QED
      BY <2>1, <2>2, <2>3 DEF Init, TypeOK
  <1>2. Exclusive
    BY DEF Init, Exclusive, Asleep, Locked
  <1>3. NoHole
    <2>1. 0 \in 0 .. MaxVersion /\ DOMAIN recorded = 1 .. 0
      BY MaxVersionAssumption DEF Init
    <2> QED
      BY <2>1 DEF NoHole
  <1>4. PendingExact
    BY DEF Init, PendingExact, Asleep, Locked
  <1>5. AppCovered
    BY DEF Init, AppCovered
  <1> QED
    BY <1>1, <1>2, <1>3, <1>4, <1>5 DEF IInv

\* What a set that loads looks like.
LEMMA LoadedSet ==
    ASSUME NEW files \in SUBSET File, Loads(files)
    PROVE  \E m \in 0 .. MaxVersion : Versions(files) = 1 .. m
  BY DEF Loads

LEMMA TheFileIs ==
    ASSUME NEW files \in SUBSET File, NEW v \in Versions(files)
    PROVE  /\ TheFile(files, v) \in files
           /\ TheFile(files, v).version = v
           /\ TheFile(files, v) \in File
  BY DEF Versions, TheFile

\* The version a runner works on is the next one of the history.
LEMMA CurrentIsNext ==
    ASSUME IInv, NEW r \in Runner, proc[r].pc \in {"run", "record"},
           proc[r].pending # {}, NEW n \in 0 .. MaxVersion, DOMAIN recorded = 1 .. n
    PROVE  /\ Current(r) = n + 1
           /\ n + 1 \in Version
           /\ n + 1 \in Versions(Shipped(r))
           /\ proc[r].pending \ {n + 1} =
                  {v \in Versions(Shipped(r)) : v \notin 1 .. n + 1}
  <1>1. Shipped(r) \in SUBSET File /\ Loads(Shipped(r)) /\ proc[r].pending = Lacking(r)
    BY FilesAssumption DEF IInv, PendingExact, Locked, Shipped
  <1>2. PICK m \in 0 .. MaxVersion : Versions(Shipped(r)) = 1 .. m
    BY <1>1, LoadedSet
  <1>3. proc[r].pending = n + 1 .. m
    BY <1>1, <1>2, MaxVersionAssumption DEF Lacking
  <1>4. n + 1 \in proc[r].pending /\ \A w \in proc[r].pending : n + 1 <= w
    BY <1>3, MaxVersionAssumption
  <1>5. Current(r) \in proc[r].pending /\ \A w \in proc[r].pending : Current(r) <= w
    BY <1>4 DEF Current
  <1>6. Current(r) = n + 1
    BY <1>3, <1>4, <1>5, MaxVersionAssumption
  <1> QED
    BY <1>2, <1>3, <1>4, <1>6, MaxVersionAssumption DEF Version
-----------------------------------------------------------------------------
(* A step of one runner r that leaves the rows alone. *)

LEMMA QuietStep ==
    ASSUME IInv, NEW r \in Runner, NEW p \in Process,
           proc' = [proc EXCEPT ![r] = p],
           table' \in BOOLEAN, recorded' = recorded, app' = app,
           ran' \in Seq(File), lost' \in [Version -> Nat], crashes' \in 0 .. MaxCrashes,
           lock' \in Runner \cup {None},
           \A q \in Runner \ {r} : lock = q => lock' = q,
           p.pc \in Locked => lock' = r,
           p.pc \in Locked \cup {"lock"} => p.release \in Release /\ Loads(Files[p.release]),
           p.pc \in {"run", "record"} =>
               p.pending = {v \in Versions(Files[p.release]) : v \notin DOMAIN recorded},
           p.pc = "record" => p.pending # {}
    PROVE  IInv'
  <1>1. proc'[r] = p /\ \A q \in Runner \ {r} : proc'[q] = proc[q]
    BY DEF IInv, TypeOK
  <1>2. TypeOK'
    BY DEF IInv, TypeOK
  <1>3. Exclusive'
    BY <1>1 DEF IInv, Exclusive
  <1>4. NoHole' /\ AppCovered'
    BY DEF IInv, NoHole, AppCovered
  <1>5. PendingExact'
    <2> SUFFICES ASSUME NEW q \in Runner
                 PROVE  /\ proc'[q].pc \in Locked \cup {"lock"} =>
                               proc'[q].release \in Release /\ Loads(Shipped(q)')
                        /\ proc'[q].pc \in {"run", "record"} => proc'[q].pending = Lacking(q)'
                        /\ proc'[q].pc = "record" => proc'[q].pending # {}
      BY DEF PendingExact
    <2>1. CASE q = r
      BY <1>1, <2>1 DEF Shipped, Lacking
    <2>2. CASE q # r
      BY <1>1, <2>2 DEF IInv, PendingExact, Shipped, Lacking
    <2> QED
      BY <2>1, <2>2
  <1> QED
    BY <1>2, <1>3, <1>4, <1>5 DEF IInv

(* A step of the runner r that records the version it works on. *)

LEMMA RecordStep ==
    ASSUME IInv, NEW r \in Runner, proc[r].pc \in {"run", "record"}, proc[r].pending # {},
           NEW n \in 0 .. MaxVersion, DOMAIN recorded = 1 .. n,
           proc' = [proc EXCEPT ![r].pc = "run", ![r].pending = @ \ {Current(r)}],
           Record(Current(r), TheFile(Shipped(r), Current(r)).text),
           ran' \in Seq(File), UNCHANGED <<table, lock, app, lost, crashes>>
    PROVE  /\ IInv'
           /\ recorded' = [v \in 1 .. n + 1 |->
                  IF v = n + 1 THEN TheFile(Shipped(r), n + 1).text ELSE recorded[v]]
           /\ TheFile(Shipped(r), n + 1).text \in Text
           /\ n + 1 \in Version
  <1> DEFINE t == TheFile(Shipped(r), n + 1).text
             m == [proc[r] EXCEPT !.pc = "run", !.pending = @ \ {Current(r)}]
  <1>1. /\ Current(r) = n + 1 /\ n + 1 \in Version /\ n + 1 \in Versions(Shipped(r))
        /\ proc[r].pending \ {n + 1} = {v \in Versions(Shipped(r)) : v \notin 1 .. n + 1}
    BY CurrentIsNext
  <1>2. t \in Text
    <2>1. Shipped(r) \in SUBSET File
      BY FilesAssumption DEF IInv, PendingExact, Locked, Shipped
    <2> QED
      BY <1>1, <2>1, TheFileIs DEF File
  <1>3. recorded' = [v \in 1 .. n + 1 |-> IF v = n + 1 THEN t ELSE recorded[v]]
    <2>1. DOMAIN recorded \cup {n + 1} = 1 .. n + 1
      OBVIOUS
    <2> QED
      BY <1>1, <2>1 DEF Record
  <1>4. recorded' \in [1 .. n + 1 -> Text] /\ 1 .. n + 1 \in SUBSET Version
    <2>1. recorded \in [1 .. n -> Text]
      BY DEF IInv, TypeOK
    <2> QED
      BY <1>1, <1>2, <1>3, <2>1, MaxVersionAssumption DEF Version
  <1>5. /\ m \in Process /\ m.pc = "run" /\ m.pending = proc[r].pending \ {n + 1}
        /\ m.release = proc[r].release
        /\ proc'[r] = m /\ proc' \in [Runner -> Process]
        /\ \A q \in Runner \ {r} : proc'[q] = proc[q]
    <2>1. proc[r] \in Process /\ proc \in [Runner -> Process]
      BY DEF IInv, TypeOK
    <2>2. m \in Process /\ m.pc = "run" /\ m.pending = proc[r].pending \ {n + 1}
          /\ m.release = proc[r].release
      BY <1>1, <2>1 DEF Process, PC
    <2> QED
      BY <2>1, <2>2
  <1>6. TypeOK'
    BY <1>4, <1>5 DEF IInv, TypeOK
  <1>7. lock = r
    BY DEF IInv, Exclusive, Locked
  <1>8. Exclusive'
    BY <1>5, <1>7 DEF IInv, Exclusive
  <1>9. NoHole'
    BY <1>1, <1>3 DEF NoHole, Version
  <1>10. PendingExact'
    <2> SUFFICES ASSUME NEW q \in Runner
                 PROVE  /\ proc'[q].pc \in Locked \cup {"lock"} =>
                               proc'[q].release \in Release /\ Loads(Shipped(q)')
                        /\ proc'[q].pc \in {"run", "record"} => proc'[q].pending = Lacking(q)'
                        /\ proc'[q].pc = "record" => proc'[q].pending # {}
      BY DEF PendingExact
    <2>1. CASE q = r
      <3>1. DOMAIN recorded' = 1 .. n + 1
        BY <1>3
      <3> QED
        BY <1>1, <1>5, <2>1, <3>1 DEF IInv, PendingExact, Shipped, Lacking, Locked
    <2>2. CASE q # r
      <3>1. proc'[q] = proc[q] /\ proc[q].pc \notin Locked
        BY <1>5, <1>7, <2>2 DEF IInv, Exclusive
      <3> QED
        BY <3>1 DEF IInv, PendingExact, Shipped, Locked
    <2> QED
      BY <2>1, <2>2
  <1>11. AppCovered'
    BY <1>3 DEF IInv, AppCovered
  <1> QED
    BY <1>1, <1>2, <1>3, <1>6, <1>8, <1>9, <1>10, <1>11 DEF IInv
-----------------------------------------------------------------------------
\* Every step keeps the invariant and is, on the rows, a step of SchemaHistory
\* or none.
Kept == IInv' /\ [History!Next]_recorded

LEMMA Quiet == ASSUME IInv', recorded' = recorded PROVE Kept
  BY DEF Kept

LEMMA Types ==
    ASSUME IInv, NEW r \in Runner
    PROVE  proc[r] \in Process /\ lock \in Runner \cup {None} /\ ran \in Seq(File)
           /\ lost \in [Version -> Nat] /\ crashes \in 0 .. MaxCrashes /\ table \in BOOLEAN
  BY DEF IInv, TypeOK

LEMMA FailKeeps ==
    ASSUME IInv, NEW r \in Runner, proc[r].pc \in Locked, Fail(r),
           UNCHANGED <<table, recorded, lock, app, ran, lost, crashes>>
    PROVE  Kept
  <1> DEFINE p == [proc[r] EXCEPT !.pc = "unlock", !.code = 1, !.pending = {}]
  <1>1. p \in Process /\ p.pc = "unlock" /\ p.release = proc[r].release
    BY Types DEF Process, PC, ExitCode
  <1>2. proc' = [proc EXCEPT ![r] = p]
    BY DEF Fail
  <1>3. lock = r /\ p.release \in Release /\ Loads(Files[p.release])
    BY <1>1 DEF IInv, Exclusive, PendingExact, Shipped
  <1> HIDE DEF p
  <1>4. IInv'
    BY <1>1, <1>2, <1>3, Types, QuietStep DEF Locked
  <1> QED
    BY <1>4, Quiet

\* A step that only moves the program counter of a runner past its lock.
LEMMA GotoKeeps ==
    ASSUME IInv, NEW r \in Runner, NEW label \in {"table", "plan", "record", "unlock", "exit"},
           Goto(r, label), table' \in BOOLEAN, ran' \in Seq(File),
           UNCHANGED <<recorded, app, lost, crashes>>,
           lock' \in Runner \cup {None}, \A q \in Runner \ {r} : lock = q => lock' = q,
           label \in Locked => lock' = r,
           proc[r].pc \in Locked \cup {"lock"},
           label = "record" => proc[r].pc = "run" /\ proc[r].pending # {}
    PROVE  Kept
  <1> DEFINE p == [proc[r] EXCEPT !.pc = label]
  <1>1. p \in Process /\ p.pc = label /\ p.release = proc[r].release
        /\ p.pending = proc[r].pending
    BY Types DEF Process, PC
  <1>2. proc' = [proc EXCEPT ![r] = p]
    BY DEF Goto
  <1>3. p.release \in Release /\ Loads(Files[p.release])
    BY <1>1 DEF IInv, PendingExact, Shipped
  <1>4. label = "record" =>
            p.pending = {v \in Versions(Files[p.release]) : v \notin DOMAIN recorded}
    BY <1>1 DEF IInv, PendingExact, Shipped, Lacking
  <1> HIDE DEF p
  <1>5. IInv'
    BY <1>1, <1>2, <1>3, <1>4, Types, QuietStep DEF Locked
  <1> QED
    BY <1>5, Quiet

LEMMA StartKeeps ==
    ASSUME IInv, NEW r \in Runner, NEW rel \in Release, Start(r, rel)
    PROVE  Kept
  <1> DEFINE p == IF Loads(Files[rel])
                  THEN [Asleep EXCEPT !.pc = "lock", !.release = rel]
                  ELSE [Asleep EXCEPT !.pc = "exit", !.release = rel, !.code = 2]
  <1>1. p \in Process /\ p.release = rel /\ p.pc \in {"lock", "exit"}
        /\ (p.pc = "lock" => Loads(Files[rel]))
    BY DEF Asleep, Process, PC, ExitCode
  <1>2. proc' = [proc EXCEPT ![r] = p]
    BY DEF Start
  <1>3. UNCHANGED <<table, recorded, lock, app, ran, lost, crashes>>
    BY DEF Start
  <1> HIDE DEF p
  <1>4. IInv'
    BY <1>1, <1>2, <1>3, Types, QuietStep DEF Locked
  <1> QED
    BY <1>3, <1>4, Quiet

LEMMA LockTimeoutKeeps ==
    ASSUME IInv, NEW r \in Runner, LockTimeout(r)
    PROVE  Kept
  <1> DEFINE p == [proc[r] EXCEPT !.pc = "exit", !.code = 1]
  <1>1. p \in Process /\ p.pc = "exit"
    BY Types DEF Process, PC, ExitCode
  <1>2. proc' = [proc EXCEPT ![r] = p]
        /\ UNCHANGED <<table, recorded, lock, app, ran, lost, crashes>>
    BY DEF LockTimeout
  <1> HIDE DEF p
  <1>3. IInv'
    BY <1>1, <1>2, Types, QuietStep DEF Locked
  <1> QED
    BY <1>2, <1>3, Quiet

LEMMA PlanKeeps ==
    ASSUME IInv, NEW r \in Runner, Plan(r)
    PROVE  Kept
  <1>1. CASE PlanRefuses(recorded, Shipped(r))
    BY <1>1, FailKeeps DEF Plan, At, Locked
  <1>2. CASE ~PlanRefuses(recorded, Shipped(r))
    <2> DEFINE p == [proc[r] EXCEPT !.pc = "run",
                                    !.pending = Pending(recorded, Shipped(r))]
    <2>1. proc[r].release \in Release /\ Loads(Shipped(r)) /\ Shipped(r) \in SUBSET File
          /\ lock = r
      BY FilesAssumption DEF Plan, At, IInv, PendingExact, Exclusive, Shipped, Locked
    <2>2. PICK n \in 0 .. MaxVersion : DOMAIN recorded = 1 .. n
      BY DEF IInv, NoHole
    <2>3. Count(recorded) = n
      BY <2>2, MaxVersionAssumption DEF Count
    <2>4. PICK m \in 0 .. MaxVersion : Versions(Shipped(r)) = 1 .. m
      BY <2>1, LoadedSet
    <2>5. Pending(recorded, Shipped(r)) =
              {v \in Versions(Shipped(r)) : v \notin DOMAIN recorded}
      BY <2>2, <2>3, <2>4, MaxVersionAssumption DEF Pending
    <2>6. Pending(recorded, Shipped(r)) \in SUBSET Version
      BY <2>4, <2>5, MaxVersionAssumption DEF Version
    <2>7. p \in Process /\ p.pc = "run" /\ p.release = proc[r].release
          /\ p.pending = Pending(recorded, Shipped(r))
      BY <2>6, Types DEF Process, PC
    <2>8. proc' = [proc EXCEPT ![r] = p]
          /\ UNCHANGED <<table, recorded, lock, app, ran, lost, crashes>>
      BY <1>2 DEF Plan
    <2>9. p.pending = {v \in Versions(Files[p.release]) : v \notin DOMAIN recorded}
      BY <2>5, <2>7 DEF Shipped
    <2>10. Loads(Files[p.release])
      BY <2>1, <2>7 DEF Shipped
    <2> HIDE DEF p
    <2>11. IInv'
      BY <2>1, <2>7, <2>8, <2>9, <2>10, Types, QuietStep DEF Locked
    <2> QED
      BY <2>8, <2>11, Quiet
  <1> QED
    BY <1>1, <1>2

\* Recording is the one step that grows the history.
LEMMA RecordKeeps ==
    ASSUME IInv, NEW r \in Runner, proc[r].pc \in {"run", "record"}, proc[r].pending # {},
           proc' = [proc EXCEPT ![r].pc = "run", ![r].pending = @ \ {Current(r)}],
           Record(Current(r), TheFile(Shipped(r), Current(r)).text),
           ran' \in Seq(File), UNCHANGED <<table, lock, app, lost, crashes>>
    PROVE  Kept
  <1>1. PICK n \in 0 .. MaxVersion : DOMAIN recorded = 1 .. n
    BY DEF IInv, NoHole
  <1> DEFINE t == TheFile(Shipped(r), n + 1).text
  <1>2. /\ IInv' /\ t \in Text
        /\ recorded' = [v \in 1 .. n + 1 |-> IF v = n + 1 THEN t ELSE recorded[v]]
    BY <1>1, RecordStep
  <1> HIDE DEF t
  <1>3. History!Grow(n, t)
    BY <1>1, <1>2 DEF History!Grow
  <1> QED
    BY <1>1, <1>2, <1>3 DEF Kept, History!Next

\* The file a runner works on is a file.
LEMMA CurrentFile ==
    ASSUME IInv, NEW r \in Runner, proc[r].pc \in {"run", "record"}, proc[r].pending # {}
    PROVE  TheFile(Shipped(r), Current(r)) \in File
  <1>1. PICK n \in 0 .. MaxVersion : DOMAIN recorded = 1 .. n
    BY DEF IInv, NoHole
  <1>2. Shipped(r) \in SUBSET File
    BY FilesAssumption DEF IInv, PendingExact, Locked, Shipped
  <1> QED
    BY <1>1, <1>2, CurrentIsNext, TheFileIs

LEMMA RunTransactionalKeeps ==
    ASSUME IInv, NEW r \in Runner, RunTransactional(r)
    PROVE  Kept
  <1> DEFINE v == Current(r)
             f == TheFile(Shipped(r), v)
  <1>1. proc[r].pc = "run" /\ proc[r].pending # {}
        /\ UNCHANGED <<table, lock, app, lost, crashes>>
    BY DEF RunTransactional, At
  <1>2. CASE CanRecord(v)
    <2>1. Record(v, f.text) /\ ran' = Append(ran, f)
          /\ proc' = [proc EXCEPT ![r].pending = @ \ {v}]
      BY <1>2 DEF RunTransactional
    <2>2. proc' = [proc EXCEPT ![r].pc = "run", ![r].pending = @ \ {Current(r)}]
      <3>1. proc[r] \in Process
        BY Types
      <3>2. [proc[r] EXCEPT !.pc = "run", !.pending = @ \ {v}] =
            [proc[r] EXCEPT !.pending = @ \ {v}]
        BY <1>1, <3>1 DEF Process
      <3> QED
        BY <2>1, <3>2
    <2>3. ran' \in Seq(File)
      BY <1>1, <2>1, CurrentFile, Types
    <2> QED
      BY <1>1, <2>1, <2>2, <2>3, RecordKeeps
  <1>3. CASE ~CanRecord(v)
    BY <1>1, <1>3, FailKeeps DEF RunTransactional, Locked
  <1> QED
    BY <1>2, <1>3

LEMMA RunAsWrittenKeeps ==
    ASSUME IInv, NEW r \in Runner, RunAsWritten(r)
    PROVE  Kept
  <1>1. proc[r].pc = "run" /\ proc[r].pending # {} /\ Goto(r, "record")
        /\ UNCHANGED <<table, recorded, lock, app, lost, crashes>>
        /\ ran' = Append(ran, TheFile(Shipped(r), Current(r)))
    BY DEF RunAsWritten, At
  <1>2. ran' \in Seq(File)
    BY <1>1, CurrentFile, Types
  <1>3. lock = r
    BY <1>1 DEF IInv, Exclusive, Locked
  <1> QED
    BY <1>1, <1>2, <1>3, Types, GotoKeeps DEF Locked

LEMMA RecordRowKeeps ==
    ASSUME IInv, NEW r \in Runner, RecordRow(r)
    PROVE  Kept
  <1>1. proc[r].pc = "record" /\ proc[r].pending # {}
        /\ UNCHANGED <<table, lock, app, ran, lost, crashes>>
    BY DEF RecordRow, At, IInv, PendingExact
  <1>2. CASE CanRecord(Current(r))
    BY <1>1, <1>2, Types, RecordKeeps DEF RecordRow
  <1>3. CASE ~CanRecord(Current(r))
    BY <1>1, <1>3, FailKeeps DEF RecordRow, Locked
  <1> QED
    BY <1>2, <1>3

LEMMA OtherStepsKeep ==
    ASSUME IInv, NEW r \in Runner,
           TakeLock(r) \/ CreateTable(r) \/ RunFails(r) \/ AllRun(r) \/ Unlock(r)
    PROVE  Kept
  <1>1. CASE TakeLock(r)
    <2>1. lock = None /\ lock' = r /\ proc[r].pc = "lock" /\ Goto(r, "table")
          /\ UNCHANGED <<table, recorded, app, ran, lost, crashes>>
      BY <1>1 DEF TakeLock, At
    <2> QED
      BY <2>1, Types, GotoKeeps, NoneAssumption
  <1>2. CASE CreateTable(r)
    <2>1. table' = TRUE /\ proc[r].pc = "table" /\ Goto(r, "plan")
          /\ UNCHANGED <<recorded, lock, app, ran, lost, crashes>>
      BY <1>2 DEF CreateTable, At
    <2>2. lock = r
      BY <2>1 DEF IInv, Exclusive, Locked
    <2> QED
      BY <2>1, <2>2, Types, GotoKeeps DEF Locked
  <1>3. CASE RunFails(r)
    BY <1>3, FailKeeps DEF RunFails, At, Locked
  <1>4. CASE AllRun(r)
    <2>1. proc[r].pc = "run" /\ Goto(r, "unlock")
          /\ UNCHANGED <<table, recorded, lock, app, ran, lost, crashes>>
      BY <1>4 DEF AllRun, At
    <2>2. lock = r
      BY <2>1 DEF IInv, Exclusive, Locked
    <2> QED
      BY <2>1, <2>2, Types, GotoKeeps DEF Locked
  <1>5. CASE Unlock(r)
    <2>1. lock' = None /\ proc[r].pc = "unlock" /\ Goto(r, "exit")
          /\ UNCHANGED <<table, recorded, app, ran, lost, crashes>>
      BY <1>5 DEF Unlock, At
    <2>2. lock = r
      BY <2>1 DEF IInv, Exclusive, Locked
    <2> QED
      BY <2>1, <2>2, Types, GotoKeeps DEF Locked
  <1> QED
    BY <1>1, <1>2, <1>3, <1>4, <1>5

LEMMA CrashKeeps ==
    ASSUME IInv, NEW r \in Runner, Crash(r)
    PROVE  Kept
  <1> DEFINE p == [proc[r] EXCEPT !.pc = "exit", !.code = 1, !.pending = {}]
  <1>1. p \in Process /\ p.pc = "exit"
    BY Types DEF Process, PC, ExitCode
  <1>2. proc' = [proc EXCEPT ![r] = p] /\ UNCHANGED <<table, recorded, app, ran>>
        /\ lock' = (IF lock = r THEN None ELSE lock) /\ crashes' = crashes + 1
        /\ crashes < MaxCrashes
    BY DEF Crash
  <1>3. lost' \in [Version -> Nat]
    <2>1. lost \in [Version -> Nat]
      BY Types
    <2>2. lost' = lost \/ lost' = [lost EXCEPT ![Current(r)] = @ + 1]
      BY DEF Crash
    <2> QED
      BY <2>1, <2>2
  <1>4. crashes' \in 0 .. MaxCrashes /\ lock' \in Runner \cup {None}
    BY <1>2, Types, MaxCrashesAssumption
  <1> HIDE DEF p
  <1>5. IInv'
    BY <1>1, <1>2, <1>3, <1>4, Types, QuietStep DEF Locked
  <1> QED
    BY <1>2, <1>5, Quiet

LEMMA AppStepKeeps ==
    ASSUME IInv, NEW a \in App, AppStop(a) \/ \E rel \in Release : AppStart(a, rel)
    PROVE  Kept
  <1>1. UNCHANGED <<table, recorded, lock, proc, ran, lost, crashes>>
    BY DEF AppStop, AppStart
  <1>2. app' \in [App -> Release \cup {None}]
    BY DEF AppStop, AppStart, IInv, TypeOK
  <1>3. TypeOK' /\ Exclusive' /\ NoHole' /\ PendingExact'
    BY <1>1, <1>2 DEF IInv, TypeOK, Exclusive, NoHole, PendingExact, Shipped, Lacking
  <1>4. AppCovered'
    <2>1. CASE AppStop(a)
      BY <1>1, <2>1 DEF AppStop, IInv, TypeOK, AppCovered
    <2>2. ASSUME NEW rel \in Release, AppStart(a, rel)
          PROVE  AppCovered'
      <3>1. app' = [app EXCEPT ![a] = rel] /\ Loads(Files[rel]) /\ CheckSchema(Files[rel])
        BY <2>2 DEF AppStart
      <3>2. PICK n \in 0 .. MaxVersion : DOMAIN recorded = 1 .. n
        BY DEF IInv, NoHole
      <3>3. Count(recorded) = n
        BY <3>2, MaxVersionAssumption DEF Count
      <3>4. Files[rel] \in SUBSET File
        BY FilesAssumption
      <3>5. PICK m \in 0 .. MaxVersion : Versions(Files[rel]) = 1 .. m
        BY <3>1, <3>4, LoadedSet
      <3>6. \A f \in Files[rel] : f.version \in DOMAIN recorded /\ recorded[f.version] = f.text
        <4> SUFFICES ASSUME NEW f \in Files[rel]
                     PROVE  f.version \in DOMAIN recorded /\ recorded[f.version] = f.text
          OBVIOUS
        <4>1. f.version \in 1 .. m
          BY <3>5 DEF Versions
        <4>2. f.version \in 1 .. n
          BY <3>1, <3>3, <3>5, <4>1 DEF CheckSchema, Pending
        <4> QED
          BY <3>1, <3>2, <4>2 DEF CheckSchema, PlanRefuses
      <3> QED
        BY <1>1, <3>1, <3>6 DEF IInv, TypeOK, AppCovered
    <2> QED
      BY <2>1, <2>2
  <1>5. IInv'
    BY <1>3, <1>4 DEF IInv
  <1> QED
    BY <1>1, <1>5, Quiet
-----------------------------------------------------------------------------
LEMMA StepKeeps == IInv /\ [Next]_vars => Kept
  <1> SUFFICES ASSUME IInv, [Next]_vars PROVE Kept
    OBVIOUS
  <1>1. ASSUME NEW r \in Runner, Step(r) PROVE Kept
    BY <1>1, LockTimeoutKeeps, PlanKeeps, RunTransactionalKeeps, RunAsWrittenKeeps,
       RecordRowKeeps, OtherStepsKeep DEF Step
  <1>2. CASE UNCHANGED vars
    <2>1. IInv'
      BY <1>2 DEF vars, IInv, TypeOK, Exclusive, NoHole, PendingExact, Shipped, Lacking,
                  AppCovered
    <2> QED
      BY <1>2, <2>1, Quiet DEF vars
  <1> QED
    BY <1>1, <1>2, CrashKeeps, StartKeeps, AppStepKeeps DEF Next

LEMMA Invariance == Spec => []IInv
  <1>1. IInv /\ [Next]_vars => IInv'
    BY StepKeeps DEF Kept
  <1> QED
    BY <1>1, InitIInv, PTL DEF Spec

\* For every number of runners, releases, files and crashes, a started API process
\* keeps every migration it was built with recorded, with the text it was built with.
THEOREM CoveredForLife == Spec => []AppCovered
  <1>1. IInv => AppCovered
    BY DEF IInv
  <1> QED
    BY <1>1, Invariance, PTL

\* The rows of schema_migrations implement SchemaHistory: they only grow, by the
\* next version, and no row is changed or removed.
THEOREM HistoryGrows == Spec => HistoryOnlyGrows
  <1>1. Init => History!Init
    BY DEF Init, History!Init
  <1>2. IInv /\ [Next]_vars => [History!Next]_recorded
    BY StepKeeps DEF Kept
  <1> QED
    BY <1>1, <1>2, Invariance, PTL DEF Spec, HistoryOnlyGrows, History!Spec

\* The variables keep their types.
THEOREM MigrationsTypeOK == Spec => []TypeOK
  <1>1. IInv => TypeOK
    BY DEF IInv
  <1> QED
    BY <1>1, Invariance, PTL
-----------------------------------------------------------------------------
(* What has run.  The history tells what has been recorded; between a       *)
(* no-transaction migration and its row the file has run and the history    *)
(* does not say so.  Such a gap is either a runner about to record, or one  *)
(* that died there and is counted in lost.                                  *)

\* A version whose run is in the history, or about to be.
Applied(v) == v \in DOMAIN recorded \/ \E r \in Runner : At(r, "record") /\ Current(r) = v

\* Every run of a version that is not applied was lost.
Unapplied == \A v \in Version : Applied(v) \/ Runs(v) <= lost[v]

\* The runner about to record ran its file last.
JustRun ==
    \A r \in Runner : At(r, "record") =>
        Len(ran) > 0 /\ ran[Len(ran)] = TheFile(Shipped(r), Current(r))

HInv == AppliedOnceInOrder /\ Unapplied /\ RecordedHasRun /\ JustRun

LEMMA InitHInv == Init => HInv
  <1> SUFFICES ASSUME Init PROVE HInv
    OBVIOUS
  <1>1. ran = <<>> /\ DOMAIN recorded = {} /\ lost = [v \in Version |-> 0]
        /\ \A r \in Runner : ~At(r, "record")
    BY DEF Init, At, Asleep
  <1>2. \A v : Runs(v) = 0
    <2> SUFFICES ASSUME NEW v PROVE Runs(v) = 0
      OBVIOUS
    <2>1. {i \in 1 .. Len(ran) : ran[i].version = v} = {}
      BY <1>1
    <2> QED
      BY <2>1, FS_EmptySet DEF Runs
  <1>3. AppliedOnceInOrder
    BY <1>1, <1>2 DEF AppliedOnceInOrder
  <1>4. Unapplied /\ RecordedHasRun /\ JustRun
    BY <1>1, <1>2 DEF Unapplied, RecordedHasRun, JustRun
  <1> QED
    BY <1>3, <1>4 DEF HInv

LEMMA RunsType ==
    ASSUME ran \in Seq(File), NEW v
    PROVE  Runs(v) \in Nat /\ IsFiniteSet({i \in 1 .. Len(ran) : ran[i].version = v})
  <1>1. IsFiniteSet(1 .. Len(ran))
    BY FS_Interval
  <1>2. IsFiniteSet({i \in 1 .. Len(ran) : ran[i].version = v})
    BY <1>1, FS_Subset
  <1> QED
    BY <1>2, FS_CardinalityType DEF Runs

\* Running a file counts for its version and for no other.
LEMMA RunsAppend ==
    ASSUME ran \in Seq(File), NEW f \in File, ran' = Append(ran, f), NEW v
    PROVE  Runs(v)' = IF f.version = v THEN Runs(v) + 1 ELSE Runs(v)
  <1> DEFINE S == {i \in 1 .. Len(ran) : ran[i].version = v}
             T == {i \in 1 .. Len(ran') : ran'[i].version = v}
  <1>1. IsFiniteSet(S) /\ Len(ran) + 1 \notin S
    <2>1. IsFiniteSet(S)
      BY RunsType
    <2>2. Len(ran) \in Nat
      OBVIOUS
    <2> QED
      BY <2>1, <2>2
  <1>2. Len(ran') = Len(ran) + 1 /\ ran'[Len(ran) + 1] = f
        /\ \A i \in 1 .. Len(ran) : ran'[i] = ran[i]
    OBVIOUS
  <1>3. T = IF f.version = v THEN S \cup {Len(ran) + 1} ELSE S
    BY <1>2
  <1>4. Cardinality(S \cup {Len(ran) + 1}) = Cardinality(S) + 1
    BY <1>1, FS_AddElement
  <1>5. Cardinality(T) = IF f.version = v THEN Cardinality(S) + 1 ELSE Cardinality(S)
    BY <1>3, <1>4
  <1> QED
    BY <1>5 DEF Runs

LEMMA HolderAlone ==
    ASSUME IInv, NEW r \in Runner, proc[r].pc \in Locked, NEW q \in Runner \ {r}
    PROVE  proc[q].pc \notin Locked /\ ~At(q, "record")
  BY DEF IInv, Exclusive, Locked, At

\* A step that runs nothing, records nothing and brings nobody to or from the
\* gap changes nothing here.
LEMMA QuietHistory ==
    ASSUME IInv, HInv, UNCHANGED <<ran, lost, recorded>>,
           \A q \in Runner : At(q, "record")' = At(q, "record"),
           \A q \in Runner : At(q, "record") => proc'[q] = proc[q]
    PROVE  HInv'
  <1>1. \A v : Runs(v)' = Runs(v)
    BY DEF Runs
  <1>2. AppliedOnceInOrder'
    BY <1>1 DEF HInv, AppliedOnceInOrder
  <1>3. Unapplied'
    <2> SUFFICES ASSUME NEW v \in Version, ~(Runs(v)' <= lost'[v]) PROVE Applied(v)'
      BY DEF Unapplied
    <2>1. Applied(v)
      BY <1>1 DEF HInv, Unapplied
    <2> QED
      BY <2>1 DEF Applied, Current
  <1>4. RecordedHasRun'
    BY DEF HInv, RecordedHasRun
  <1>5. JustRun'
    BY DEF HInv, JustRun, Shipped, Current
  <1> QED
    BY <1>2, <1>3, <1>4, <1>5 DEF HInv

\* The runner that holds the lock runs the next version's file: nothing above
\* the history ran before, but for runs that were lost.
LEMMA FileRuns ==
    ASSUME IInv, HInv, NEW r \in Runner, At(r, "run"), proc[r].pending # {},
           NEW n \in 0 .. MaxVersion, DOMAIN recorded = 1 .. n,
           NEW f, f = TheFile(Shipped(r), Current(r)), ran' = Append(ran, f)
    PROVE  /\ f \in File /\ f.version = n + 1 /\ Current(r) = n + 1 /\ n + 1 \in Version
           /\ Len(ran') = Len(ran) + 1 /\ ran'[Len(ran) + 1] = f
           /\ \A i \in 1 .. Len(ran) : ran'[i] = ran[i]
           /\ \A v \in Version : Runs(v)' <= 1 + lost[v]
           /\ \A i \in 1 .. Len(ran) : ran[i].version \in Version /\ ran[i].version <= n + 1
           /\ \A i \in 1 .. Len(ran') : \A v \in 1 .. ran'[i].version - 1 : v \in 1 .. n
           /\ \A i, k \in 1 .. Len(ran') : i < k => ran'[i].version <= ran'[k].version
           /\ \A v \in Version : v \in 1 .. n \/ v = n + 1 \/ Runs(v)' <= lost[v]
           /\ \A v \in DOMAIN recorded : \E i \in 1 .. Len(ran') :
                 /\ ran'[i].version = v /\ ran'[i].text = recorded[v]
                 /\ \A k \in i + 1 .. Len(ran') : ran'[k].version # v
  <1>1. Current(r) = n + 1 /\ n + 1 \in Version /\ n + 1 \in Versions(Shipped(r))
    BY CurrentIsNext DEF At
  <1>2. Shipped(r) \in SUBSET File
    BY FilesAssumption DEF IInv, PendingExact, Locked, Shipped, At
  <1>3. f \in File /\ f.version = n + 1
    BY <1>1, <1>2, TheFileIs
  <1>4. ran \in Seq(File) /\ lost \in [Version -> Nat]
    BY Types
  <1>5. Len(ran') = Len(ran) + 1 /\ ran'[Len(ran) + 1] = f
        /\ \A i \in 1 .. Len(ran) : ran'[i] = ran[i]
    BY <1>3, <1>4
  <1>6. \A v \in Version : Applied(v) => v \in 1 .. n
    BY HolderAlone DEF Applied, At, Locked
  <1>7. \A v \in Version : Runs(v) \in Nat
                           /\ Runs(v)' = IF v = n + 1 THEN Runs(v) + 1 ELSE Runs(v)
    BY <1>3, <1>4, RunsType, RunsAppend
  <1>8. \A v \in Version : Runs(v) <= 1 + lost[v] /\ (v \in 1 .. n \/ Runs(v) <= lost[v])
    BY <1>6 DEF HInv, AppliedOnceInOrder, Unapplied
  <1>9. \A v \in Version : Runs(v)' <= 1 + lost[v]
                           /\ (v \in 1 .. n \/ v = n + 1 \/ Runs(v)' <= lost[v])
    BY <1>1, <1>4, <1>7, <1>8
  <1>10. \A i \in 1 .. Len(ran) : ran[i].version \in Version /\ ran[i].version <= n + 1
                                 /\ \A v \in 1 .. ran[i].version - 1 : v \in 1 .. n
    <2> SUFFICES ASSUME NEW i \in 1 .. Len(ran)
                 PROVE  ran[i].version \in Version /\ ran[i].version <= n + 1
                        /\ \A v \in 1 .. ran[i].version - 1 : v \in 1 .. n
      OBVIOUS
    <2>1. ran[i] \in File
      BY <1>4
    <2>2. ran[i].version \in Version
      BY <2>1 DEF File
    <2>3. \A v \in 1 .. ran[i].version - 1 : v \in 1 .. n
      BY DEF HInv, AppliedOnceInOrder
    <2> QED
      BY <2>2, <2>3, MaxVersionAssumption DEF Version
  <1>11. \A i \in 1 .. Len(ran') : \A v \in 1 .. ran'[i].version - 1 : v \in 1 .. n
    BY <1>3, <1>5, <1>10, <1>4
  <1>12. \A i, k \in 1 .. Len(ran) : i < k => ran[i].version <= ran[k].version
    BY DEF HInv, AppliedOnceInOrder
  <1>13. \A i, k \in 1 .. Len(ran') : i < k => ran'[i].version <= ran'[k].version
    <2> SUFFICES ASSUME NEW i \in 1 .. Len(ran'), NEW k \in 1 .. Len(ran'), i < k
                 PROVE  ran'[i].version <= ran'[k].version
      OBVIOUS
    <2>1. Len(ran) \in Nat
      BY <1>4
    <2>2. i \in 1 .. Len(ran) /\ ran'[i] = ran[i]
      BY <1>5, <2>1
    <2>3. CASE k = Len(ran) + 1
      BY <1>3, <1>5, <1>10, <2>2, <2>3
    <2>4. CASE k # Len(ran) + 1
      <3>1. k \in 1 .. Len(ran) /\ ran'[k] = ran[k]
        BY <1>5, <2>1, <2>4
      <3> QED
        BY <1>12, <2>2, <3>1
    <2> QED
      BY <2>3, <2>4
  <1>14. \A v \in DOMAIN recorded : \E i \in 1 .. Len(ran') :
             /\ ran'[i].version = v /\ ran'[i].text = recorded[v]
             /\ \A k \in i + 1 .. Len(ran') : ran'[k].version # v
    <2> SUFFICES ASSUME NEW v \in 1 .. n
                 PROVE  \E i \in 1 .. Len(ran') :
                           /\ ran'[i].version = v /\ ran'[i].text = recorded[v]
                           /\ \A k \in i + 1 .. Len(ran') : ran'[k].version # v
      OBVIOUS
    <2>1. PICK i \in 1 .. Len(ran) : /\ ran[i].version = v /\ ran[i].text = recorded[v]
                                    /\ \A k \in i + 1 .. Len(ran) : ran[k].version # v
      BY DEF HInv, RecordedHasRun
    <2>2. i \in 1 .. Len(ran') /\ ran'[i] = ran[i]
      BY <1>4, <1>5
    <2>3. \A k \in i + 1 .. Len(ran') : ran'[k].version # v
      <3> SUFFICES ASSUME NEW k \in i + 1 .. Len(ran') PROVE ran'[k].version # v
        OBVIOUS
      <3>1. Len(ran) \in Nat
        BY <1>4
      <3>2. k = Len(ran) + 1 \/ k \in i + 1 .. Len(ran)
        BY <1>5, <3>1
      <3>3. k \in i + 1 .. Len(ran) => ran'[k] = ran[k]
        BY <1>5, <3>1
      <3> QED
        BY <1>3, <1>5, <2>1, <3>2, <3>3
    <2> QED
      BY <2>1, <2>2, <2>3
  <1> QED
    BY <1>1, <1>3, <1>5, <1>9, <1>10, <1>11, <1>13, <1>14

LEMMA RunTransactionalHistory ==
    ASSUME IInv, HInv, NEW r \in Runner, RunTransactional(r)
    PROVE  HInv'
  <1>1. PICK n \in 0 .. MaxVersion : DOMAIN recorded = 1 .. n
    BY DEF IInv, NoHole
  <1> DEFINE f == TheFile(Shipped(r), Current(r))
  <1>2. At(r, "run") /\ proc[r].pending # {} /\ lost' = lost
    BY DEF RunTransactional
  <1>3. Current(r) = n + 1 /\ CanRecord(Current(r))
    BY <1>1, <1>2, CurrentIsNext DEF At, CanRecord
  <1>4. Record(n + 1, f.text) /\ ran' = Append(ran, f)
        /\ proc' = [proc EXCEPT ![r].pending = @ \ {n + 1}]
    BY <1>3 DEF RunTransactional
  <1>5. \A q \in Runner : ~At(q, "record")'
    <2>1. proc \in [Runner -> Process]
      BY DEF IInv, TypeOK
    <2>2. \A q \in Runner : proc'[q].pc = proc[q].pc
      BY <1>4, <2>1 DEF Process
    <2> QED
      BY <1>2, <2>2, HolderAlone DEF At, Locked
  <1>6. DOMAIN recorded' = 1 .. n + 1 /\ recorded'[n + 1] = f.text
        /\ \A v \in 1 .. n : recorded'[v] = recorded[v]
    BY <1>1, <1>4 DEF Record
  <1>7. f.version = n + 1 /\ n + 1 \in Version /\ Len(ran) \in Nat
        /\ Len(ran') = Len(ran) + 1 /\ ran'[Len(ran) + 1] = f
    BY <1>1, <1>2, <1>4, FileRuns, Types
  <1>8. AppliedOnceInOrder'
    <2>1. \A v \in Version : Runs(v)' <= 1 + lost'[v]
      BY <1>1, <1>2, <1>4, FileRuns
    <2>2. \A i, k \in 1 .. Len(ran') : i < k => ran'[i].version <= ran'[k].version
      BY <1>1, <1>2, <1>4, FileRuns
    <2>3. \A i \in 1 .. Len(ran') : \A v \in 1 .. ran'[i].version - 1 : v \in 1 .. n
      BY <1>1, <1>2, <1>4, FileRuns
    <2>4. 1 .. n \subseteq DOMAIN recorded'
      BY <1>6
    <2> QED
      BY <2>1, <2>2, <2>3, <2>4 DEF AppliedOnceInOrder
  <1>9. Unapplied'
    <2>1. \A v \in Version : v \in 1 .. n \/ v = n + 1 \/ Runs(v)' <= lost'[v]
      BY <1>1, <1>2, <1>4, FileRuns
    <2>2. \A v \in Version : v \in 1 .. n + 1 \/ Runs(v)' <= lost'[v]
      BY <2>1
    <2> QED
      BY <1>6, <2>2 DEF Unapplied, Applied
  <1>10. RecordedHasRun'
    <2>1. \A v \in 1 .. n : \E i \in 1 .. Len(ran') :
              /\ ran'[i].version = v /\ ran'[i].text = recorded[v]
              /\ \A k \in i + 1 .. Len(ran') : ran'[k].version # v
      BY <1>1, <1>2, <1>4, FileRuns
    <2>2. \E i \in 1 .. Len(ran') :
              /\ ran'[i].version = n + 1 /\ ran'[i].text = f.text
              /\ \A k \in i + 1 .. Len(ran') : ran'[k].version # n + 1
      <3>1. Len(ran) + 1 \in 1 .. Len(ran') /\ Len(ran) + 2 .. Len(ran') = {}
        BY <1>7
      <3> QED
        BY <1>7, <3>1
    <2>3. \A v \in DOMAIN recorded' : v \in 1 .. n \/ v = n + 1
      BY <1>6
    <2> HIDE DEF f
    <2> SUFFICES ASSUME NEW v \in DOMAIN recorded'
                 PROVE  \E i \in 1 .. Len(ran') :
                            /\ ran'[i].version = v /\ ran'[i].text = recorded'[v]
                            /\ \A k \in i + 1 .. Len(ran') : ran'[k].version # v
      BY DEF RecordedHasRun
    <2>4. CASE v \in 1 .. n
      BY <1>6, <2>1, <2>4
    <2>5. CASE v = n + 1
      BY <1>6, <2>2, <2>5
    <2> QED
      BY <2>3, <2>4, <2>5
  <1>11. JustRun'
    BY <1>5 DEF JustRun
  <1> QED
    BY <1>8, <1>9, <1>10, <1>11 DEF HInv

LEMMA RunAsWrittenHistory ==
    ASSUME IInv, HInv, NEW r \in Runner, RunAsWritten(r)
    PROVE  HInv'
  <1>1. PICK n \in 0 .. MaxVersion : DOMAIN recorded = 1 .. n
    BY DEF IInv, NoHole
  <1> DEFINE f == TheFile(Shipped(r), Current(r))
  <1>2. At(r, "run") /\ proc[r].pending # {} /\ lost' = lost /\ recorded' = recorded
        /\ ran' = Append(ran, f) /\ Goto(r, "record")
    BY DEF RunAsWritten
  <1>3. Current(r) = n + 1 /\ Len(ran) \in Nat
        /\ Len(ran') = Len(ran) + 1 /\ ran'[Len(ran) + 1] = f
    BY <1>1, <1>2, FileRuns, Types
  <1>4. proc'[r].pc = "record" /\ proc'[r].pending = proc[r].pending
        /\ proc'[r].release = proc[r].release
        /\ \A q \in Runner \ {r} : ~At(q, "record")'
    <2>1. proc \in [Runner -> Process]
      BY DEF IInv, TypeOK
    <2>2. \A q \in Runner \ {r} : proc'[q] = proc[q]
      BY <1>2, <2>1 DEF Goto
    <2>3. \A q \in Runner \ {r} : ~At(q, "record")
      BY <1>2, HolderAlone DEF At, Locked
    <2> QED
      BY <1>2, <2>1, <2>2, <2>3 DEF Goto, Process, At
  <1>5. Current(r)' = n + 1 /\ Shipped(r)' = Shipped(r) /\ Current(r)' = Current(r)
    BY <1>3, <1>4 DEF Current, Shipped
  <1>6. AppliedOnceInOrder'
    <2>1. \A v \in Version : Runs(v)' <= 1 + lost'[v]
      BY <1>1, <1>2, FileRuns
    <2>2. \A i, k \in 1 .. Len(ran') : i < k => ran'[i].version <= ran'[k].version
      BY <1>1, <1>2, FileRuns
    <2>3. \A i \in 1 .. Len(ran') : \A v \in 1 .. ran'[i].version - 1 : v \in DOMAIN recorded'
      BY <1>1, <1>2, FileRuns
    <2> QED
      BY <2>1, <2>2, <2>3 DEF AppliedOnceInOrder
  <1>7. Unapplied'
    <2>1. \A v \in Version : v \in 1 .. n \/ v = n + 1 \/ Runs(v)' <= lost'[v]
      BY <1>1, <1>2, FileRuns
    <2>2. At(r, "record")'
      BY <1>4 DEF At
    <2> QED
      BY <1>1, <1>2, <1>5, <2>1, <2>2 DEF Unapplied, Applied
  <1>8. RecordedHasRun'
    <2>1. \A v \in DOMAIN recorded' : \E i \in 1 .. Len(ran') :
              /\ ran'[i].version = v /\ ran'[i].text = recorded'[v]
              /\ \A k \in i + 1 .. Len(ran') : ran'[k].version # v
      BY <1>1, <1>2, FileRuns
    <2> QED
      BY <2>1 DEF RecordedHasRun
  <1>9. JustRun'
    <2>1. Len(ran') > 0 /\ ran'[Len(ran')] = f
      BY <1>3
    <2>2. TheFile(Shipped(r), Current(r))' = f
      BY <1>5 DEF TheFile
    <2> QED
      BY <1>4, <2>1, <2>2 DEF JustRun
  <1> QED
    BY <1>6, <1>7, <1>8, <1>9 DEF HInv

\* Recording closes the gap: the row names the file that ran last.
LEMMA RecordRowHistory ==
    ASSUME IInv, HInv, NEW r \in Runner, RecordRow(r)
    PROVE  HInv'
  <1>1. PICK n \in 0 .. MaxVersion : DOMAIN recorded = 1 .. n
    BY DEF IInv, NoHole
  <1> DEFINE f == TheFile(Shipped(r), Current(r))
  <1>2. At(r, "record") /\ proc[r].pending # {} /\ lost' = lost /\ ran' = ran
    BY DEF RecordRow, IInv, PendingExact, At
  <1>3. Current(r) = n + 1 /\ CanRecord(Current(r)) /\ n + 1 \in Versions(Shipped(r))
    BY <1>1, <1>2, CurrentIsNext DEF At, CanRecord
  <1>4. Record(n + 1, f.text)
        /\ proc' = [proc EXCEPT ![r].pc = "run", ![r].pending = @ \ {n + 1}]
    BY <1>3 DEF RecordRow
  <1>5. \A q \in Runner : ~At(q, "record")'
    <2>1. proc \in [Runner -> Process]
      BY DEF IInv, TypeOK
    <2>2. \A q \in Runner \ {r} : proc'[q] = proc[q]
      BY <1>4, <2>1
    <2>3. proc'[r].pc = "run"
      BY <1>4, <2>1 DEF Process
    <2>4. \A q \in Runner \ {r} : ~At(q, "record")
      BY <1>2, HolderAlone DEF At, Locked
    <2> QED
      BY <2>2, <2>3, <2>4 DEF At
  <1>6. DOMAIN recorded' = 1 .. n + 1 /\ recorded'[n + 1] = f.text
        /\ \A v \in 1 .. n : recorded'[v] = recorded[v]
    BY <1>1, <1>4 DEF Record
  <1>7. Len(ran) \in Nat /\ Len(ran) > 0 /\ ran[Len(ran)] = f
    BY <1>2, Types DEF HInv, JustRun
  <1>8. f.version = n + 1
    <2>1. Shipped(r) \in SUBSET File
      BY <1>2, FilesAssumption DEF IInv, PendingExact, Locked, Shipped, At
    <2> QED
      BY <1>3, <2>1, TheFileIs
  <1>9. \A v : Runs(v)' = Runs(v)
    BY <1>2 DEF Runs
  <1> HIDE DEF f
  <1>10. AppliedOnceInOrder'
    <2>1. \A i \in 1 .. Len(ran) : \A v \in 1 .. ran[i].version - 1 : v \in DOMAIN recorded'
      BY <1>1, <1>6 DEF HInv, AppliedOnceInOrder
    <2> QED
      BY <1>2, <1>9, <2>1 DEF HInv, AppliedOnceInOrder
  <1>11. Unapplied'
    <2>1. \A v \in Version : Applied(v) => v \in 1 .. n + 1
      BY <1>1, <1>2, <1>3, HolderAlone DEF Applied, At, Locked
    <2> QED
      BY <1>2, <1>6, <1>9, <2>1 DEF HInv, Unapplied, Applied
  <1>12. RecordedHasRun'
    <2>1. \A v \in 1 .. n : \E i \in 1 .. Len(ran) :
              /\ ran[i].version = v /\ ran[i].text = recorded[v]
              /\ \A k \in i + 1 .. Len(ran) : ran[k].version # v
      BY <1>1 DEF HInv, RecordedHasRun
    <2>2. \E i \in 1 .. Len(ran) :
              /\ ran[i].version = n + 1 /\ ran[i].text = f.text
              /\ \A k \in i + 1 .. Len(ran) : ran[k].version # n + 1
      <3>1. Len(ran) \in 1 .. Len(ran) /\ Len(ran) + 1 .. Len(ran) = {}
        BY <1>7
      <3> QED
        BY <1>7, <1>8, <3>1
    <2>3. \A v \in DOMAIN recorded' : v \in 1 .. n \/ v = n + 1
      BY <1>6
    <2> SUFFICES ASSUME NEW v \in DOMAIN recorded'
                 PROVE  \E i \in 1 .. Len(ran) :
                            /\ ran[i].version = v /\ ran[i].text = recorded'[v]
                            /\ \A k \in i + 1 .. Len(ran) : ran[k].version # v
      BY <1>2 DEF RecordedHasRun
    <2>4. CASE v \in 1 .. n
      BY <1>6, <2>1, <2>4
    <2>5. CASE v = n + 1
      BY <1>6, <2>2, <2>5
    <2> QED
      BY <2>3, <2>4, <2>5
  <1>13. JustRun'
    BY <1>5 DEF JustRun
  <1> QED
    BY <1>10, <1>11, <1>12, <1>13 DEF HInv

\* A runner that dies in the gap leaves a run behind that is counted as lost.
LEMMA CrashHistory ==
    ASSUME IInv, HInv, NEW r \in Runner, Crash(r)
    PROVE  HInv'
  <1>1. proc \in [Runner -> Process] /\ lost \in [Version -> Nat] /\ ran \in Seq(File)
    BY DEF IInv, TypeOK
  <1>2. UNCHANGED <<recorded, ran>>
        /\ proc' = [proc EXCEPT ![r].pc = "exit", ![r].code = 1, ![r].pending = {}]
    BY DEF Crash
  <1>3. proc'[r].pc = "exit" /\ \A q \in Runner \ {r} : proc'[q] = proc[q]
    BY <1>1, <1>2 DEF Process
  <1>4. CASE ~At(r, "record")
    <2>1. lost' = lost
      BY <1>4 DEF Crash
    <2>2. \A q \in Runner : At(q, "record")' = At(q, "record")
      BY <1>3, <1>4 DEF At
    <2> QED
      BY <1>2, <1>3, <1>4, <2>1, <2>2, QuietHistory DEF At
  <1>5. CASE At(r, "record")
    <2>1. PICK n \in 0 .. MaxVersion : DOMAIN recorded = 1 .. n
      BY DEF IInv, NoHole
    <2>2. Current(r) = n + 1 /\ n + 1 \in Version
      BY <1>5, <2>1, CurrentIsNext DEF IInv, PendingExact, At
    <2>3. lost' = [lost EXCEPT ![n + 1] = @ + 1]
      BY <1>5, <2>2 DEF Crash
    <2>4. \A q \in Runner : ~At(q, "record")'
      BY <1>3, <1>5, HolderAlone DEF At, Locked
    <2>5. \A v \in Version : Runs(v)' = Runs(v) /\ Runs(v) \in Nat
      BY <1>1, <1>2, RunsType DEF Runs
    <2>6. \A v \in Version : lost'[v] = IF v = n + 1 THEN lost[v] + 1 ELSE lost[v]
      BY <1>1, <2>3
    <2>7. \A v \in Version : Runs(v)' <= 1 + lost'[v]
      BY <1>1, <2>5, <2>6 DEF HInv, AppliedOnceInOrder
    <2>8. AppliedOnceInOrder'
      BY <1>2, <2>7 DEF HInv, AppliedOnceInOrder
    <2>9. \A v \in Version : v \in DOMAIN recorded \/ Runs(v)' <= lost'[v]
      <3> SUFFICES ASSUME NEW v \in Version, v \notin DOMAIN recorded
                   PROVE  Runs(v)' <= lost'[v]
        OBVIOUS
      <3>1. CASE v = n + 1
        BY <1>1, <2>5, <2>6, <3>1 DEF HInv, AppliedOnceInOrder
      <3>2. CASE v # n + 1
        <4>1. ~Applied(v)
          BY <1>5, <2>2, <3>2, HolderAlone DEF Applied, At, Locked
        <4> QED
          BY <2>5, <2>6, <3>2, <4>1 DEF HInv, Unapplied
      <3> QED
        BY <3>1, <3>2
    <2>10. Unapplied'
      BY <1>2, <2>9 DEF Unapplied, Applied
    <2>11. RecordedHasRun'
      BY <1>2 DEF HInv, RecordedHasRun
    <2>12. JustRun'
      BY <2>4 DEF JustRun
    <2> QED
      BY <2>8, <2>10, <2>11, <2>12 DEF HInv
  <1> QED
    BY <1>4, <1>5

\* Every other step of a runner stays on its side of the gap.
LEMMA QuietStepHistory ==
    ASSUME IInv, HInv, NEW r \in Runner,
           \/ TakeLock(r) \/ LockTimeout(r) \/ CreateTable(r) \/ Plan(r) \/ RunFails(r)
           \/ AllRun(r) \/ Unlock(r) \/ \E rel \in Release : Start(r, rel)
    PROVE  HInv'
  <1>1. proc \in [Runner -> Process]
    BY DEF IInv, TypeOK
  <1>2. UNCHANGED <<ran, lost, recorded>> /\ ~At(r, "record")
    BY DEF TakeLock, LockTimeout, CreateTable, Plan, RunFails, AllRun, Unlock, Start, At
  <1>3. PICK p : proc' = [proc EXCEPT ![r] = p] /\ p.pc # "record"
    <2>1. CASE \E rel \in Release : Start(r, rel)
      <3>1. PICK rel \in Release : Start(r, rel)
        BY <2>1
      <3> DEFINE p == IF Loads(Files[rel])
                      THEN [Asleep EXCEPT !.pc = "lock", !.release = rel]
                      ELSE [Asleep EXCEPT !.pc = "exit", !.release = rel, !.code = 2]
      <3>2. p.pc # "record"
        BY DEF Asleep
      <3>3. proc' = [proc EXCEPT ![r] = p]
        BY <3>1 DEF Start
      <3> QED
        BY <3>2, <3>3
    <2>2. CASE Fail(r)
      <3> DEFINE p == [proc[r] EXCEPT !.pc = "unlock", !.code = 1, !.pending = {}]
      <3>1. p.pc # "record"
        BY <1>1 DEF Process
      <3> QED
        BY <2>2, <3>1 DEF Fail
    <2>3. CASE \E label \in {"table", "plan", "unlock", "exit"} : Goto(r, label)
      <3>1. PICK label \in {"table", "plan", "unlock", "exit"} : Goto(r, label)
        BY <2>3
      <3> DEFINE p == [proc[r] EXCEPT !.pc = label]
      <3>2. p.pc # "record"
        BY <1>1 DEF Process
      <3> QED
        BY <3>1, <3>2 DEF Goto
    <2>4. CASE LockTimeout(r)
      <3> DEFINE p == [proc[r] EXCEPT !.pc = "exit", !.code = 1]
      <3>1. p.pc # "record"
        BY <1>1 DEF Process
      <3> QED
        BY <2>4, <3>1 DEF LockTimeout
    <2>5. CASE Plan(r) /\ ~Fail(r)
      <3> DEFINE p == [proc[r] EXCEPT !.pc = "run", !.pending = Pending(recorded, Shipped(r))]
      <3>1. p.pc # "record"
        BY <1>1 DEF Process
      <3> QED
        BY <2>5, <3>1 DEF Plan
    <2> QED
      BY <2>1, <2>2, <2>3, <2>4, <2>5 DEF TakeLock, CreateTable, RunFails, AllRun, Unlock
  <1>4. \A q \in Runner : At(q, "record")' = At(q, "record")
    BY <1>1, <1>2, <1>3 DEF At
  <1>5. \A q \in Runner : At(q, "record") => proc'[q] = proc[q]
    BY <1>1, <1>2, <1>3
  <1> QED
    BY <1>2, <1>4, <1>5, QuietHistory

LEMMA HistoryInvariance == Spec => []HInv
  <1>1. IInv /\ HInv /\ [Next]_vars => HInv'
    <2> SUFFICES ASSUME IInv, HInv, [Next]_vars PROVE HInv'
      OBVIOUS
    <2>1. ASSUME NEW a \in App, AppStop(a) \/ \E rel \in Release : AppStart(a, rel)
          PROVE  HInv'
      <3>1. UNCHANGED <<ran, lost, recorded, proc>>
        BY <2>1 DEF AppStop, AppStart
      <3> QED
        BY <3>1, QuietHistory DEF At
    <2>2. CASE UNCHANGED vars
      BY <2>2, QuietHistory DEF At, vars
    <2> QED
      BY <2>1, <2>2, QuietStepHistory, RunTransactionalHistory, RunAsWrittenHistory,
         RecordRowHistory, CrashHistory DEF Next, Step
  <1> QED
    BY <1>1, InitHInv, Invariance, PTL DEF Spec

\* For every number of runners, releases, files and crashes: the SQL of a version is
\* committed once and once more for each runner that died before its row, in the
\* order of the versions, each one only after every lower one was recorded.
THEOREM EachAppliedOnce == Spec => []AppliedOnceInOrder
  <1>1. HInv => AppliedOnceInOrder
    BY DEF HInv
  <1> QED
    BY <1>1, HistoryInvariance, PTL

\* A row of schema_migrations is true: its version was last run with its text.
THEOREM HistoryIsTrue == Spec => []RecordedHasRun
  <1>1. HInv => RecordedHasRun
    BY DEF HInv
  <1> QED
    BY <1>1, HistoryInvariance, PTL
=============================================================================
