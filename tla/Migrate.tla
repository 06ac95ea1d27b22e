------------------------------ MODULE Migrate -------------------------------
(***************************************************************************)
(* Store.Migrate (store/migrate.go): every process that starts applies the *)
(* migration files its build carries, under a session's advisory lock, one *)
(* transaction per file.  Processes of several builds start together       *)
(* (a rolling deployment, tests, the rulepatch command), statements fail,  *)
(* the answer of a commit is lost, a process dies and is started again.    *)
(*                                                                         *)
(* Files are numbered in the order of their sorted names.                  *)
(***************************************************************************)
EXTENDS Integers, Sequences

CONSTANTS
  Processes,
  FilesOf,    (* the number of files a process's build carries              *)
  Free,       (* no session has the advisory lock                           *)
  MaxFaults   (* bound on errors and crashes                                *)

ASSUME MigrateAssumption ==
  /\ FilesOf \in [Processes -> Nat]
  /\ Free \notin Processes
  /\ MaxFaults \in Nat

VARIABLES
  lock,      \* whose session has the advisory lock
  table,     \* schema_migrations exists
  recorded,  \* its rows
  schema,    \* the files whose statements are committed, in the order they were
  mpc,       \* where each call of Migrate is
  file,      \* the file its loop is at
  faults,    \* errors and crashes so far
  failures   \* calls that returned an error

migrateVars == <<lock, table, recorded, schema, mpc, file, faults, failures>>

\* A call that has an open transaction is in one of these.
InTransaction == {"record", "commit"}

MigrateTypeOK ==
  /\ lock \in Processes \cup {Free}
  /\ table \in BOOLEAN
  /\ recorded \subseteq Nat \ {0}
  /\ schema \in Seq(Nat \ {0})
  /\ mpc \in [Processes -> {"lock", "table", "check", "apply", "unlock", "done", "failed"}
                              \cup InTransaction]
  /\ file \in [Processes -> Nat \ {0}]
  /\ faults \in 0..MaxFaults
  /\ failures \in Nat

MigrateInit ==
  /\ lock = Free
  /\ table = FALSE
  /\ recorded = {}
  /\ schema = <<>>
  /\ mpc = [p \in Processes |-> "lock"]
  /\ file = [p \in Processes |-> 1]
  /\ faults = 0
  /\ failures = 0

-----------------------------------------------------------------------------
At(p, step) == mpc[p] = step
Goto(p, step) == mpc' = [mpc EXCEPT ![p] = step]
Fault == faults < MaxFaults /\ faults' = faults + 1

\* Mutant: the lock is tried, and the migration goes on without it.
AdvisoryLockTried(p) ==
  /\ At(p, "lock") /\ Goto(p, "table")
  /\ lock' = IF lock = Free THEN p ELSE lock
  /\ UNCHANGED <<table, recorded, schema, file, faults, failures>>

\* pg_advisory_lock waits until no other session has it.
AdvisoryLock(p) ==
  /\ At(p, "lock") /\ Goto(p, "table")
  /\ lock = Free /\ lock' = p
  /\ UNCHANGED <<table, recorded, schema, file, faults, failures>>

\* CREATE TABLE IF NOT EXISTS schema_migrations; the loop starts at the first file.
EnsureMigrationsTable(p) ==
  /\ At(p, "table") /\ Goto(p, "check")
  /\ table' = TRUE
  /\ file' = [file EXCEPT ![p] = 1]
  /\ UNCHANGED <<lock, recorded, schema, faults, failures>>

\* Mutant: a recorded file ends the loop.
CheckFileStops(p) ==
  /\ At(p, "check") /\ table
  /\ IF file[p] > FilesOf[p] \/ file[p] \in recorded
       THEN Goto(p, "unlock") ELSE Goto(p, "apply")
  /\ UNCHANGED <<lock, table, recorded, schema, file, faults, failures>>

\* Is the file recorded?  Past the last one the deferred unlock is next.
CheckFile(p) ==
  /\ At(p, "check") /\ table
  /\ IF file[p] > FilesOf[p]
       THEN Goto(p, "unlock") /\ UNCHANGED file
       ELSE IF file[p] \in recorded
         THEN file' = [file EXCEPT ![p] = @ + 1] /\ UNCHANGED mpc
         ELSE Goto(p, "apply") /\ UNCHANGED file
  /\ UNCHANGED <<lock, table, recorded, schema, faults, failures>>

\* Begin and run the file.  Its DDL waits for a transaction that has run it too; the
\* files are written to be repeatable, so it does not fail for that.
ApplyFile(p) ==
  /\ At(p, "apply") /\ Goto(p, "record")
  /\ \A q \in Processes : mpc[q] \notin InTransaction
  /\ UNCHANGED <<lock, table, recorded, schema, file, faults, failures>>

\* The row of schema_migrations is part of the transaction; a second one of the same
\* file violates the primary key and the call fails.
RecordFile(p) ==
  /\ At(p, "record")
  /\ IF file[p] \in recorded
       THEN Goto(p, "failed") /\ lock' = (IF lock = p THEN Free ELSE lock)
              /\ failures' = failures + 1
       ELSE Goto(p, "commit") /\ UNCHANGED <<lock, failures>>
  /\ UNCHANGED <<table, recorded, schema, file, faults>>

\* Mutant: the file is recorded, and its statements are not in the transaction.
CommittedRecordOnly(p) ==
  recorded' = recorded \cup {file[p]} /\ UNCHANGED schema

\* What a commit of p makes visible.
Committed(p) ==
  /\ recorded' = recorded \cup {file[p]}
  /\ schema' = Append(schema, file[p])

CommitFile(p) ==
  /\ At(p, "commit") /\ Goto(p, "check")
  /\ Committed(p)
  /\ file' = [file EXCEPT ![p] = @ + 1]
  /\ UNCHANGED <<lock, table, faults, failures>>

\* Mutant: the session goes back to the pool with its lock.
UnlockForgotten(p) ==
  /\ At(p, "unlock") /\ Goto(p, "done")
  /\ UNCHANGED <<lock, table, recorded, schema, file, faults, failures>>

\* The deferred unlock, then Release.
AdvisoryUnlock(p) ==
  /\ At(p, "unlock") /\ Goto(p, "done")
  /\ lock' = IF lock = p THEN Free ELSE lock
  /\ UNCHANGED <<table, recorded, schema, file, faults, failures>>

Running(p) == mpc[p] \notin {"lock", "done", "failed"}

\* A statement fails: rollback, unlock, and the error goes to the caller.  A commit
\* whose answer is lost took effect.
MigrateFails(p) ==
  /\ Running(p) /\ ~At(p, "unlock") /\ Fault
  /\ Goto(p, "failed")
  /\ failures' = failures + 1
  /\ lock' = IF lock = p THEN Free ELSE lock
  /\ \/ UNCHANGED <<recorded, schema>>
     \/ At(p, "commit") /\ Committed(p)
  /\ UNCHANGED <<table, file>>

\* The process dies: its session ends, with its transaction and its lock.
MigrateCrash(p) ==
  /\ Running(p) /\ Fault
  /\ Goto(p, "lock")
  /\ lock' = IF lock = p THEN Free ELSE lock
  /\ UNCHANGED <<table, recorded, schema, file, failures>>

\* A process whose Migrate failed exits, and is started again.
MigrateAgain(p) ==
  /\ At(p, "failed") /\ Goto(p, "lock")
  /\ UNCHANGED <<lock, table, recorded, schema, file, faults, failures>>

MigrateStep(p) ==
  \/ AdvisoryLock(p) \/ EnsureMigrationsTable(p) \/ CheckFile(p) \/ ApplyFile(p)
  \/ RecordFile(p) \/ CommitFile(p) \/ AdvisoryUnlock(p) \/ MigrateAgain(p)

MigrateNext ==
  \E p \in Processes : MigrateStep(p) \/ MigrateFails(p) \/ MigrateCrash(p)

MigrateSpec == MigrateInit /\ [][MigrateNext]_migrateVars

\* The database answers, and a process that exits is restarted.
MigrateFairSpec == MigrateSpec /\ \A p \in Processes : WF_migrateVars(MigrateStep(p))

-----------------------------------------------------------------------------
\* The schema is an initial part of the files, each applied once and in order, and
\* schema_migrations says exactly which, whoever starts, dies or fails (Migrate's lock
\* and its transaction per file).
SchemaIsPrefix ==
  /\ \A i \in 1..Len(schema) : schema[i] = i
  /\ recorded = 1..Len(schema)

\* A call returns an error only when a statement of its own failed: processes that
\* start together wait for each other instead of failing (migrate.go's comment on the
\* session-scoped lock).
FailuresAreFaults == failures <= faults

\* A call that returned nil left its build's whole schema behind, and nobody takes it
\* back.
DoneIsMigrated ==
  \A p \in Processes : mpc[p] = "done" => 1..FilesOf[p] \subseteq recorded

\* Every process gets through in the end: the lock is always given back.
EveryoneMigrates == \A p \in Processes : <>[](mpc[p] = "done")
=============================================================================
