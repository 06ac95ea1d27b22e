--------------------------- MODULE MigrateProofs ----------------------------
(***************************************************************************)
(* Migrations apply once and in order for any number of processes, builds, *)
(* crashes and errors.                                                     *)
(*                                                                         *)
(* SchemaIsPrefix is not inductive: a commit appends the file its process  *)
(* is at, and that this is the next one rests on what the process saw      *)
(* several steps before, when it asked whether the file is recorded.  What *)
(* it saw still holds because nobody else has the lock meanwhile.          *)
(***************************************************************************)
EXTENDS Migrate, TLAPS

\* Who runs has the lock, so no two do.
RunnerHasLock == \A p \in Processes : Running(p) <=> lock = p

\* Behind the loop of a process every file is recorded.
BehindIsRecorded ==
  \A p \in Processes :
    mpc[p] \in {"check", "apply", "record", "commit"} => file[p] <= Len(schema) + 1

\* The file a process is about to apply is the next one.
NextIsMissing ==
  \A p \in Processes :
    mpc[p] \in {"apply", "record", "commit"} => file[p] = Len(schema) + 1

\* Who got through the loop found all its files.
ThroughIsMigrated ==
  \A p \in Processes : mpc[p] \in {"unlock", "done"} => FilesOf[p] <= Len(schema)

MigrateInv ==
  /\ MigrateTypeOK
  /\ SchemaIsPrefix
  /\ RunnerHasLock
  /\ BehindIsRecorded
  /\ NextIsMissing
  /\ ThroughIsMigrated
  /\ FailuresAreFaults

LEMMA MigrateInitInv == MigrateInit => MigrateInv
<1> SUFFICES ASSUME MigrateInit PROVE MigrateInv
  OBVIOUS
<1>1. MigrateTypeOK
  <2>1. schema \in Seq(Nat \ {0}) /\ recorded \subseteq Nat \ {0}
    BY DEF MigrateInit
  <2>2. file \in [Processes -> Nat \ {0}] /\ faults \in 0..MaxFaults /\ failures \in Nat
    BY MigrateAssumption DEF MigrateInit
  <2> QED  BY <2>1, <2>2 DEF MigrateInit, MigrateTypeOK
<1>2. SchemaIsPrefix /\ FailuresAreFaults
  BY DEF MigrateInit, SchemaIsPrefix, FailuresAreFaults
<1>3. RunnerHasLock
  BY MigrateAssumption DEF MigrateInit, RunnerHasLock, Running
<1>4. BehindIsRecorded /\ NextIsMissing /\ ThroughIsMigrated
  BY DEF MigrateInit, BehindIsRecorded, NextIsMissing, ThroughIsMigrated
<1> QED  BY <1>1, <1>2, <1>3, <1>4 DEF MigrateInv

\* A commit of the next file keeps the schema a prefix and the length goes up by one.
LEMMA CommittedAppends ==
  ASSUME MigrateInv, NEW p \in Processes, At(p, "commit"), Committed(p)
  PROVE  /\ schema' \in Seq(Nat \ {0})
         /\ Len(schema') = Len(schema) + 1
         /\ recorded' \subseteq Nat \ {0}
         /\ SchemaIsPrefix'
<1>1. file[p] = Len(schema) + 1 /\ file[p] \in Nat \ {0} /\ schema \in Seq(Nat \ {0})
  BY DEF MigrateInv, NextIsMissing, MigrateTypeOK, At
<1>2. /\ schema' \in Seq(Nat \ {0})
      /\ Len(schema') = Len(schema) + 1
      /\ \A i \in 1..Len(schema) : schema'[i] = schema[i]
      /\ schema'[Len(schema) + 1] = file[p]
  BY <1>1 DEF Committed
<1>3. recorded' = 1..Len(schema')
  <2>1. recorded = 1..Len(schema) /\ Len(schema) \in Nat
    BY <1>1 DEF MigrateInv, SchemaIsPrefix
  <2> QED  BY <2>1, <1>1, <1>2 DEF Committed
<1>4. \A i \in 1..Len(schema') : schema'[i] = i
  BY <1>1, <1>2 DEF MigrateInv, SchemaIsPrefix
<1>5. recorded' \subseteq Nat \ {0}
  BY <1>1, <1>2, <1>3
<1> QED  BY <1>2, <1>3, <1>4, <1>5 DEF SchemaIsPrefix

\* A step of the holder of the lock, or of nobody, that leaves the schema alone only
\* answers for where it puts its process.
LEMMA SchemaKept ==
  ASSUME MigrateInv, UNCHANGED <<recorded, schema>>, MigrateTypeOK',
         RunnerHasLock', FailuresAreFaults', NEW p \in Processes,
         \A q \in Processes \ {p} : mpc'[q] = mpc[q] /\ file'[q] = file[q],
         mpc'[p] \in {"check", "apply", "record", "commit"} => file'[p] <= Len(schema) + 1,
         mpc'[p] \in {"apply", "record", "commit"} => file'[p] = Len(schema) + 1,
         mpc'[p] \in {"unlock", "done"} => FilesOf[p] <= Len(schema)
  PROVE  MigrateInv'
<1>1. SchemaIsPrefix'
  BY DEF MigrateInv, SchemaIsPrefix
<1>2. BehindIsRecorded' /\ NextIsMissing' /\ ThroughIsMigrated'
  BY DEF MigrateInv, BehindIsRecorded, NextIsMissing, ThroughIsMigrated
<1> QED  BY <1>1, <1>2 DEF MigrateInv

\* A step that moves one process from a place where it runs to another and keeps the
\* lock, or from one where it runs to one where it does not and gives the lock back.
LEMMA LockKept ==
  ASSUME MigrateTypeOK, RunnerHasLock, NEW p \in Processes, Running(p),
         NEW step, Goto(p, step),
         \/ step \notin {"lock", "done", "failed"} /\ UNCHANGED lock
         \/ step \in {"lock", "done", "failed"}
              /\ lock' = IF lock = p THEN Free ELSE lock
  PROVE  RunnerHasLock'
<1>1. lock = p /\ Free \notin Processes
  BY MigrateAssumption DEF RunnerHasLock
<1>2. \A q \in Processes \ {p} : mpc'[q] = mpc[q]
  BY DEF Goto, MigrateTypeOK
<1>3. mpc'[p] = step
  BY DEF Goto, MigrateTypeOK
<1> QED  BY <1>1, <1>2, <1>3 DEF RunnerHasLock, Running

-----------------------------------------------------------------------------
\* Every step of a process keeps the invariant.
LEMMA MigrateStepInv ==
  ASSUME MigrateInv, NEW p \in Processes, MigrateStep(p)
  PROVE  MigrateInv'
<1> USE MigrateAssumption
<1>1. CASE AdvisoryLock(p)
  <2>1. MigrateTypeOK'
    BY <1>1 DEF MigrateInv, MigrateTypeOK, AdvisoryLock, At, Goto
  <2>2. RunnerHasLock'
    BY <1>1 DEF MigrateInv, MigrateTypeOK, RunnerHasLock, Running, AdvisoryLock, At, Goto
  <2> QED  BY <1>1, <2>1, <2>2, SchemaKept
             DEF MigrateInv, MigrateTypeOK, FailuresAreFaults, AdvisoryLock, Goto
<1>2. CASE EnsureMigrationsTable(p)
  <2>1. MigrateTypeOK'
    BY <1>2 DEF MigrateInv, MigrateTypeOK, EnsureMigrationsTable, At, Goto
  <2>2. RunnerHasLock'
    BY <1>2, LockKept DEF MigrateInv, EnsureMigrationsTable, At, Running
  <2>3. Len(schema) \in Nat /\ file'[p] = 1 /\ mpc'[p] = "check"
    BY <1>2 DEF MigrateInv, MigrateTypeOK, EnsureMigrationsTable, Goto
  <2>4. \A q \in Processes \ {p} : mpc'[q] = mpc[q] /\ file'[q] = file[q]
    BY <1>2 DEF MigrateInv, MigrateTypeOK, EnsureMigrationsTable, Goto
  <2> QED  BY <1>2, <2>1, <2>2, <2>3, <2>4, SchemaKept
             DEF MigrateInv, FailuresAreFaults, EnsureMigrationsTable
<1>3. CASE CheckFile(p)
  <2>1. MigrateTypeOK'
    <3>1. file' \in [Processes -> Nat \ {0}]
      BY <1>3 DEF MigrateInv, MigrateTypeOK, CheckFile
    <3>2. UNCHANGED mpc \/ Goto(p, "unlock") \/ Goto(p, "apply")
      BY <1>3 DEF CheckFile
    <3> QED  BY <1>3, <3>1, <3>2 DEF MigrateInv, MigrateTypeOK, CheckFile, Goto
  <2>2. RunnerHasLock'
    BY <1>3, LockKept DEF MigrateInv, MigrateTypeOK, RunnerHasLock, CheckFile, At, Running, Goto
  <2>3. /\ Len(schema) \in Nat /\ recorded = 1..Len(schema)
        /\ file[p] \in Nat \ {0} /\ file[p] <= Len(schema) + 1
        /\ FilesOf[p] \in Nat
    BY <1>3 DEF MigrateInv, MigrateTypeOK, SchemaIsPrefix, BehindIsRecorded, CheckFile, At
  <2>4. /\ mpc'[p] \in {"check", "apply", "record", "commit"} => file'[p] <= Len(schema) + 1
        /\ mpc'[p] \in {"apply", "record", "commit"} => file'[p] = Len(schema) + 1
        /\ mpc'[p] \in {"unlock", "done"} => FilesOf[p] <= Len(schema)
    <3>1. CASE file[p] > FilesOf[p]
      BY <1>3, <2>3, <3>1 DEF MigrateInv, MigrateTypeOK, CheckFile, Goto
    <3>2. CASE ~(file[p] > FilesOf[p]) /\ file[p] \in recorded
      BY <1>3, <2>3, <3>2 DEF MigrateInv, MigrateTypeOK, CheckFile, At
    <3>3. CASE ~(file[p] > FilesOf[p]) /\ file[p] \notin recorded
      BY <1>3, <2>3, <3>3 DEF MigrateInv, MigrateTypeOK, CheckFile, Goto
    <3> QED  BY <3>1, <3>2, <3>3
  <2>5. \A q \in Processes \ {p} : mpc'[q] = mpc[q] /\ file'[q] = file[q]
    BY <1>3 DEF MigrateInv, MigrateTypeOK, CheckFile, Goto
  <2> QED  BY <1>3, <2>1, <2>2, <2>4, <2>5, SchemaKept
             DEF MigrateInv, FailuresAreFaults, CheckFile
<1>4. CASE ApplyFile(p)
  <2>1. MigrateTypeOK'
    BY <1>4 DEF MigrateInv, MigrateTypeOK, ApplyFile, At, Goto, InTransaction
  <2>2. RunnerHasLock'
    BY <1>4, LockKept DEF MigrateInv, ApplyFile, At, Running
  <2>3. file[p] = Len(schema) + 1 /\ Len(schema) \in Nat
    BY <1>4 DEF MigrateInv, MigrateTypeOK, NextIsMissing, ApplyFile, At
  <2> QED  BY <1>4, <2>1, <2>2, <2>3, SchemaKept
             DEF MigrateInv, MigrateTypeOK, FailuresAreFaults, ApplyFile, Goto
<1>5. CASE RecordFile(p)
  <2>1. file[p] = Len(schema) + 1 /\ Len(schema) \in Nat /\ file[p] \notin recorded
    BY <1>5 DEF MigrateInv, MigrateTypeOK, SchemaIsPrefix, NextIsMissing, RecordFile, At
  <2>2. Goto(p, "commit") /\ UNCHANGED <<lock, table, recorded, schema, file, faults, failures>>
    BY <1>5, <2>1 DEF RecordFile
  <2>3. MigrateTypeOK'
    BY <2>2 DEF MigrateInv, MigrateTypeOK, Goto, InTransaction
  <2>4. RunnerHasLock'
    BY <1>5, <2>2, LockKept DEF MigrateInv, RecordFile, At, Running
  <2> QED  BY <2>1, <2>2, <2>3, <2>4, SchemaKept
             DEF MigrateInv, MigrateTypeOK, FailuresAreFaults, Goto
<1>6. CASE CommitFile(p)
  <2>1. /\ schema' \in Seq(Nat \ {0}) /\ Len(schema') = Len(schema) + 1
        /\ recorded' \subseteq Nat \ {0} /\ SchemaIsPrefix'
    BY <1>6, CommittedAppends DEF CommitFile
  <2>2. MigrateTypeOK'
    BY <1>6, <2>1 DEF MigrateInv, MigrateTypeOK, CommitFile, Goto
  <2>3. RunnerHasLock'
    BY <1>6, LockKept DEF MigrateInv, CommitFile, At, Running
  <2>4. Len(schema) \in Nat /\ file[p] = Len(schema) + 1
    BY <1>6 DEF MigrateInv, MigrateTypeOK, NextIsMissing, CommitFile, At
  <2>5. \A q \in Processes : q # p => lock # q /\ ~Running(q)
    BY <1>6 DEF MigrateInv, RunnerHasLock, Running, CommitFile, At
  <2>6. \A q \in Processes \ {p} : mpc'[q] = mpc[q] /\ file'[q] = file[q]
    BY <1>6 DEF MigrateInv, MigrateTypeOK, CommitFile, Goto
  <2>7. mpc'[p] = "check" /\ file'[p] = file[p] + 1
    BY <1>6 DEF MigrateInv, MigrateTypeOK, CommitFile, Goto
  <2>8. BehindIsRecorded' /\ NextIsMissing'
    BY <2>1, <2>4, <2>5, <2>6, <2>7 DEF BehindIsRecorded, NextIsMissing, Running
  <2>9. ThroughIsMigrated'
    BY <2>1, <2>4, <2>6, <2>7 DEF MigrateInv, ThroughIsMigrated
  <2> QED  BY <1>6, <2>1, <2>2, <2>3, <2>8, <2>9 DEF MigrateInv, FailuresAreFaults, CommitFile
<1>7. CASE AdvisoryUnlock(p)
  <2>1. MigrateTypeOK'
    BY <1>7 DEF MigrateInv, MigrateTypeOK, AdvisoryUnlock, At, Goto
  <2>2. RunnerHasLock'
    BY <1>7, LockKept DEF MigrateInv, AdvisoryUnlock, At, Running
  <2>3. FilesOf[p] <= Len(schema)
    BY <1>7 DEF MigrateInv, ThroughIsMigrated, AdvisoryUnlock, At
  <2> QED  BY <1>7, <2>1, <2>2, <2>3, SchemaKept
             DEF MigrateInv, MigrateTypeOK, FailuresAreFaults, AdvisoryUnlock, Goto
<1>8. CASE MigrateAgain(p)
  <2>1. MigrateTypeOK'
    BY <1>8 DEF MigrateInv, MigrateTypeOK, MigrateAgain, At, Goto
  <2>2. RunnerHasLock'
    BY <1>8 DEF MigrateInv, MigrateTypeOK, RunnerHasLock, Running, MigrateAgain, At, Goto
  <2> QED  BY <1>8, <2>1, <2>2, SchemaKept
             DEF MigrateInv, MigrateTypeOK, FailuresAreFaults, MigrateAgain, Goto
<1> QED  BY <1>1, <1>2, <1>3, <1>4, <1>5, <1>6, <1>7, <1>8 DEF MigrateStep

\* An error or a crash keeps it too, with the commit it may have hidden.
LEMMA MigrateFaultInv ==
  ASSUME MigrateInv, NEW p \in Processes, MigrateFails(p) \/ MigrateCrash(p)
  PROVE  MigrateInv'
<1> USE MigrateAssumption
<1>1. faults \in Nat /\ failures \in Nat /\ faults' = faults + 1 /\ faults' \in 0..MaxFaults
  BY DEF MigrateInv, MigrateTypeOK, MigrateFails, MigrateCrash, Fault
<1>2. failures' \in Nat /\ failures' <= failures + 1
  BY <1>1 DEF MigrateFails, MigrateCrash
<1>3. FailuresAreFaults'
  BY <1>1, <1>2 DEF MigrateInv, FailuresAreFaults
<1>4. RunnerHasLock'
  BY LockKept DEF MigrateInv, MigrateFails, MigrateCrash
<1>5. /\ mpc'[p] \in {"lock", "failed"}
      /\ mpc' \in [Processes -> {"lock", "table", "check", "apply", "unlock", "done", "failed"}
                                  \cup InTransaction]
      /\ \A q \in Processes \ {p} : mpc'[q] = mpc[q] /\ file'[q] = file[q]
      /\ UNCHANGED <<file, table>>
  BY DEF MigrateInv, MigrateTypeOK, MigrateFails, MigrateCrash, Goto
<1>6. lock' \in Processes \cup {Free}
  BY DEF MigrateInv, MigrateTypeOK, MigrateFails, MigrateCrash
<1>7. CASE UNCHANGED <<recorded, schema>>
  <2>1. MigrateTypeOK'
    BY <1>1, <1>2, <1>5, <1>6, <1>7 DEF MigrateInv, MigrateTypeOK
  <2> QED  BY <1>3, <1>4, <1>5, <1>7, <2>1, SchemaKept
<1>8. CASE At(p, "commit") /\ Committed(p)
  <2>1. /\ schema' \in Seq(Nat \ {0}) /\ Len(schema') = Len(schema) + 1
        /\ recorded' \subseteq Nat \ {0} /\ SchemaIsPrefix' /\ Len(schema) \in Nat
    BY <1>8, CommittedAppends DEF MigrateInv, MigrateTypeOK
  <2>2. MigrateTypeOK'
    BY <1>1, <1>2, <1>5, <1>6, <2>1 DEF MigrateInv, MigrateTypeOK
  <2>3. \A q \in Processes \ {p} : ~Running(q)
    BY <1>8 DEF MigrateInv, RunnerHasLock, Running, At
  <2>4. BehindIsRecorded' /\ NextIsMissing'
    BY <1>5, <2>3 DEF BehindIsRecorded, NextIsMissing, Running
  <2>5. ThroughIsMigrated'
    BY <1>5, <2>1 DEF MigrateInv, ThroughIsMigrated
  <2> QED  BY <1>3, <1>4, <2>1, <2>2, <2>4, <2>5 DEF MigrateInv
<1> QED  BY <1>7, <1>8 DEF MigrateFails, MigrateCrash

THEOREM MigrateInvariant == MigrateSpec => []MigrateInv
<1>1. MigrateInv /\ [MigrateNext]_migrateVars => MigrateInv'
  <2> SUFFICES ASSUME MigrateInv, [MigrateNext]_migrateVars PROVE MigrateInv'
    OBVIOUS
  <2>1. CASE MigrateNext
    BY <2>1, MigrateStepInv, MigrateFaultInv DEF MigrateNext
  <2>2. CASE UNCHANGED migrateVars
    BY <2>2 DEF migrateVars, MigrateInv, MigrateTypeOK, SchemaIsPrefix, RunnerHasLock,
                Running, BehindIsRecorded, NextIsMissing, ThroughIsMigrated,
                FailuresAreFaults
  <2> QED  BY <2>1, <2>2
<1> QED  BY <1>1, MigrateInitInv, PTL DEF MigrateSpec

\* Each migration is applied once and in order, and schema_migrations tells which.
THEOREM MigrateAppliesInOrder == MigrateSpec => []SchemaIsPrefix
<1>1. MigrateInv => SchemaIsPrefix
  BY DEF MigrateInv
<1> QED  BY <1>1, MigrateInvariant, PTL

\* Nobody's Migrate fails because somebody else migrates.
THEOREM MigrateFailsByFaultOnly == MigrateSpec => []FailuresAreFaults
<1>1. MigrateInv => FailuresAreFaults
  BY DEF MigrateInv
<1> QED  BY <1>1, MigrateInvariant, PTL

\* A process whose Migrate returned has its build's schema for good.
THEOREM MigrateDoneIsMigrated == MigrateSpec => []DoneIsMigrated
<1>1. MigrateInv => DoneIsMigrated
  <2> SUFFICES ASSUME MigrateInv, NEW p \in Processes, mpc[p] = "done"
               PROVE  1..FilesOf[p] \subseteq recorded
    BY DEF DoneIsMigrated
  <2>1. FilesOf[p] \in Nat /\ Len(schema) \in Nat /\ recorded = 1..Len(schema)
    BY MigrateAssumption DEF MigrateInv, MigrateTypeOK, SchemaIsPrefix
  <2> QED  BY <2>1 DEF MigrateInv, ThroughIsMigrated
<1> QED  BY <1>1, MigrateInvariant, PTL
=============================================================================
