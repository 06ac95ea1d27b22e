----------------------------- MODULE MCDatabase -----------------------------
(***************************************************************************)
(* What several processes do to the one database at a time.  The database  *)
(* keeps three kinds of rows that nothing but the process's own code       *)
(* relates: the worker's tables, a brand's keys and the schema itself.  A  *)
(* behaviour works on one of them, so that their states add up instead of  *)
(* multiplying:                                                            *)
(*  - two processes handle two deposits of one player and a bet of another;*)
(*  - two rotations of a brand's key bring a secret each, named like them; *)
(*  - processes of two builds migrate: the old one carries two files, the  *)
(*    new one three.                                                       *)
(***************************************************************************)
EXTENDS WorkerTx, KeyRotation, Migrate, TLC

CONSTANTS d1, d2, b1, p1, p2, old, new, newer

VARIABLE rows  \* the rows a behaviour is about

allVars == <<workerTxVars, rotationVars, migrateVars, rows>>

MCEvents == {d1, d2, b1}
MCPlayers == {p1, p2}
MCPlayerOf == [e \in MCEvents |-> IF e = b1 THEN p2 ELSE p1]
MCTypeOf == [e \in MCEvents |-> IF e \in {d1, d2} THEN "deposit" ELSE "bet_placed"]
MCAmountOf == [e \in MCEvents |-> 3]
MCSecretOf == [r \in Rotations |-> r]
MCFilesOf == old :> 2 @@ new :> 3 @@ newer :> 3

MCInit ==
  /\ rows \in {"worker", "tenants", "schema"}
  /\ WorkerTxInit /\ RotationInit /\ MigrateInit

MCNext ==
  /\ UNCHANGED rows
  /\ \/ rows = "worker" /\ WorkerTxNext /\ UNCHANGED <<rotationVars, migrateVars>>
     \/ rows = "tenants" /\ RotationNext /\ UNCHANGED <<workerTxVars, migrateVars>>
     \/ rows = "schema" /\ MigrateNext /\ UNCHANGED <<workerTxVars, rotationVars>>

\* The fairness of WorkerTxFairSpec and MigrateFairSpec, for the behaviours they are about.
MCSpec ==
  /\ MCInit /\ [][MCNext]_allVars
  /\ \A h \in Handlers : SF_workerTxVars(rows = "worker" /\ TxStep(h))
  /\ \A p \in Processes : WF_migrateVars(rows = "schema" /\ MigrateStep(p))

\* EveryoneMigrates (Migrate) of the behaviours that migrate: every process gets through
\* in the end, the lock is always given back.
EveryoneGetsThrough == rows = "schema" => EveryoneMigrates
=============================================================================
