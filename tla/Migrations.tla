----------------------------- MODULE Migrations ----------------------------
(***************************************************************************)
(* The schema migrations of a start (app/storage/db.py, Database.migrate): *)
(* an ordered list of DDL statements, run from the recorded version on,    *)
(* each followed by an INSERT that records it, and one commit at the end.  *)
(*                                                                         *)
(* sqlite3 opens a transaction before an INSERT, not before DDL: the first *)
(* statement of a start is committed on its own, and everything after the  *)
(* first INSERT together.  The process may die at every step.              *)
(***************************************************************************)
EXTENDS Integers

CONSTANTS
  N,          \* statements there ever were
  Alters,     \* those that are ALTER TABLE ... ADD COLUMN
  Releases,   \* the lengths of MIGRATIONS in the releases that are deployed
  MaxCrashes  \* bound

ASSUME MigrationsAssumption ==
  /\ {N, MaxCrashes} \subseteq Nat
  /\ Alters \subseteq 1..N /\ Releases \subseteq 0..N

VARIABLES
  phase,     \* of the process
  release,   \* len(MIGRATIONS) of the code that runs
  idx,       \* the statement the loop is at
  ran,       \* has that statement run, and only its INSERT not?
  inTx,      \* is a transaction open?
  disk,      \* what is committed: the statements applied, MAX(version)
  conn,      \* what the connection sees
  crashes

migrationVars == <<phase, release, idx, ran, inTx, disk, conn, crashes>>

Schema == [applied : SUBSET (1..N), version : 0..N]

Empty == [applied |-> {}, version |-> 0]

MigrationsInit ==
  /\ phase = "down" /\ release = 0 /\ idx = 1 /\ ran = FALSE /\ inTx = FALSE
  /\ disk = Empty /\ conn = Empty /\ crashes = 0

\* A process of some release, newer or older than the schema, opens the file.
StartRelease(r) ==
  /\ phase = "down"
  /\ phase' = "migrating" /\ release' = r
  /\ conn' = disk /\ idx' = disk.version + 1
  /\ ran' = FALSE /\ inTx' = FALSE
  /\ UNCHANGED <<disk, crashes>>

AtStatement == phase = "migrating" /\ idx <= release /\ ~ran

\* Mutant of Repeatable: a CREATE without IF NOT EXISTS.
RepeatableNever(i) == FALSE

\* CREATE ... IF NOT EXISTS may run again; ADD COLUMN may not.
Repeatable(i) == i \notin Alters

WithStatement(schema) == [schema EXCEPT !.applied = @ \cup {idx}]

Ddl ==
  /\ AtStatement /\ (Repeatable(idx) \/ idx \notin conn.applied)
  /\ conn' = WithStatement(conn)
  /\ disk' = IF inTx THEN disk ELSE WithStatement(disk)
  /\ ran' = TRUE
  /\ UNCHANGED <<phase, release, idx, inTx, crashes>>

\* sqlite3.OperationalError: duplicate column name.  The start fails.
DdlFails ==
  /\ AtStatement /\ ~Repeatable(idx) /\ idx \in conn.applied
  /\ phase' = "failed" /\ conn' = disk
  /\ UNCHANGED <<release, idx, ran, inTx, disk, crashes>>

\* Mutant of Record: the version is committed ahead of the next statement.
RecordAhead ==
  /\ phase = "migrating" /\ ran
  /\ conn' = [conn EXCEPT !.version = idx]
  /\ disk' = [disk EXCEPT !.version = idx]
  /\ inTx' = TRUE /\ ran' = FALSE /\ idx' = idx + 1
  /\ UNCHANGED <<phase, release, crashes>>

\* INSERT INTO schema_version
Record ==
  /\ phase = "migrating" /\ ran
  /\ conn' = [conn EXCEPT !.version = idx]
  /\ inTx' = TRUE /\ ran' = FALSE /\ idx' = idx + 1
  /\ UNCHANGED <<phase, release, disk, crashes>>

\* Mutant of Commit: there is none.
CommitForgotten ==
  /\ phase = "migrating" /\ idx > release
  /\ phase' = "serving" /\ inTx' = FALSE
  /\ UNCHANGED <<release, idx, ran, disk, conn, crashes>>

Commit ==
  /\ phase = "migrating" /\ idx > release
  /\ phase' = "serving" /\ disk' = conn /\ inTx' = FALSE
  /\ UNCHANGED <<release, idx, ran, conn, crashes>>

\* The process dies, or is replaced: what is not committed is gone.
Crash ==
  /\ phase # "down" /\ crashes < MaxCrashes
  /\ phase' = "down" /\ conn' = disk /\ crashes' = crashes + 1
  /\ UNCHANGED <<release, idx, ran, inTx, disk>>

Step == Ddl \/ DdlFails \/ Record \/ Commit

MigrationsNext == (\E r \in Releases : StartRelease(r)) \/ Step \/ Crash

MigrationsSpec == MigrationsInit /\ [][MigrationsNext]_migrationVars

\* The deployment restarts the process, and the start runs to its end.
MigrationsFairSpec == MigrationsSpec /\ WF_migrationVars(\E r \in Releases : StartRelease(r)) /\ WF_migrationVars(Step)

-----------------------------------------------------------------------------
(* Properties.                                                             *)

MigrationsTypeOK ==
  /\ phase \in {"down", "migrating", "serving", "failed"}
  /\ release \in 0..N /\ idx \in 1..(N + 1)
  /\ ran \in BOOLEAN /\ inTx \in BOOLEAN
  /\ disk \in Schema /\ conn \in Schema
  /\ crashes \in 0..MaxCrashes

\* Whatever happened, the recorded version is never ahead of the schema: no
\* statement is skipped for good.
VersionIsApplied == 1..disk.version \subseteq disk.applied

\* A process that serves finds the schema its code was written for, after any
\* sequence of upgrades, downgrades and crashes.
ServesItsSchema == phase = "serving" => 1..release \subseteq disk.applied

\* A start that fails has stopped at an ALTER, the first statement it had to run.
FailsOnlyAtAlter ==
  [][phase' = "failed" => idx \in Alters /\ idx = disk.version + 1]_migrationVars

\* A service whose process stops dying gets up, unless a crash ever left an
\* ALTER applied and not recorded.
GetsUp ==
  [](\A i \in Alters : i \in disk.applied => i <= disk.version)
    => <>[](phase = "serving")

-----------------------------------------------------------------------------
(* What a docstring says, refuted by a run that expects it.                *)

\* app/storage/db.py: startup is idempotent, only the tail runs.
StartNeverFails == phase # "failed"
=============================================================================
