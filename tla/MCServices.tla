---------------------------- MODULE MCServices -----------------------------
(***************************************************************************)
(* The small components of the service, which share no state: each is      *)
(* explored by itself, with the others as they are when it begins, and     *)
(* Migrations as after a start that went well.                             *)
(***************************************************************************)
EXTENDS Accounts, Limits, Migrations, Journal, CaseFiles, MCRunbooks, Door, Assertions, Backups,
  TLC

CONSTANTS boss, staff, db, infra, analytics

\* Two roles that do not overlap.
RoleSurfaces == (infra :> {Admin}) @@ (analytics :> {db})

\* Investigations with nothing behind them, and with a function that was run twice.
MCCaseRuns == {<<>>, <<"pods", "logs", "pods">>}

-----------------------------------------------------------------------------
VARIABLE part   \* the component that moves

Parts ==
  {"accounts", "limits", "migrations", "journal", "casefiles", "runbooks", "door", "assertions",
   "backups"}

Started ==
  /\ phase = "serving" /\ release = N /\ idx = N + 1 /\ ran = FALSE /\ inTx = FALSE
  /\ disk = [applied |-> 1..N, version |-> N] /\ conn = disk /\ crashes = 0

ServicesInit ==
  /\ part \in Parts
  /\ Init /\ LimitsInit /\ JournalInit /\ CaseFilesInit /\ RunbooksInit /\ DoorInit
  /\ AssertionsInit /\ BackupsInit
  /\ IF part = "migrations" THEN MigrationsInit ELSE Started

\* What every component but p leaves alone.
Others(p) ==
  /\ UNCHANGED part
  /\ (p # "accounts" => UNCHANGED accountVars) /\ (p # "limits" => UNCHANGED limitVars)
  /\ (p # "migrations" => UNCHANGED migrationVars) /\ (p # "journal" => UNCHANGED jvars)
  /\ (p # "casefiles" => UNCHANGED cvars) /\ (p # "runbooks" => UNCHANGED kvars)
  /\ (p # "door" => UNCHANGED dvars) /\ (p # "assertions" => UNCHANGED svars)
  /\ (p # "backups" => UNCHANGED backupVars)

\* Bound: that a restore is tried again is looked at on one day, and days with one restore.
DayOfRetries == backupDay = 0 \/ restore.runs <= 1

MigrationsMove(A) == part = "migrations" /\ A /\ Others("migrations")

ServicesNext ==
  \/ part = "accounts" /\ Next /\ Others("accounts")
  \/ part = "limits" /\ LimitsNext /\ Others("limits")
  \/ MigrationsMove(MigrationsNext)
  \/ part = "journal" /\ JournalNext /\ Others("journal")
  \/ part = "casefiles" /\ CaseFilesNext /\ Others("casefiles")
  \/ part = "runbooks" /\ RunbooksNext /\ Others("runbooks")
  \/ part = "door" /\ DoorNext /\ Others("door")
  \/ part = "assertions" /\ AssertionsNext /\ Others("assertions")
  \/ part = "backups" /\ BackupsNext /\ DayOfRetries' /\ Others("backups")

servicesVars ==
  <<part, accountVars, limitVars, migrationVars, jvars, cvars, kvars, dvars, svars,
    backupVars>>

ServicesSpec == ServicesInit /\ [][ServicesNext]_servicesVars

\* The fairness of MigrationsFairSpec.
ServicesFairSpec ==
  /\ ServicesSpec
  /\ WF_servicesVars(MigrationsMove(\E r \in Releases : StartRelease(r)))
  /\ WF_servicesVars(MigrationsMove(Step))
=============================================================================
