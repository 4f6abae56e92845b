------------------------------ MODULE Backups -------------------------------
(***************************************************************************)
(* Backing up the data volume and restoring it: scripts/backup.sh and      *)
(* scripts/restore.sh, each a sequence of steps that may fail or be killed *)
(* between any two of them, beside a service that may be running.  What    *)
(* takes many writes (a snapshot, an upload, the removal of a directory, a *)
(* copy, the extraction of an archive) may also stop half way.             *)
(*                                                                         *)
(* What the database holds is a number.  A file and the write-ahead log    *)
(* beside it (app/storage/db.py) are one database only if the log was      *)
(* begun on what the file holds.                                           *)
(***************************************************************************)
EXTENDS Integers, Sequences, FiniteSets

CONSTANTS
  BackupKeep,   \* INFRAGPT_BACKUP_KEEP
  MaxMade,      \* bound: commits
  MaxBackups,   \* bound: runs of backup.sh
  MaxRestores,  \* bound: runs of restore.sh
  MaxBackupDay  \* bound: days

ASSUME BackupsAssumption ==
  /\ BackupKeep \in Nat \ {0}
  /\ {MaxMade, MaxBackups, MaxRestores, MaxBackupDay} \subseteq Nat

VARIABLES
  data,      \* the directory: [db, base, wal], with 0 for a file that is not there
  running,   \* is the service up?
  made,      \* the commits so far, which number what the database holds
  backupDay, \* the day
  logged,    \* the audit file of each day: how many of its records, in order
  copies,    \* the directories of backup.sh, oldest first: [db, tar, of, here]
  remote,    \* what the bucket has of each: [db, tar, of]
  backup,    \* the step backup.sh is at
  restore,   \* restore.sh: [pc, place, run, runs, todo, file], the last two of the archive
  succeeded, \* history: the backups that reported SUCCESS
  restored,  \* history: of the last restore that did, [from, to]; cut, between which two steps?
  written,   \* history: the audit records of each day
  extracted, \* history: the days of the audit archives that were extracted
  halved     \* history: the days whose file was left, or archived, half extracted

backupVars == <<data, running, made, backupDay, logged, copies, remote, backup, restore, succeeded,
                restored, written, extracted, halved>>

Half == -1     \* a file of which only a part was copied
Foreign == -2  \* what a file holds with the log of another one

BackupDays == 0..MaxBackupDay
NoDayFile == -1
NoRestore == [pc |-> "idle", place |-> "", run |-> 0, runs |-> 0, todo |-> {}, file |-> NoDayFile]

\* What a directory of backup.sh consists of, the directory itself being removed last.
Files == {"dir", "db", "tar"}

\* No archive was made, if there were no audit files.
NoTar == [d \in BackupDays |-> 0]

BackupsInit ==
  /\ data = [db |-> 1, base |-> 0, wal |-> 0] /\ made = 1 /\ running = TRUE
  /\ backupDay = 0 /\ logged = NoTar /\ written = NoTar
  /\ copies = <<>> /\ remote = <<>> /\ backup = "idle" /\ restore = NoRestore
  /\ succeeded = {} /\ extracted = {} /\ halved = {}
  /\ restored = [from |-> 1, to |-> 1, cut |-> FALSE]

\* What whoever opens the database sees: the pages of the log are laid over the file, whatever
\* file it is.  A file that is not there is made, and a log beside it is dropped.
Visible ==
  IF data.wal = 0 \/ data.db = 0 THEN data.db
  ELSE IF data.db \in {data.base, data.wal} THEN data.wal
  ELSE IF data.db = Half THEN Half ELSE Foreign

\* The last connection is closed.
CheckpointedData == [db |-> Visible, base |-> 0, wal |-> 0]

-----------------------------------------------------------------------------
(* The service.                                                            *)

\* A question: something is committed, and logged.
ServiceWrites ==
  /\ running /\ made < MaxMade /\ made' = made + 1
  /\ data' = [data EXCEPT !.base = IF data.wal = 0 THEN data.db ELSE @, !.wal = made']
  /\ logged' = [logged EXCEPT ![backupDay] = @ + 1]
  /\ written' = [written EXCEPT ![backupDay] = @ + 1]
  /\ UNCHANGED <<running, backupDay, copies, remote, backup, restore, succeeded, restored,
                 extracted, halved>>

\* It is scaled down, or killed and then scaled down.
ServiceStops ==
  /\ running /\ running' = FALSE
  /\ data' \in {data, CheckpointedData}
  /\ UNCHANGED <<made, backupDay, logged, copies, remote, backup, restore, succeeded, restored,
                 written, extracted, halved>>

\* It starts, when nobody restores, and if there is no database it makes one.
ServiceStarts ==
  /\ ~running /\ restore.pc = "idle" /\ Visible # Half
  /\ running' = TRUE
  /\ IF data.db = 0
     THEN /\ made < MaxMade /\ made' = made + 1
          /\ data' = [db |-> made', base |-> 0, wal |-> 0]
     ELSE made' = made /\ data' = CheckpointedData
  /\ UNCHANGED <<backupDay, logged, copies, remote, backup, restore, succeeded, restored, written,
                 extracted, halved>>

BackupDayPasses ==
  /\ backupDay < MaxBackupDay /\ backupDay' = backupDay + 1
  /\ UNCHANGED <<data, running, made, logged, copies, remote, backup, restore, succeeded, restored,
                 written, extracted, halved>>

-----------------------------------------------------------------------------
(* backup.sh, of which one runs at a time.                                 *)

ThisRun == Len(copies)
BesidesBackup == <<running, made, backupDay, logged, restore, restored, written, extracted>>

\* The preflight, and the directory of this run.
BackupBegins ==
  /\ backup = "idle" /\ data.db # 0 /\ Len(copies) < MaxBackups
  /\ backup' = "dump"
  /\ copies' = Append(copies, [db |-> 0, tar |-> NoTar, of |-> backupDay, here |-> Files])
  /\ remote' = Append(remote, [db |-> 0, tar |-> NoTar, of |-> backupDay])
  /\ UNCHANGED <<data, succeeded, halved, BesidesBackup>>

\* .backup and its checks.  What is no database is found by them.
Dumps ==
  /\ backup = "dump" /\ Visible \notin {0, Half}
  /\ copies' = [copies EXCEPT ![ThisRun].db = Visible]
  /\ data' = IF running THEN data ELSE CheckpointedData
  /\ backup' = "archive"
  /\ UNCHANGED <<remote, succeeded, halved, BesidesBackup>>

\* The file of a day that a restore is writing, if it is.
BeingWritten == {restore.file} \ {NoDayFile}

\* tar, which fails if a file changes as it reads it.
ArchivesAudit ==
  /\ backup = "archive"
  /\ copies' = [copies EXCEPT ![ThisRun].tar = logged, ![ThisRun].of = backupDay]
  /\ halved' = halved \cup BeingWritten
  /\ backup' = "upload"
  /\ UNCHANGED <<data, remote, succeeded, BesidesBackup>>

\* The manifest, and gsutil with the count of what has arrived.
Uploads ==
  /\ backup = "upload"
  /\ remote' = [remote EXCEPT ![ThisRun] =
                  [f \in {"db", "tar", "of"} |-> copies[ThisRun][f]]]
  /\ backup' = "prune"
  /\ UNCHANGED <<data, copies, succeeded, halved, BesidesBackup>>

\* Mutant of KeptCopies: the newest are counted from nought.
KeptButOne == {i \in DOMAIN copies : i > Len(copies) - (BackupKeep - 1)}

\* The newest BackupKeep directories, the ones of runs that failed among them.
KeptCopies == {i \in DOMAIN copies : i > Len(copies) - BackupKeep}

OldCopies == {i \in DOMAIN copies \ KeptCopies : copies[i].here # {}}

\* rm -rf of the newest of the others: one of its files, or the directory when it is empty.
Prunes ==
  /\ backup = "prune"
  /\ \E i \in OldCopies, f \in Files :
       /\ \A j \in OldCopies : j <= i
       /\ f \in copies[i].here /\ (f = "dir" => copies[i].here = {"dir"})
       /\ copies' = [copies EXCEPT ![i].here = @ \ {f}]
  /\ UNCHANGED <<data, remote, backup, succeeded, halved, BesidesBackup>>

BackupSucceeds ==
  /\ backup = "prune" /\ OldCopies = {}
  /\ succeeded' = succeeded \cup {ThisRun} /\ backup' = "idle"
  /\ UNCHANGED <<data, copies, remote, halved, BesidesBackup>>

\* It fails, or is killed: half way through the snapshot, with a part of the files uploaded, or
\* with some of the old copies, or of the files of one, removed.
BackupEnds ==
  /\ backup # "idle" /\ backup' = "idle"
  /\ \/ UNCHANGED <<copies, remote>>
     \/ backup = "dump" /\ copies' = [copies EXCEPT ![ThisRun].db = Half] /\ UNCHANGED remote
     \/ /\ backup = "upload" /\ UNCHANGED copies
        /\ remote' = [remote EXCEPT ![ThisRun].db = copies[ThisRun].db]
  /\ UNCHANGED <<data, succeeded, halved, BesidesBackup>>

-----------------------------------------------------------------------------
(* restore.sh, of which one runs at a time, with the service scaled down.  *)

BesidesRestore == <<running, made, backupDay, copies, remote, backup, succeeded, written>>

\* Where the run's backup is read: its directory, or what was downloaded of the bucket.
Restorable == IF restore.place = "bucket" THEN remote[restore.run] ELSE copies[restore.run]

\* What can be verified is a snapshot; the manifest is not looked at.
IsVerified(place, run) ==
  /\ place = "local" => "db" \in copies[run].here
  /\ (IF place = "bucket" THEN remote[run].db ELSE copies[run].db) \notin {0, Half}

\* Without --force a database that is there is opened, to say what would be replaced.
RestoreAsks ==
  /\ ~running /\ restore.pc = "idle" /\ data.db # 0 /\ data.db # Half
  /\ \E run \in DOMAIN copies, place \in {"local", "bucket"} : IsVerified(place, run)
  /\ data' = CheckpointedData
  /\ UNCHANGED <<logged, restore, restored, extracted, halved, BesidesRestore>>

RestoreBegins ==
  /\ ~running /\ restore.pc = "idle" /\ restore.runs < MaxRestores
  /\ \E run \in DOMAIN copies, place \in {"local", "bucket"} :
       /\ IsVerified(place, run)
       /\ restore' = [NoRestore EXCEPT !.pc = "set aside", !.place = place, !.run = run,
                                       !.runs = restore.runs + 1]
  /\ UNCHANGED <<data, logged, restored, extracted, halved, BesidesRestore>>

\* The database is moved aside, and then its log.  If there is none, its log is not looked for.
SetsAside ==
  /\ restore.pc = "set aside"
  /\ restore' = [restore EXCEPT !.pc = IF data.db = 0 THEN "copy" ELSE "set aside log"]
  /\ data' = [data EXCEPT !.db = 0]
  /\ UNCHANGED <<logged, restored, extracted, halved, BesidesRestore>>

SetsLogAside ==
  /\ restore.pc = "set aside log"
  /\ restore' = [restore EXCEPT !.pc = "copy"]
  /\ data' = [data EXCEPT !.base = 0, !.wal = 0]
  /\ UNCHANGED <<logged, restored, extracted, halved, BesidesRestore>>

\* cp, from a directory that a backup may have pruned meanwhile.
CopyBegins ==
  /\ restore.pc = "copy" /\ (restore.place = "local" => "db" \in copies[restore.run].here)
  /\ restore' = [restore EXCEPT !.pc = "copying"]
  /\ data' = [data EXCEPT !.db = Half]
  /\ UNCHANGED <<logged, restored, extracted, halved, BesidesRestore>>

CopyEnds ==
  /\ restore.pc = "copying"
  /\ restore' = [restore EXCEPT !.pc = "count"]
  /\ data' = [data EXCEPT !.db = Restorable.db]
  /\ UNCHANGED <<logged, restored, extracted, halved, BesidesRestore>>

\* The users are counted.  They may be as many in another database.
Counts ==
  /\ restore.pc = "count"
  /\ restore' = [restore EXCEPT !.pc = "extract"]
  /\ data' = CheckpointedData
  /\ UNCHANGED <<logged, restored, extracted, halved, BesidesRestore>>

\* The archive is looked for in the directory, and there may be none.
FindsArchive ==
  /\ restore.pc = "extract" /\ (restore.place = "local" => "dir" \in copies[restore.run].here)
  /\ LET found == restore.place = "local" => "tar" \in copies[restore.run].here
         days == {d \in BackupDays : found /\ Restorable.tar[d] > 0}
     IN /\ restore' = [restore EXCEPT !.pc = "extracting", !.todo = days]
        /\ extracted' = IF days = {} THEN extracted ELSE extracted \cup {Restorable.of}
  /\ UNCHANGED <<data, logged, restored, halved, BesidesRestore>>

\* tar: each file of the archive over the one that is there, which is removed first.
ExtractBegins ==
  /\ restore.pc = "extracting" /\ restore.file = NoDayFile
  /\ \E d \in restore.todo : \E n \in 0..Restorable.tar[d] - 1 :
       /\ restore' = [restore EXCEPT !.todo = @ \ {d}, !.file = d]
       /\ logged' = [logged EXCEPT ![d] = n]
  /\ UNCHANGED <<data, restored, extracted, halved, BesidesRestore>>

ExtractEnds ==
  /\ restore.pc = "extracting" /\ restore.file # NoDayFile
  /\ restore' = [restore EXCEPT !.file = NoDayFile]
  /\ logged' = [logged EXCEPT ![restore.file] = Restorable.tar[restore.file]]
  /\ UNCHANGED <<data, restored, extracted, halved, BesidesRestore>>

RestoreSucceeds ==
  /\ restore.pc = "extracting" /\ restore.todo = {} /\ restore.file = NoDayFile
  /\ restored' = [restored EXCEPT !.from = Restorable.db, !.to = data.db]
  /\ restore' = [NoRestore EXCEPT !.runs = restore.runs]
  /\ UNCHANGED <<data, logged, extracted, halved, BesidesRestore>>

\* It fails, or is killed.
RestoreEnds ==
  /\ restore.pc # "idle"
  /\ restore' = [NoRestore EXCEPT !.runs = restore.runs]
  /\ restored' = [restored EXCEPT !.cut = @ \/ (restore.pc = "set aside log" /\ data.wal # 0)]
  /\ halved' = halved \cup BeingWritten
  /\ UNCHANGED <<data, logged, extracted, BesidesRestore>>

BackupsNext ==
  \/ ServiceWrites \/ ServiceStops \/ ServiceStarts \/ BackupDayPasses
  \/ BackupBegins \/ Dumps \/ ArchivesAudit \/ Uploads \/ Prunes
  \/ BackupSucceeds \/ BackupEnds
  \/ RestoreAsks \/ RestoreBegins \/ SetsAside \/ SetsLogAside \/ CopyBegins \/ CopyEnds
  \/ Counts \/ FindsArchive \/ ExtractBegins \/ ExtractEnds \/ RestoreSucceeds \/ RestoreEnds

BackupsSpec == BackupsInit /\ [][BackupsNext]_backupVars

-----------------------------------------------------------------------------
IsWhole(i) == copies[i].here = Files /\ copies[i].db \notin {0, Half}
IsUploaded(i) == remote[i].db = copies[i].db /\ remote[i].tar = copies[i].tar

\* The newest backup that reported SUCCESS is still whole in the bucket.  Here there is a whole
\* one that is not older, and in the bucket too; it may be that of a run that was cut as it
\* removed the others, however many runs have failed since and whatever was restored
\* (backup.sh:23-28, 121-153; not a dry run, which uploads nothing).
SuccessIsUsable ==
  succeeded # {} =>
    LET i == CHOOSE i \in succeeded : \A j \in succeeded : j <= i
    IN /\ copies[i].db \notin {0, Half} /\ IsUploaded(i)
       /\ \E j \in i..Len(copies) : IsWhole(j) /\ IsUploaded(j)

\* "Restoring the same backup twice leaves the same state": what a restore that reported
\* SUCCESS has left is what its backup holds, whichever attempts failed before it
\* (restore.sh:21-23, 111-112).
RestoresRepeat == restored.from = restored.to

\* So it is, unless an attempt was cut between the database and its log: the next one finds no
\* database, leaves the log, and it is applied to what is restored (restore.sh:108-119).
RestoreIsExact == restored.cut \/ RestoresRepeat

\* "Re-extracting an older archive cannot destroy newer days": what is lost of the audit log is
\* of the day on which an archive was made that was extracted since; or of a day whose file is
\* being extracted, or was when the restore was cut or another backup read it
\* (restore.sh:130-136).
OtherDaysSurvive ==
  \A d \in BackupDays : logged[d] < written[d] => d \in extracted \cup halved \cup BeingWritten

\* What was backed up can be restored, and a restore replaces no more than it says.
BackupsHold == SuccessIsUsable /\ RestoreIsExact /\ OtherDaysSurvive
=============================================================================
