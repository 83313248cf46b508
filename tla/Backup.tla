------------------------------- MODULE Backup -------------------------------
(***************************************************************************)
(* The JSON copy of the database and its backups, made after every start   *)
(* (src/bootstrap.py, src/backup.py).                                      *)
(*                                                                         *)
(* Whether the copy is due is told from the times of files: the database   *)
(* and the two files SQLite keeps beside it while it is open.  A large     *)
(* database is exported by a thread in the background, from a copy of its  *)
(* own, while the user goes on: the JSON file can then be newer than what  *)
(* it lacks.  Data are counted by commits; every write of a file has a     *)
(* time of its own.                                                        *)
(***************************************************************************)
EXTENDS Integers, FiniteSets

CONSTANTS
    KeepLast,   \* JSON_BACKUP_KEEP_LAST
    MaxCommits, \* bound: commits
    MaxTime     \* bound: times

BackupAssumption == KeepLast \in Nat /\ MaxCommits \in Nat /\ MaxTime \in Nat \ {0}

VARIABLES
    time,      \* the time of the last write
    commits,   \* how many commits the database holds
    mainTime,  \* the time of the database file
    sideTime,  \* that of its -wal and -shm files, if they are there
    json,      \* [commits, at]: the JSON file
    backups,   \* [commits, stamp]: its backups
    process,   \* is the application off, starting or ready
    exporter,  \* the export, in the task of the start or in its own thread
    startedAt  \* history: the commits there were when the maintenance began

backupVars == <<time, commits, mainTime, sideTime, json, backups, process, exporter, startedAt>>

NoFile == 0

Missing == [commits |-> 0, at |-> NoFile]

Rest == [step |-> "rest", copy |-> 0]

BackupInit ==
    /\ time = 1 /\ commits = 0
    /\ mainTime = 1 /\ sideTime = NoFile
    /\ json = Missing
    /\ backups = {}
    /\ process = "off"
    /\ exporter = Rest
    /\ startedAt = 0

Written == time < MaxTime /\ time' = time + 1

-----------------------------------------------------------------------------
(* The database and its process. *)

\* Opening the database makes or empties the files beside it.
OpenDatabase ==
    /\ process = "off" /\ Written
    /\ process' = "starting"
    /\ sideTime' = time'
    /\ UNCHANGED <<commits, mainTime, json, backups, exporter, startedAt>>

\* A commit: of the automatic payments at the start, of the user later.
Commit ==
    /\ process = "ready" \/ (process = "starting" /\ exporter = Rest)
    /\ Written
    /\ commits < MaxCommits
    /\ commits' = commits + 1
    /\ sideTime' = time'
    /\ UNCHANGED <<mainTime, json, backups, process, exporter, startedAt>>

\* The last connection folds the files beside it into the database.
Close ==
    /\ process = "ready" /\ Written
    /\ process' = "off" /\ exporter' = Rest
    /\ mainTime' = time' /\ sideTime' = NoFile
    /\ UNCHANGED <<commits, json, backups, startedAt>>

\* The process ends; the background thread with it.
Kill ==
    /\ process # "off"
    /\ process' = "off" /\ exporter' = Rest
    /\ UNCHANGED <<time, commits, mainTime, sideTime, json, backups, startedAt>>

-----------------------------------------------------------------------------
(* The maintenance: _run_post_startup_maintenance. *)

Maintain ==
    /\ process = "starting" /\ exporter = Rest
    /\ exporter' = [step |-> "check", copy |-> 0]
    /\ startedAt' = commits
    /\ UNCHANGED <<time, commits, mainTime, sideTime, json, backups, process>>

Later(a, b) == IF a > b THEN a ELSE b

\* (Mutant of LatestActivity: only the database file is looked at.)
LatestActivityOfMain == mainTime

\* _latest_sqlite_activity_mtime
LatestActivity == Later(mainTime, sideTime)

ShouldExport == json.at = NoFile \/ LatestActivity > json.at

\* In the background for a large database: the window is free at once.
Check(large) ==
    /\ exporter.step = "check"
    /\ exporter' = [exporter EXCEPT !.step =
          IF ~ShouldExport THEN "backup" ELSE IF large THEN "thread" ELSE "sync"]
    /\ process' = IF ShouldExport /\ large THEN "ready" ELSE process
    /\ UNCHANGED <<time, commits, mainTime, sideTime, json, backups, startedAt>>

\* The database is copied whole, between two commits.
Snapshot ==
    /\ exporter.step \in {"sync", "thread"}
    /\ exporter' = [step |-> "write", copy |-> commits]
    /\ UNCHANGED <<time, commits, mainTime, sideTime, json, backups, process, startedAt>>

\* The JSON file is written beside the old one, which it replaces at the end.
WriteJson ==
    /\ exporter.step = "write" /\ Written
    /\ json' = [commits |-> exporter.copy, at |-> time']
    /\ exporter' = [exporter EXCEPT !.step = "backup"]
    /\ UNCHANGED <<commits, mainTime, sideTime, backups, process, startedAt>>

Ready == IF process = "starting" THEN "ready" ELSE process

\* The export raises; the window opens all the same.
ExportFails ==
    /\ exporter.step \in {"sync", "thread", "write", "backup", "prune"}
    /\ exporter' = Rest
    /\ process' = Ready
    /\ UNCHANGED <<time, commits, mainTime, sideTime, json, backups, startedAt>>

\* create_backup: a copy that appears at once ...
CreateBackup ==
    /\ exporter.step = "backup" /\ Written
    /\ backups' = backups \cup {[commits |-> json.commits, stamp |-> time']}
    /\ exporter' = [exporter EXCEPT !.step = "prune"]
    /\ UNCHANGED <<commits, mainTime, sideTime, json, process, startedAt>>

NewerThan(b) == {c \in backups : c.stamp > b.stamp}

\* ... and then all but the newest are removed, one after the other.
Prune ==
    LET old == {b \in backups : Cardinality(NewerThan(b)) >= KeepLast}
    IN  /\ exporter.step = "prune"
        /\ \/ \E b \in old :
                 /\ \A c \in old : c.stamp <= b.stamp
                 /\ backups' = backups \ {b}
                 /\ UNCHANGED <<exporter, process>>
           \/ /\ old = {}
              /\ exporter' = Rest
              /\ process' = Ready
              /\ UNCHANGED backups
        /\ UNCHANGED <<time, commits, mainTime, sideTime, json, startedAt>>

BackupNext ==
    \/ OpenDatabase \/ Commit \/ Close \/ Kill
    \/ Maintain
    \/ \E large \in BOOLEAN : Check(large)
    \/ Snapshot \/ WriteJson \/ ExportFails
    \/ CreateBackup \/ Prune

BackupSpec == BackupInit /\ [][BackupNext]_backupVars

-----------------------------------------------------------------------------
(* Properties. *)

BackupTypeOK ==
    /\ time \in 1 .. MaxTime /\ commits \in 0 .. MaxCommits
    /\ mainTime \in 1 .. MaxTime /\ sideTime \in 0 .. MaxTime
    /\ json.commits \in 0 .. MaxCommits
    /\ \A b \in backups : b.stamp \in 1 .. MaxTime /\ b.commits \in 0 .. MaxCommits
    /\ exporter.copy \in 0 .. MaxCommits

\* The backup a start makes has every commit that came before its maintenance, even
\* if an earlier export wrote its file after commits that it lacks, or the last
\* process was killed before it could fold them into the database.
BackupIsCurrent ==
    [][\A b \in backups' \ backups : b.commits >= startedAt]_backupVars
=============================================================================
