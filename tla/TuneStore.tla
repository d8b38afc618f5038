------------------------------ MODULE TuneStore ------------------------------
(***************************************************************************)
(* What pg-tune works on: the registry in tune.db, the dump files, and the *)
(* databases of the PostgreSQL server with their sessions.                 *)
(***************************************************************************)
EXTENDS Integers, Sequences

CONSTANTS
  Databases,
  Versions,   \* what a database may hold when it is whole
  Bases,      \* names of dump files: database, time and a random suffix
  Dumpers,    \* pg-tune-backup, or the tool backup
  Restorers,  \* pg-tune-restore <id>, or the tool restore
  Latest,     \* pg-tune-restore @latest
  Mortal,     \* the processes that may be killed
  NoDb        \* no database: no session, no PGDATABASE

Procs == Dumpers \cup Restorers \cup Latest

ASSUME TuneAssumption ==
  /\ Dumpers \cap (Restorers \cup Latest) = {}
  /\ Restorers \cap Latest = {}
  /\ Mortal \subseteq Procs
  /\ NoDb \notin Databases
  /\ {"absent", "empty", "partial", "mixed"} \cap Versions = {}

VARIABLES
  allow,      \* tune_settings, category ALLOWS: the actions whose value is '1'
  backups,    \* tune_backups: the index is the id, the order that of ts
  files,      \* the backup directory
  content,    \* what each database holds
  session,    \* the database each process has a session in
  touched     \* the files somebody else has changed or deleted

store == <<allow, backups, files, content, session, touched>>

Actions == {"backup", "restore"}

\* A whole database; none; one just created; what a pg_restore that has not
\* come to its end leaves; what two of them leave.
Contents == Versions \cup {"absent", "empty", "partial", "mixed"}

Paths == Bases \X {"zstd", "gz"}

\* A file: none, cut off, a dump, or altered later.  The record stands for the
\* bytes, and so for their sha256 too.
NoFile == [is |-> "none", db |-> NoDb, data |-> "absent"]
CutOff(d) == [is |-> "cut", db |-> d, data |-> "absent"]
DumpOf(d, c) == [is |-> "dump", db |-> d, data |-> c]

FileStates ==
  [is : {"none", "cut", "dump", "altered"}, db : Databases \cup {NoDb}, data : Contents]

Rows == [database : Databases, path : Paths, sha256 : FileStates, restored : BOOLEAN]

\* tune_seed.sql: backup is enabled, restore is not.
Seed == {"backup"}

StoreInit ==
  /\ allow = Seed
  /\ backups = <<>>
  /\ files = [p \in Paths |-> NoFile]
  /\ content \in [Databases -> Versions]
  /\ session = [p \in Procs |-> NoDb]
  /\ touched = {}

-----------------------------------------------------------------------------
\* set_setting, for --allow, --deny and the tool set_allow.
SetAllow(action, enabled) ==
  /\ allow' = IF enabled THEN allow \cup {action} ELSE allow \ {action}
  /\ UNCHANGED <<backups, files, content, session, touched>>

\* reset_setting of the category ALLOWS.
ResetAllow ==
  /\ allow' = Seed
  /\ UNCHANGED <<backups, files, content, session, touched>>

\* init_db, and with it _ensure_db on a file of an older version: the rows of
\* tune_backups are dropped, and the ids begin anew.
InitDb ==
  /\ allow' = Seed
  /\ backups' = <<>>
  /\ UNCHANGED <<files, content, session, touched>>

\* record_backup
RecordBackup(d, p, sum) ==
  /\ backups' = Append(backups, [database |-> d, path |-> p, sha256 |-> sum, restored |-> FALSE])
  /\ UNCHANGED <<allow, files, content, session, touched>>

\* mark_backup_restored updates the row of that id, if there is one.
MarkRestored(id) ==
  /\ backups' = [i \in DOMAIN backups |->
                   IF i = id THEN [backups[i] EXCEPT !.restored = TRUE] ELSE backups[i]]
  /\ UNCHANGED <<allow, files, content, session, touched>>

\* _resolve_backup_ref('@latest'): the newest row, of the database d if
\* PGDATABASE is set.
LatestIds(d) ==
  LET Eligible(i) == i \in DOMAIN backups /\ d \in {NoDb, backups[i].database}
  IN {i \in DOMAIN backups : Eligible(i) /\ \A j \in DOMAIN backups : Eligible(j) => j <= i}

\* DROP DATABASE IF EXISTS ... WITH (FORCE): the sessions in it are ended.
DropDatabase(d) ==
  /\ content' = [content EXCEPT ![d] = "absent"]
  /\ session' = [p \in Procs |-> IF session[p] = d THEN NoDb ELSE session[p]]
  /\ UNCHANGED <<allow, backups, files, touched>>

\* CREATE DATABASE
CreateDatabase(d) ==
  /\ content[d] = "absent"
  /\ content' = [content EXCEPT ![d] = "empty"]
  /\ UNCHANGED <<allow, backups, files, session, touched>>

=============================================================================
