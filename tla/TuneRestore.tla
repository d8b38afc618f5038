----------------------------- MODULE TuneRestore -----------------------------
(***************************************************************************)
(* Restoring a backup: a dry run that shows it (inspect_restore), and the  *)
(* call with confirm (do_restore), which checks the permission, the file   *)
(* and its digest, and then drops, creates and loads the database.         *)
(***************************************************************************)
EXTENDS TuneStore

CONSTANT PgDatabase   \* PGDATABASE of those who restore @latest

ASSUME RestoreAssumption ==
  PgDatabase \in [Latest -> Databases \cup {NoDb}]

VARIABLES
  rpc,      \* where each restorer is
  ref,      \* the id it restores
  shown,    \* the row its dry run has shown
  row       \* the row do_restore has read

restore == <<rpc, ref, shown, row>>

Callers == Restorers \cup Latest

RestoreLabels == {"idle", "shown", "allow", "inspect", "drop", "create", "load",
                  "loading", "orphan", "mark", "done", "failed", "dead"}

NoRow == [database |-> NoDb, path |-> <<NoDb, "none">>, sha256 |-> NoFile, restored |-> FALSE]

RestoreInit ==
  /\ rpc = [w \in Callers |-> "idle"]
  /\ ref = [w \in Callers |-> 0]
  /\ shown = [w \in Callers |-> NoRow]
  /\ row = [w \in Callers |-> NoRow]

Goto(w, label) == rpc' = [rpc EXCEPT ![w] = label]

\* Whether inspect_restore and pg_restore find the dump the row tells of.
Intact(r) == files[r.path] = r.sha256 /\ r.sha256.is # "none"

\* get_backup finds a row of that id, and its file is intact.
Found(id) == id \in DOMAIN backups /\ Intact(backups[id])

-----------------------------------------------------------------------------
\* The dry run: nothing is checked, everything is shown.
Preview(w) ==
  /\ rpc[w] = "idle"
  /\ \E id \in DOMAIN backups :
       /\ w \in Latest => id \in LatestIds(PgDatabase[w])
       /\ ref' = [ref EXCEPT ![w] = id]
       /\ shown' = [shown EXCEPT ![w] = backups[id]]
  /\ Goto(w, "shown")
  /\ UNCHANGED <<store, row>>

\* The same call with confirm and the same id.
Confirm(w) ==
  /\ w \in Restorers /\ rpc[w] = "shown"
  /\ Goto(w, "allow")
  /\ UNCHANGED <<store, ref, shown, row>>

\* The same command with --confirm: @latest is looked up again.
ConfirmLatest(w) ==
  /\ w \in Latest /\ rpc[w] = "shown"
  /\ \/ /\ \E id \in LatestIds(PgDatabase[w]) : ref' = [ref EXCEPT ![w] = id]
        /\ Goto(w, "allow")
     \/ /\ LatestIds(PgDatabase[w]) = {}
        /\ Goto(w, "failed")
        /\ UNCHANGED ref
  /\ UNCHANGED <<store, shown, row>>

CheckAllowed(w) ==
  /\ rpc[w] = "allow"
  /\ Goto(w, IF "restore" \in allow THEN "inspect" ELSE "failed")
  /\ UNCHANGED <<store, ref, shown, row>>

\* Mutated form: the digest is not compared.
InspectPresent(w) ==
  /\ rpc[w] = "inspect"
  /\ \/ /\ ref[w] \in DOMAIN backups
        /\ files[backups[ref[w]].path].is # "none"
        /\ row' = [row EXCEPT ![w] = backups[ref[w]]]
        /\ Goto(w, "drop")
     \/ /\ ref[w] \notin DOMAIN backups
        /\ Goto(w, "failed")
        /\ UNCHANGED row
  /\ UNCHANGED <<store, ref, shown>>

\* inspect_restore, and the conditions do_restore makes of what it returns.
Inspect(w) ==
  /\ rpc[w] = "inspect"
  /\ \/ /\ Found(ref[w])
        /\ row' = [row EXCEPT ![w] = backups[ref[w]]]
        /\ Goto(w, "drop")
     \/ /\ ~Found(ref[w])
        /\ Goto(w, "failed")
        /\ UNCHANGED row
  /\ UNCHANGED <<store, ref, shown>>

Drop(w) ==
  /\ rpc[w] = "drop"
  /\ DropDatabase(row[w].database)
  /\ Goto(w, "create")
  /\ UNCHANGED <<ref, shown, row>>

Create(w) ==
  /\ rpc[w] = "create"
  /\ CreateDatabase(row[w].database)
  /\ Goto(w, "load")
  /\ UNCHANGED <<ref, shown, row>>

\* The server refuses: no privilege, no connection, or, for CREATE DATABASE,
\* another restore has created the database.
Refused(w) ==
  /\ rpc[w] \in {"drop", "create"}
  /\ Goto(w, "failed")
  /\ UNCHANGED <<store, ref, shown, row>>

\* pg_restore into the new database.
LoadBegins(w) ==
  /\ rpc[w] = "load"
  /\ content[row[w].database] = "empty" /\ Intact(row[w])
  /\ content' = [content EXCEPT ![row[w].database] = "partial"]
  /\ session' = [session EXCEPT ![w] = row[w].database]
  /\ Goto(w, "loading")
  /\ UNCHANGED <<allow, backups, files, touched, ref, shown, row>>

\* Another restore works in the same database: the objects exist already,
\* their rows may be added twice, and pg_restore reports errors.
LoadClashes(w) ==
  /\ rpc[w] = "load"
  /\ content[row[w].database] \notin {"absent", "empty"}
  /\ \E c \in {content[row[w].database], "mixed"} :
       content' = [content EXCEPT ![row[w].database] = c]
  /\ Goto(w, "failed")
  /\ UNCHANGED <<allow, backups, files, session, touched, ref, shown, row>>

LoadEnds(w) ==
  /\ rpc[w] \in {"loading", "orphan"}
  /\ session[w] = row[w].database
  /\ content' = [content EXCEPT ![row[w].database] =
                   IF @ = "partial" THEN row[w].sha256.data ELSE @]
  /\ session' = [session EXCEPT ![w] = NoDb]
  /\ Goto(w, IF rpc[w] = "loading" THEN "mark" ELSE "dead")
  /\ UNCHANGED <<allow, backups, files, touched, ref, shown, row>>

\* pg_restore cannot connect, loses its session or runs into an error.
LoadFails(w) ==
  /\ rpc[w] \in {"load", "loading", "orphan"}
  /\ session' = [session EXCEPT ![w] = NoDb]
  /\ Goto(w, "failed")
  /\ UNCHANGED <<allow, backups, files, content, touched, ref, shown, row>>

Mark(w) ==
  /\ rpc[w] = "mark"
  /\ MarkRestored(ref[w])
  /\ Goto(w, "done")
  /\ UNCHANGED <<ref, shown, row>>

\* The process is killed; a pg_restore it has started goes on.
RestorerDies(w) ==
  /\ w \in Mortal
  /\ rpc[w] \notin {"idle", "done", "failed", "dead", "orphan"}
  /\ Goto(w, IF rpc[w] = "loading" THEN "orphan" ELSE "dead")
  /\ UNCHANGED <<store, ref, shown, row>>

RestoreStep(w) ==
  \/ Preview(w) \/ Confirm(w) \/ ConfirmLatest(w) \/ CheckAllowed(w) \/ Inspect(w)
  \/ Drop(w) \/ Create(w) \/ Refused(w) \/ LoadBegins(w) \/ LoadClashes(w) \/ LoadEnds(w) \/ LoadFails(w)
  \/ Mark(w) \/ RestorerDies(w)

=============================================================================
