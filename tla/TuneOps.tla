------------------------------- MODULE TuneOps -------------------------------
(***************************************************************************)
(* pg-tune's backups and restores side by side, with the administration of *)
(* tune.db, the applications that use the databases, and people who clear  *)
(* out or damage the backup directory.                                     *)
(***************************************************************************)
EXTENDS TuneBackup, TuneRestore

CONSTANT MayInit   \* whether pg-tune-config --init is run

vars == <<store, dump, restore>>

\* pg-tune-config, set_allow
Administer ==
  /\ \/ \E a \in Actions, b \in BOOLEAN : SetAllow(a, b)
     \/ ResetAllow
     \/ MayInit /\ InitDb
  /\ UNCHANGED <<dump, restore>>

\* The applications change a database that is whole.
Use(d) ==
  /\ content[d] \in Versions
  /\ \E v \in Versions : content' = [content EXCEPT ![d] = v]
  /\ UNCHANGED <<allow, backups, files, session, touched, dump, restore>>

\* A restore depends on the file: one under way has checked it, or its
\* database is not whole.
Needed(p) ==
  \/ \E w \in Callers : rpc[w] \in {"drop", "create", "load"} /\ row[w].path = p
  \/ \E d \in Databases : files[p].db = d /\ content[d] \notin Versions

\* Somebody deletes or damages a registered dump no restore depends on.
Touch(p) ==
  /\ \E i \in DOMAIN backups : backups[i].path = p
  /\ files[p].is = "dump" /\ ~Needed(p)
  /\ \E f \in {NoFile, [files[p] EXCEPT !.is = "altered"]} : files' = [files EXCEPT ![p] = f]
  /\ touched' = touched \cup {p}
  /\ UNCHANGED <<allow, backups, content, session, dump, restore>>

Init == StoreInit /\ DumpInit /\ RestoreInit

Next ==
  \/ \E w \in Dumpers : BackupStep(w) /\ UNCHANGED restore
  \/ \E w \in Callers : RestoreStep(w) /\ UNCHANGED dump
  \/ Administer
  \/ \E d \in Databases : Use(d)
  \/ \E p \in Paths : Touch(p)

Spec == Init /\ [][Next]_vars

-----------------------------------------------------------------------------
TypeOK ==
  /\ allow \subseteq Actions
  /\ backups \in Seq(Rows)
  /\ files \in [Paths -> FileStates]
  /\ content \in [Databases -> Contents]
  /\ session \in [Procs -> Databases \cup {NoDb}]
  /\ touched \subseteq Paths
  /\ dpc \in [Dumpers -> DumpLabels]
  /\ ddb \in [Dumpers -> Databases \cup {NoDb}]
  /\ out \in [Dumpers -> Paths \cup {NoPath}]
  /\ snap \in [Dumpers -> Contents]
  /\ sum \in [Dumpers -> FileStates]
  /\ rpc \in [Callers -> RestoreLabels]
  /\ ref \in [Callers -> Nat]
  /\ shown \in [Callers -> Rows \cup {NoRow}]
  /\ row \in [Callers -> Rows \cup {NoRow}]

\* A registered backup is a whole dump of its database with the registered
\* digest, unless somebody has touched the file, wherever make_backup failed
\* or died and whatever restores ended its sessions.
RowsHaveFiles ==
  \A i \in DOMAIN backups :
    backups[i].path \notin touched
      => /\ files[backups[i].path] = backups[i].sha256
         /\ backups[i].sha256.is = "dump"
         /\ backups[i].sha256.db = backups[i].database

\* A restore destroys nothing it has no dump for: as long as a database is
\* missing or not whole, a dump of it is in the backup directory, also when
\* restores overlap, fail or die.
Recoverable ==
  \A d \in Databases :
    content[d] \notin Versions
      => \E p \in Paths : files[p].is = "dump" /\ files[p].db = d

-----------------------------------------------------------------------------
(***************************************************************************)
(* What the documentation says and the code does not do.                   *)
(***************************************************************************)

\* restore.py:106, what is restored has been shown by inspect_restore to the
\* one who confirmed it.
ConfirmedIsRestored ==
  \A w \in Callers : rpc[w] = "drop" => row[w] = shown[w]

=============================================================================
