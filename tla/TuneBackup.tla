----------------------------- MODULE TuneBackup -----------------------------
(***************************************************************************)
(* make_backup: pg_dump into a new file, with zstd or, where the build has *)
(* none, gzip; then the digest of the file; then a row of tune_backups.    *)
(* Other processes go on between these.                                    *)
(***************************************************************************)
EXTENDS TuneStore

VARIABLES
  dpc,    \* where each dumper is
  ddb,    \* the database it dumps
  out,    \* the file it writes
  snap,   \* the snapshot its pg_dump reads
  sum     \* the digest

dump == <<dpc, ddb, out, snap, sum>>

DumpLabels == {"idle", "zstd", "gz", "dumping", "digest", "record", "done", "failed", "dead"}

NoPath == <<NoDb, "none">>

DumpInit ==
  /\ dpc = [w \in Dumpers |-> "idle"]
  /\ ddb = [w \in Dumpers |-> NoDb]
  /\ out = [w \in Dumpers |-> NoPath]
  /\ snap = [w \in Dumpers |-> "absent"]
  /\ sum = [w \in Dumpers |-> NoFile]

-----------------------------------------------------------------------------
\* The database named or PGDATABASE; the name of the file is new.  The version
\* query finds the database.
StartBackup(w) ==
  /\ dpc[w] = "idle"
  /\ \E d \in Databases, b \in Bases :
       /\ content[d] # "absent"
       /\ \A k \in {"zstd", "gz"} : files[<<b, k>>] = NoFile /\ <<b, k>> \notin touched
       /\ \A v \in Dumpers : out[v] = NoPath \/ out[v][1] # b
       /\ ddb' = [ddb EXCEPT ![w] = d]
       /\ out' = [out EXCEPT ![w] = <<b, "zstd">>]
  /\ dpc' = [dpc EXCEPT ![w] = "zstd"]
  /\ UNCHANGED <<store, snap, sum>>

\* _is_zstd_unsupported: this pg_dump has no zstd.
ZstdRejected(w) ==
  /\ dpc[w] = "zstd"
  /\ out' = [out EXCEPT ![w] = <<out[w][1], "gz">>]
  /\ dpc' = [dpc EXCEPT ![w] = "gz"]
  /\ UNCHANGED <<store, ddb, snap, sum>>

\* Mutated form: pg_dump is given the file and the database in the wrong order.
DumpBeginsSwapped(w) ==
  /\ dpc[w] \in {"zstd", "gz"}
  /\ content[ddb[w]] # "absent"
  /\ session' = [session EXCEPT ![w] = out[w]]
  /\ snap' = [snap EXCEPT ![w] = content[ddb[w]]]
  /\ files' = [files EXCEPT ![ddb[w]] = CutOff(out[w])]
  /\ dpc' = [dpc EXCEPT ![w] = "dumping"]
  /\ UNCHANGED <<allow, backups, content, touched, ddb, out, sum>>

\* pg_dump connects and reads everything in one snapshot.
DumpBegins(w) ==
  /\ dpc[w] \in {"zstd", "gz"}
  /\ content[ddb[w]] # "absent"
  /\ session' = [session EXCEPT ![w] = ddb[w]]
  /\ snap' = [snap EXCEPT ![w] = content[ddb[w]]]
  /\ files' = [files EXCEPT ![out[w]] = CutOff(ddb[w])]
  /\ dpc' = [dpc EXCEPT ![w] = "dumping"]
  /\ UNCHANGED <<allow, backups, content, touched, ddb, out, sum>>

DumpEnds(w) ==
  /\ dpc[w] = "dumping"
  /\ session[w] = ddb[w]
  /\ session' = [session EXCEPT ![w] = NoDb]
  /\ files' = [files EXCEPT ![out[w]] = DumpOf(ddb[w], snap[w])]
  /\ dpc' = [dpc EXCEPT ![w] = "digest"]
  /\ UNCHANGED <<allow, backups, content, touched, ddb, out, snap, sum>>

\* Mutated form: the exit code of pg_dump is not looked at.
DumpUnchecked(w) ==
  /\ dpc[w] \in {"zstd", "gz", "dumping"}
  /\ session' = [session EXCEPT ![w] = NoDb]
  /\ dpc' = [dpc EXCEPT ![w] = "digest"]
  /\ UNCHANGED <<allow, backups, files, content, touched, ddb, out, snap, sum>>

\* pg_dump fails: the disk is full, the database or the session is gone.
DumpFails(w) ==
  /\ dpc[w] \in {"zstd", "gz", "dumping"}
  /\ session' = [session EXCEPT ![w] = NoDb]
  /\ files' = [files EXCEPT ![out[w]] = NoFile]
  /\ dpc' = [dpc EXCEPT ![w] = "failed"]
  /\ UNCHANGED <<allow, backups, content, touched, ddb, out, snap, sum>>

Digest(w) ==
  /\ dpc[w] = "digest"
  /\ sum' = [sum EXCEPT ![w] = files[out[w]]]
  /\ dpc' = [dpc EXCEPT ![w] = "record"]
  /\ UNCHANGED <<store, ddb, out, snap>>

Record(w) ==
  /\ dpc[w] = "record"
  /\ RecordBackup(ddb[w], out[w], sum[w])
  /\ dpc' = [dpc EXCEPT ![w] = "done"]
  /\ UNCHANGED <<ddb, out, snap, sum>>

\* The process is killed.  Its pg_dump goes on and comes to its end or not;
\* the file stays, and nobody registers it.
DumperDies(w) ==
  /\ w \in Mortal
  /\ dpc[w] \notin {"idle", "done", "failed", "dead"}
  /\ session' = [session EXCEPT ![w] = NoDb]
  /\ \/ UNCHANGED files
     \/ /\ dpc[w] = "dumping" /\ session[w] = ddb[w]
        /\ files' = [files EXCEPT ![out[w]] = DumpOf(ddb[w], snap[w])]
  /\ dpc' = [dpc EXCEPT ![w] = "dead"]
  /\ UNCHANGED <<allow, backups, content, touched, ddb, out, snap, sum>>

BackupStep(w) ==
  \/ StartBackup(w) \/ ZstdRejected(w) \/ DumpBegins(w) \/ DumpEnds(w)
  \/ DumpFails(w) \/ Digest(w) \/ Record(w) \/ DumperDies(w)

=============================================================================
