----------------------------- MODULE TuneProofs -----------------------------
(***************************************************************************)
(* For any number of databases, dumpers and restorers, some of them killed *)
(* anywhere, and whatever --init, the applications and people at the       *)
(* backup directory do: registered backups are whole dumps, and no restore *)
(* destroys a database without a dump of it.                               *)
(***************************************************************************)
EXTENDS TuneInvariants, SequenceTheorems, TLAPS

LEMMA FilesTyped ==
  /\ NoFile \in FileStates
  /\ \A d \in Databases : CutOff(d) \in FileStates
  /\ \A d \in Databases, c \in Contents : DumpOf(d, c) \in FileStates
  /\ NoPath \notin Paths /\ NoRow.database = NoDb
  BY TuneAssumption DEF NoFile, CutOff, DumpOf, FileStates, Contents, NoPath, Paths, NoRow

LEMMA PathNames == \A p \in Paths : p = <<p[1], p[2]>> /\ p[2] \in {"zstd", "gz"}
  BY DEF Paths

LEMMA RowTyped ==
  ASSUME TypeOK, NEW i \in DOMAIN backups
  PROVE  backups[i] \in Rows /\ backups[i].path \in Paths /\ backups[i].database \in Databases
<1>1. backups[i] \in Rows
  BY DEF TypeOK
<1> QED
  BY <1>1 DEF Rows

LEMMA InitTuneInv == Init => TuneInv
<1> SUFFICES ASSUME Init PROVE TuneInv
  OBVIOUS
<1> USE DEF Init, StoreInit, DumpInit, RestoreInit
<1>1. TypeOK
  BY FilesTyped DEF TypeOK, Seed, Actions, Contents, DumpLabels, RestoreLabels
<1>2. FileInv
  BY DEF FileInv, FilesApart, Settled, Dumping, RowsOfDumps, RowsHaveFiles
<1>3. Checked /\ Recoverable
  BY DEF Checked, Recoverable
<1> QED
  BY <1>1, <1>2, <1>3 DEF TuneInv

-----------------------------------------------------------------------------
(***************************************************************************)
(* Types.                                                                  *)
(***************************************************************************)

LEMMA TypeBackup ==
  ASSUME NEW w \in Dumpers, TypeOK, FilesApart, BackupStep(w), UNCHANGED restore
  PROVE  TypeOK'
<1> w \in Procs
  BY DEF Procs
<1> USE FilesTyped DEF TypeOK, FilesApart, restore, DumpLabels
<1>1. CASE StartBackup(w)
  BY <1>1 DEF StartBackup, store, Paths
<1>2. CASE ZstdRejected(w)
  BY <1>2 DEF ZstdRejected, store, Paths
<1>3. CASE DumpBegins(w)
  BY <1>3 DEF DumpBegins
<1>4. CASE DumpEnds(w)
  BY <1>4 DEF DumpEnds
<1>5. CASE DumpFails(w)
  BY <1>5 DEF DumpFails
<1>6. CASE Digest(w)
  BY <1>6 DEF Digest, store
<1>7. CASE Record(w)
  BY <1>7 DEF Record, RecordBackup, Rows
<1>8. CASE DumperDies(w)
  <2>1. DumpOf(ddb[w], snap[w]) \in FileStates
    BY <1>8 DEF DumperDies
  <2>2. files' = files \/ files' = [files EXCEPT ![out[w]] = DumpOf(ddb[w], snap[w])]
    BY <1>8 DEF DumperDies
  <2>3. files' \in [Paths -> FileStates]
    BY <2>1, <2>2
  <2> QED
    BY <1>8, <2>3 DEF DumperDies
<1> QED
  BY <1>1, <1>2, <1>3, <1>4, <1>5, <1>6, <1>7, <1>8 DEF BackupStep

\* mark_backup_restored keeps the rows but for their mark.
LEMMA Marked ==
  ASSUME TypeOK, NEW id \in Nat, MarkRestored(id)
  PROVE  /\ backups' \in Seq(Rows) /\ DOMAIN backups' = DOMAIN backups
         /\ \A i \in DOMAIN backups :
              /\ backups'[i].path = backups[i].path
              /\ backups'[i].sha256 = backups[i].sha256
              /\ backups'[i].database = backups[i].database
<1>1. DOMAIN backups = 1 .. Len(backups) /\ Len(backups) \in Nat
  BY DEF TypeOK
<1>2. \A i \in DOMAIN backups : backups[i] \in Rows
  BY DEF TypeOK
<1>3. \A i \in DOMAIN backups : backups'[i] =
        IF i = id THEN [backups[i] EXCEPT !.restored = TRUE] ELSE backups[i]
  BY DEF MarkRestored
<1>4. DOMAIN backups' = DOMAIN backups
  BY DEF MarkRestored
<1>5. \A i \in DOMAIN backups :
        /\ backups'[i] \in Rows
        /\ backups'[i].path = backups[i].path
        /\ backups'[i].sha256 = backups[i].sha256
        /\ backups'[i].database = backups[i].database
  BY <1>2, <1>3 DEF Rows
<1>6. backups' \in [1 .. Len(backups) -> Rows]
  BY <1>1, <1>4, <1>5 DEF MarkRestored
<1>7. backups' \in Seq(Rows)
  BY <1>1, <1>6, SeqDef
<1> QED
  BY <1>4, <1>5, <1>7

LEMMA TypeRestore ==
  ASSUME NEW w \in Callers, TypeOK, RestoreStep(w), UNCHANGED dump
  PROVE  TypeOK'
<1> w \in Procs
  BY DEF Procs, Callers
<1>0. /\ row[w].database \in Databases \cup {NoDb}
      /\ row[w].sha256 \in FileStates
      /\ row[w].sha256.data \in Contents
  BY FilesTyped DEF TypeOK, Rows, NoRow, FileStates
<1> USE DEF TypeOK, dump, Goto, RestoreLabels
<1>1. CASE Preview(w)
  <2>1. \A i \in DOMAIN backups : i \in Nat /\ backups[i] \in Rows
    OBVIOUS
  <2> QED
    BY <1>1, <2>1 DEF Preview, store
<1>2. CASE Confirm(w) \/ CheckAllowed(w) \/ Refused(w) \/ RestorerDies(w)
  BY <1>2 DEF Confirm, CheckAllowed, Refused, RestorerDies, store
<1>3. CASE ConfirmLatest(w)
  <2>1. \A d : LatestIds(d) \subseteq Nat
    BY DEF LatestIds
  <2> QED
    BY <1>3, <2>1 DEF ConfirmLatest, store
<1>4. CASE Inspect(w)
  <2>1. \A i \in DOMAIN backups : backups[i] \in Rows
    OBVIOUS
  <2>2. row' \in [Callers -> Rows \cup {NoRow}]
    BY <1>4, <2>1 DEF Inspect, Found
  <2>3. rpc' \in [Callers -> RestoreLabels]
    BY <1>4 DEF Inspect
  <2> QED
    BY <1>4, <2>2, <2>3 DEF Inspect, store
<1>5. CASE Drop(w)
  BY <1>5 DEF Drop, DropDatabase, Contents
<1>6. CASE Create(w)
  BY <1>6 DEF Create, CreateDatabase, Contents
<1>7. CASE LoadBegins(w)
  BY <1>0, <1>7 DEF LoadBegins, Contents
<1>8. CASE LoadClashes(w)
  BY <1>8 DEF LoadClashes, Contents
<1>9. CASE LoadEnds(w)
  BY <1>0, <1>9 DEF LoadEnds
<1>10. CASE LoadFails(w)
  BY <1>10 DEF LoadFails
<1>11. CASE Mark(w)
  BY <1>11, Marked DEF Mark, MarkRestored
<1> QED
  BY <1>1, <1>2, <1>3, <1>4, <1>5, <1>6, <1>7, <1>8, <1>9, <1>10, <1>11 DEF RestoreStep

LEMMA TypeOthers ==
  ASSUME TypeOK,
         Administer \/ (\E d \in Databases : Use(d)) \/ (\E p \in Paths : Touch(p))
           \/ UNCHANGED vars
  PROVE  TypeOK'
<1> USE DEF TypeOK
<1>1. CASE Administer
  <2> UNCHANGED <<files, content, session, touched, dump, restore>>
    BY <1>1 DEF Administer, SetAllow, ResetAllow, InitDb
  <2>1. allow' \subseteq Actions
    BY <1>1 DEF Administer, SetAllow, ResetAllow, InitDb, Seed, Actions
  <2>2. backups' = backups \/ backups' = <<>>
    BY <1>1 DEF Administer, SetAllow, ResetAllow, InitDb
  <2>3. backups' \in Seq(Rows)
    BY <2>2, EmptySeq
  <2> QED
    BY <2>1, <2>3 DEF dump, restore
<1>2. CASE \E d \in Databases : Use(d)
  BY <1>2 DEF Use, Contents, dump, restore
<1>3. CASE \E p \in Paths : Touch(p)
  <2> PICK p \in Paths : Touch(p)
    BY <1>3
  <2>1. files[p] \in FileStates
    OBVIOUS
  <2>2. [files[p] EXCEPT !.is = "altered"] \in FileStates
    BY <2>1 DEF FileStates
  <2>3. PICK f \in {NoFile, [files[p] EXCEPT !.is = "altered"]} : files' = [files EXCEPT ![p] = f]
    BY DEF Touch
  <2>4. f \in FileStates
    BY <2>2, <2>3, FilesTyped
  <2>5. files' \in [Paths -> FileStates] /\ touched' \subseteq Paths
    BY <2>3, <2>4 DEF Touch
  <2> QED
    BY <2>5 DEF Touch, dump, restore
<1>4. CASE UNCHANGED vars
  BY <1>4 DEF vars, store, dump, restore
<1> QED
  BY <1>1, <1>2, <1>3, <1>4

-----------------------------------------------------------------------------
(***************************************************************************)
(* The files, the rows and the dumpers.                                    *)
(***************************************************************************)

\* Whatever leaves the files and the dumpers alone, and the rows but for their
\* marks.
LEMMA FrameFiles ==
  ASSUME FileInv, UNCHANGED <<files, touched, dpc, ddb, out, sum>>,
         DOMAIN backups' = DOMAIN backups,
         \A i \in DOMAIN backups :
           /\ backups'[i].path = backups[i].path
           /\ backups'[i].sha256 = backups[i].sha256
           /\ backups'[i].database = backups[i].database
  PROVE  FileInv'
<1>1. FilesApart' /\ Dumping'
  BY DEF FileInv, FilesApart, Dumping
<1>2. Settled'
  BY DEF FileInv, Settled, Finished
<1>3. RowsOfDumps' /\ RowsHaveFiles'
  BY DEF FileInv, RowsOfDumps, OfDump, RowsHaveFiles
<1> QED
  BY <1>1, <1>2, <1>3 DEF FileInv

\* A step of a dumper at work that touches no file but those of its name.
LEMMA FrameDumper ==
  ASSUME NEW w \in Dumpers, TypeOK, FileInv, UNCHANGED <<backups, touched>>,
         \A v \in Dumpers \ {w} :
           /\ dpc'[v] = dpc[v] /\ out'[v] = out[v]
           /\ ddb'[v] = ddb[v] /\ sum'[v] = sum[v],
         dpc[w] \notin {"idle", "done"}, ddb'[w] = ddb[w],
         out'[w] \in Paths, out'[w][1] = out[w][1],
         \A p \in Paths : p[1] # out[w][1] => files'[p] = files[p],
         /\ dpc'[w] \in {"zstd", "gz", "dumping"}
              => \A k \in {"zstd", "gz"} : files'[<<out'[w][1], k>>].is # "dump"
         /\ dpc'[w] \in {"digest", "record"}
              => files'[out'[w]].is = "dump" /\ files'[out'[w]].db = ddb'[w]
         /\ dpc'[w] = "record" => sum'[w] = files'[out'[w]]
  PROVE  FileInv'
<1>1. \A v \in Dumpers \ {w} : dpc[v] # "idle" =>
        /\ out[v] \in Paths /\ files'[out[v]] = files[out[v]]
        /\ \A k \in {"zstd", "gz"} : files'[<<out[v][1], k>>] = files[<<out[v][1], k>>]
  BY DEF FileInv, FilesApart, Paths
<1>2. FilesApart'
  BY DEF FileInv, FilesApart
<1>3. \A p \in Paths : Finished(p) => Finished(p)' /\ files'[p] = files[p]
  BY <1>1 DEF Finished
<1>4. \A i \in DOMAIN backups : backups[i].path \in Paths
  BY RowTyped
<1>5. Settled'
  BY <1>3, <1>4 DEF FileInv, Settled, TypeOK
<1>6. Dumping'
  BY <1>1 DEF FileInv, Dumping
<1>7. RowsOfDumps'
  BY DEF FileInv, RowsOfDumps
<1>8. RowsHaveFiles'
  BY <1>3, <1>4 DEF FileInv, RowsHaveFiles, Settled
<1> QED
  BY <1>2, <1>5, <1>6, <1>7, <1>8 DEF FileInv

\* While w makes its dump, none has the name it is to have.
LEMMA NoDumpYet ==
  ASSUME NEW w \in Dumpers, FileInv, dpc[w] \in {"zstd", "gz", "dumping"},
         NEW p \in Paths, p[1] = out[w][1]
  PROVE  files[p].is # "dump"
<1>1. p = <<out[w][1], p[2]>> /\ p[2] \in {"zstd", "gz"}
  BY PathNames
<1>2. files[<<out[w][1], p[2]>>].is # "dump"
  BY <1>1 DEF FileInv, Dumping
<1> QED
  BY <1>1, <1>2

LEMMA RecordFiles ==
  ASSUME NEW w \in Dumpers, TypeOK, FileInv, Record(w)
  PROVE  FileInv'
<1> DEFINE new == [database |-> ddb[w], path |-> out[w], sha256 |-> sum[w], restored |-> FALSE]
<1>1. /\ backups' = Append(backups, new) /\ dpc[w] = "record"
      /\ dpc' = [dpc EXCEPT ![w] = "done"]
      /\ UNCHANGED <<files, touched, ddb, out, sum>>
  BY DEF Record, RecordBackup
<1>2. \A i \in DOMAIN backups' :
        backups'[i] = new \/ (i \in DOMAIN backups /\ backups'[i] = backups[i])
  BY <1>1 DEF TypeOK
<1>3. /\ new.path = out[w] /\ OfDump(new) /\ files[out[w]] = new.sha256
  BY <1>1 DEF FileInv, Dumping, OfDump
<1> HIDE DEF new
<1>4. Finished(out[w])' /\ \A p : Finished(p) => Finished(p)'
  BY <1>1 DEF Finished, TypeOK
<1>5. FilesApart' /\ Dumping'
  BY <1>1 DEF FileInv, FilesApart, Dumping, TypeOK
<1>6. Settled'
  BY <1>1, <1>2, <1>3, <1>4 DEF FileInv, Settled
<1>7. RowsOfDumps'
  BY <1>2, <1>3 DEF FileInv, RowsOfDumps, OfDump
<1>8. RowsHaveFiles'
  BY <1>1, <1>2, <1>3 DEF FileInv, RowsHaveFiles, OfDump
<1> QED
  BY <1>5, <1>6, <1>7, <1>8 DEF FileInv

LEMMA BackupFiles ==
  ASSUME NEW w \in Dumpers, TypeOK, FileInv, BackupStep(w)
  PROVE  FileInv'
<1> USE DEF TypeOK, store
<1>0. dpc[w] # "idle" => out[w] \in Paths /\ ddb[w] \in Databases /\ out[w] = <<out[w][1], out[w][2]>>
                           /\ out[w][2] \in {"zstd", "gz"}
  BY DEF FileInv, FilesApart, Paths
<1>1. CASE StartBackup(w)
  <2>1. PICK b \in Bases, d \in Databases :
          /\ \A k \in {"zstd", "gz"} : files[<<b, k>>] = NoFile
          /\ \A v \in Dumpers : out[v] = NoPath \/ out[v][1] # b
          /\ ddb' = [ddb EXCEPT ![w] = d] /\ out' = [out EXCEPT ![w] = <<b, "zstd">>]
    BY <1>1 DEF StartBackup
  <2>2. dpc[w] = "idle" /\ dpc' = [dpc EXCEPT ![w] = "zstd"]
        /\ UNCHANGED <<files, backups, touched, sum>>
    BY <1>1 DEF StartBackup
  <2>3. FilesApart'
    BY <2>1, <2>2, FilesTyped DEF FileInv, FilesApart, Paths
  <2>4. Settled'
    BY <2>1, <2>2 DEF FileInv, Settled, Finished
  <2>5. Dumping'
    BY <2>1, <2>2 DEF FileInv, Dumping, NoFile
  <2> QED
    BY <2>2, <2>3, <2>4, <2>5 DEF FileInv, RowsOfDumps, RowsHaveFiles
<1>2. CASE ZstdRejected(w)
  BY <1>0, <1>2, FrameDumper DEF ZstdRejected, FileInv, Dumping, Paths
<1>3. CASE DumpBegins(w)
  <2>1. /\ dpc[w] \in {"zstd", "gz"} /\ dpc' = [dpc EXCEPT ![w] = "dumping"]
        /\ files' = [files EXCEPT ![out[w]] = CutOff(ddb[w])]
        /\ UNCHANGED <<backups, touched, ddb, out, sum>>
    BY <1>3 DEF DumpBegins
  <2>2. \A p \in Paths : p[1] # out[w][1] => files'[p] = files[p]
    BY <2>1
  <2>3. \A p \in Paths : p[1] = out[w][1] => files'[p].is # "dump"
    BY <2>1, NoDumpYet DEF CutOff
  <2>4. \A k \in {"zstd", "gz"} :
          <<out[w][1], k>> \in Paths /\ <<out[w][1], k>>[1] = out[w][1]
    BY <1>0, <2>1 DEF Paths
  <2>5. /\ dpc'[w] = "dumping" /\ out'[w] = out[w]
        /\ \A k \in {"zstd", "gz"} : files'[<<out'[w][1], k>>].is # "dump"
    BY <2>1, <2>3, <2>4
  <2> QED
    BY <1>0, <2>1, <2>2, <2>5, FrameDumper
<1>4. CASE DumpEnds(w)
  BY <1>0, <1>4, FrameDumper DEF DumpEnds, DumpOf
<1>5. CASE DumpFails(w)
  <2>1. /\ dpc[w] \notin {"idle", "done"} /\ dpc' = [dpc EXCEPT ![w] = "failed"]
        /\ UNCHANGED <<backups, touched, ddb, out, sum>>
    BY <1>5 DEF DumpFails
  <2>2. \A p \in Paths : p[1] # out[w][1] => files'[p] = files[p]
    BY <1>5 DEF DumpFails
  <2> QED
    BY <1>0, <2>1, <2>2, FrameDumper
<1>6. CASE Digest(w)
  BY <1>0, <1>6, FrameDumper DEF Digest, FileInv, Dumping
<1>7. CASE Record(w)
  BY <1>7, RecordFiles
<1>8. CASE DumperDies(w)
  <2>1. /\ dpc[w] \notin {"idle", "done"} /\ dpc' = [dpc EXCEPT ![w] = "dead"]
        /\ UNCHANGED <<backups, touched, ddb, out, sum>>
    BY <1>8 DEF DumperDies
  <2>2. \A p \in Paths : p[1] # out[w][1] => files'[p] = files[p]
    BY <1>8 DEF DumperDies
  <2> QED
    BY <1>0, <2>1, <2>2, FrameDumper
<1> QED
  BY <1>1, <1>2, <1>3, <1>4, <1>5, <1>6, <1>7, <1>8 DEF BackupStep

\* A file that is a whole dump stays while backups are made.
LEMMA DumpsStay ==
  ASSUME NEW w \in Dumpers, TypeOK, FileInv, BackupStep(w),
         NEW p \in Paths, files[p].is = "dump"
  PROVE  files'[p] = files[p]
<1>1. dpc[w] \in {"zstd", "gz", "dumping"} => p # out[w]
  BY NoDumpYet
<1> QED
  BY <1>1 DEF BackupStep, StartBackup, ZstdRejected, DumpBegins, DumpEnds, DumpFails, Digest,
              Record, RecordBackup, DumperDies, store, TypeOK

\* People touch only registered files, which no dumper writes any more.
LEMMA TouchFiles ==
  ASSUME TypeOK, FileInv, NEW p \in Paths, Touch(p)
  PROVE  FileInv'
<1>1. /\ Finished(p) /\ touched' = touched \cup {p}
      /\ \A q \in Paths \ {p} : files'[q] = files[q]
      /\ files'[p].is # "dump"
      /\ UNCHANGED <<backups, dump>>
  <2>1. PICK i \in DOMAIN backups : backups[i].path = p
    BY DEF Touch
  <2>2. files[p] \in FileStates
    BY DEF TypeOK
  <2>3. PICK f \in {NoFile, [files[p] EXCEPT !.is = "altered"]} : files' = [files EXCEPT ![p] = f]
    BY DEF Touch
  <2>4. f.is # "dump"
    BY <2>2, <2>3 DEF NoFile, FileStates
  <2> QED
    BY <2>1, <2>3, <2>4 DEF Touch, TypeOK, FileInv, Settled
<1>2. \A w \in Dumpers : dpc[w] \notin {"idle", "done"} => p[1] # out[w][1]
  BY <1>1 DEF FileInv, FilesApart, Finished
<1>3. FilesApart' /\ Settled' /\ RowsOfDumps'
  BY <1>1 DEF FileInv, FilesApart, Settled, Finished, RowsOfDumps, dump
<1>4. Dumping'
  <2>1. \A w \in Dumpers : dpc[w] \notin {"idle", "done"} =>
          /\ files'[out[w]] = files[out[w]]
          /\ \A k \in {"zstd", "gz"} : files'[<<out[w][1], k>>] = files[<<out[w][1], k>>]
    BY <1>1, <1>2 DEF FileInv, FilesApart, Paths
  <2> QED
    BY <1>1, <2>1 DEF FileInv, Dumping, dump
<1>5. RowsHaveFiles'
  BY <1>1, RowTyped DEF FileInv, RowsHaveFiles
<1> QED
  BY <1>3, <1>4, <1>5 DEF FileInv

LEMMA OtherFiles ==
  ASSUME TypeOK, FileInv,
         \/ \E w \in Callers : RestoreStep(w) /\ UNCHANGED dump
         \/ Administer \/ (\E d \in Databases : Use(d))
         \/ UNCHANGED vars
  PROVE  FileInv'
<1>1. ASSUME NEW w \in Callers, RestoreStep(w), UNCHANGED dump
      PROVE  FileInv'
  <2>1. UNCHANGED <<files, touched, dpc, ddb, out, sum>>
    BY <1>1 DEF RestoreStep, Preview, Confirm, ConfirmLatest, CheckAllowed, Inspect, Drop,
                DropDatabase, Create, CreateDatabase, Refused, LoadBegins, LoadClashes, LoadEnds,
                LoadFails, Mark, MarkRestored, RestorerDies, store, dump
  <2>2. CASE Mark(w)
    <3>1. ref[w] \in Nat
      BY DEF TypeOK
    <3> QED
      BY <2>1, <2>2, <3>1, Marked, FrameFiles DEF Mark
  <2>3. CASE ~Mark(w)
    <3>1. UNCHANGED backups
      BY <1>1, <2>3 DEF RestoreStep, Preview, Confirm, ConfirmLatest, CheckAllowed, Inspect, Drop,
                DropDatabase, Create, CreateDatabase, Refused, LoadBegins, LoadClashes, LoadEnds,
                LoadFails, RestorerDies, store
    <3> QED
      BY <2>1, <3>1, FrameFiles
  <2> QED
    BY <2>2, <2>3
<1>2. CASE Administer
  <2>1. /\ UNCHANGED <<files, touched, dpc, ddb, out, sum>>
        /\ backups' = backups \/ backups' = <<>>
    BY <1>2 DEF Administer, SetAllow, ResetAllow, InitDb, dump
  <2>2. CASE backups' = backups
    BY <2>1, <2>2, FrameFiles
  <2>3. CASE backups' = <<>>
    BY <2>1, <2>3 DEF FileInv, FilesApart, Settled, Finished, Dumping, RowsOfDumps, RowsHaveFiles
  <2> QED
    BY <2>1, <2>2, <2>3
<1>3. CASE (\E d \in Databases : Use(d)) \/ UNCHANGED vars
  BY <1>3, FrameFiles DEF Use, vars, store, dump
<1> QED
  BY <1>1, <1>2, <1>3

-----------------------------------------------------------------------------
(***************************************************************************)
(* The databases and the restores.                                         *)
(***************************************************************************)

\* What a restore holds between Inspect and pg_restore names a dump on disk.
LEMMA HeldDump ==
  ASSUME TypeOK, Checked, NEW w \in Callers, rpc[w] \in {"drop", "create", "load"}
  PROVE  /\ row[w].path \in Paths /\ row[w].database \in Databases
         /\ files[row[w].path] = row[w].sha256
         /\ files[row[w].path].is = "dump" /\ files[row[w].path].db = row[w].database
<1>1. OfDump(row[w]) /\ Intact(row[w])
  BY DEF Checked
<1>2. row[w] \in Rows
  BY <1>1 DEF OfDump, NoRow, NoFile, TypeOK
<1> QED
  BY <1>1, <1>2 DEF OfDump, Intact, Rows

\* Steps that change no database and no restore, and no dump a restore needs.
LEMMA FrameRestores ==
  ASSUME TypeOK, Checked, Recoverable, UNCHANGED <<content, rpc, row>>,
         \A p \in Paths : files[p].is = "dump" /\ Needed(p) => files'[p] = files[p]
  PROVE  Checked' /\ Recoverable'
<1>1. ASSUME NEW w \in Callers, rpc[w] \in {"drop", "create", "load"}
      PROVE  files'[row[w].path] = files[row[w].path]
  BY <1>1, HeldDump DEF Needed
<1>2. Checked'
  BY <1>1 DEF Checked, Intact
<1>3. Recoverable'
  <2> SUFFICES ASSUME NEW d \in Databases, content[d] \notin Versions
               PROVE  \E p \in Paths : files'[p].is = "dump" /\ files'[p].db = d
    BY DEF Recoverable
  <2>1. PICK p \in Paths : files[p].is = "dump" /\ files[p].db = d
    BY DEF Recoverable
  <2> QED
    BY <2>1 DEF Needed
<1> QED
  BY <1>2, <1>3

\* Steps of one restore: a database it makes unusable is that of the row it
\* has checked.
LEMMA RestoreSafe ==
  ASSUME NEW w \in Callers, TypeOK, RowsOfDumps, Checked, Recoverable, RestoreStep(w)
  PROVE  Checked' /\ Recoverable'
<1> USE DEF TypeOK, Goto, store
<1>1. UNCHANGED files /\ \A v \in Callers \ {w} : rpc'[v] = rpc[v] /\ row'[v] = row[v]
  BY DEF RestoreStep, Preview, Confirm, ConfirmLatest, CheckAllowed, Inspect, Drop,
         DropDatabase, Create, CreateDatabase, Refused, LoadBegins, LoadClashes, LoadEnds,
         LoadFails, Mark, MarkRestored, RestorerDies
<1>2. CASE Inspect(w)
  <2>1. UNCHANGED content
    BY <1>2 DEF Inspect
  <2>2. rpc'[w] = "drop" => OfDump(row'[w]) /\ Intact(row'[w])
    BY <1>2 DEF Inspect, Found, RowsOfDumps
  <2>3. rpc'[w] \in {"drop", "failed"}
    BY <1>2 DEF Inspect
  <2>4. Checked'
    BY <1>1, <2>2, <2>3 DEF Checked, Intact
  <2> QED
    BY <1>1, <2>1, <2>4 DEF Recoverable
<1>3. CASE ~Inspect(w)
  <2>1. row' = row
    BY <1>3 DEF RestoreStep, Preview, Confirm, ConfirmLatest, CheckAllowed, Drop,
         DropDatabase, Create, CreateDatabase, Refused, LoadBegins, LoadClashes, LoadEnds,
         LoadFails, Mark, MarkRestored, RestorerDies
  <2>2. rpc'[w] \in {"drop", "create", "load"} => rpc[w] \in {"drop", "create", "load"}
    BY <1>3 DEF RestoreStep, Preview, Confirm, ConfirmLatest, CheckAllowed, Drop,
         DropDatabase, Create, CreateDatabase, Refused, LoadBegins, LoadClashes, LoadEnds,
         LoadFails, Mark, MarkRestored, RestorerDies
  <2>3. Checked'
    BY <1>1, <2>1, <2>2 DEF Checked, Intact
  <2>4. ASSUME NEW d \in Databases, content'[d] \notin Versions
        PROVE  content[d] \notin Versions
                 \/ (rpc[w] \in {"drop", "create", "load"} /\ d = row[w].database)
    BY <1>3, <2>4, TuneAssumption
       DEF RestoreStep, Preview, Confirm, ConfirmLatest, CheckAllowed, Drop,
         DropDatabase, Create, CreateDatabase, Refused, LoadBegins, LoadClashes, LoadEnds,
         LoadFails, Mark, MarkRestored, RestorerDies
  <2>5. Recoverable'
    BY <1>1, <2>4, HeldDump DEF Recoverable
  <2> QED
    BY <2>3, <2>5
<1> QED
  BY <1>2, <1>3

-----------------------------------------------------------------------------
LEMMA TuneInductive == TuneInv /\ [Next]_vars => TuneInv'
<1> SUFFICES ASSUME TuneInv, [Next]_vars PROVE TuneInv'
  OBVIOUS
<1> USE DEF TuneInv
<1>1. ASSUME NEW w \in Dumpers, BackupStep(w), UNCHANGED restore
      PROVE  TuneInv'
  <2>1. TypeOK' /\ FileInv'
    BY <1>1, TypeBackup, BackupFiles DEF FileInv
  <2>2. UNCHANGED content
    BY <1>1 DEF BackupStep, StartBackup, ZstdRejected, DumpBegins, DumpEnds, DumpFails, Digest,
                Record, RecordBackup, DumperDies, store
  <2>3. Checked' /\ Recoverable'
    BY <1>1, <2>2, DumpsStay, FrameRestores DEF restore
  <2> QED
    BY <2>1, <2>3
<1>2. ASSUME NEW w \in Callers, RestoreStep(w), UNCHANGED dump
      PROVE  TuneInv'
  BY <1>2, TypeRestore, OtherFiles, RestoreSafe DEF FileInv
<1>3. CASE Administer \/ UNCHANGED vars
  <2>1. UNCHANGED <<content, rpc, row, files>>
    BY <1>3 DEF Administer, SetAllow, ResetAllow, InitDb, restore, vars, store
  <2> QED
    BY <1>3, <2>1, TypeOthers, OtherFiles, FrameRestores
<1>4. CASE \E d \in Databases : Use(d)
  <2>1. Checked' /\ Recoverable'
    BY <1>4 DEF Use, Checked, Intact, Recoverable, restore, TypeOK
  <2> QED
    BY <1>4, <2>1, TypeOthers, OtherFiles
<1>5. CASE \E p \in Paths : Touch(p)
  <2> PICK p \in Paths : Touch(p)
    BY <1>5
  <2>1. UNCHANGED <<content, rpc, row>> /\ ~Needed(p)
        /\ \A q \in Paths \ {p} : files'[q] = files[q]
    BY DEF Touch, restore
  <2>2. Checked' /\ Recoverable'
    BY <2>1, FrameRestores
  <2> QED
    BY <1>5, <2>2, TypeOthers, TouchFiles
<1> QED
  BY <1>1, <1>2, <1>3, <1>4, <1>5 DEF Next

LEMMA TuneInvariant == Spec => []TuneInv
  BY InitTuneInv, TuneInductive, PTL DEF Spec

\* The variables of pg-tune's processes, rows, files and databases keep their
\* types under every step of make_backup, do_restore and their surroundings.
THEOREM TuneTypes == Spec => []TypeOK
<1>1. TuneInv => TypeOK
  BY DEF TuneInv
<1> QED
  BY <1>1, TuneInvariant, PTL

\* What record_backup has registered is a whole dump of its database with the
\* registered digest, unless somebody has touched the file.
THEOREM BackupSafety == Spec => []RowsHaveFiles
<1>1. TuneInv => RowsHaveFiles
  BY DEF TuneInv, FileInv
<1> QED
  BY <1>1, TuneInvariant, PTL

\* As long as do_restore, wherever it fails, dies or overlaps with others,
\* leaves a database missing or not whole, a dump of it is on disk.
THEOREM RestoreSafety == Spec => []Recoverable
<1>1. TuneInv => Recoverable
  BY DEF TuneInv
<1> QED
  BY <1>1, TuneInvariant, PTL

=============================================================================
