--------------------------- MODULE TuneInvariants ---------------------------
(***************************************************************************)
(* The inductive strengthening of RowsHaveFiles and Recoverable: what the  *)
(* processes hold is what they need for their next steps.                  *)
(***************************************************************************)
EXTENDS TuneOps

\* A dumper at work has a database and a file, and nobody else's file has the
\* same name: the name has the time and a random suffix.
FilesApart ==
  /\ \A w \in Dumpers : dpc[w] # "idle" => out[w] \in Paths /\ ddb[w] \in Databases
  /\ \A v, w \in Dumpers :
       v # w /\ dpc[v] # "idle" /\ dpc[w] # "idle" => out[v][1] # out[w][1]

\* A file that is registered, or was before someone touched it, is of a dumper
\* that has come to its end, so nobody writes it.
Finished(p) == \E w \in Dumpers : dpc[w] = "done" /\ out[w] = p

Settled ==
  /\ \A i \in DOMAIN backups : Finished(backups[i].path)
  /\ \A p \in touched : Finished(p)

\* While a dump is made there is no dump under its name, afterwards there is.
Dumping ==
  \A w \in Dumpers :
    /\ dpc[w] \in {"zstd", "gz", "dumping"}
         => \A k \in {"zstd", "gz"} : files[<<out[w][1], k>>].is # "dump"
    /\ dpc[w] \in {"digest", "record"}
         => files[out[w]].is = "dump" /\ files[out[w]].db = ddb[w]
    /\ dpc[w] = "record" => sum[w] = files[out[w]]

\* The digest of a row or of what a restore holds is that of a whole dump.
OfDump(r) == r.sha256.is = "dump" /\ r.sha256.db = r.database

RowsOfDumps == \A i \in DOMAIN backups : OfDump(backups[i])

\* From Inspect to the start of pg_restore the file of a restore stays.
Checked ==
  \A w \in Callers :
    rpc[w] \in {"drop", "create", "load"} => OfDump(row[w]) /\ Intact(row[w])

FileInv == FilesApart /\ Settled /\ Dumping /\ RowsOfDumps /\ RowsHaveFiles

TuneInv == TypeOK /\ FileInv /\ Checked /\ Recoverable

=============================================================================
