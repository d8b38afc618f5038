------------------------------ MODULE BookLoad ------------------------------
(***************************************************************************)
(* load_to_pg.py: download the books to a raw file, cut them into chunks   *)
(* in two CSV files, copy these into the tables.  Several runs may be      *)
(* under way at once; a run may fail or be killed at any step.             *)
(***************************************************************************)
EXTENDS BookStore

Goto(w, label) == pc' = [pc EXCEPT ![w] = label]

\* The run is over: its files are closed, its transaction is rolled back.
End(w) ==
  /\ Goto(w, "idle")
  /\ at' = [at EXCEPT ![w] = 0]
  /\ wrote' = [wrote EXCEPT ![w] = 0]
  /\ holds' = [holds EXCEPT ![w] = {}]
  /\ rows' = [rows EXCEPT ![w] = NoRows]
  /\ existed' = [existed EXCEPT ![w] = FALSE]
  /\ args' = [args EXCEPT ![w] = NoArgs]
  /\ alone' = [alone EXCEPT ![w] = FALSE]

Fail(w) == End(w) /\ UNCHANGED <<files, db, world>>

Start(w) ==
  /\ pc[w] = "idle" /\ starts < MaxStarts
  /\ LET others == {o \in Runs \ {w} : pc[o] # "idle"}
     IN /\ overlap' = (overlap \/ others # {})
        /\ alone' = [o \in Runs |-> IF o = w THEN others = {}
                                    ELSE IF o \in others THEN FALSE ELSE alone[o]]
  /\ \E a \in ArgSet :
       /\ args' = [args EXCEPT ![w] = a]
       /\ Goto(w, IF a.skip_load THEN "post" ELSE "raw")
  /\ starts' = starts + 1
  /\ UNCHANGED <<files, db, at, wrote, holds, rows, existed>>

-----------------------------------------------------------------------------
(***************************************************************************)
(* Step 1: load_from_origin.                                               *)
(***************************************************************************)
TakeRaw(w) ==
  /\ pc[w] = "raw"
  /\ args[w].cache /\ raw[RawOf(w)] # Missing
  /\ Goto(w, "csv")
  /\ UNCHANGED <<files, db, world, args, at, wrote, holds, rows, existed, alone>>

OpenRaw(w) ==
  /\ pc[w] = "raw"
  /\ ~(args[w].cache /\ raw[RawOf(w)] # Missing)
  /\ raw' = [raw EXCEPT ![RawOf(w)] = <<>>]
  /\ holds' = [holds EXCEPT ![w] = {"raw"}]
  /\ Goto(w, "download")
  /\ UNCHANGED <<header, text, db, world, args, at, wrote, rows, existed, alone>>

\* dataset.take(limit) gives no more books than there are.
ToDownload(w) ==
  LET n == Len(Library[args[w].dataset]) IN IF args[w].limit < n THEN args[w].limit ELSE n

Download(w) ==
  /\ pc[w] = "download" /\ at[w] < ToDownload(w)
  /\ raw' = [raw EXCEPT ![RawOf(w)] = WriteAt(@, at[w], <<Book(args[w].dataset, at[w] + 1)>>)]
  /\ at' = [at EXCEPT ![w] = @ + 1]
  /\ UNCHANGED <<header, text, db, world, pc, args, wrote, holds, rows, existed, alone>>

\* Mutated form: the raw file stays open.
KeepOpen(w) ==
  /\ pc[w] = "download" /\ at[w] = ToDownload(w)
  /\ at' = [at EXCEPT ![w] = 0]
  /\ Goto(w, "csv")
  /\ UNCHANGED <<files, db, world, args, wrote, holds, rows, existed, alone>>

Downloaded(w) ==
  /\ pc[w] = "download" /\ at[w] = ToDownload(w)
  /\ at' = [at EXCEPT ![w] = 0]
  /\ holds' = [holds EXCEPT ![w] = {}]
  /\ Goto(w, "csv")
  /\ UNCHANGED <<files, db, world, args, wrote, rows, existed, alone>>

\* The stream breaks off: what has been written stays.
DownloadFails(w) ==
  /\ \/ pc[w] = "download"
     \/ pc[w] = "raw" /\ ~(args[w].cache /\ raw[RawOf(w)] # Missing)
  /\ Fail(w)

-----------------------------------------------------------------------------
(***************************************************************************)
(* Step 2: process_to_csv.                                                 *)
(***************************************************************************)
CsvCached(w) ==
  args[w].cache /\ header[CsvOf(w)] # Missing /\ text[CsvOf(w)] # Missing

TakeCsv(w) ==
  /\ pc[w] = "csv" /\ CsvCached(w)
  /\ Goto(w, "look")
  /\ UNCHANGED <<files, db, world, args, at, wrote, holds, rows, existed, alone>>

\* Mutated form: the text CSV is opened after the header CSV is written.
HeaderFirst(w) ==
  /\ pc[w] = "csv" /\ ~CsvCached(w)
  /\ header' = [header EXCEPT ![CsvOf(w)] = <<ColumnNames>> \o raw[RawOf(w)]]
  /\ holds' = [holds EXCEPT ![w] = {"header"}]
  /\ Goto(w, "openText")
  /\ UNCHANGED <<raw, text, db, world, args, at, wrote, rows, existed, alone>>

OpenHeader(w) ==
  /\ pc[w] = "csv" /\ ~CsvCached(w)
  /\ header' = [header EXCEPT ![CsvOf(w)] = <<>>]
  /\ holds' = [holds EXCEPT ![w] = {"header"}]
  /\ Goto(w, "openText")
  /\ UNCHANGED <<raw, text, db, world, args, at, wrote, rows, existed, alone>>

\* A file somebody else has removed can be written, but nobody will see it.
PutHeader(w, place, line) ==
  header' = IF "header" \in holds[w]
            THEN [header EXCEPT ![CsvOf(w)] = WriteAt(@, place, <<line>>)]
            ELSE header

OpenText(w) ==
  /\ pc[w] = "openText"
  /\ text' = [text EXCEPT ![CsvOf(w)] = <<ColumnNames>>]
  /\ holds' = [holds EXCEPT ![w] = @ \cup {"text"}]
  /\ at' = [at EXCEPT ![w] = 0]
  /\ PutHeader(w, 0, ColumnNames)
  /\ wrote' = [wrote EXCEPT ![w] = 1]
  /\ Goto(w, "process")
  /\ UNCHANGED <<raw, db, world, args, rows, existed, alone>>

\* A line of the raw file: a book becomes a line of the header CSV and the
\* lines of its chunks; one that is not whole raises an error.
ProcessBook(w) ==
  /\ pc[w] = "process"
  /\ \E lines \in VisibleRaw(w) :
       /\ at[w] < Len(lines)
       /\ LET line == lines[at[w] + 1]
              chunks == ChunkRows(line.dataset, line.id, args[w].size)
          IN /\ line.is = "book"
             /\ at' = [at EXCEPT ![w] = @ + 1]
             /\ PutHeader(w, at[w] + 1, line)
             /\ text' = IF "text" \in holds[w]
                        THEN [text EXCEPT ![CsvOf(w)] = WriteAt(@, wrote[w], chunks)]
                        ELSE text
             /\ wrote' = [wrote EXCEPT ![w] = @ + Len(chunks)]
  /\ UNCHANGED <<raw, db, world, pc, args, holds, rows, existed, alone>>

ProcessFails(w) ==
  /\ pc[w] = "process"
  /\ \E lines \in VisibleRaw(w) : at[w] < Len(lines) /\ lines[at[w] + 1].is # "book"
  /\ Fail(w)

Processed(w) ==
  /\ pc[w] = "process"
  /\ \E lines \in VisibleRaw(w) : at[w] >= Len(lines)
  /\ at' = [at EXCEPT ![w] = 0]
  /\ wrote' = [wrote EXCEPT ![w] = 0]
  /\ holds' = [holds EXCEPT ![w] = {}]
  /\ Goto(w, "look")
  /\ UNCHANGED <<files, db, world, args, rows, existed, alone>>

-----------------------------------------------------------------------------
(***************************************************************************)
(* Step 3: create_obj, in a transaction of its own, then load_to_db.       *)
(***************************************************************************)
\* Mutated form: the tables are replaced whatever the command line says.
LookAlways(w) ==
  /\ pc[w] = "look"
  /\ existed' = [existed EXCEPT ![w] = db.exists]
  /\ Goto(w, "create")
  /\ UNCHANGED <<files, db, world, args, at, wrote, holds, rows, alone>>

Look(w) ==
  /\ pc[w] = "look"
  /\ ~db.exists \/ args[w].override
  /\ existed' = [existed EXCEPT ![w] = db.exists]
  /\ Goto(w, "create")
  /\ UNCHANGED <<files, db, world, args, at, wrote, holds, rows, alone>>

\* "Error: tables exist. Use --override."
Refused(w) ==
  /\ pc[w] = "look"
  /\ db.exists /\ ~args[w].override
  /\ Fail(w)

Create(w) ==
  /\ pc[w] = "create" /\ ~existed[w] /\ ~db.exists
  /\ db' = EmptyTables
  /\ Goto(w, "copyHeader")
  /\ UNCHANGED <<files, world, args, at, wrote, holds, rows, existed, alone>>

\* Somebody else has created them in between.
CreateFails(w) ==
  /\ pc[w] = "create" /\ ~existed[w] /\ db.exists
  /\ Fail(w)

\* The text table goes first, while a load copies the header first.
DropText(w) ==
  /\ pc[w] = "create" /\ existed[w] /\ ~TextLocked(w)
  /\ Goto(w, "dropHeader")
  /\ UNCHANGED <<files, db, world, args, at, wrote, holds, rows, existed, alone>>

DropHeader(w) ==
  /\ pc[w] = "dropHeader" /\ ~HeaderLocked(w)
  /\ db' = EmptyTables
  /\ Goto(w, "copyHeader")
  /\ UNCHANGED <<files, world, args, at, wrote, holds, rows, existed, alone>>

\* The first line is skipped; a line that is no row is an error, and one that
\* is cut may be.
Copies(lines) ==
  /\ lines \notin {Missing, <<>>}
  /\ \A i \in 2 .. Len(lines) : lines[i].is \in {"book", "chunk", "cut"}

MayFail(lines) == Copies(lines) => \E i \in DOMAIN lines : lines[i].is = "cut"

CopyHeader(w) ==
  /\ pc[w] = "copyHeader" /\ ~HeaderLocked(w)
  /\ \E lines \in VisibleHeader(w) :
       /\ Copies(lines)
       /\ HeaderFits(Taken(Tail(lines)), db.header)
       /\ rows' = [rows EXCEPT ![w].header = Taken(Tail(lines))]
  /\ Goto(w, "copyText")
  /\ UNCHANGED <<files, db, world, args, at, wrote, holds, existed, alone>>

CopyHeaderFails(w) ==
  /\ pc[w] = "copyHeader" /\ ~HeaderLocked(w)
  /\ \E lines \in VisibleHeader(w) :
       \/ MayFail(lines)
       \/ Copies(lines) /\ ~HeaderFits(Taken(Tail(lines)), db.header)
  /\ Fail(w)

CopyText(w) ==
  /\ pc[w] = "copyText" /\ ~TextLocked(w)
  /\ \E lines \in VisibleText(w) :
       /\ Copies(lines)
       /\ TextFits(Taken(Tail(lines)), db.text, rows[w].header \o db.header)
       /\ rows' = [rows EXCEPT ![w].text = Taken(Tail(lines))]
  /\ Goto(w, "commit")
  /\ UNCHANGED <<files, db, world, args, at, wrote, holds, existed, alone>>

CopyTextFails(w) ==
  /\ pc[w] = "copyText" /\ ~TextLocked(w)
  /\ \E lines \in VisibleText(w) :
       \/ MayFail(lines)
       \/ /\ Copies(lines)
          /\ ~TextFits(Taken(Tail(lines)), db.text, rows[w].header \o db.header)
  /\ Fail(w)

\* PostgreSQL ends a deadlock by an error in one of the two transactions.
DeadlockDetected(w) ==
  /\ \E o \in Runs : Deadlocked(w, o) \/ Deadlocked(o, w)
  /\ Fail(w)

Commit(w) ==
  /\ pc[w] = "commit"
  /\ db' = [db EXCEPT !.header = @ \o rows[w].header, !.text = @ \o rows[w].text,
                     !.by = {[args |-> args[w], alone |-> alone[w]]}]
  /\ rows' = [rows EXCEPT ![w] = NoRows]
  /\ Goto(w, "clean")
  /\ UNCHANGED <<files, world, args, at, wrote, holds, existed, alone>>

\* The CSV files are removed unless they are to be kept.
Kept(w) == args[w].cache \/ args[w].keep

RemoveHeader(w) ==
  /\ pc[w] = "clean"
  /\ IF Kept(w) THEN UNCHANGED <<header, holds>>
     ELSE /\ header' = [header EXCEPT ![CsvOf(w)] = Missing]
          /\ holds' = [o \in Runs |-> IF CsvOf(o) = CsvOf(w) THEN holds[o] \ {"header"} ELSE holds[o]]
  /\ Goto(w, IF Kept(w) THEN "post" ELSE "cleanText")
  /\ UNCHANGED <<raw, text, db, world, args, at, wrote, rows, existed, alone>>

RemoveText(w) ==
  /\ pc[w] = "cleanText"
  /\ text' = [text EXCEPT ![CsvOf(w)] = Missing]
  /\ holds' = [o \in Runs |-> IF CsvOf(o) = CsvOf(w) THEN holds[o] \ {"text"} ELSE holds[o]]
  /\ Goto(w, "post")
  /\ UNCHANGED <<raw, header, db, world, args, at, wrote, rows, existed, alone>>

\* process_data: indexes and VACUUM, an error if there are no tables; the run
\* is over either way.
PostProcess(w) ==
  /\ pc[w] = "post"
  /\ Fail(w)

-----------------------------------------------------------------------------
\* A killed run leaves of the files it was writing what had been flushed.
OnDisk(w, name, file) == IF name \in holds[w] THEN Flushed(file) ELSE {file}

Crash(w) ==
  /\ w \in Mortal /\ pc[w] # "idle"
  /\ \E f \in OnDisk(w, "raw", raw[RawOf(w)]) : raw' = [raw EXCEPT ![RawOf(w)] = f]
  /\ \E f \in OnDisk(w, "header", header[CsvOf(w)]) : header' = [header EXCEPT ![CsvOf(w)] = f]
  /\ \E f \in OnDisk(w, "text", text[CsvOf(w)]) : text' = [text EXCEPT ![CsvOf(w)] = f]
  /\ End(w)
  /\ UNCHANGED <<db, world>>

-----------------------------------------------------------------------------
DownloadStep(w) == TakeRaw(w) \/ OpenRaw(w) \/ Download(w) \/ Downloaded(w) \/ DownloadFails(w)

CsvStep(w) ==
  \/ TakeCsv(w) \/ OpenHeader(w) \/ OpenText(w)
  \/ ProcessBook(w) \/ ProcessFails(w) \/ Processed(w)

TablesStep(w) ==
  \/ Look(w) \/ Refused(w) \/ Create(w) \/ CreateFails(w) \/ DropText(w) \/ DropHeader(w)
  \/ CopyHeader(w) \/ CopyHeaderFails(w) \/ CopyText(w) \/ CopyTextFails(w)
  \/ Commit(w) \/ RemoveHeader(w) \/ RemoveText(w) \/ PostProcess(w)

RunStep(w) == DownloadStep(w) \/ CsvStep(w) \/ TablesStep(w)

Next == \E w \in Runs : Start(w) \/ RunStep(w) \/ DeadlockDetected(w) \/ Crash(w)

Init ==
  /\ raw = [l \in Limits |-> Missing]
  /\ header = [f \in CsvNames |-> Missing]
  /\ text = [f \in CsvNames |-> Missing]
  /\ db = NoTables
  /\ pc = [w \in Runs |-> "idle"]
  /\ args = [w \in Runs |-> NoArgs]
  /\ at = [w \in Runs |-> 0]
  /\ wrote = [w \in Runs |-> 0]
  /\ holds = [w \in Runs |-> {}]
  /\ rows = [w \in Runs |-> NoRows]
  /\ existed = [w \in Runs |-> FALSE]
  /\ alone = [w \in Runs |-> FALSE]
  /\ overlap = FALSE
  /\ starts = 0

Spec == Init /\ [][Next]_vars

=============================================================================
