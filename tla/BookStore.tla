------------------------------ MODULE BookStore ------------------------------
(***************************************************************************)
(* What the runs of load_to_pg.py work on: the data sets, the files of the *)
(* storage directory, and the tables book_header and book_text with their  *)
(* locks.                                                                  *)
(***************************************************************************)
EXTENDS BookText, FiniteSets

CONSTANTS
  Runs,       \* the processes that run load_to_pg.py, one run after the other
  Datasets,
  Library,    \* the books of each data set, in order
  ArgSet,     \* the command lines
  Mortal,     \* the processes that may be killed
  MaxStarts,  \* bound: how many runs are started
  Missing     \* no file of that name

VARIABLES
  raw,        \* raw_books_<limit>.jsonl
  header,     \* books_<limit>_chunk<size>_header.csv
  text,       \* books_<limit>_chunk<size>_text.csv
  db,         \* the two tables, as committed
  pc,         \* where each run is
  args,       \* its command line
  at,         \* how many books it has downloaded or processed
  wrote,      \* how many lines it has written to the text CSV
  holds,      \* the files open in it whose names still lead to them
  rows,       \* the rows of its transaction
  existed,    \* whether create_obj has found the tables
  alone,      \* no other run has been under way since it started
  overlap,    \* two runs have ever been under way at once
  starts      \* how many runs have been started

files == <<raw, header, text>>
world == <<overlap, starts>>
vars == <<raw, header, text, db, pc, args, at, wrote, holds, rows, existed,
          alone, overlap, starts>>

Limits == {a.limit : a \in ArgSet}
CsvNames == {<<a.limit, a.size>> : a \in ArgSet}

Headings == [pos: Nat, num: Nat \cup {NoNumber}]

ASSUME BookAssumption ==
  /\ Mortal \subseteq Runs
  /\ MaxStarts \in Nat
  /\ ArgSet # {}
  /\ \A a \in ArgSet :
       /\ a.dataset \in Datasets /\ a.limit \in Nat /\ a.size \in Nat \ {0}
       /\ {a.cache, a.keep, a.override, a.skip_load} \subseteq BOOLEAN
  /\ Library \in [Datasets -> Seq([text: Seq(Chars), found: Seq(Headings)])]

NoArgs == CHOOSE a \in ArgSet : TRUE   \* of a process with no run under way

-----------------------------------------------------------------------------
(***************************************************************************)
(* Lines of files and rows of tables.  A "cut" line is the beginning of a  *)
(* line, a "hole" is what a writer leaves before its place in a file that  *)
(* somebody else has truncated.                                            *)
(***************************************************************************)
ColumnNames == [is |-> "head"]
Hole == [is |-> "hole"]

Book(d, i) == [is |-> "book", dataset |-> d, id |-> i]

Chunk(d, i, n, piece) ==
  [is |-> "chunk", dataset |-> d, id |-> i, chunk |-> n, body |-> piece.body,
   chapter |-> piece.chapter]

Cut(line) == [line EXCEPT !.is = "cut"]

\* The rows of book_text for book i.
ChunkRows(d, i, size) ==
  LET pieces == SplitText(Library[d][i], size)
  IN [n \in DOMAIN pieces |-> Chunk(d, i, n - 1, pieces[n])]

\* A writer puts lines at its place, whatever has become of those before.
WriteAt(file, place, lines) ==
  [i \in 1 .. (IF Len(file) > place + Len(lines) THEN Len(file) ELSE place + Len(lines)) |->
     IF i \in place + 1 .. place + Len(lines) THEN lines[i - place]
     ELSE IF i <= Len(file) THEN file[i] ELSE Hole]

\* What of a file has reached the disk before its writer closes it.
Flushed(file) ==
  Prefixes(file) \cup
    {Append(SubSeq(file, 1, i - 1), Cut(file[i])) :
       i \in {j \in DOMAIN file : file[j].is \in {"book", "chunk"}}}

RawOf(w) == args[w].limit
CsvOf(w) == <<args[w].limit, args[w].size>>

\* What may be read of a file while others write it.
Visible(writers, file) == IF writers = {} THEN {file} ELSE Flushed(file)

\* The others that have the file of w open.
RawWriters(w) == {o \in Runs \ {w} : "raw" \in holds[o] /\ RawOf(o) = RawOf(w)}
CsvWriters(w, name) == {o \in Runs \ {w} : name \in holds[o] /\ CsvOf(o) = CsvOf(w)}

VisibleRaw(w) == Visible(RawWriters(w), raw[RawOf(w)])
VisibleHeader(w) == Visible(CsvWriters(w, "header"), header[CsvOf(w)])
VisibleText(w) == Visible(CsvWriters(w, "text"), text[CsvOf(w)])

-----------------------------------------------------------------------------
(***************************************************************************)
(* Locks.  A transaction that has copied rows into a table keeps others    *)
(* from dropping it and from copying the same keys; a dropped table is     *)
(* locked until the transaction ends.                                      *)
(***************************************************************************)
HeaderLocked(w) == \E o \in Runs \ {w} : pc[o] \in {"copyText", "commit"}
TextLocked(w) == \E o \in Runs \ {w} : pc[o] \in {"dropHeader", "commit"}

\* One waits for the header table and has the text table, one the reverse.
Deadlocked(w, o) == pc[w] = "copyText" /\ pc[o] = "dropHeader"

NoTables == [exists |-> FALSE, header |-> <<>>, text |-> <<>>, by |-> {}]
EmptyTables == [NoTables EXCEPT !.exists = TRUE]
NoRows == [header |-> <<>>, text |-> <<>>]

\* A row of a CSV file in the table: one that is cut in its last column is
\* taken, with what there is of it.
Taken(lines) ==
  [i \in DOMAIN lines |->
     IF lines[i].is = "cut" THEN [lines[i] EXCEPT !.is = "short"] ELSE lines[i]]

Keys(t) == {<<t[i].id, t[i].chunk>> : i \in DOMAIN t}
Ids(t) == {t[i].id : i \in DOMAIN t}

\* The primary keys and the foreign key of the two tables.
HeaderFits(new, old) ==
  Cardinality(Ids(new \o old)) = Len(new \o old)

TextFits(new, old, books) ==
  /\ Cardinality(Keys(new \o old)) = Len(new \o old)
  /\ Ids(new) \subseteq Ids(books)

=============================================================================
