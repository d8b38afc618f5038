----------------------------- MODULE BookProofs -----------------------------
(***************************************************************************)
(* Proofs about load_to_pg.py, for every library, every set of command     *)
(* lines and any number of processes.                                      *)
(***************************************************************************)
EXTENDS BookTextProofs

-----------------------------------------------------------------------------
(***************************************************************************)
(* Lines and rows.                                                         *)
(***************************************************************************)
LEMMA BookIs ==
  ASSUME NEW b \in Books
  PROVE  \E d \in Datasets : \E i \in DOMAIN Library[d] :
           b = Book(d, i) /\ i \in Nat \ {0} /\ i <= Len(Library[d])
<1>1. PICK d \in Datasets : \E i \in DOMAIN Library[d] : b = Book(d, i)
  BY DEF Books
<1>2. PICK i \in DOMAIN Library[d] : b = Book(d, i)
  BY <1>1
<1>3. Library[d] \in Seq([text: Seq(Chars), found: Seq(Headings)])
  BY BookAssumption
<1>4. DOMAIN Library[d] = 1 .. Len(Library[d]) /\ Len(Library[d]) \in Nat
  BY <1>3, LenProperties
<1>5. i \in Nat \ {0} /\ i <= Len(Library[d])
  BY <1>4
<1> QED BY <1>2, <1>5

LEMMA ChunkIs ==
  ASSUME NEW x \in Chunks
  PROVE  \E d \in Datasets : \E i, n, piece : Book(d, i) \in Books /\ x = Chunk(d, i, n, piece)
<1>1. PICK b \in Books, a \in ArgSet : x \in Range(ChunkRows(b.dataset, b.id, a.size))
  BY DEF Chunks
<1>2. PICK d \in Datasets : \E i \in DOMAIN Library[d] : b = Book(d, i)
  BY BookIs
<1>5. PICK i \in DOMAIN Library[d] : b = Book(d, i)
  BY <1>2
<1>3. b.dataset = d /\ b.id = i
  BY <1>5 DEF Book
<1>4. x \in Range(ChunkRows(d, i, a.size))
  BY <1>1, <1>3
<1> QED BY <1>4, <1>5 DEF Range, ChunkRows

\* The rows of a book's chunks are a sequence of chunks.
LEMMA ChunkRowsType ==
  ASSUME NEW b \in Books, NEW a \in ArgSet
  PROVE  ChunkRows(b.dataset, b.id, a.size) \in Seq(Chunks)
<1>0. PICK d \in Datasets : \E i \in DOMAIN Library[d] : b = Book(d, i)
  BY BookIs
<1>1. PICK i \in DOMAIN Library[d] : b = Book(d, i)
  BY <1>0
<1>2. b.dataset = d /\ b.id = i
  BY <1>1 DEF Book
<1> DEFINE book == Library[d][i]
<1> DEFINE q == SplitText(book, a.size)
<1>3. book.text \in Seq(Chars) /\ a.size \in Nat \ {0}
  <2>1. Library[d] \in Seq([text: Seq(Chars), found: Seq(Headings)])
    BY BookAssumption
  <2>2. Library[d][i] \in [text: Seq(Chars), found: Seq(Headings)]
    BY <2>1, LenProperties, ElementOfSeq
  <2> QED BY <2>2, BookAssumption
<1>4. PICK P : q \in Seq(P)
  BY <1>3, ChunksFit
<1> DEFINE r == ChunkRows(d, i, a.size)
<1>5. DOMAIN q = 1 .. Len(q) /\ Len(q) \in Nat
  BY <1>4, LenProperties
<1>6. r = [n \in 1 .. Len(q) |-> Chunk(d, i, n - 1, q[n])]
  BY <1>5 DEF ChunkRows
<1>7. ASSUME NEW n \in 1 .. Len(q) PROVE r[n] \in Chunks
  <2>1. r[n] \in Range(r)
    BY <1>6 DEF Range
  <2>2. r = ChunkRows(b.dataset, b.id, a.size)
    BY <1>2
  <2> HIDE DEF r
  <2> QED BY <2>1, <2>2 DEF Chunks
<1> HIDE DEF q
<1>8. DOMAIN r = 1 .. Len(q) /\ r = [n \in 1 .. Len(q) |-> r[n]]
  BY <1>6
<1> HIDE DEF r
<1>9. r \in [1 .. Len(q) -> Chunks]
  BY <1>7, <1>8
<1>10. r \in Seq(Chunks)
  BY <1>5, <1>9, SeqDef
<1> QED BY <1>2, <1>10 DEF r

\* Writing lines into a file, wherever the writer stands, leaves lines.
LEMMA WriteAtType ==
  ASSUME NEW L, Hole \in L, NEW file \in Seq(L), NEW place \in Nat, NEW lines \in Seq(L)
  PROVE  WriteAt(file, place, lines) \in Seq(L)
<1> DEFINE m == IF Len(file) > place + Len(lines) THEN Len(file) ELSE place + Len(lines)
<1> DEFINE r == WriteAt(file, place, lines)
<1>1. Len(file) \in Nat /\ Len(lines) \in Nat /\ m \in Nat
  BY LenProperties
<1>2. r = [i \in 1 .. m |->
             IF i \in place + 1 .. place + Len(lines) THEN lines[i - place]
             ELSE IF i <= Len(file) THEN file[i] ELSE Hole]
  BY DEF WriteAt
<1> HIDE DEF r, m
<1>3. ASSUME NEW i \in 1 .. m PROVE r[i] \in L
  <2>1. CASE i \in place + 1 .. place + Len(lines)
    <3>1. i - place \in 1 .. Len(lines)
      BY <1>1, <2>1
    <3>2. lines[i - place] \in L
      BY <3>1, ElementOfSeq
    <3> QED BY <1>2, <2>1, <3>2
  <2>2. CASE i \notin place + 1 .. place + Len(lines) /\ i <= Len(file)
    <3>1. i \in 1 .. Len(file)
      BY <1>1, <2>2
    <3>2. file[i] \in L
      BY <3>1, ElementOfSeq
    <3> QED BY <1>2, <2>2, <3>2
  <2>3. CASE i \notin place + 1 .. place + Len(lines) /\ ~(i <= Len(file))
    BY <1>2, <2>3
  <2> QED BY <2>1, <2>2, <2>3
<1>4. r = [i \in 1 .. m |-> r[i]]
  BY <1>2
<1>5. r \in [1 .. m -> L]
  BY <1>3, <1>4
<1> QED BY <1>1, <1>5, SeqDef DEF r

\* What of a file has reached the disk are lines, if the beginnings of its
\* whole lines are lines.
LEMMA FlushedType ==
  ASSUME NEW L, NEW file \in Seq(L),
         \A x \in L : x.is \in {"book", "chunk"} => Cut(x) \in L,
         NEW f \in Flushed(file)
  PROVE  f \in Seq(L)
<1>0. Len(file) \in Nat /\ DOMAIN file = 1 .. Len(file) /\ \A i \in 1 .. Len(file) : file[i] \in L
  BY LenProperties, ElementOfSeq
<1>1. ASSUME NEW k \in 0 .. Len(file) PROVE SubSeq(file, 1, k) \in Seq(L)
  <2>1. \A i \in 1 .. k : file[i] \in L
    BY <1>0
  <2> QED BY <1>0, <2>1, SubSeqProperties
<1>2. CASE f \in Prefixes(file)
  BY <1>1, <1>2 DEF Prefixes
<1>3. ASSUME NEW i \in DOMAIN file, file[i].is \in {"book", "chunk"},
             f = Append(SubSeq(file, 1, i - 1), Cut(file[i]))
      PROVE  f \in Seq(L)
  <2>1. i \in 1 .. Len(file) /\ i - 1 \in 0 .. Len(file)
    BY <1>0
  <2>2. SubSeq(file, 1, i - 1) \in Seq(L) /\ Cut(file[i]) \in L
    BY <1>0, <1>1, <1>3, <2>1
  <2> QED BY <1>3, <2>2, AppendProperties
<1>4. f \in Prefixes(file) \/ \E i \in DOMAIN file : /\ file[i].is \in {"book", "chunk"}
                                                   /\ f = Append(SubSeq(file, 1, i - 1), Cut(file[i]))
  BY DEF Flushed
<1> QED BY <1>2, <1>3, <1>4

\* Cutting a line of a file off leaves a line.
LEMMA CutsAreLines ==
  /\ \A x \in RawLines : x.is \in {"book", "chunk"} => Cut(x) \in RawLines
  /\ \A x \in HeaderLines : x.is \in {"book", "chunk"} => Cut(x) \in HeaderLines
  /\ \A x \in TextLines : x.is \in {"book", "chunk"} => Cut(x) \in TextLines
<1>1. ASSUME NEW b \in Books PROVE Cut(b).is = "cut" /\ b.is = "book"
  BY BookIs DEF Cut, Book
<1>2. ASSUME NEW c \in Chunks PROVE Cut(c).is = "cut" /\ c.is = "chunk"
  BY ChunkIs DEF Cut, Chunk
<1>3. Hole.is = "hole" /\ ColumnNames.is = "head"
  BY DEF Hole, ColumnNames
<1>4. ASSUME NEW x \in RawLines, x.is \in {"book", "chunk"} PROVE Cut(x) \in RawLines
  <2>1. x \in Books
    BY <1>1, <1>3, <1>4 DEF RawLines
  <2> QED BY <2>1 DEF RawLines
<1>5. ASSUME NEW x \in HeaderLines, x.is \in {"book", "chunk"} PROVE Cut(x) \in HeaderLines
  <2>1. x \in RawLines
    BY <1>3, <1>5 DEF HeaderLines
  <2> QED BY <1>4, <1>5, <2>1 DEF HeaderLines
<1>6. ASSUME NEW x \in TextLines, x.is \in {"book", "chunk"} PROVE Cut(x) \in TextLines
  <2>1. x \in Chunks
    BY <1>2, <1>3, <1>6 DEF TextLines
  <2> QED BY <2>1 DEF TextLines
<1> QED BY <1>4, <1>5, <1>6

\* What COPY makes of a file is rows.
LEMMA TakenType ==
  /\ \A lines \in Seq(HeaderLines) : Copies(lines) => Taken(Tail(lines)) \in Seq(HeaderRows)
  /\ \A lines \in Seq(TextLines) : Copies(lines) => Taken(Tail(lines)) \in Seq(TextRows)
<1> DEFINE AsRow(x) == IF x.is = "cut" THEN [x EXCEPT !.is = "short"] ELSE x
<1>1. ASSUME NEW x \in HeaderLines, x.is \in {"book", "chunk", "cut"}
      PROVE  AsRow(x) \in HeaderRows
  <2>1. ASSUME NEW b \in Books PROVE AsRow(b) = b /\ AsRow(Cut(b)) = Short(b)
    <3>1. PICK d \in Datasets : \E i \in DOMAIN Library[d] : b = Book(d, i)
      BY BookIs
    <3>2. PICK i \in DOMAIN Library[d] : b = Book(d, i)
      BY <3>1
    <3> QED BY <3>2 DEF Book, Cut, Short
  <2>2. Hole.is = "hole" /\ ColumnNames.is = "head"
    BY DEF Hole, ColumnNames
  <2>3. x \in Books \/ \E b \in Books : x = Cut(b)
    BY <1>1, <2>2 DEF HeaderLines, RawLines
  <2> HIDE DEF AsRow
  <2> QED BY <2>1, <2>3 DEF HeaderRows
<1>2. ASSUME NEW x \in TextLines, x.is \in {"book", "chunk", "cut"}
      PROVE  AsRow(x) \in TextRows
  <2>1. ASSUME NEW c \in Chunks PROVE AsRow(c) = c /\ AsRow(Cut(c)) = Short(c)
    <3>1. PICK d \in Datasets : \E i, n, piece : c = Chunk(d, i, n, piece)
      BY ChunkIs
    <3>2. PICK i, n, piece : c = Chunk(d, i, n, piece)
      BY <3>1
    <3> QED BY <3>2 DEF Chunk, Cut, Short
  <2>2. Hole.is = "hole" /\ ColumnNames.is = "head"
    BY DEF Hole, ColumnNames
  <2>3. x \in Chunks \/ \E c \in Chunks : x = Cut(c)
    BY <1>2, <2>2 DEF TextLines
  <2> HIDE DEF AsRow
  <2> QED BY <2>1, <2>3 DEF TextRows
<1>3. ASSUME NEW S, NEW R, NEW lines \in Seq(S), Copies(lines),
             \A x \in S : x.is \in {"book", "chunk", "cut"} => AsRow(x) \in R
      PROVE  Taken(Tail(lines)) \in Seq(R)
  <2> HIDE DEF AsRow
  <2> DEFINE t == Tail(lines)
  <2>1. lines # <<>> /\ \A i \in 2 .. Len(lines) : lines[i].is \in {"book", "chunk", "cut"}
    BY <1>3 DEF Copies
  <2>2. t \in Seq(S) /\ Len(t) = Len(lines) - 1 /\ \A i \in 1 .. Len(t) : t[i] = lines[i + 1]
    BY <2>1, HeadTailProperties
  <2>3. Len(t) \in Nat /\ DOMAIN t = 1 .. Len(t) /\ Len(lines) \in Nat
    BY <2>2, LenProperties
  <2> HIDE DEF t
  <2>4. Taken(t) = [i \in 1 .. Len(t) |-> AsRow(t[i])]
    BY <2>3 DEF Taken, AsRow
  <2>5. ASSUME NEW i \in 1 .. Len(t) PROVE AsRow(t[i]) \in R
    <3>1. i + 1 \in 2 .. Len(lines) /\ i + 1 \in 1 .. Len(lines)
      BY <2>2, <2>3
    <3>2. t[i] = lines[i + 1] /\ lines[i + 1] \in S
      BY <2>2, <3>1, ElementOfSeq
    <3> QED BY <1>3, <2>1, <3>1, <3>2
  <2>6. Taken(t) \in [1 .. Len(t) -> R]
    BY <2>4, <2>5
  <2>7. Taken(t) \in Seq(R)
    BY <2>3, <2>6, SeqDef
  <2> QED BY <2>7 DEF t
<1> HIDE DEF AsRow
<1> QED BY <1>1, <1>2, <1>3

-----------------------------------------------------------------------------
(***************************************************************************)
(* Types.  What a run has open is a file of lines, and so is the raw file  *)
(* once it has been downloaded or taken.                                   *)
(***************************************************************************)
OpenOK(w) ==
  /\ "raw" \in holds[w] => raw[RawOf(w)] \in Seq(RawLines)
  /\ "header" \in holds[w] => header[CsvOf(w)] \in Seq(HeaderLines)
  /\ "text" \in holds[w] => text[CsvOf(w)] \in Seq(TextLines)
  /\ pc[w] \in {"download", "csv", "openText", "process"} => raw[RawOf(w)] \in Seq(RawLines)

TypeInv == TypeOK /\ \A w \in Runs : OpenOK(w)

LEMMA ArgTypes ==
  /\ NoArgs \in ArgSet
  /\ \A a \in ArgSet : a.limit \in Limits /\ <<a.limit, a.size>> \in CsvNames
BY BookAssumption DEF NoArgs, Limits, CsvNames

LEMMA NamesOf ==
  ASSUME args \in [Runs -> ArgSet], NEW w \in Runs
  PROVE  args[w] \in ArgSet /\ RawOf(w) \in Limits /\ CsvOf(w) \in CsvNames
BY ArgTypes DEF RawOf, CsvOf

\* What a run can read are lines, if there is such a file.
LEMMA VisibleTypes ==
  ASSUME TypeInv, NEW w \in Runs
  PROVE  /\ \A f \in VisibleRaw(w) : raw[RawOf(w)] \in Seq(RawLines) => f \in Seq(RawLines)
         /\ \A f \in VisibleHeader(w) : f = Missing \/ f \in Seq(HeaderLines)
         /\ \A f \in VisibleText(w) : f = Missing \/ f \in Seq(TextLines)
<1>1. /\ header[CsvOf(w)] \in {Missing} \cup Seq(HeaderLines)
      /\ text[CsvOf(w)] \in {Missing} \cup Seq(TextLines)
  BY NamesOf DEF TypeInv, TypeOK
<1>2. CsvWriters(w, "header") # {} => header[CsvOf(w)] \in Seq(HeaderLines)
  BY DEF TypeInv, OpenOK, CsvWriters
<1>3. CsvWriters(w, "text") # {} => text[CsvOf(w)] \in Seq(TextLines)
  BY DEF TypeInv, OpenOK, CsvWriters
<1>4. \A f \in VisibleRaw(w) : raw[RawOf(w)] \in Seq(RawLines) => f \in Seq(RawLines)
  BY FlushedType, CutsAreLines DEF VisibleRaw, Visible, RawLines
<1>5. ASSUME NEW f \in VisibleHeader(w) PROVE f = Missing \/ f \in Seq(HeaderLines)
  BY <1>1, <1>2, FlushedType, CutsAreLines DEF VisibleHeader, Visible, HeaderLines
<1>6. ASSUME NEW f \in VisibleText(w) PROVE f = Missing \/ f \in Seq(TextLines)
  BY <1>1, <1>3, FlushedType, CutsAreLines DEF VisibleText, Visible, TextLines
<1> QED BY <1>4, <1>5, <1>6

\* A step of w leaves the other runs where they are.
Others(w) ==
  \A o \in Runs \ {w} : pc'[o] = pc[o] /\ args'[o] = args[o] /\ holds'[o] = holds[o]

\* What is a file of lines stays one.
LinesStay ==
  /\ \A l \in Limits : raw[l] \in Seq(RawLines) => raw'[l] \in Seq(RawLines)
  /\ \A f \in CsvNames : header[f] \in Seq(HeaderLines) => header'[f] \in Seq(HeaderLines)
  /\ \A f \in CsvNames : text[f] \in Seq(TextLines) => text'[f] \in Seq(TextLines)

LEMMA OpenStep ==
  ASSUME TypeInv, TypeOK', NEW w \in Runs, Others(w), LinesStay, OpenOK(w)'
  PROVE  TypeInv'
<1>1. ASSUME NEW o \in Runs, o # w PROVE OpenOK(o)'
  <2>1. /\ pc'[o] = pc[o] /\ args'[o] = args[o] /\ holds'[o] = holds[o]
    BY <1>1 DEF Others
  <2>2. OpenOK(o) /\ RawOf(o) \in Limits /\ CsvOf(o) \in CsvNames
    BY NamesOf DEF TypeInv, TypeOK
  <2>3. RawOf(o)' = RawOf(o) /\ CsvOf(o)' = CsvOf(o)
    BY <2>1 DEF RawOf, CsvOf
  <2> QED BY <2>1, <2>2, <2>3 DEF OpenOK, LinesStay
<1> QED BY <1>1 DEF TypeInv

\* A run that has nothing open and is past its raw file.
LEMMA ClosedOpen ==
  ASSUME TypeInv, NEW w \in Runs, holds'[w] = {},
         pc'[w] \notin {"download", "csv", "openText", "process"}
  PROVE  OpenOK(w)'
BY DEF OpenOK

LEMMA EndTypes ==
  ASSUME TypeInv, NEW w \in Runs, End(w), UNCHANGED <<db, world>>, LinesStay,
         raw' \in [Limits -> {Missing} \cup Seq(RawLines)],
         header' \in [CsvNames -> {Missing} \cup Seq(HeaderLines)],
         text' \in [CsvNames -> {Missing} \cup Seq(TextLines)]
  PROVE  TypeInv'
<1>1. NoRows \in [header: Seq(HeaderRows), text: Seq(TextRows)] /\ NoArgs \in ArgSet
  BY ArgTypes DEF NoRows
<1>2. TypeOK'
  BY <1>1 DEF TypeInv, TypeOK, End, Goto, world, PcLabels
<1>3. Others(w) /\ pc'[w] = "idle" /\ holds'[w] = {}
  BY DEF Others, End, Goto, TypeInv, TypeOK
<1> QED BY <1>2, <1>3, ClosedOpen, OpenStep

LEMMA FailTypes ==
  ASSUME TypeInv, NEW w \in Runs, Fail(w)
  PROVE  TypeInv'
<1>1. LinesStay
  BY DEF LinesStay, Fail, files
<1> QED BY <1>1, EndTypes DEF TypeInv, TypeOK, Fail, files, world

\* Steps that only move a run on.
LEMMA MoveTypes ==
  ASSUME TypeInv, NEW w \in Runs,
         TakeRaw(w) \/ TakeCsv(w) \/ Look(w) \/ DropText(w)
  PROVE  TypeInv'
<1>1. TypeOK'
  <2>1. CASE TakeRaw(w)
    BY <2>1 DEF TypeInv, TypeOK, TakeRaw, Goto, files, world, PcLabels
  <2>2. CASE TakeCsv(w)
    BY <2>2 DEF TypeInv, TypeOK, TakeCsv, Goto, files, world, PcLabels
  <2>3. CASE Look(w)
    BY <2>3 DEF TypeInv, TypeOK, Look, Goto, files, world, PcLabels
  <2>4. CASE DropText(w)
    BY <2>4 DEF TypeInv, TypeOK, DropText, Goto, files, world, PcLabels
  <2> QED BY <2>1, <2>2, <2>3, <2>4
<1>2. Others(w) /\ LinesStay /\ holds'[w] = {}
  BY DEF Others, LinesStay, TakeRaw, TakeCsv, Look, DropText, Goto, files, TypeInv, TypeOK
<1>3. OpenOK(w)'
  <2>1. CASE TakeRaw(w)
    <3>1. raw[RawOf(w)] \in Seq(RawLines) /\ pc'[w] = "csv" /\ args' = args /\ raw' = raw
      BY <2>1, NamesOf DEF TypeInv, TypeOK, TakeRaw, Goto, files
    <3>2. RawOf(w)' = RawOf(w)
      BY <3>1 DEF RawOf
    <3> QED BY <1>2, <3>1, <3>2 DEF OpenOK
  <2>2. CASE TakeCsv(w) \/ Look(w) \/ DropText(w)
    <3>1. pc'[w] \in {"look", "create", "dropHeader"}
      BY <2>2 DEF TypeInv, TypeOK, TakeCsv, Look, DropText, Goto
    <3> QED BY <1>2, <3>1 DEF OpenOK
  <2> QED BY <2>1, <2>2
<1> QED BY <1>1, <1>2, <1>3, OpenStep

LEMMA StartTypes ==
  ASSUME TypeInv, NEW w \in Runs, Start(w)
  PROVE  TypeInv'
<1>1. PICK a \in ArgSet : /\ args' = [args EXCEPT ![w] = a]
                          /\ Goto(w, IF a.skip_load THEN "post" ELSE "raw")
  BY DEF Start
<1>2. pc[w] = "idle" /\ holds[w] = {} /\ starts < MaxStarts /\ starts' = starts + 1
  BY DEF Start, TypeInv, TypeOK
<1>3. starts' \in 0 .. MaxStarts
  BY <1>2, BookAssumption DEF TypeInv, TypeOK
<1>4. overlap' \in BOOLEAN /\ alone' \in [Runs -> BOOLEAN]
  BY DEF Start, TypeInv, TypeOK
<1>5. pc' \in [Runs -> PcLabels] /\ pc'[w] \in {"raw", "post"}
  BY <1>1 DEF Goto, PcLabels, TypeInv, TypeOK
<1>6. UNCHANGED <<files, db, at, wrote, holds, rows, existed>>
  BY DEF Start
<1>7. \A o \in Runs \ {w} : pc'[o] = pc[o] /\ args'[o] = args[o]
  BY <1>1 DEF Goto, TypeInv, TypeOK
<1>8. args' \in [Runs -> ArgSet]
  BY <1>1 DEF TypeInv, TypeOK
<1>9. ASSUME NEW o \in Runs
      PROVE  /\ holds'[o] # {} => pc'[o] \in {"download", "openText", "process"}
             /\ at'[o] # 0 => pc'[o] \in {"download", "process"}
  BY <1>2, <1>5, <1>6, <1>7 DEF TypeInv, TypeOK
<1>10. TypeOK'
  BY <1>3, <1>4, <1>5, <1>6, <1>8, <1>9 DEF TypeInv, TypeOK, files
<1>11. Others(w) /\ LinesStay /\ OpenOK(w)'
  BY <1>2, <1>5, <1>6, <1>7 DEF Others, LinesStay, OpenOK, files
<1> QED BY <1>10, <1>11, OpenStep

LEMMA OpenRawTypes ==
  ASSUME TypeInv, NEW w \in Runs, OpenRaw(w)
  PROVE  TypeInv'
<1>1. raw \in [Limits -> {Missing} \cup Seq(RawLines)] /\ RawOf(w) \in Limits
  BY NamesOf DEF TypeInv, TypeOK
<1>2. raw' = [raw EXCEPT ![RawOf(w)] = <<>>] /\ args' = args /\ RawOf(w)' = RawOf(w)
  BY DEF OpenRaw, RawOf
<1>3. <<>> \in Seq(RawLines)
  OBVIOUS
<1>4. raw' \in [Limits -> {Missing} \cup Seq(RawLines)] /\ raw'[RawOf(w)] \in Seq(RawLines)
  BY <1>1, <1>2, <1>3
<1>5. TypeOK'
  BY <1>4 DEF TypeInv, TypeOK, OpenRaw, Goto, world, PcLabels
<1>6. Others(w) /\ holds'[w] = {"raw"} /\ pc'[w] = "download"
  BY DEF Others, OpenRaw, Goto, TypeInv, TypeOK
<1>7. LinesStay
  BY <1>1, <1>2, <1>3 DEF LinesStay, OpenRaw
<1>8. OpenOK(w)'
  BY <1>2, <1>4, <1>6 DEF OpenOK
<1> QED BY <1>5, <1>6, <1>7, <1>8, OpenStep

\* The next book of the data set is one of its books.
LEMMA NextBook ==
  ASSUME TypeInv, NEW w \in Runs, at[w] < ToDownload(w)
  PROVE  Book(args[w].dataset, at[w] + 1) \in Books
<1> DEFINE d == args[w].dataset
<1>1. d \in Datasets /\ args[w].limit \in Nat /\ at[w] \in Nat
  BY NamesOf, BookAssumption DEF TypeInv, TypeOK
<1>2. Library[d] \in Seq([text: Seq(Chars), found: Seq(Headings)])
  BY <1>1, BookAssumption
<1>3. DOMAIN Library[d] = 1 .. Len(Library[d]) /\ Len(Library[d]) \in Nat
  BY <1>2, LenProperties
<1>4. at[w] < Len(Library[d])
  BY <1>1, <1>3 DEF ToDownload
<1>5. at[w] + 1 \in DOMAIN Library[d]
  BY <1>1, <1>3, <1>4
<1> QED BY <1>1, <1>5 DEF Books

LEMMA DownloadTypes ==
  ASSUME TypeInv, NEW w \in Runs, Download(w)
  PROVE  TypeInv'
<1> DEFINE b == Book(args[w].dataset, at[w] + 1)
<1> DEFINE new == WriteAt(raw[RawOf(w)], at[w], <<b>>)
<1>1. raw \in [Limits -> {Missing} \cup Seq(RawLines)] /\ RawOf(w) \in Limits /\ at[w] \in Nat
  BY NamesOf DEF TypeInv, TypeOK
<1>2. raw[RawOf(w)] \in Seq(RawLines) /\ pc[w] = "download"
  BY DEF Download, TypeInv, OpenOK
<1>3. b \in RawLines /\ Hole \in RawLines
  BY NextBook DEF Download, RawLines
<1> HIDE DEF b
<1>4. <<b>> \in Seq(RawLines)
  BY <1>3
<1>5. new \in Seq(RawLines)
  BY <1>1, <1>2, <1>3, <1>4, WriteAtType
<1>6. raw' = [raw EXCEPT ![RawOf(w)] = new] /\ args' = args /\ RawOf(w)' = RawOf(w)
  BY DEF Download, RawOf, b
<1> HIDE DEF new
<1>7. raw' \in [Limits -> {Missing} \cup Seq(RawLines)] /\ raw'[RawOf(w)] \in Seq(RawLines)
  BY <1>1, <1>5, <1>6
<1>8. at' \in [Runs -> Nat] /\ \A o \in Runs \ {w} : at'[o] = at[o]
  BY <1>1 DEF Download, TypeInv, TypeOK
<1>9. UNCHANGED <<header, text, db, world, pc, args, wrote, holds, rows, existed, alone>>
  BY DEF Download
<1>10. TypeOK'
  BY <1>2, <1>7, <1>8, <1>9 DEF TypeInv, TypeOK, world
<1>11. LinesStay
  BY <1>1, <1>5, <1>6, <1>9 DEF LinesStay
<1>12. Others(w)
  BY <1>9 DEF Others
<1>13. OpenOK(w)'
  <2>1. CsvOf(w)' = CsvOf(w) /\ OpenOK(w)
    BY <1>9 DEF CsvOf, TypeInv
  <2> QED BY <1>6, <1>7, <1>9, <2>1 DEF OpenOK
<1> QED BY <1>10, <1>11, <1>12, <1>13, OpenStep

LEMMA DownloadedTypes ==
  ASSUME TypeInv, NEW w \in Runs, Downloaded(w)
  PROVE  TypeInv'
<1>1. TypeOK'
  BY DEF TypeInv, TypeOK, Downloaded, Goto, files, world, PcLabels
<1>2. Others(w) /\ LinesStay /\ holds'[w] = {}
  BY DEF Others, LinesStay, Downloaded, Goto, files, TypeInv, TypeOK
<1>3. raw[RawOf(w)] \in Seq(RawLines) /\ raw' = raw /\ args' = args
  BY DEF Downloaded, TypeInv, OpenOK, files
<1>4. RawOf(w)' = RawOf(w)
  BY <1>3 DEF RawOf
<1> QED BY <1>1, <1>2, <1>3, <1>4, OpenStep DEF OpenOK

LEMMA OpenHeaderTypes ==
  ASSUME TypeInv, NEW w \in Runs, OpenHeader(w)
  PROVE  TypeInv'
<1>1. header \in [CsvNames -> {Missing} \cup Seq(HeaderLines)] /\ CsvOf(w) \in CsvNames
  BY NamesOf DEF TypeInv, TypeOK
<1>2. header' = [header EXCEPT ![CsvOf(w)] = <<>>] /\ args' = args /\ raw' = raw
  BY DEF OpenHeader
<1>3. <<>> \in Seq(HeaderLines) /\ CsvOf(w)' = CsvOf(w) /\ RawOf(w)' = RawOf(w)
  BY <1>2 DEF CsvOf, RawOf
<1>4. /\ header' \in [CsvNames -> {Missing} \cup Seq(HeaderLines)]
      /\ header'[CsvOf(w)] \in Seq(HeaderLines)
  BY <1>1, <1>2, <1>3
<1>5. TypeOK'
  BY <1>4 DEF TypeInv, TypeOK, OpenHeader, Goto, world, PcLabels
<1>6. Others(w) /\ holds'[w] = {"header"} /\ pc'[w] = "openText"
  BY DEF Others, OpenHeader, Goto, TypeInv, TypeOK
<1>7. LinesStay
  BY <1>1, <1>2, <1>3 DEF LinesStay, OpenHeader
<1>8. raw[RawOf(w)] \in Seq(RawLines)
  BY DEF OpenHeader, TypeInv, OpenOK
<1>9. OpenOK(w)'
  BY <1>2, <1>3, <1>4, <1>6, <1>8 DEF OpenOK
<1> QED BY <1>5, <1>6, <1>7, <1>9, OpenStep

\* A line written to the header CSV.
LEMMA PutHeaderTypes ==
  ASSUME TypeInv, NEW w \in Runs, NEW place \in Nat, NEW line \in HeaderLines,
         PutHeader(w, place, line)
  PROVE  /\ header' \in [CsvNames -> {Missing} \cup Seq(HeaderLines)]
         /\ \A f \in CsvNames : header[f] \in Seq(HeaderLines) => header'[f] \in Seq(HeaderLines)
         /\ "header" \in holds[w] => header'[CsvOf(w)] \in Seq(HeaderLines)
<1>1. header \in [CsvNames -> {Missing} \cup Seq(HeaderLines)] /\ CsvOf(w) \in CsvNames
  BY NamesOf DEF TypeInv, TypeOK
<1>2. CASE "header" \in holds[w]
  <2> DEFINE new == WriteAt(header[CsvOf(w)], place, <<line>>)
  <2>1. header[CsvOf(w)] \in Seq(HeaderLines) /\ Hole \in HeaderLines
    BY <1>2 DEF TypeInv, OpenOK, HeaderLines, RawLines
  <2>2. <<line>> \in Seq(HeaderLines)
    OBVIOUS
  <2>3. new \in Seq(HeaderLines)
    BY <2>1, <2>2, WriteAtType
  <2>4. header' = [header EXCEPT ![CsvOf(w)] = new]
    BY <1>2 DEF PutHeader
  <2> HIDE DEF new
  <2> QED BY <1>1, <2>3, <2>4
<1>3. CASE "header" \notin holds[w]
  BY <1>1, <1>3 DEF PutHeader
<1> QED BY <1>2, <1>3

LEMMA OpenTextTypes ==
  ASSUME TypeInv, NEW w \in Runs, OpenText(w)
  PROVE  TypeInv'
<1>1. text \in [CsvNames -> {Missing} \cup Seq(TextLines)] /\ CsvOf(w) \in CsvNames
  BY NamesOf DEF TypeInv, TypeOK
<1>2. text' = [text EXCEPT ![CsvOf(w)] = <<ColumnNames>>] /\ args' = args /\ raw' = raw
  BY DEF OpenText
<1>3. ColumnNames \in TextLines /\ ColumnNames \in HeaderLines
  BY DEF TextLines, HeaderLines
<1>4. <<ColumnNames>> \in Seq(TextLines) /\ CsvOf(w)' = CsvOf(w) /\ RawOf(w)' = RawOf(w)
  BY <1>2, <1>3 DEF CsvOf, RawOf
<1>5. /\ text' \in [CsvNames -> {Missing} \cup Seq(TextLines)]
      /\ text'[CsvOf(w)] \in Seq(TextLines)
      /\ \A f \in CsvNames : text[f] \in Seq(TextLines) => text'[f] \in Seq(TextLines)
  BY <1>1, <1>2, <1>4
<1>6. /\ header' \in [CsvNames -> {Missing} \cup Seq(HeaderLines)]
      /\ \A f \in CsvNames : header[f] \in Seq(HeaderLines) => header'[f] \in Seq(HeaderLines)
      /\ "header" \in holds[w] => header'[CsvOf(w)] \in Seq(HeaderLines)
  BY <1>3, PutHeaderTypes DEF OpenText
<1>7. TypeOK'
  BY <1>5, <1>6 DEF TypeInv, TypeOK, OpenText, Goto, world, PcLabels
<1>9. Others(w) /\ holds'[w] = holds[w] \cup {"text"} /\ pc'[w] = "process" /\ pc[w] = "openText"
  BY DEF Others, OpenText, Goto, TypeInv, TypeOK
<1>10. LinesStay
  BY <1>2, <1>5, <1>6 DEF LinesStay
<1>11. raw[RawOf(w)] \in Seq(RawLines)
  BY <1>9 DEF TypeInv, OpenOK
<1>12. OpenOK(w)'
  BY <1>2, <1>4, <1>5, <1>6, <1>9, <1>11 DEF OpenOK
<1> QED BY <1>7, <1>9, <1>10, <1>12, OpenStep

\* A book of the raw file becomes lines of both CSV files.
LEMMA ProcessBookTypes ==
  ASSUME TypeInv, NEW w \in Runs, ProcessBook(w)
  PROVE  TypeInv'
<1>1. PICK lines \in VisibleRaw(w) :
        /\ at[w] < Len(lines) /\ lines[at[w] + 1].is = "book"
        /\ at' = [at EXCEPT ![w] = @ + 1]
        /\ PutHeader(w, at[w] + 1, lines[at[w] + 1])
        /\ LET chunks == ChunkRows(lines[at[w] + 1].dataset, lines[at[w] + 1].id, args[w].size)
           IN /\ text' = IF "text" \in holds[w]
                         THEN [text EXCEPT ![CsvOf(w)] = WriteAt(@, wrote[w], chunks)]
                         ELSE text
              /\ wrote' = [wrote EXCEPT ![w] = @ + Len(chunks)]
  BY DEF ProcessBook
<1> DEFINE line == lines[at[w] + 1]
<1> DEFINE chunks == ChunkRows(line.dataset, line.id, args[w].size)
<1>2. /\ args[w] \in ArgSet /\ CsvOf(w) \in CsvNames /\ at[w] \in Nat /\ wrote[w] \in Nat
      /\ text \in [CsvNames -> {Missing} \cup Seq(TextLines)]
  BY NamesOf DEF TypeInv, TypeOK
<1>3. pc[w] = "process" /\ UNCHANGED <<raw, db, world, pc, args, holds, rows, existed, alone>>
  BY DEF ProcessBook
<1>4. raw[RawOf(w)] \in Seq(RawLines)
  BY <1>3 DEF TypeInv, OpenOK
<1>5. lines \in Seq(RawLines)
  BY <1>4, VisibleTypes
<1>6. Len(lines) \in Nat /\ line \in RawLines
  <2>1. Len(lines) \in Nat
    BY <1>5, LenProperties
  <2>2. at[w] + 1 \in 1 .. Len(lines)
    BY <1>1, <1>2, <2>1
  <2> QED BY <1>5, <2>1, <2>2, ElementOfSeq
<1>7. line \in Books
  <2>1. Hole.is = "hole" /\ \A b \in Books : Cut(b).is = "cut"
    BY BookIs DEF Hole, Cut, Book
  <2> QED BY <1>1, <1>6, <2>1 DEF RawLines
<1>8. chunks \in Seq(Chunks) /\ line \in HeaderLines
  BY <1>2, <1>7, ChunkRowsType DEF HeaderLines, RawLines
<1> HIDE DEF line
<1>9. chunks \in Seq(TextLines) /\ Len(chunks) \in Nat
  BY <1>8, SeqMonotonic, LenProperties DEF TextLines
<1>10. /\ header' \in [CsvNames -> {Missing} \cup Seq(HeaderLines)]
       /\ \A f \in CsvNames : header[f] \in Seq(HeaderLines) => header'[f] \in Seq(HeaderLines)
       /\ "header" \in holds[w] => header'[CsvOf(w)] \in Seq(HeaderLines)
  <2>1. at[w] + 1 \in Nat /\ PutHeader(w, at[w] + 1, line)
    BY <1>1, <1>2 DEF line
  <2> QED BY <1>8, <2>1, PutHeaderTypes
<1>11. /\ text' = IF "text" \in holds[w]
                  THEN [text EXCEPT ![CsvOf(w)] = WriteAt(text[CsvOf(w)], wrote[w], chunks)]
                  ELSE text
       /\ wrote' = [wrote EXCEPT ![w] = wrote[w] + Len(chunks)]
  BY <1>1, <1>2 DEF line, TypeInv, TypeOK
<1> HIDE DEF chunks
<1>12. /\ text' \in [CsvNames -> {Missing} \cup Seq(TextLines)]
       /\ "text" \in holds[w] => text'[CsvOf(w)] \in Seq(TextLines)
       /\ \A f \in CsvNames : text[f] \in Seq(TextLines) => text'[f] \in Seq(TextLines)
  <2>1. CASE "text" \in holds[w]
    <3>1. text[CsvOf(w)] \in Seq(TextLines) /\ Hole \in TextLines
      BY <2>1 DEF TypeInv, OpenOK, TextLines
    <3>2. WriteAt(text[CsvOf(w)], wrote[w], chunks) \in Seq(TextLines)
      BY <1>2, <1>9, <3>1, WriteAtType
    <3> QED BY <1>2, <1>11, <2>1, <3>2
  <2>2. CASE "text" \notin holds[w]
    BY <1>2, <1>11, <2>2
  <2> QED BY <2>1, <2>2
<1>13. wrote' \in [Runs -> Nat]
  BY <1>2, <1>9, <1>11 DEF TypeInv, TypeOK
<1>14. at' \in [Runs -> Nat] /\ \A o \in Runs \ {w} : at'[o] = at[o]
  BY <1>1, <1>2 DEF TypeInv, TypeOK
<1>15. TypeOK'
  BY <1>3, <1>10, <1>12, <1>13, <1>14 DEF TypeInv, TypeOK, world
<1>16. LinesStay /\ Others(w)
  BY <1>3, <1>10, <1>12 DEF LinesStay, Others
<1>17. CsvOf(w)' = CsvOf(w) /\ RawOf(w)' = RawOf(w) /\ OpenOK(w)
  BY <1>3 DEF CsvOf, RawOf, TypeInv
<1>18. OpenOK(w)'
  BY <1>3, <1>4, <1>10, <1>12, <1>17 DEF OpenOK
<1> QED BY <1>15, <1>16, <1>18, OpenStep

LEMMA ProcessedTypes ==
  ASSUME TypeInv, NEW w \in Runs, Processed(w)
  PROVE  TypeInv'
<1>1. TypeOK'
  BY DEF TypeInv, TypeOK, Processed, Goto, files, world, PcLabels
<1>2. Others(w) /\ LinesStay /\ holds'[w] = {} /\ pc'[w] = "look"
  BY DEF Others, LinesStay, Processed, Goto, files, TypeInv, TypeOK
<1> QED BY <1>1, <1>2, ClosedOpen, OpenStep

LEMMA TablesTypes ==
  ASSUME TypeInv, NEW w \in Runs, Create(w) \/ DropHeader(w)
  PROVE  TypeInv'
<1>1. db' = EmptyTables /\ Goto(w, "copyHeader")
      /\ UNCHANGED <<files, world, args, at, wrote, holds, rows, existed, alone>>
  BY DEF Create, DropHeader
<1>2. pc[w] \in {"create", "dropHeader"}
  BY DEF Create, DropHeader
<1>3. db' \in [exists: BOOLEAN, header: Seq(HeaderRows), text: Seq(TextRows),
               by: SUBSET [args: ArgSet, alone: BOOLEAN]]
  <2>1. db' = [exists |-> TRUE, header |-> <<>>, text |-> <<>>, by |-> {}]
    BY <1>1 DEF EmptyTables, NoTables
  <2> QED BY <2>1
<1>4. TypeOK'
  BY <1>1, <1>2, <1>3 DEF TypeInv, TypeOK, Goto, files, world, PcLabels
<1>5. Others(w) /\ LinesStay /\ holds'[w] = {} /\ pc'[w] = "copyHeader"
  BY <1>1, <1>2 DEF Others, LinesStay, Goto, files, TypeInv, TypeOK
<1> QED BY <1>4, <1>5, ClosedOpen, OpenStep

\* COPY takes the rows of a file it can read.
LEMMA CopyTypes ==
  ASSUME TypeInv, NEW w \in Runs, CopyHeader(w) \/ CopyText(w)
  PROVE  TypeInv'
<1>1. UNCHANGED <<files, db, world, args, at, wrote, holds, existed, alone>>
  BY DEF CopyHeader, CopyText
<1>2. /\ pc[w] \in {"copyHeader", "copyText"}
      /\ Goto(w, "copyText") \/ Goto(w, "commit")
  BY DEF CopyHeader, CopyText
<1>3. rows' \in [Runs -> [header: Seq(HeaderRows), text: Seq(TextRows)]]
  <2>1. CASE CopyHeader(w)
    <3>1. PICK lines \in VisibleHeader(w) :
            Copies(lines) /\ rows' = [rows EXCEPT ![w].header = Taken(Tail(lines))]
      BY <2>1 DEF CopyHeader
    <3>2. lines \in Seq(HeaderLines)
      BY <3>1, VisibleTypes DEF Copies
    <3>3. PICK t \in Seq(HeaderRows) : t = Taken(Tail(lines))
      BY <3>1, <3>2, TakenType
    <3>4. rows[w] \in [header: Seq(HeaderRows), text: Seq(TextRows)]
      BY DEF TypeInv, TypeOK
    <3>5. [rows[w] EXCEPT !.header = t] \in [header: Seq(HeaderRows), text: Seq(TextRows)]
      BY <3>4
    <3>6. rows' = [rows EXCEPT ![w] = [rows[w] EXCEPT !.header = t]]
      BY <3>1, <3>3
    <3> QED BY <3>5, <3>6 DEF TypeInv, TypeOK
  <2>2. CASE CopyText(w)
    <3>1. PICK lines \in VisibleText(w) :
            Copies(lines) /\ rows' = [rows EXCEPT ![w].text = Taken(Tail(lines))]
      BY <2>2 DEF CopyText
    <3>2. lines \in Seq(TextLines)
      BY <3>1, VisibleTypes DEF Copies
    <3>3. PICK t \in Seq(TextRows) : t = Taken(Tail(lines))
      BY <3>1, <3>2, TakenType
    <3>4. rows[w] \in [header: Seq(HeaderRows), text: Seq(TextRows)]
      BY DEF TypeInv, TypeOK
    <3>5. [rows[w] EXCEPT !.text = t] \in [header: Seq(HeaderRows), text: Seq(TextRows)]
      BY <3>4
    <3>6. rows' = [rows EXCEPT ![w] = [rows[w] EXCEPT !.text = t]]
      BY <3>1, <3>3
    <3> QED BY <3>5, <3>6 DEF TypeInv, TypeOK
  <2> QED BY <2>1, <2>2
<1>4. TypeOK'
  BY <1>1, <1>2, <1>3 DEF TypeInv, TypeOK, Goto, files, world, PcLabels
<1>5. Others(w) /\ LinesStay /\ holds'[w] = {} /\ pc'[w] \in {"copyText", "commit"}
  BY <1>1, <1>2 DEF Others, LinesStay, Goto, files, TypeInv, TypeOK
<1> QED BY <1>4, <1>5, ClosedOpen, OpenStep

LEMMA CommitTypes ==
  ASSUME TypeInv, NEW w \in Runs, Commit(w)
  PROVE  TypeInv'
<1>1. UNCHANGED <<files, world, args, at, wrote, holds, existed, alone>>
  BY DEF Commit
<1>2. pc[w] = "commit" /\ Goto(w, "clean") /\ rows' = [rows EXCEPT ![w] = NoRows]
  BY DEF Commit
<1>3. NoRows \in [header: Seq(HeaderRows), text: Seq(TextRows)]
  BY DEF NoRows
<1>4. db' \in [exists: BOOLEAN, header: Seq(HeaderRows), text: Seq(TextRows),
               by: SUBSET [args: ArgSet, alone: BOOLEAN]]
  <2>1. db.header \o rows[w].header \in Seq(HeaderRows) /\ db.text \o rows[w].text \in Seq(TextRows)
    BY ConcatProperties DEF TypeInv, TypeOK
  <2>2. {[args |-> args[w], alone |-> alone[w]]} \in SUBSET [args: ArgSet, alone: BOOLEAN]
    BY DEF TypeInv, TypeOK
  <2>3. db' = [db EXCEPT !.header = db.header \o rows[w].header, !.text = db.text \o rows[w].text,
                         !.by = {[args |-> args[w], alone |-> alone[w]]}]
    BY DEF Commit, TypeInv, TypeOK
  <2> QED BY <2>1, <2>2, <2>3 DEF TypeInv, TypeOK
<1>5. TypeOK'
  BY <1>1, <1>2, <1>3, <1>4 DEF TypeInv, TypeOK, Goto, files, world, PcLabels
<1>6. Others(w) /\ LinesStay /\ holds'[w] = {} /\ pc'[w] = "clean"
  BY <1>1, <1>2 DEF Others, LinesStay, Goto, files, TypeInv, TypeOK
<1> QED BY <1>5, <1>6, ClosedOpen, OpenStep

\* Removing a file takes its name from all who have it open.
LEMMA RemoveHeaderTypes ==
  ASSUME TypeInv, NEW w \in Runs, RemoveHeader(w)
  PROVE  TypeInv'
<1>1. /\ pc[w] = "clean" /\ (Goto(w, "post") \/ Goto(w, "cleanText"))
      /\ UNCHANGED <<raw, text, db, world, args, at, wrote, rows, existed, alone>>
  BY DEF RemoveHeader
<1>2. /\ header \in [CsvNames -> {Missing} \cup Seq(HeaderLines)]
      /\ holds \in [Runs -> SUBSET {"raw", "header", "text"}]
  BY DEF TypeInv, TypeOK
<1>3. /\ header' \in [CsvNames -> {Missing} \cup Seq(HeaderLines)]
      /\ holds' \in [Runs -> SUBSET {"raw", "header", "text"}]
      /\ \A o \in Runs : holds'[o] \subseteq holds[o]
      /\ \A o \in Runs : "header" \in holds'[o] => header'[CsvOf(o)] = header[CsvOf(o)]
  <2>1. CASE Kept(w)
    BY <1>2, <2>1 DEF RemoveHeader
  <2>2. CASE ~Kept(w)
    <3>1. /\ header' = [header EXCEPT ![CsvOf(w)] = Missing]
          /\ holds' = [o \in Runs |-> IF CsvOf(o) = CsvOf(w) THEN holds[o] \ {"header"} ELSE holds[o]]
      BY <2>2 DEF RemoveHeader
    <3>2. ASSUME NEW o \in Runs, "header" \in holds'[o] PROVE header'[CsvOf(o)] = header[CsvOf(o)]
      <4>1. CsvOf(o) # CsvOf(w) /\ CsvOf(o) \in CsvNames
        BY <3>1, <3>2, NamesOf DEF TypeInv, TypeOK
      <4> QED BY <1>2, <3>1, <4>1
    <3>3. ASSUME NEW o \in Runs PROVE holds'[o] \subseteq holds[o]
      BY <3>1
    <3>4. holds' \in [Runs -> SUBSET {"raw", "header", "text"}]
      BY <1>2, <3>1
    <3>5. header' \in [CsvNames -> {Missing} \cup Seq(HeaderLines)]
      BY <1>2, <3>1
    <3> QED BY <3>2, <3>3, <3>4, <3>5
  <2> QED BY <2>1, <2>2
<1>4. pc' \in [Runs -> PcLabels] /\ \A o \in Runs : pc'[o] = pc[o] \/ (o = w /\ pc'[o] \in {"post", "cleanText"})
  BY <1>1 DEF Goto, TypeInv, TypeOK, PcLabels
<1>5. holds[w] = {} /\ at[w] = 0
  BY <1>1 DEF TypeInv, TypeOK
<1>6. ASSUME NEW o \in Runs
      PROVE  /\ holds'[o] # {} => pc'[o] \in {"download", "openText", "process"}
             /\ at'[o] # 0 => pc'[o] \in {"download", "process"}
  BY <1>1, <1>3, <1>4, <1>5 DEF TypeInv, TypeOK
<1>7. TypeOK'
  BY <1>1, <1>3, <1>4, <1>6 DEF TypeInv, TypeOK, world
<1>8. ASSUME NEW o \in Runs PROVE OpenOK(o)'
  <2>1. OpenOK(o) /\ RawOf(o)' = RawOf(o) /\ CsvOf(o)' = CsvOf(o)
    BY <1>1 DEF TypeInv, RawOf, CsvOf
  <2> QED BY <1>1, <1>3, <1>4, <2>1 DEF OpenOK
<1> QED BY <1>7, <1>8 DEF TypeInv

LEMMA RemoveTextTypes ==
  ASSUME TypeInv, NEW w \in Runs, RemoveText(w)
  PROVE  TypeInv'
<1>1. /\ pc[w] = "cleanText" /\ Goto(w, "post")
      /\ UNCHANGED <<raw, header, db, world, args, at, wrote, rows, existed, alone>>
  BY DEF RemoveText
<1>2. /\ text \in [CsvNames -> {Missing} \cup Seq(TextLines)]
      /\ holds \in [Runs -> SUBSET {"raw", "header", "text"}]
  BY DEF TypeInv, TypeOK
<1>3. /\ text' = [text EXCEPT ![CsvOf(w)] = Missing]
      /\ holds' = [o \in Runs |-> IF CsvOf(o) = CsvOf(w) THEN holds[o] \ {"text"} ELSE holds[o]]
  BY DEF RemoveText
<1>4. ASSUME NEW o \in Runs, "text" \in holds'[o] PROVE text'[CsvOf(o)] = text[CsvOf(o)]
  <2>1. CsvOf(o) # CsvOf(w) /\ CsvOf(o) \in CsvNames
    BY <1>3, <1>4, NamesOf DEF TypeInv, TypeOK
  <2> QED BY <1>2, <1>3, <2>1
<1>5. /\ text' \in [CsvNames -> {Missing} \cup Seq(TextLines)]
      /\ holds' \in [Runs -> SUBSET {"raw", "header", "text"}]
      /\ \A o \in Runs : holds'[o] \subseteq holds[o]
  <2>1. text' \in [CsvNames -> {Missing} \cup Seq(TextLines)]
    BY <1>2, <1>3
  <2>2. holds' \in [Runs -> SUBSET {"raw", "header", "text"}]
    BY <1>2, <1>3
  <2>3. \A o \in Runs : holds'[o] \subseteq holds[o]
    BY <1>3
  <2> QED BY <2>1, <2>2, <2>3
<1>6. pc' \in [Runs -> PcLabels] /\ \A o \in Runs : pc'[o] = pc[o] \/ (o = w /\ pc'[o] = "post")
  BY <1>1 DEF Goto, TypeInv, TypeOK, PcLabels
<1>7. holds[w] = {} /\ at[w] = 0
  BY <1>1 DEF TypeInv, TypeOK
<1>8. ASSUME NEW o \in Runs
      PROVE  /\ holds'[o] # {} => pc'[o] \in {"download", "openText", "process"}
             /\ at'[o] # 0 => pc'[o] \in {"download", "process"}
  BY <1>1, <1>5, <1>6, <1>7 DEF TypeInv, TypeOK
<1>9. TypeOK'
  BY <1>1, <1>5, <1>6, <1>8 DEF TypeInv, TypeOK, world
<1>10. ASSUME NEW o \in Runs PROVE OpenOK(o)'
  <2>1. OpenOK(o) /\ RawOf(o)' = RawOf(o) /\ CsvOf(o)' = CsvOf(o)
    BY <1>1 DEF TypeInv, RawOf, CsvOf
  <2> QED BY <1>1, <1>4, <1>5, <1>6, <2>1 DEF OpenOK
<1> QED BY <1>9, <1>10 DEF TypeInv

\* What a killed run leaves of its files are lines.
LEMMA CrashTypes ==
  ASSUME TypeInv, NEW w \in Runs, Crash(w)
  PROVE  TypeInv'
<1>1. /\ raw \in [Limits -> {Missing} \cup Seq(RawLines)] /\ RawOf(w) \in Limits
      /\ header \in [CsvNames -> {Missing} \cup Seq(HeaderLines)]
      /\ text \in [CsvNames -> {Missing} \cup Seq(TextLines)] /\ CsvOf(w) \in CsvNames
      /\ OpenOK(w)
  BY NamesOf DEF TypeInv, TypeOK
<1>2. PICK f \in OnDisk(w, "raw", raw[RawOf(w)]) : raw' = [raw EXCEPT ![RawOf(w)] = f]
  BY DEF Crash
<1>3. f = raw[RawOf(w)] \/ f \in Seq(RawLines)
  BY <1>1, FlushedType, CutsAreLines DEF OnDisk, OpenOK, RawLines
<1>4. PICK g \in OnDisk(w, "header", header[CsvOf(w)]) : header' = [header EXCEPT ![CsvOf(w)] = g]
  BY DEF Crash
<1>5. g = header[CsvOf(w)] \/ g \in Seq(HeaderLines)
  BY <1>1, FlushedType, CutsAreLines DEF OnDisk, OpenOK, HeaderLines
<1>6. PICK h \in OnDisk(w, "text", text[CsvOf(w)]) : text' = [text EXCEPT ![CsvOf(w)] = h]
  BY DEF Crash
<1>7. h = text[CsvOf(w)] \/ h \in Seq(TextLines)
  BY <1>1, FlushedType, CutsAreLines DEF OnDisk, OpenOK, TextLines
<1>8. /\ raw' \in [Limits -> {Missing} \cup Seq(RawLines)]
      /\ \A l \in Limits : raw[l] \in Seq(RawLines) => raw'[l] \in Seq(RawLines)
  BY <1>1, <1>2, <1>3
<1>9. /\ header' \in [CsvNames -> {Missing} \cup Seq(HeaderLines)]
      /\ \A n \in CsvNames : header[n] \in Seq(HeaderLines) => header'[n] \in Seq(HeaderLines)
  BY <1>1, <1>4, <1>5
<1>10. /\ text' \in [CsvNames -> {Missing} \cup Seq(TextLines)]
       /\ \A n \in CsvNames : text[n] \in Seq(TextLines) => text'[n] \in Seq(TextLines)
  BY <1>1, <1>6, <1>7
<1>11. LinesStay
  BY <1>8, <1>9, <1>10 DEF LinesStay
<1> QED BY <1>8, <1>9, <1>10, <1>11, EndTypes DEF Crash

\* The steps by which a run ends early, or is over.
EndStep(w) ==
  \/ DownloadFails(w) \/ ProcessFails(w) \/ Refused(w) \/ CreateFails(w) \/ CopyHeaderFails(w)
  \/ CopyTextFails(w) \/ PostProcess(w) \/ DeadlockDetected(w)

LEMMA EndStepFails ==
  ASSUME NEW w, EndStep(w)
  PROVE  Fail(w)
BY DEF EndStep, DownloadFails, ProcessFails, Refused, CreateFails, CopyHeaderFails, CopyTextFails,
       PostProcess, DeadlockDetected

LEMMA NextCases ==
  ASSUME Next
  PROVE  \E w \in Runs :
           \/ Start(w) \/ TakeRaw(w) \/ OpenRaw(w) \/ Download(w) \/ Downloaded(w) \/ TakeCsv(w)
           \/ OpenHeader(w) \/ OpenText(w) \/ ProcessBook(w) \/ Processed(w) \/ Look(w) \/ Create(w)
           \/ DropText(w) \/ DropHeader(w) \/ CopyHeader(w) \/ CopyText(w) \/ Commit(w)
           \/ RemoveHeader(w) \/ RemoveText(w) \/ Crash(w) \/ EndStep(w)
BY DEF Next, RunStep, DownloadStep, CsvStep, TablesStep, EndStep

LEMMA InitTypes == Init => TypeInv
<1> SUFFICES ASSUME Init PROVE TypeInv
  OBVIOUS
<1>1. NoArgs \in ArgSet /\ NoRows \in [header: Seq(HeaderRows), text: Seq(TextRows)]
  BY ArgTypes DEF NoRows
<1>2. NoTables \in [exists: BOOLEAN, header: Seq(HeaderRows), text: Seq(TextRows),
                    by: SUBSET [args: ArgSet, alone: BOOLEAN]]
  BY DEF NoTables
<1>3. db = NoTables /\ starts \in 0 .. MaxStarts
  BY BookAssumption DEF Init
<1>4. /\ raw \in [Limits -> {Missing} \cup Seq(RawLines)]
      /\ header \in [CsvNames -> {Missing} \cup Seq(HeaderLines)]
      /\ text \in [CsvNames -> {Missing} \cup Seq(TextLines)]
  BY DEF Init
<1>5. /\ pc \in [Runs -> PcLabels] /\ args \in [Runs -> ArgSet]
      /\ rows \in [Runs -> [header: Seq(HeaderRows), text: Seq(TextRows)]]
  BY <1>1 DEF Init, PcLabels
<1>6. /\ at \in [Runs -> Nat] /\ wrote \in [Runs -> Nat]
      /\ holds \in [Runs -> SUBSET {"raw", "header", "text"}]
      /\ existed \in [Runs -> BOOLEAN] /\ alone \in [Runs -> BOOLEAN] /\ overlap \in BOOLEAN
      /\ \A w \in Runs : holds[w] = {} /\ at[w] = 0
  BY DEF Init
<1>7. TypeOK
  BY <1>2, <1>3, <1>4, <1>5, <1>6 DEF TypeOK
<1>8. \A w \in Runs : OpenOK(w)
  BY DEF Init, OpenOK
<1> QED BY <1>7, <1>8 DEF TypeInv

LEMMA NextTypes == TypeInv /\ [Next]_vars => TypeInv'
<1> SUFFICES ASSUME TypeInv, [Next]_vars PROVE TypeInv'
  OBVIOUS
<1>1. CASE UNCHANGED vars
  BY <1>1 DEF TypeInv, TypeOK, OpenOK, RawOf, CsvOf, vars
<1>2. CASE Next
  <2>1. PICK w \in Runs :
          \/ Start(w) \/ TakeRaw(w) \/ OpenRaw(w) \/ Download(w) \/ Downloaded(w) \/ TakeCsv(w)
          \/ OpenHeader(w) \/ OpenText(w) \/ ProcessBook(w) \/ Processed(w) \/ Look(w) \/ Create(w)
          \/ DropText(w) \/ DropHeader(w) \/ CopyHeader(w) \/ CopyText(w) \/ Commit(w)
          \/ RemoveHeader(w) \/ RemoveText(w) \/ Crash(w) \/ EndStep(w)
    BY <1>2, NextCases
  <2>2. ASSUME EndStep(w) PROVE TypeInv'
    BY <2>2, EndStepFails, FailTypes
  <2> QED BY <2>1, <2>2, StartTypes, MoveTypes, OpenRawTypes, DownloadTypes, DownloadedTypes,
             OpenHeaderTypes, OpenTextTypes, ProcessBookTypes, ProcessedTypes, TablesTypes,
             CopyTypes, CommitTypes, RemoveHeaderTypes, RemoveTextTypes, CrashTypes
<1> QED BY <1>1, <1>2

LEMMA TypeInvariance == Spec => []TypeInv
BY InitTypes, NextTypes, PTL DEF Spec

\* Whatever the runs, and whatever killed runs leave: every line of a file and
\* every row of a table is of a book of its data set or a chunk of one, whole
\* or cut off at its end, and only runs at work have files open.
THEOREM BookTypes == Spec => []TypeOK
<1>1. TypeInv => TypeOK
  BY DEF TypeInv
<1> QED BY <1>1, TypeInvariance, PTL

-----------------------------------------------------------------------------
(***************************************************************************)
(* Rows leave the tables by --override only.  A run that is about to drop  *)
(* the tables has been called with --override: it has found them, and      *)
(* create_obj refuses the others.  One that has not found them fails if    *)
(* they are there by the time it creates them, and before they are created *)
(* they hold nothing.                                                      *)
(***************************************************************************)
KeepOK(w) ==
  /\ pc[w] = "create" /\ existed[w] => args[w].override
  /\ pc[w] = "dropHeader" => args[w].override
  /\ pc[w] \in {"copyHeader", "copyText", "commit"} => db.exists

KeepInv ==
  /\ ~db.exists => db.header = <<>> /\ db.text = <<>>
  /\ \A w \in Runs : KeepOK(w)

\* Where a step of w takes it.
LEMMA Moves ==
  ASSUME TypeInv, NEW w \in Runs,
         \/ Start(w) \/ TakeRaw(w) \/ OpenRaw(w) \/ Download(w) \/ Downloaded(w) \/ TakeCsv(w)
         \/ OpenHeader(w) \/ OpenText(w) \/ ProcessBook(w) \/ Processed(w) \/ CopyHeader(w)
         \/ CopyText(w) \/ RemoveHeader(w) \/ RemoveText(w) \/ Crash(w) \/ EndStep(w)
  PROVE  /\ db' = db
         /\ pc'[w] \notin {"create", "dropHeader", "copyHeader"}
         /\ pc'[w] \in {"copyText", "commit"} => pc[w] \in {"copyHeader", "copyText"}
         /\ \A o \in Runs \ {w} : pc'[o] = pc[o] /\ args'[o] = args[o] /\ existed'[o] = existed[o]
<1>1. CASE EndStep(w) \/ Crash(w)
  <2>1. End(w) /\ db' = db
    BY <1>1, EndStepFails DEF Fail, Crash
  <2> QED BY <2>1 DEF End, Goto, TypeInv, TypeOK
<1>2. CASE Start(w) \/ TakeRaw(w) \/ OpenRaw(w) \/ Downloaded(w) \/ TakeCsv(w) \/ OpenHeader(w)
  BY <1>2 DEF Start, TakeRaw, OpenRaw, Downloaded, TakeCsv, OpenHeader, Goto, TypeInv, TypeOK
<1>3. CASE OpenText(w) \/ Processed(w) \/ CopyHeader(w) \/ CopyText(w) \/ RemoveHeader(w) \/ RemoveText(w)
  BY <1>3 DEF OpenText, Processed, CopyHeader, CopyText, RemoveHeader, RemoveText, Goto, TypeInv, TypeOK
<1>4. CASE Download(w) \/ ProcessBook(w)
  <2>1. UNCHANGED <<db, pc, args, existed>> /\ pc[w] \in {"download", "process"}
    BY <1>4 DEF Download, ProcessBook
  <2> QED BY <2>1
<1> QED BY <1>1, <1>2, <1>3, <1>4

LEMMA InitKeep == Init => KeepInv
BY DEF Init, KeepInv, KeepOK, NoTables

LEMMA NextKeep == TypeInv /\ KeepInv /\ [Next]_vars => KeepInv'
<1> SUFFICES ASSUME TypeInv, KeepInv, [Next]_vars PROVE KeepInv'
  OBVIOUS
<1>1. CASE UNCHANGED vars
  BY <1>1 DEF KeepInv, KeepOK, vars
<1>2. CASE Next
  <2>1. PICK w \in Runs :
          \/ Start(w) \/ TakeRaw(w) \/ OpenRaw(w) \/ Download(w) \/ Downloaded(w) \/ TakeCsv(w)
          \/ OpenHeader(w) \/ OpenText(w) \/ ProcessBook(w) \/ Processed(w) \/ Look(w) \/ Create(w)
          \/ DropText(w) \/ DropHeader(w) \/ CopyHeader(w) \/ CopyText(w) \/ Commit(w)
          \/ RemoveHeader(w) \/ RemoveText(w) \/ Crash(w) \/ EndStep(w)
    BY <1>2, NextCases
  <2> DEFINE Tables == ~db.exists => db.header = <<>> /\ db.text = <<>>
  <2> SUFFICES /\ Tables'
               /\ db.exists => db'.exists
               /\ KeepOK(w)'
               /\ \A o \in Runs \ {w} : pc'[o] = pc[o] /\ args'[o] = args[o] /\ existed'[o] = existed[o]
    BY DEF KeepInv, KeepOK
  <2>2. CASE Look(w)
    BY <2>2 DEF Look, Goto, KeepInv, KeepOK, TypeInv, TypeOK
  <2>3. CASE DropText(w)
    BY <2>3 DEF DropText, Goto, KeepInv, KeepOK, TypeInv, TypeOK
  <2>4. CASE Create(w) \/ DropHeader(w)
    BY <2>4 DEF Create, DropHeader, Goto, EmptyTables, NoTables, KeepInv, KeepOK, TypeInv, TypeOK
  <2>5. CASE Commit(w)
    <3>1. db.exists /\ db'.exists
      BY <2>5 DEF KeepInv, KeepOK, Commit, TypeInv, TypeOK
    <3> QED BY <2>5, <3>1 DEF Commit, Goto, KeepInv, KeepOK, TypeInv, TypeOK
  <2>6. CASE ~(Look(w) \/ Create(w) \/ DropText(w) \/ DropHeader(w) \/ Commit(w))
    BY <2>1, <2>6, Moves DEF KeepInv, KeepOK
  <2> QED BY <2>2, <2>3, <2>4, <2>5, <2>6
<1> QED BY <1>1, <1>2

LEMMA PrefixOf ==
  ASSUME NEW S, NEW s \in Seq(S), NEW t \in Seq(S)
  PROVE  IsPrefix(s, s \o t) /\ IsPrefix(s, s) /\ IsPrefix(<<>>, s)
<1>1. /\ s \o t \in Seq(S) /\ Len(s \o t) = Len(s) + Len(t) /\ Len(s) \in Nat /\ Len(t) \in Nat
      /\ \A i \in 1 .. Len(s) + Len(t) : (s \o t)[i] = IF i <= Len(s) THEN s[i] ELSE t[i - Len(s)]
  BY ConcatProperties, LenProperties
<1> DEFINE u == s \o t
<1> DEFINE a == SubSeq(s, 1, Len(s))
<1> DEFINE b == SubSeq(u, 1, Len(s))
<1>2. \A i \in 1 .. Len(s) : s[i] \in S /\ u[i] = s[i]
  BY <1>1, ElementOfSeq
<1> HIDE DEF u
<1>3. /\ a \in Seq(S) /\ Len(a) = IF 1 <= Len(s) THEN Len(s) - 1 + 1 ELSE 0
      /\ \A i \in 1 .. Len(s) - 1 + 1 : a[i] = s[1 + i - 1]
  BY <1>1, <1>2, SubSeqProperties
<1>4. /\ b \in Seq(S) /\ Len(b) = IF 1 <= Len(s) THEN Len(s) - 1 + 1 ELSE 0
      /\ \A i \in 1 .. Len(s) - 1 + 1 : b[i] = u[1 + i - 1]
  BY <1>1, <1>2, SubSeqProperties
<1> HIDE DEF a, b
<1>5. Len(a) = Len(b) /\ \A i \in 1 .. Len(a) : a[i] = b[i]
  BY <1>1, <1>2, <1>3, <1>4
<1>6. a = b
  BY <1>3, <1>4, <1>5, SeqEqual
<1>7. IsPrefix(s, u)
  BY <1>1, <1>6 DEF IsPrefix, a, b, u
<1>8. IsPrefix(s, s)
  BY <1>1 DEF IsPrefix
<1>9. IsPrefix(<<>>, s)
  <2>1. Len(<<>>) = 0 /\ SubSeq(<<>>, 1, 0) = <<>> /\ SubSeq(s, 1, 0) = <<>>
    BY SubSeqEmpty
  <2> QED BY <1>1, <2>1 DEF IsPrefix
<1> QED BY <1>7, <1>8, <1>9 DEF u

\* load_to_pg.py:213, however several runs interleave between their look at
\* the tables and what they do to them: rows that are in the tables only leave
\* them by a run with --override.
THEOREM OverrideSafety == Spec => KeptUnlessOverride
<1> DEFINE Stay == IsPrefix(db.header, db'.header) /\ IsPrefix(db.text, db'.text)
<1> DEFINE Act == ~Stay => \E w \in Runs : args[w].override /\ pc[w] = "dropHeader"
<1>1. TypeInv /\ KeepInv /\ [Next]_vars => [Act]_vars
  <2> SUFFICES ASSUME TypeInv, KeepInv, Next, ~Stay
               PROVE  \E w \in Runs : args[w].override /\ pc[w] = "dropHeader"
    OBVIOUS
  <2>1. db.header \in Seq(HeaderRows) /\ db.text \in Seq(TextRows)
    BY DEF TypeInv, TypeOK
  <2>2. db' # db
    BY <2>1, PrefixOf
  <2>3. PICK w \in Runs : Create(w) \/ DropHeader(w) \/ Commit(w)
    <3>1. PICK w \in Runs :
          \/ Start(w) \/ TakeRaw(w) \/ OpenRaw(w) \/ Download(w) \/ Downloaded(w) \/ TakeCsv(w)
          \/ OpenHeader(w) \/ OpenText(w) \/ ProcessBook(w) \/ Processed(w) \/ Look(w) \/ Create(w)
          \/ DropText(w) \/ DropHeader(w) \/ CopyHeader(w) \/ CopyText(w) \/ Commit(w)
          \/ RemoveHeader(w) \/ RemoveText(w) \/ Crash(w) \/ EndStep(w)
      BY NextCases
    <3>2. ~Look(w) /\ ~DropText(w)
      BY <2>2 DEF Look, DropText
    <3> QED BY <2>2, <3>1, <3>2, Moves
  <2>4. CASE Create(w)
    <3>1. db.header = <<>> /\ db.text = <<>> /\ db'.header = <<>> /\ db'.text = <<>>
      BY <2>4 DEF Create, KeepInv, EmptyTables, NoTables
    <3> QED BY <2>1, <3>1, PrefixOf
  <2>5. CASE DropHeader(w)
    BY <2>5 DEF DropHeader, KeepInv, KeepOK
  <2>6. CASE Commit(w)
    <3>1. db'.header = db.header \o rows[w].header /\ db'.text = db.text \o rows[w].text
      BY <2>6 DEF Commit, TypeInv, TypeOK
    <3>2. rows[w].header \in Seq(HeaderRows) /\ rows[w].text \in Seq(TextRows)
      BY DEF TypeInv, TypeOK
    <3> QED BY <2>1, <3>1, <3>2, PrefixOf
  <2> QED BY <2>3, <2>4, <2>5, <2>6
<1>2. Spec => []KeepInv
  BY TypeInvariance, InitKeep, NextKeep, PTL DEF Spec
<1> QED BY <1>1, <1>2, TypeInvariance, PTL DEF Spec, KeptUnlessOverride

-----------------------------------------------------------------------------
(***************************************************************************)
(* Titles and texts.  As long as no two runs overlap, every raw file holds *)
(* books of one data set, and so do the two CSV files of one name, if both *)
(* are there and the header CSV is not empty: a run empties the header CSV *)
(* before it opens the text CSV, so what a killed run leaves of a pair     *)
(* that does not belong together is a header CSV that COPY refuses.        *)
(***************************************************************************)
\* The data sets that the lines of a file, or the rows of a table, are of.
Of(lines) ==
  {lines[i].dataset : i \in {j \in DOMAIN lines : lines[j].is \in {"book", "chunk", "cut", "short"}}}

Single(S) == \A x, y \in S : x = y
SameRow(r, t) == r.id = t.id /\ r.dataset = t.dataset
CsvOne(h, t) == h \notin {Missing, <<>>} /\ t # Missing => Single(Of(h) \cup Of(t))

AtWork(w) ==
  /\ pc[w] = "download" => Of(raw[RawOf(w)]) \subseteq {args[w].dataset}
  /\ pc[w] = "openText" => "header" \in holds[w] /\ header[CsvOf(w)] = <<>>
  /\ pc[w] = "process" =>
       /\ {"header", "text"} \subseteq holds[w]
       /\ Of(header[CsvOf(w)]) \cup Of(text[CsvOf(w)]) \subseteq Of(raw[RawOf(w)])
  /\ pc[w] \in {"copyHeader", "copyText", "commit"} => db.header = <<>> /\ db.text = <<>>
  /\ pc[w] \in {"copyText", "commit"} =>
       /\ header[CsvOf(w)] \notin {Missing, <<>>}
       /\ Of(rows[w].header) \subseteq Of(header[CsvOf(w)])
  /\ pc[w] = "commit" =>
       \A i \in DOMAIN rows[w].text : \E j \in DOMAIN rows[w].header :
         SameRow(rows[w].header[j], rows[w].text[i])

OneAtATime == \A w, o \in Runs : pc[w] # "idle" /\ pc[o] # "idle" => w = o
RawSingle == \A l \in Limits : raw[l] # Missing => Single(Of(raw[l]))
CsvSingle == \A f \in CsvNames : CsvOne(header[f], text[f])
DbTitles == \A i \in DOMAIN db.text : \E j \in DOMAIN db.header : SameRow(db.header[j], db.text[i])

Calm == OneAtATime /\ RawSingle /\ CsvSingle /\ DbTitles /\ \A w \in Runs : AtWork(w)

TitlesInv == ~overlap => Calm

LEMMA NotMissing ==
  ASSUME NEW f
  PROVE  /\ f \in Seq(RawLines) => f # Missing
         /\ f \in Seq(HeaderLines) => f # Missing
         /\ f \in Seq(TextLines) => f # Missing
<1> DEFINE All == HeaderLines \cup TextLines
<1>1. RawLines \subseteq All /\ HeaderLines \subseteq All /\ TextLines \subseteq All
  BY DEF HeaderLines
<1> HIDE DEF All
<1>2. (f \in Seq(RawLines) \/ f \in Seq(HeaderLines) \/ f \in Seq(TextLines)) => f \in Seq(All)
  BY <1>1, SeqMonotonic
<1> QED BY <1>2, MissingAssumption DEF All

LEMMA OfSmall == Of(<<>>) = {} /\ Of(<<ColumnNames>>) = {}
<1>1. \A i \in DOMAIN <<ColumnNames>> : <<ColumnNames>>[i].is = "head"
  BY DEF ColumnNames
<1> QED BY <1>1 DEF Of

LEMMA OfWriteAt ==
  ASSUME NEW L, NEW file \in Seq(L), NEW place \in Nat, NEW lines \in Seq(L)
  PROVE  Of(WriteAt(file, place, lines)) \subseteq Of(file) \cup Of(lines)
<1> DEFINE m == IF Len(file) > place + Len(lines) THEN Len(file) ELSE place + Len(lines)
<1> DEFINE r == WriteAt(file, place, lines)
<1>1. /\ Len(file) \in Nat /\ Len(lines) \in Nat /\ m \in Nat
      /\ DOMAIN file = 1 .. Len(file) /\ DOMAIN lines = 1 .. Len(lines)
  BY LenProperties
<1>2. r = [i \in 1 .. m |->
             IF i \in place + 1 .. place + Len(lines) THEN lines[i - place]
             ELSE IF i <= Len(file) THEN file[i] ELSE Hole]
  BY DEF WriteAt
<1> HIDE DEF r, m
<1>3. ASSUME NEW x \in Of(r) PROVE x \in Of(file) \cup Of(lines)
  <2>1. PICK i \in DOMAIN r : r[i].is \in {"book", "chunk", "cut", "short"} /\ x = r[i].dataset
    BY DEF Of
  <2>2. i \in 1 .. m
    BY <1>2
  <2>3. CASE i \in place + 1 .. place + Len(lines)
    <3>1. i - place \in DOMAIN lines
      BY <1>1, <2>3
    <3>2. r[i] = lines[i - place]
      BY <1>2, <2>2, <2>3
    <3> QED BY <2>1, <3>1, <3>2 DEF Of
  <2>4. CASE i \notin place + 1 .. place + Len(lines) /\ i <= Len(file)
    <3>1. i \in DOMAIN file
      BY <1>1, <2>2, <2>4
    <3>2. r[i] = file[i]
      BY <1>2, <2>2, <2>4
    <3> QED BY <2>1, <3>1, <3>2 DEF Of
  <2>5. CASE i \notin place + 1 .. place + Len(lines) /\ ~(i <= Len(file))
    <3>1. r[i] = Hole
      BY <1>2, <2>2, <2>5
    <3> QED BY <2>1, <3>1 DEF Hole
  <2> QED BY <2>3, <2>4, <2>5
<1> QED BY <1>3 DEF r

\* The data set of a line is that of its beginning and of its row.
LEMMA CutOf ==
  /\ \A x \in RawLines \cup HeaderLines \cup TextLines :
       x.is \in {"book", "chunk"} => Cut(x).dataset = x.dataset /\ Cut(x).is = "cut"
  /\ \A x \in RawLines \cup HeaderLines \cup TextLines :
       x.is = "cut" => Short(x).dataset = x.dataset /\ Short(x).is = "short"
<1>1. ASSUME NEW b \in Books
      PROVE  /\ b.is = "book" /\ Cut(b).dataset = b.dataset /\ Cut(b).is = "cut"
             /\ Short(Cut(b)).dataset = b.dataset /\ Short(Cut(b)).is = "short"
  <2>1. PICK d \in Datasets : \E i \in DOMAIN Library[d] : b = Book(d, i)
    BY BookIs
  <2>2. PICK i \in DOMAIN Library[d] : b = Book(d, i)
    BY <2>1
  <2> QED BY <2>2 DEF Book, Cut, Short
<1>2. ASSUME NEW c \in Chunks
      PROVE  /\ c.is = "chunk" /\ Cut(c).dataset = c.dataset /\ Cut(c).is = "cut"
             /\ Short(Cut(c)).dataset = c.dataset /\ Short(Cut(c)).is = "short"
  <2>1. PICK d \in Datasets : \E i, n, piece : c = Chunk(d, i, n, piece)
    BY ChunkIs
  <2>2. PICK i, n, piece : c = Chunk(d, i, n, piece)
    BY <2>1
  <2> QED BY <2>2 DEF Chunk, Cut, Short
<1>3. Hole.is = "hole" /\ ColumnNames.is = "head"
  BY DEF Hole, ColumnNames
<1>4. ASSUME NEW x \in RawLines \cup HeaderLines \cup TextLines
      PROVE  x \in Books \cup Chunks \/ (\E c \in Books \cup Chunks : x = Cut(c)) \/ x \in {Hole, ColumnNames}
  BY DEF RawLines, HeaderLines, TextLines
<1> QED BY <1>1, <1>2, <1>3, <1>4

\* The lines of files, of any kind.
AllLines == RawLines \cup HeaderLines \cup TextLines

\* What has reached the disk of a file is of no other data set than the file;
\* if there is any, the file is not empty.
LEMMA OfFlushed ==
  ASSUME NEW file \in Seq(AllLines), NEW f \in Flushed(file)
  PROVE  Of(f) \subseteq Of(file) /\ (f # <<>> => file # <<>>)
<1>0. Len(file) \in Nat /\ DOMAIN file = 1 .. Len(file) /\ \A i \in 1 .. Len(file) : file[i] \in AllLines
  BY LenProperties, ElementOfSeq
<1>1. ASSUME NEW k \in 0 .. Len(file)
      PROVE  LET t == SubSeq(file, 1, k)
             IN /\ t \in Seq(AllLines) /\ DOMAIN t = 1 .. k /\ Len(t) = k
                /\ \A i \in 1 .. k : t[i] = file[i]
  <2> DEFINE t == SubSeq(file, 1, k)
  <2>1. \A i \in 1 .. k : file[i] \in AllLines
    BY <1>0
  <2>2. /\ t \in Seq(AllLines)
        /\ Len(t) = IF 1 <= k THEN k - 1 + 1 ELSE 0
        /\ \A i \in 1 .. k - 1 + 1 : t[i] = file[1 + i - 1]
    BY <1>0, <2>1, SubSeqProperties
  <2>3. DOMAIN t = 1 .. Len(t)
    BY <2>2, LenProperties
  <2> HIDE DEF t
  <2>4. Len(t) = k /\ \A i \in 1 .. k : t[i] = file[i]
    BY <1>0, <2>2
  <2> QED BY <2>2, <2>3, <2>4 DEF t
<1>2. f # <<>> => file # <<>>
  <2> SUFFICES ASSUME file = <<>> PROVE f = <<>>
    OBVIOUS
  <2>1. Len(file) = 0 /\ DOMAIN file = {}
    BY <1>0
  <2>2. \A l \in 0 .. Len(file) : SubSeq(file, 1, l) = <<>>
    BY <2>1, SubSeqEmpty
  <2> QED BY <2>1, <2>2 DEF Flushed, Prefixes
<1>3. CASE f \in Prefixes(file)
  <2>1. PICK k \in 0 .. Len(file) : f = SubSeq(file, 1, k)
    BY <1>3 DEF Prefixes
  <2>2. DOMAIN f = 1 .. k /\ \A i \in 1 .. k : f[i] = file[i]
    BY <1>1, <2>1
  <2>3. 1 .. k \subseteq DOMAIN file
    BY <1>0
  <2> QED BY <1>2, <2>2, <2>3 DEF Of
<1>4. ASSUME NEW i \in DOMAIN file, file[i].is \in {"book", "chunk"},
             f = Append(SubSeq(file, 1, i - 1), Cut(file[i]))
      PROVE  Of(f) \subseteq Of(file)
  <2> DEFINE t == SubSeq(file, 1, i - 1)
  <2>1. i \in 1 .. Len(file) /\ i - 1 \in 0 .. Len(file)
    BY <1>0
  <2>2. /\ t \in Seq(AllLines) /\ DOMAIN t = 1 .. i - 1 /\ Len(t) = i - 1
        /\ \A j \in 1 .. i - 1 : t[j] = file[j]
    BY <1>1, <2>1
  <2>3. file[i] \in AllLines /\ Cut(file[i]).dataset = file[i].dataset
    BY <1>0, <1>4, <2>1, CutOf DEF AllLines
  <2> HIDE DEF t
  <2>4. t \in Seq(AllLines \cup {Cut(file[i])}) /\ Cut(file[i]) \in AllLines \cup {Cut(file[i])}
    BY <2>2, SeqMonotonic
  <2>5. /\ f \in Seq(AllLines \cup {Cut(file[i])}) /\ Len(f) = Len(t) + 1
        /\ \A j \in 1 .. Len(t) : f[j] = t[j]
        /\ f[Len(t) + 1] = Cut(file[i])
    BY <1>4, <2>4, AppendProperties DEF t
  <2>6. DOMAIN f = 1 .. i
    BY <2>1, <2>2, <2>5, LenProperties
  <2>7. ASSUME NEW x \in Of(f) PROVE x \in Of(file)
    <3>1. PICK j \in 1 .. i : f[j].is \in {"book", "chunk", "cut", "short"} /\ x = f[j].dataset
      BY <2>6 DEF Of
    <3>2. CASE j = i
      <4>1. f[j] = Cut(file[i])
        BY <2>1, <2>2, <2>5, <3>2
      <4> QED BY <1>4, <2>3, <3>1, <4>1 DEF Of
    <3>3. CASE j # i
      <4>1. j \in 1 .. i - 1 /\ j \in DOMAIN file
        BY <1>0, <2>1, <3>3
      <4>2. f[j] = file[j]
        BY <2>2, <2>5, <4>1
      <4> QED BY <3>1, <4>1, <4>2 DEF Of
    <3> QED BY <3>2, <3>3
  <2> QED BY <2>7
<1>5. f \in Prefixes(file) \/ \E i \in DOMAIN file : /\ file[i].is \in {"book", "chunk"}
                                                   /\ f = Append(SubSeq(file, 1, i - 1), Cut(file[i]))
  BY DEF Flushed
<1> QED BY <1>2, <1>3, <1>4, <1>5

\* The rows that COPY takes are of the data sets of the file, and all are rows
\* of one.
LEMMA OfTaken ==
  ASSUME NEW lines \in Seq(AllLines), Copies(lines)
  PROVE  LET t == Taken(Tail(lines))
         IN /\ Of(t) \subseteq Of(lines)
            /\ \A i \in DOMAIN t : t[i].dataset \in Of(t)
<1> DEFINE u == Tail(lines)
<1> DEFINE t == Taken(u)
<1>1. lines # <<>> /\ \A i \in 2 .. Len(lines) : lines[i].is \in {"book", "chunk", "cut"}
  BY DEF Copies
<1>2. u \in Seq(AllLines) /\ Len(u) = Len(lines) - 1 /\ \A i \in 1 .. Len(u) : u[i] = lines[i + 1]
  BY <1>1, HeadTailProperties
<1>3. /\ Len(u) \in Nat /\ DOMAIN u = 1 .. Len(u) /\ Len(lines) \in Nat
      /\ DOMAIN lines = 1 .. Len(lines)
  BY <1>2, LenProperties
<1> HIDE DEF u
<1>4. t = [i \in 1 .. Len(u) |-> IF u[i].is = "cut" THEN Short(u[i]) ELSE u[i]]
  BY <1>3 DEF Taken, Short
<1> HIDE DEF t
<1>5. DOMAIN t = 1 .. Len(u)
  BY <1>4
<1>6. ASSUME NEW i \in 1 .. Len(u)
      PROVE  /\ t[i].is \in {"book", "chunk", "short"} /\ t[i].dataset = lines[i + 1].dataset
             /\ lines[i + 1].dataset \in Of(lines)
  <2>1. i + 1 \in 2 .. Len(lines) /\ i + 1 \in DOMAIN lines
    BY <1>2, <1>3
  <2>2. u[i] = lines[i + 1] /\ u[i] \in AllLines /\ u[i].is \in {"book", "chunk", "cut"}
    BY <1>1, <1>2, <2>1, ElementOfSeq
  <2>3. lines[i + 1].dataset \in Of(lines)
    BY <1>1, <2>1 DEF Of
  <2>4. CASE u[i].is = "cut"
    <3>1. t[i] = Short(u[i])
      BY <1>4, <2>4
    <3>2. Short(u[i]).dataset = u[i].dataset /\ Short(u[i]).is = "short"
      BY <2>2, <2>4, CutOf DEF AllLines
    <3> QED BY <2>2, <2>3, <3>1, <3>2
  <2>5. CASE u[i].is # "cut"
    <3>1. t[i] = u[i]
      BY <1>4, <2>5
    <3> QED BY <2>2, <2>3, <2>5, <3>1
  <2> QED BY <2>4, <2>5
<1>7. Of(t) \subseteq Of(lines)
  BY <1>5, <1>6 DEF Of
<1>8. \A i \in DOMAIN t : t[i].dataset \in Of(t)
  BY <1>5, <1>6 DEF Of
<1> QED BY <1>7, <1>8 DEF t, u

\* Nobody writes what the only run at work reads.
LEMMA IdleReads ==
  ASSUME TypeInv, NEW w \in Runs, \A o \in Runs \ {w} : pc[o] = "idle"
  PROVE  /\ \A o \in Runs \ {w} : holds[o] = {}
         /\ VisibleRaw(w) = {raw[RawOf(w)]}
         /\ VisibleHeader(w) = {header[CsvOf(w)]}
         /\ VisibleText(w) = {text[CsvOf(w)]}
<1>1. \A o \in Runs \ {w} : holds[o] = {}
  BY DEF TypeInv, TypeOK
<1>2. RawWriters(w) = {} /\ CsvWriters(w, "header") = {} /\ CsvWriters(w, "text") = {}
  BY <1>1 DEF RawWriters, CsvWriters
<1> QED BY <1>1, <1>2 DEF VisibleRaw, VisibleHeader, VisibleText, Visible

LEMMA ReadsAll ==
  ASSUME TypeInv, OneAtATime, NEW w \in Runs, pc[w] # "idle"
  PROVE  /\ \A o \in Runs \ {w} : pc[o] = "idle" /\ holds[o] = {}
         /\ VisibleRaw(w) = {raw[RawOf(w)]}
         /\ VisibleHeader(w) = {header[CsvOf(w)]}
         /\ VisibleText(w) = {text[CsvOf(w)]}
<1>1. \A o \in Runs \ {w} : pc[o] = "idle"
  BY DEF OneAtATime
<1> QED BY <1>1, IdleReads

LEMMA CalmStep ==
  ASSUME TypeInv, Calm, NEW w \in Runs, pc[w] # "idle", Others(w),
         RawSingle', CsvSingle', DbTitles', AtWork(w)'
  PROVE  Calm'
<1>1. ASSUME NEW o \in Runs, o # w PROVE pc'[o] = "idle"
  BY <1>1, ReadsAll DEF Calm, Others
<1>2. OneAtATime'
  BY <1>1 DEF OneAtATime
<1>3. \A o \in Runs : o # w => AtWork(o)'
  BY <1>1 DEF AtWork
<1> QED BY <1>2, <1>3 DEF Calm

\* Steps that touch neither files nor tables, to where nothing is required.
LEMMA CalmIdle ==
  ASSUME TypeInv, Calm, NEW w \in Runs, pc[w] # "idle", Others(w), UNCHANGED <<files, db>>,
         pc'[w] \notin {"download", "openText", "process", "copyHeader", "copyText", "commit"}
  PROVE  Calm'
<1>1. RawSingle' /\ CsvSingle' /\ DbTitles'
  BY DEF Calm, RawSingle, CsvSingle, DbTitles, files
<1>2. AtWork(w)'
  BY DEF AtWork
<1> QED BY <1>1, <1>2, CalmStep

LEMMA CalmMove ==
  ASSUME TypeInv, Calm, NEW w \in Runs,
         \/ TakeRaw(w) \/ TakeCsv(w) \/ Look(w) \/ DropText(w) \/ Downloaded(w) \/ Processed(w)
  PROVE  Calm'
<1>1. /\ pc[w] # "idle" /\ Others(w) /\ UNCHANGED <<files, db>>
      /\ pc'[w] \in {"csv", "look", "create", "dropHeader"}
  BY DEF TakeRaw, TakeCsv, Look, DropText, Downloaded, Processed, Others, Goto, TypeInv, TypeOK
<1> QED BY <1>1, CalmIdle

LEMMA CalmEnd ==
  ASSUME TypeInv, Calm, NEW w \in Runs, pc[w] # "idle", Fail(w)
  PROVE  Calm'
<1>1. /\ Others(w) /\ UNCHANGED <<files, db>> /\ pc'[w] = "idle"
  BY DEF Fail, End, Others, Goto, TypeInv, TypeOK
<1> QED BY <1>1, CalmIdle

LEMMA CalmStart ==
  ASSUME TypeInv, Calm, NEW w \in Runs, Start(w), ~overlap'
  PROVE  Calm'
<1>1. \A o \in Runs \ {w} : pc[o] = "idle"
  BY DEF Start
<1>2. PICK a \in ArgSet : Goto(w, IF a.skip_load THEN "post" ELSE "raw")
  BY DEF Start
<1>3. (\A o \in Runs \ {w} : pc'[o] = "idle") /\ pc'[w] \in {"raw", "post"}
  BY <1>1, <1>2 DEF Goto, TypeInv, TypeOK
<1>4. OneAtATime' /\ \A o \in Runs : AtWork(o)'
  <2>1. OneAtATime'
    BY <1>3 DEF OneAtATime
  <2>2. ASSUME NEW o \in Runs PROVE AtWork(o)'
    <3>1. pc'[o] \in {"idle", "raw", "post"}
      BY <1>3
    <3> QED BY <3>1 DEF AtWork
  <2> QED BY <2>1, <2>2
<1>5. RawSingle' /\ CsvSingle' /\ DbTitles'
  BY DEF Start, Calm, RawSingle, CsvSingle, DbTitles, files
<1> QED BY <1>4, <1>5 DEF Calm

LEMMA CalmOpenRaw ==
  ASSUME TypeInv, Calm, NEW w \in Runs, OpenRaw(w)
  PROVE  Calm'
<1>1. raw \in [Limits -> {Missing} \cup Seq(RawLines)] /\ RawOf(w) \in Limits
  BY NamesOf DEF TypeInv, TypeOK
<1>2. /\ pc[w] = "raw" /\ pc'[w] = "download" /\ Others(w)
      /\ raw' = [raw EXCEPT ![RawOf(w)] = <<>>] /\ UNCHANGED <<header, text, db, args>>
  BY DEF OpenRaw, Others, Goto, TypeInv, TypeOK
<1>3. Of(raw'[RawOf(w)]) = {} /\ RawOf(w)' = RawOf(w)
  BY <1>1, <1>2, OfSmall DEF RawOf
<1>4. RawSingle'
  <2>1. ASSUME NEW l \in Limits, raw'[l] # Missing PROVE Single(Of(raw'[l]))
    <3>1. CASE l = RawOf(w)
      BY <1>3, <3>1 DEF Single
    <3>2. CASE l # RawOf(w)
      <4>1. raw'[l] = raw[l]
        BY <1>1, <1>2, <3>2
      <4> QED BY <2>1, <4>1 DEF Calm, RawSingle
    <3> QED BY <3>1, <3>2
  <2> QED BY <2>1 DEF RawSingle
<1>5. CsvSingle' /\ DbTitles'
  BY <1>2 DEF Calm, CsvSingle, DbTitles
<1>6. AtWork(w)'
  BY <1>2, <1>3 DEF AtWork
<1> QED BY <1>2, <1>4, <1>5, <1>6, CalmStep

LEMMA CalmDownload ==
  ASSUME TypeInv, Calm, NEW w \in Runs, Download(w)
  PROVE  Calm'
<1> DEFINE d == args[w].dataset
<1> DEFINE b == Book(d, at[w] + 1)
<1> DEFINE file == raw[RawOf(w)]
<1> DEFINE new == WriteAt(file, at[w], <<b>>)
<1>1. raw \in [Limits -> {Missing} \cup Seq(RawLines)] /\ RawOf(w) \in Limits /\ at[w] \in Nat
  BY NamesOf DEF TypeInv, TypeOK
<1>2. /\ pc[w] = "download" /\ pc' = pc /\ args' = args /\ Others(w)
      /\ raw' = [raw EXCEPT ![RawOf(w)] = new] /\ UNCHANGED <<header, text, db>>
  BY DEF Download, Others
<1>3. file \in Seq(RawLines) /\ <<b>> \in Seq(RawLines)
  <2>1. b \in RawLines
    BY NextBook DEF Download, RawLines
  <2> HIDE DEF b
  <2> QED BY <1>2, <2>1 DEF TypeInv, OpenOK
<1>4. Of(<<b>>) = {d}
  <2>1. b.is = "book" /\ b.dataset = d
    BY DEF Book
  <2> HIDE DEF b, d
  <2>2. DOMAIN <<b>> = {1} /\ <<b>>[1] = b
    OBVIOUS
  <2> QED BY <2>1, <2>2 DEF Of
<1> HIDE DEF b
<1>5. Of(file) \subseteq {d}
  BY <1>2 DEF Calm, AtWork
<1>6. Of(new) \subseteq {d}
  <2>1. Of(new) \subseteq Of(file) \cup Of(<<b>>)
    BY <1>1, <1>3, OfWriteAt
  <2> QED BY <1>4, <1>5, <2>1
<1> HIDE DEF new
<1>7. RawOf(w)' = RawOf(w) /\ raw'[RawOf(w)] = new
  BY <1>1, <1>2 DEF RawOf
<1>8. RawSingle'
  <2>1. ASSUME NEW l \in Limits, raw'[l] # Missing PROVE Single(Of(raw'[l]))
    <3>1. CASE l = RawOf(w)
      BY <1>6, <1>7, <3>1 DEF Single
    <3>2. CASE l # RawOf(w)
      <4>1. raw'[l] = raw[l]
        BY <1>1, <1>2, <3>2
      <4> QED BY <2>1, <4>1 DEF Calm, RawSingle
    <3> QED BY <3>1, <3>2
  <2> QED BY <2>1 DEF RawSingle
<1>9. CsvSingle' /\ DbTitles'
  BY <1>2 DEF Calm, CsvSingle, DbTitles
<1>10. AtWork(w)'
  BY <1>2, <1>6, <1>7 DEF AtWork
<1> QED BY <1>2, <1>8, <1>9, <1>10, CalmStep

LEMMA CalmOpenHeader ==
  ASSUME TypeInv, Calm, NEW w \in Runs, OpenHeader(w)
  PROVE  Calm'
<1>1. header \in [CsvNames -> {Missing} \cup Seq(HeaderLines)] /\ CsvOf(w) \in CsvNames
  BY NamesOf DEF TypeInv, TypeOK
<1>2. /\ pc[w] = "csv" /\ pc'[w] = "openText" /\ Others(w) /\ holds'[w] = {"header"}
      /\ header' = [header EXCEPT ![CsvOf(w)] = <<>>] /\ UNCHANGED <<raw, text, db, args>>
  BY DEF OpenHeader, Others, Goto, TypeInv, TypeOK
<1>3. CsvOf(w)' = CsvOf(w) /\ header'[CsvOf(w)] = <<>>
  BY <1>1, <1>2 DEF CsvOf
<1>4. CsvSingle'
  <2>1. ASSUME NEW f \in CsvNames PROVE CsvOne(header'[f], text'[f])
    <3>1. CASE f = CsvOf(w)
      BY <1>3, <3>1 DEF CsvOne
    <3>2. CASE f # CsvOf(w)
      <4>1. header'[f] = header[f] /\ text'[f] = text[f]
        BY <1>1, <1>2, <3>2
      <4> QED BY <4>1 DEF Calm, CsvSingle
    <3> QED BY <3>1, <3>2
  <2> QED BY <2>1 DEF CsvSingle
<1>5. RawSingle' /\ DbTitles'
  BY <1>2 DEF Calm, RawSingle, DbTitles
<1>6. AtWork(w)'
  BY <1>2, <1>3 DEF AtWork
<1> QED BY <1>2, <1>4, <1>5, <1>6, CalmStep

\* A step that writes the CSV files of one name.
LEMMA CsvPut ==
  ASSUME Calm, NEW n \in CsvNames, CsvOne(header'[n], text'[n]),
         \A f \in CsvNames \ {n} : header'[f] = header[f] /\ text'[f] = text[f]
  PROVE  CsvSingle'
BY DEF Calm, CsvSingle

LEMMA CalmOpenText ==
  ASSUME TypeInv, Calm, NEW w \in Runs, OpenText(w)
  PROVE  Calm'
<1>1. /\ header \in [CsvNames -> {Missing} \cup Seq(HeaderLines)]
      /\ text \in [CsvNames -> {Missing} \cup Seq(TextLines)] /\ CsvOf(w) \in CsvNames
  BY NamesOf DEF TypeInv, TypeOK
<1>2. /\ pc[w] = "openText" /\ pc'[w] = "process" /\ Others(w)
      /\ holds'[w] = holds[w] \cup {"text"} /\ UNCHANGED <<raw, db, args>>
      /\ text' = [text EXCEPT ![CsvOf(w)] = <<ColumnNames>>]
      /\ PutHeader(w, 0, ColumnNames)
  BY DEF OpenText, Others, Goto, TypeInv, TypeOK
<1>3. "header" \in holds[w] /\ header[CsvOf(w)] = <<>>
  BY <1>2 DEF Calm, AtWork
<1> DEFINE new == WriteAt(<<>>, 0, <<ColumnNames>>)
<1>4. Of(new) = {}
  <2>1. <<>> \in Seq({ColumnNames}) /\ <<ColumnNames>> \in Seq({ColumnNames})
    OBVIOUS
  <2>2. Of(new) \subseteq Of(<<>>) \cup Of(<<ColumnNames>>)
    BY <2>1, OfWriteAt
  <2> QED BY <2>2, OfSmall
<1>5. header' = [header EXCEPT ![CsvOf(w)] = new]
  BY <1>1, <1>2, <1>3 DEF PutHeader
<1> HIDE DEF new
<1>6. /\ CsvOf(w)' = CsvOf(w) /\ RawOf(w)' = RawOf(w)
      /\ Of(header'[CsvOf(w)]) = {} /\ Of(text'[CsvOf(w)]) = {}
      /\ \A f \in CsvNames \ {CsvOf(w)} : header'[f] = header[f] /\ text'[f] = text[f]
  BY <1>1, <1>2, <1>4, <1>5, OfSmall DEF CsvOf, RawOf
<1>7. CsvSingle'
  <2>1. CsvOne(header'[CsvOf(w)], text'[CsvOf(w)])
    BY <1>6 DEF CsvOne, Single
  <2> QED BY <1>1, <1>6, <2>1, CsvPut
<1>8. RawSingle' /\ DbTitles'
  BY <1>2 DEF Calm, RawSingle, DbTitles
<1>9. AtWork(w)'
  BY <1>2, <1>3, <1>6 DEF AtWork
<1> QED BY <1>2, <1>7, <1>8, <1>9, CalmStep

LEMMA OfChunks ==
  ASSUME NEW d, NEW i, NEW size
  PROVE  Of(ChunkRows(d, i, size)) \subseteq {d}
<1> DEFINE pieces == SplitText(Library[d][i], size)
<1>1. ChunkRows(d, i, size) = [n \in DOMAIN pieces |-> Chunk(d, i, n - 1, pieces[n])]
  BY DEF ChunkRows
<1>2. \A n, piece : Chunk(d, i, n, piece).dataset = d
  BY DEF Chunk
<1> HIDE DEF pieces
<1>3. \A n \in DOMAIN ChunkRows(d, i, size) : ChunkRows(d, i, size)[n].dataset = d
  BY <1>1, <1>2
<1> QED BY <1>3 DEF Of

LEMMA CalmProcessBook ==
  ASSUME TypeInv, Calm, NEW w \in Runs, ProcessBook(w)
  PROVE  Calm'
<1> DEFINE lines == raw[RawOf(w)]
<1> DEFINE line == lines[at[w] + 1]
<1> DEFINE chunks == ChunkRows(line.dataset, line.id, args[w].size)
<1>1. /\ pc[w] = "process" /\ pc' = pc /\ args' = args /\ holds' = holds /\ Others(w)
      /\ UNCHANGED <<raw, db>>
  BY DEF ProcessBook, Others
<1>2. /\ header \in [CsvNames -> {Missing} \cup Seq(HeaderLines)]
      /\ text \in [CsvNames -> {Missing} \cup Seq(TextLines)]
      /\ CsvOf(w) \in CsvNames /\ RawOf(w) \in Limits /\ args[w] \in ArgSet
      /\ at[w] \in Nat /\ wrote[w] \in Nat
  BY NamesOf DEF TypeInv, TypeOK
<1>3. {"header", "text"} \subseteq holds[w]
      /\ Of(header[CsvOf(w)]) \cup Of(text[CsvOf(w)]) \subseteq Of(lines)
  BY <1>1 DEF Calm, AtWork
<1>4. /\ lines \in Seq(RawLines)
      /\ header[CsvOf(w)] \in Seq(HeaderLines) /\ text[CsvOf(w)] \in Seq(TextLines)
  BY <1>1, <1>3 DEF TypeInv, OpenOK
<1>5. VisibleRaw(w) = {lines}
  BY <1>1, ReadsAll DEF Calm
<1>6. /\ at[w] < Len(lines) /\ line.is = "book" /\ PutHeader(w, at[w] + 1, line)
      /\ text' = IF "text" \in holds[w]
                 THEN [text EXCEPT ![CsvOf(w)] = WriteAt(@, wrote[w], chunks)]
                 ELSE text
  BY <1>5 DEF ProcessBook
<1>7. Len(lines) \in Nat /\ DOMAIN lines = 1 .. Len(lines) /\ at[w] + 1 \in 1 .. Len(lines)
  <2>1. Len(lines) \in Nat /\ DOMAIN lines = 1 .. Len(lines)
    BY <1>4, LenProperties
  <2> QED BY <1>2, <1>6, <2>1
<1>8. line.dataset \in Of(lines)
  BY <1>6, <1>7 DEF Of
<1>9. line \in Books
  <2>1. Hole.is = "hole" /\ \A b \in Books : Cut(b).is = "cut"
    BY BookIs DEF Hole, Cut, Book
  <2>2. line \in RawLines
    BY <1>4, <1>7, ElementOfSeq
  <2> QED BY <1>6, <2>1, <2>2 DEF RawLines
<1> DEFINE oldH == header[CsvOf(w)]
<1> DEFINE oldT == text[CsvOf(w)]
<1> DEFINE newH == WriteAt(oldH, at[w] + 1, <<line>>)
<1> DEFINE newT == WriteAt(oldT, wrote[w], chunks)
<1>10. Of(newT) \subseteq Of(lines)
  <2>1. chunks \in Seq(Chunks)
    BY <1>2, <1>9, ChunkRowsType
  <2>2. Of(chunks) \subseteq {line.dataset}
    BY OfChunks
  <2> HIDE DEF chunks
  <2>3. chunks \in Seq(TextLines)
    BY <2>1, SeqMonotonic DEF TextLines
  <2>4. Of(newT) \subseteq Of(oldT) \cup Of(chunks)
    BY <1>2, <1>4, <2>3, OfWriteAt
  <2> QED BY <1>3, <1>8, <2>2, <2>4
<1>11. Of(newH) \subseteq Of(lines)
  <2>1. line \in HeaderLines
    BY <1>9 DEF HeaderLines, RawLines
  <2> HIDE DEF line
  <2>2. <<line>> \in Seq(HeaderLines) /\ at[w] + 1 \in Nat
    BY <1>2, <2>1
  <2>3. Of(newH) \subseteq Of(oldH) \cup Of(<<line>>)
    BY <1>4, <2>2, OfWriteAt
  <2>4. Of(<<line>>) \subseteq {line.dataset}
    BY DEF Of
  <2> QED BY <1>3, <1>8, <2>3, <2>4
<1>12. /\ header' = [header EXCEPT ![CsvOf(w)] = newH]
       /\ text' = [text EXCEPT ![CsvOf(w)] = newT]
  BY <1>2, <1>3, <1>6 DEF PutHeader
<1> HIDE DEF newH, newT, chunks, line
<1>13. /\ CsvOf(w)' = CsvOf(w) /\ RawOf(w)' = RawOf(w)
       /\ header'[CsvOf(w)] = newH /\ text'[CsvOf(w)] = newT
       /\ \A f \in CsvNames \ {CsvOf(w)} : header'[f] = header[f] /\ text'[f] = text[f]
  BY <1>1, <1>2, <1>12 DEF CsvOf, RawOf
<1>14. Single(Of(lines))
  <2>1. lines # Missing
    BY <1>4, NotMissing
  <2> QED BY <1>2, <2>1 DEF Calm, RawSingle
<1>15. CsvSingle'
  <2>1. CsvOne(header'[CsvOf(w)], text'[CsvOf(w)])
    BY <1>10, <1>11, <1>13, <1>14 DEF CsvOne, Single
  <2> QED BY <1>2, <1>13, <2>1, CsvPut
<1>16. RawSingle' /\ DbTitles'
  BY <1>1 DEF Calm, RawSingle, DbTitles
<1>17. AtWork(w)'
  BY <1>1, <1>3, <1>10, <1>11, <1>13 DEF AtWork
<1> QED BY <1>1, <1>15, <1>16, <1>17, CalmStep

LEMMA CalmTables ==
  ASSUME TypeInv, Calm, NEW w \in Runs, Create(w) \/ DropHeader(w)
  PROVE  Calm'
<1>1. /\ pc[w] \in {"create", "dropHeader"} /\ pc'[w] = "copyHeader" /\ Others(w)
      /\ db' = EmptyTables /\ UNCHANGED files
  BY DEF Create, DropHeader, Others, Goto, TypeInv, TypeOK
<1>2. db'.header = <<>> /\ db'.text = <<>>
  BY <1>1 DEF EmptyTables, NoTables
<1>3. RawSingle' /\ CsvSingle' /\ DbTitles'
  BY <1>1, <1>2 DEF Calm, RawSingle, CsvSingle, DbTitles, files
<1>4. AtWork(w)'
  BY <1>1, <1>2 DEF AtWork
<1> QED BY <1>1, <1>3, <1>4, CalmStep

LEMMA CalmCopyHeader ==
  ASSUME TypeInv, Calm, NEW w \in Runs, CopyHeader(w)
  PROVE  Calm'
<1> DEFINE lines == header[CsvOf(w)]
<1> DEFINE t == Taken(Tail(lines))
<1>1. /\ pc[w] = "copyHeader" /\ pc'[w] = "copyText" /\ Others(w)
      /\ UNCHANGED <<raw, header, text, db, args>>
  BY DEF CopyHeader, Others, Goto, files, TypeInv, TypeOK
<1>2. VisibleHeader(w) = {lines}
  BY <1>1, ReadsAll DEF Calm
<1>3. Copies(lines) /\ rows' = [rows EXCEPT ![w].header = t]
  BY <1>2 DEF CopyHeader
<1>4. lines \notin {Missing, <<>>} /\ lines \in Seq(AllLines)
  <2>1. lines \notin {Missing, <<>>}
    BY <1>3 DEF Copies
  <2>2. lines \in Seq(HeaderLines)
    BY <2>1, NamesOf DEF TypeInv, TypeOK
  <2> QED BY <2>1, <2>2, SeqMonotonic DEF AllLines
<1>5. Of(t) \subseteq Of(lines)
  BY <1>3, <1>4, OfTaken
<1> HIDE DEF t
<1>6. rows'[w].header = t /\ CsvOf(w)' = CsvOf(w)
  BY <1>1, <1>3 DEF CsvOf, TypeInv, TypeOK
<1>7. db.header = <<>> /\ db.text = <<>>
  BY <1>1 DEF Calm, AtWork
<1>8. AtWork(w)'
  BY <1>1, <1>4, <1>5, <1>6, <1>7 DEF AtWork
<1>9. RawSingle' /\ CsvSingle' /\ DbTitles'
  BY <1>1 DEF Calm, RawSingle, CsvSingle, DbTitles
<1> QED BY <1>1, <1>8, <1>9, CalmStep

\* Every row of a table of titles is a book's.
LEMMA OfRows ==
  ASSUME NEW t \in Seq(HeaderRows), NEW i \in DOMAIN t
  PROVE  t[i].dataset \in Of(t)
<1>1. ASSUME NEW r \in HeaderRows PROVE r.is \in {"book", "short"}
  <2>1. ASSUME NEW b \in Books PROVE b.is = "book" /\ Short(b).is = "short"
    BY BookIs DEF Book, Short
  <2> QED BY <2>1 DEF HeaderRows
<1>2. t[i] \in HeaderRows
  BY LenProperties, ElementOfSeq
<1> QED BY <1>1, <1>2 DEF Of

LEMMA CalmCopyText ==
  ASSUME TypeInv, Calm, NEW w \in Runs, CopyText(w)
  PROVE  Calm'
<1> DEFINE lines == text[CsvOf(w)]
<1> DEFINE t == Taken(Tail(lines))
<1> DEFINE h == rows[w].header
<1>1. /\ pc[w] = "copyText" /\ pc'[w] = "commit" /\ Others(w)
      /\ UNCHANGED <<raw, header, text, db, args>>
  BY DEF CopyText, Others, Goto, files, TypeInv, TypeOK
<1>2. VisibleText(w) = {lines}
  BY <1>1, ReadsAll DEF Calm
<1>3. /\ Copies(lines) /\ TextFits(t, db.text, h \o db.header)
      /\ rows' = [rows EXCEPT ![w].text = t]
  BY <1>2 DEF CopyText
<1>4. lines # Missing /\ lines \in Seq(AllLines) /\ CsvOf(w) \in CsvNames
  <2>1. lines # Missing
    BY <1>3 DEF Copies
  <2>2. lines \in Seq(TextLines) /\ CsvOf(w) \in CsvNames
    BY <2>1, NamesOf DEF TypeInv, TypeOK
  <2> QED BY <2>1, <2>2, SeqMonotonic DEF AllLines
<1>5. Of(t) \subseteq Of(lines) /\ \A i \in DOMAIN t : t[i].dataset \in Of(t)
  BY <1>3, <1>4, OfTaken
<1> HIDE DEF t
<1>6. /\ header[CsvOf(w)] \notin {Missing, <<>>} /\ Of(h) \subseteq Of(header[CsvOf(w)])
      /\ db.header = <<>> /\ db.text = <<>>
  BY <1>1 DEF Calm, AtWork
<1>7. Single(Of(header[CsvOf(w)]) \cup Of(lines))
  BY <1>4, <1>6 DEF Calm, CsvSingle, CsvOne
<1>8. h \in Seq(HeaderRows)
  BY DEF TypeInv, TypeOK
<1>9. rows'[w].text = t /\ rows'[w].header = h /\ CsvOf(w)' = CsvOf(w)
  BY <1>1, <1>3 DEF CsvOf, TypeInv, TypeOK
<1> HIDE DEF lines, h
<1>10. Ids(t) \subseteq Ids(h)
  <2>1. h \o db.header = h
    BY <1>6, <1>8, ConcatEmptySeq
  <2> QED BY <1>3, <2>1 DEF TextFits
<1>11. ASSUME NEW i \in DOMAIN t PROVE \E j \in DOMAIN h : SameRow(h[j], t[i])
  <2>1. t[i].id \in Ids(h)
    BY <1>10 DEF Ids
  <2>2. PICK j \in DOMAIN h : h[j].id = t[i].id
    BY <2>1 DEF Ids
  <2>3. h[j].dataset \in Of(h)
    BY <1>8, OfRows
  <2>4. h[j].dataset = t[i].dataset
    BY <1>5, <1>6, <1>7, <2>3 DEF Single
  <2> QED BY <2>2, <2>4 DEF SameRow
<1>12. AtWork(w)'
  BY <1>1, <1>6, <1>9, <1>11 DEF AtWork
<1>13. RawSingle' /\ CsvSingle' /\ DbTitles'
  BY <1>1 DEF Calm, RawSingle, CsvSingle, DbTitles
<1> QED BY <1>1, <1>12, <1>13, CalmStep

LEMMA CalmCommit ==
  ASSUME TypeInv, Calm, NEW w \in Runs, Commit(w)
  PROVE  Calm'
<1> DEFINE h == rows[w].header
<1> DEFINE t == rows[w].text
<1>1. /\ pc[w] = "commit" /\ pc'[w] = "clean" /\ Others(w) /\ UNCHANGED <<raw, header, text>>
      /\ db'.header = db.header \o h /\ db'.text = db.text \o t
  BY DEF Commit, Others, Goto, files, TypeInv, TypeOK
<1>2. /\ db.header = <<>> /\ db.text = <<>>
      /\ \A i \in DOMAIN t : \E j \in DOMAIN h : SameRow(h[j], t[i])
  BY <1>1 DEF Calm, AtWork
<1>3. h \in Seq(HeaderRows) /\ t \in Seq(TextRows)
  BY DEF TypeInv, TypeOK
<1> HIDE DEF h, t
<1>4. db'.header = h /\ db'.text = t
  BY <1>1, <1>2, <1>3, ConcatEmptySeq
<1>5. DbTitles'
  BY <1>2, <1>4 DEF DbTitles
<1>6. RawSingle' /\ CsvSingle' /\ AtWork(w)'
  BY <1>1 DEF Calm, RawSingle, CsvSingle, AtWork
<1> QED BY <1>1, <1>5, <1>6, CalmStep

\* Of the other runs none has a file open, so removing one takes nothing.
LEMMA CalmRemove ==
  ASSUME TypeInv, Calm, NEW w \in Runs, RemoveHeader(w) \/ RemoveText(w)
  PROVE  Calm'
<1>1. /\ pc[w] \in {"clean", "cleanText"} /\ pc'[w] \in {"cleanText", "post"}
      /\ \A o \in Runs \ {w} : pc'[o] = pc[o] /\ args'[o] = args[o]
      /\ UNCHANGED <<raw, db>>
  BY DEF RemoveHeader, RemoveText, Goto, TypeInv, TypeOK
<1>2. \A o \in Runs : holds'[o] \subseteq holds[o]
  <2>1. CASE RemoveHeader(w) /\ Kept(w)
    BY <2>1 DEF RemoveHeader
  <2>2. CASE RemoveHeader(w) /\ ~Kept(w)
    <3>1. holds' = [o \in Runs |-> IF CsvOf(o) = CsvOf(w) THEN holds[o] \ {"header"} ELSE holds[o]]
      BY <2>2 DEF RemoveHeader
    <3> QED BY <3>1
  <2>3. CASE RemoveText(w)
    <3>1. holds' = [o \in Runs |-> IF CsvOf(o) = CsvOf(w) THEN holds[o] \ {"text"} ELSE holds[o]]
      BY <2>3 DEF RemoveText
    <3> QED BY <3>1
  <2> QED BY <2>1, <2>2, <2>3
<1>3. Others(w)
  <2>1. \A o \in Runs \ {w} : holds[o] = {}
    BY <1>1, ReadsAll DEF Calm
  <2>2. \A o \in Runs \ {w} : holds'[o] = holds[o]
    BY <1>2, <2>1
  <2> QED BY <1>1, <2>2 DEF Others
<1>4. \A f \in CsvNames :
        \/ header'[f] = header[f] /\ text'[f] = text[f]
        \/ header'[f] = Missing \/ text'[f] = Missing
  <2>1. CASE RemoveHeader(w)
    BY <2>1 DEF RemoveHeader, TypeInv, TypeOK
  <2>2. CASE RemoveText(w)
    BY <2>2 DEF RemoveText, TypeInv, TypeOK
  <2> QED BY <2>1, <2>2
<1>5. CsvSingle'
  BY <1>4 DEF Calm, CsvSingle, CsvOne
<1>6. RawSingle' /\ DbTitles' /\ AtWork(w)'
  BY <1>1 DEF Calm, RawSingle, DbTitles, AtWork
<1> QED BY <1>1, <1>3, <1>5, <1>6, CalmStep

LEMMA CalmCrash ==
  ASSUME TypeInv, Calm, NEW w \in Runs, Crash(w)
  PROVE  Calm'
<1>1. /\ raw \in [Limits -> {Missing} \cup Seq(RawLines)] /\ RawOf(w) \in Limits
      /\ header \in [CsvNames -> {Missing} \cup Seq(HeaderLines)]
      /\ text \in [CsvNames -> {Missing} \cup Seq(TextLines)] /\ CsvOf(w) \in CsvNames
      /\ OpenOK(w)
  BY NamesOf DEF TypeInv, TypeOK
<1>2. pc[w] # "idle" /\ pc'[w] = "idle" /\ Others(w) /\ db' = db
  BY DEF Crash, End, Others, Goto, TypeInv, TypeOK
<1>3. ASSUME NEW file, NEW f \in OnDisk(w, "raw", file) \cup OnDisk(w, "header", file) \cup OnDisk(w, "text", file),
             f # file => file \in Seq(AllLines)
      PROVE  /\ f # file => Of(f) \subseteq Of(file)
             /\ f # file /\ f # <<>> => file # <<>>
  BY <1>3, OfFlushed DEF OnDisk
<1> DEFINE oldR == raw[RawOf(w)]
<1> DEFINE oldH == header[CsvOf(w)]
<1> DEFINE oldT == text[CsvOf(w)]
<1>4. PICK f \in OnDisk(w, "raw", oldR) : raw' = [raw EXCEPT ![RawOf(w)] = f]
  BY DEF Crash
<1>5. f = oldR \/ (oldR # Missing /\ Of(f) \subseteq Of(oldR))
  <2>1. f # oldR => oldR \in Seq(RawLines)
    BY <1>1 DEF OnDisk, OpenOK
  <2>2. f # oldR => oldR \in Seq(AllLines)
    BY <2>1, SeqMonotonic DEF AllLines
  <2>3. f # oldR => Of(f) \subseteq Of(oldR)
    BY <1>3, <2>2
  <2> QED BY <2>1, <2>3, NotMissing
<1>6. PICK g \in OnDisk(w, "header", oldH) : header' = [header EXCEPT ![CsvOf(w)] = g]
  BY DEF Crash
<1>7. g = oldH \/ (oldH # Missing /\ Of(g) \subseteq Of(oldH) /\ (g # <<>> => oldH # <<>>))
  <2>1. g # oldH => oldH \in Seq(HeaderLines)
    BY <1>1 DEF OnDisk, OpenOK
  <2>2. g # oldH => oldH \in Seq(AllLines)
    BY <2>1, SeqMonotonic DEF AllLines
  <2>3. g # oldH => Of(g) \subseteq Of(oldH) /\ (g # <<>> => oldH # <<>>)
    BY <1>3, <2>2
  <2> QED BY <2>1, <2>3, NotMissing
<1>8. PICK t \in OnDisk(w, "text", oldT) : text' = [text EXCEPT ![CsvOf(w)] = t]
  BY DEF Crash
<1>9. t = oldT \/ (oldT # Missing /\ Of(t) \subseteq Of(oldT))
  <2>1. t # oldT => oldT \in Seq(TextLines)
    BY <1>1 DEF OnDisk, OpenOK
  <2>2. t # oldT => oldT \in Seq(AllLines)
    BY <2>1, SeqMonotonic DEF AllLines
  <2>3. t # oldT => Of(t) \subseteq Of(oldT)
    BY <1>3, <2>2
  <2> QED BY <2>1, <2>3, NotMissing
<1>10. RawSingle'
  <2>1. ASSUME NEW l \in Limits, raw'[l] # Missing PROVE Single(Of(raw'[l]))
    <3>1. CASE l = RawOf(w)
      <4>1. raw'[l] = f /\ (oldR # Missing => Single(Of(oldR)))
        BY <1>1, <1>4, <3>1 DEF Calm, RawSingle
      <4> QED BY <1>5, <2>1, <4>1 DEF Single
    <3>2. CASE l # RawOf(w)
      <4>1. raw'[l] = raw[l]
        BY <1>1, <1>4, <3>2
      <4> QED BY <2>1, <4>1 DEF Calm, RawSingle
    <3> QED BY <3>1, <3>2
  <2> QED BY <2>1 DEF RawSingle
<1>11. CsvSingle'
  <2>1. /\ header'[CsvOf(w)] = g /\ text'[CsvOf(w)] = t
        /\ \A n \in CsvNames \ {CsvOf(w)} : header'[n] = header[n] /\ text'[n] = text[n]
    BY <1>1, <1>6, <1>8
  <2>2. CsvOne(oldH, oldT)
    BY <1>1 DEF Calm, CsvSingle
  <2> HIDE DEF oldH, oldT
  <2>3. CsvOne(g, t)
    BY <1>7, <1>9, <2>2 DEF CsvOne, Single
  <2> QED BY <1>1, <2>1, <2>3, CsvPut
<1>12. DbTitles' /\ AtWork(w)'
  BY <1>2 DEF Calm, DbTitles, AtWork
<1> QED BY <1>2, <1>10, <1>11, <1>12, CalmStep

LEMMA InitTitles == Init => TitlesInv
<1> SUFFICES ASSUME Init PROVE Calm
  BY DEF TitlesInv
<1>1. OneAtATime /\ \A w \in Runs : AtWork(w)
  BY DEF Init, OneAtATime, AtWork
<1>2. RawSingle /\ CsvSingle
  BY DEF Init, RawSingle, CsvSingle, CsvOne
<1>3. DbTitles
  <2>1. db.text = <<>>
    BY DEF Init, NoTables
  <2> QED BY <2>1 DEF DbTitles
<1> QED BY <1>1, <1>2, <1>3 DEF Calm

LEMMA NextTitles == TypeInv /\ TitlesInv /\ [Next]_vars => TitlesInv'
<1> SUFFICES ASSUME TypeInv, TitlesInv, [Next]_vars, ~overlap' PROVE Calm'
  BY DEF TitlesInv
<1>1. CASE UNCHANGED vars
  <2>1. Calm
    BY <1>1 DEF TitlesInv, vars
  <2> QED BY <1>1, <2>1 DEF Calm, OneAtATime, RawSingle, CsvSingle, DbTitles, AtWork, RawOf, CsvOf, vars
<1>2. CASE Next
  <2>1. PICK w \in Runs :
          \/ Start(w) \/ TakeRaw(w) \/ OpenRaw(w) \/ Download(w) \/ Downloaded(w) \/ TakeCsv(w)
          \/ OpenHeader(w) \/ OpenText(w) \/ ProcessBook(w) \/ Processed(w) \/ Look(w) \/ Create(w)
          \/ DropText(w) \/ DropHeader(w) \/ CopyHeader(w) \/ CopyText(w) \/ Commit(w)
          \/ RemoveHeader(w) \/ RemoveText(w) \/ Crash(w) \/ EndStep(w)
    BY <1>2, NextCases
  <2>2. CASE Start(w)
    <3>1. ~overlap
      BY <2>2 DEF Start, TypeInv, TypeOK
    <3> QED BY <2>2, <3>1, CalmStart DEF TitlesInv
  <2>3. CASE EndStep(w)
    <3>1. Fail(w) /\ pc[w] # "idle"
      BY <2>3, EndStepFails DEF EndStep, DownloadFails, ProcessFails, Refused, CreateFails,
         CopyHeaderFails, CopyTextFails, PostProcess, DeadlockDetected, Deadlocked
    <3>2. Calm
      BY <3>1 DEF TitlesInv, Fail, world
    <3> QED BY <3>1, <3>2, CalmEnd
  <2>4. CASE \/ TakeRaw(w) \/ TakeCsv(w) \/ Look(w) \/ DropText(w) \/ Downloaded(w) \/ Processed(w)
    <3>1. Calm
      BY <2>4 DEF TitlesInv, TakeRaw, TakeCsv, Look, DropText, Downloaded, Processed, world
    <3> QED BY <2>4, <3>1, CalmMove
  <2>5. CASE OpenRaw(w) \/ Download(w) \/ OpenHeader(w) \/ OpenText(w) \/ ProcessBook(w)
    <3>1. Calm
      BY <2>5 DEF TitlesInv, OpenRaw, Download, OpenHeader, OpenText, ProcessBook, world
    <3> QED BY <2>5, <3>1, CalmOpenRaw, CalmDownload, CalmOpenHeader, CalmOpenText, CalmProcessBook
  <2>6. CASE Create(w) \/ DropHeader(w) \/ CopyHeader(w) \/ CopyText(w) \/ Commit(w)
    <3>1. Calm
      BY <2>6 DEF TitlesInv, Create, DropHeader, CopyHeader, CopyText, Commit, world
    <3> QED BY <2>6, <3>1, CalmTables, CalmCopyHeader, CalmCopyText, CalmCommit
  <2>7. CASE RemoveHeader(w) \/ RemoveText(w) \/ Crash(w)
    <3>1. Calm
      BY <2>7 DEF TitlesInv, RemoveHeader, RemoveText, Crash, world
    <3> QED BY <2>7, <3>1, CalmRemove, CalmCrash
  <2> QED BY <2>1, <2>2, <2>3, <2>4, <2>5, <2>6, <2>7
<1> QED BY <1>1, <1>2

\* As long as no two runs overlap, no text stands under the title of another
\* data set: whatever the library, the command lines and the runs that are
\* killed, and also when --use-cache takes the files they left.
THEOREM TitleSafety == Spec => []TitlesMatchText
<1>1. TitlesInv => TitlesMatchText
  BY DEF TitlesInv, Calm, DbTitles, SameRow, TitlesMatchText
<1> QED BY <1>1, TypeInvariance, InitTitles, NextTitles, PTL DEF Spec

-----------------------------------------------------------------------------
(***************************************************************************)
(* What a whole data set is in the files and in the tables, and that the   *)
(* books can be read back from it.                                         *)
(***************************************************************************)
\* How many books a command line asks for, the lines of the first k of them
\* and the lines of their chunks.
Count(a) == LET n == Len(Library[a.dataset]) IN IF a.limit < n THEN a.limit ELSE n
BooksUpTo(a, k) == [i \in 1 .. k |-> Book(a.dataset, i)]
ChunksUpTo(a, k) == FlattenSeq([i \in 1 .. k |-> ChunkRows(a.dataset, i, a.size)])

\* The chunks there may be of what a asks for.
ChunksFor(a) == {r \in Chunks : r.dataset = a.dataset /\ r.id \in 1 .. Count(a)}

LEMMA CountIs ==
  ASSUME NEW a \in ArgSet
  PROVE  /\ Count(a) \in Nat /\ a.dataset \in Datasets /\ a.size \in Nat \ {0}
         /\ \A i \in 1 .. Count(a) :
              /\ i \in DOMAIN Library[a.dataset]
              /\ Library[a.dataset][i].text \in Seq(Chars)
              /\ Library[a.dataset][i].found \in Seq(Headings)
              /\ Book(a.dataset, i) \in Books
<1> DEFINE b == Library[a.dataset]
<1>1. a.dataset \in Datasets /\ a.limit \in Nat /\ a.size \in Nat \ {0}
  BY BookAssumption
<1>2. b \in Seq([text: Seq(Chars), found: Seq(Headings)])
  BY <1>1, BookAssumption
<1>3. Len(b) \in Nat /\ DOMAIN b = 1 .. Len(b)
  BY <1>2, LenProperties
<1>4. Count(a) = IF a.limit < Len(b) THEN a.limit ELSE Len(b)
  BY DEF Count
<1> HIDE DEF b
<1>5. Count(a) \in Nat /\ Count(a) <= Len(b)
  BY <1>1, <1>3, <1>4
<1>6. ASSUME NEW i \in 1 .. Count(a)
      PROVE  i \in DOMAIN b /\ b[i].text \in Seq(Chars) /\ b[i].found \in Seq(Headings)
  <2>1. i \in 1 .. Len(b)
    BY <1>3, <1>5
  <2>2. b[i] \in [text: Seq(Chars), found: Seq(Headings)]
    BY <1>2, <2>1, ElementOfSeq
  <2> QED BY <1>3, <2>1, <2>2
<1>7. ASSUME NEW i \in 1 .. Count(a) PROVE Book(a.dataset, i) \in Books
  BY <1>1, <1>6 DEF Books, b
<1> QED BY <1>1, <1>5, <1>6, <1>7 DEF b

LEMMA RowsOfBook ==
  ASSUME NEW a \in ArgSet, NEW i \in 1 .. Count(a)
  PROVE  LET rs == ChunkRows(a.dataset, i, a.size)
             q == SplitText(Library[a.dataset][i], a.size)
         IN /\ rs \in Seq(ChunksFor(a)) /\ rs \in Seq(Chunks)
            /\ DOMAIN rs = DOMAIN q /\ DOMAIN rs = 1 .. Len(rs) /\ Len(rs) \in Nat
            /\ \A n \in DOMAIN rs :
                 /\ rs[n].id = i /\ rs[n].dataset = a.dataset /\ rs[n].chunk = n - 1
                 /\ rs[n].body = q[n].body /\ rs[n].chapter = q[n].chapter
<1> DEFINE rs == ChunkRows(a.dataset, i, a.size)
           q == SplitText(Library[a.dataset][i], a.size)
<1>1. rs \in Seq(Chunks)
  <2> DEFINE b == Book(a.dataset, i)
  <2>1. b \in Books /\ b.dataset = a.dataset /\ b.id = i
    BY CountIs DEF Book
  <2> HIDE DEF b
  <2>2. ChunkRows(b.dataset, b.id, a.size) \in Seq(Chunks)
    BY <2>1, ChunkRowsType
  <2> QED BY <2>1, <2>2
<1>2. rs = [n \in DOMAIN q |-> Chunk(a.dataset, i, n - 1, q[n])]
  BY DEF ChunkRows
<1> HIDE DEF rs, q
<1>3. DOMAIN rs = DOMAIN q /\ \A n \in DOMAIN rs : rs[n] = Chunk(a.dataset, i, n - 1, q[n])
  BY <1>2
<1>4. ASSUME NEW n \in DOMAIN rs
      PROVE  /\ rs[n].id = i /\ rs[n].dataset = a.dataset /\ rs[n].chunk = n - 1
             /\ rs[n].body = q[n].body /\ rs[n].chapter = q[n].chapter
  BY <1>3 DEF Chunk
<1>5. DOMAIN rs = 1 .. Len(rs) /\ Len(rs) \in Nat
  BY <1>1, LenProperties
<1>6. rs \in Seq(ChunksFor(a))
  <2>1. ASSUME NEW n \in 1 .. Len(rs) PROVE rs[n] \in ChunksFor(a)
    <3>1. rs[n] \in Chunks /\ n \in DOMAIN rs
      BY <1>1, <1>5, ElementOfSeq
    <3> QED BY <1>4, <3>1 DEF ChunksFor
  <2> QED BY <1>1, <2>1, SeqIn
<1> QED BY <1>1, <1>3, <1>4, <1>5, <1>6 DEF rs, q

LEMMA ChunksUpToIs ==
  ASSUME NEW a \in ArgSet, NEW k \in 0 .. Count(a)
  PROVE  /\ ChunksUpTo(a, k) \in Seq(ChunksFor(a)) /\ ChunksUpTo(a, 0) = <<>>
         /\ k < Count(a) =>
              ChunksUpTo(a, k + 1) = ChunksUpTo(a, k) \o ChunkRows(a.dataset, k + 1, a.size)
<1> DEFINE P == ChunksFor(a)
           R(i) == ChunkRows(a.dataset, i, a.size)
           cs(n) == [i \in 1 .. n |-> R(i)]
<1>1. Count(a) \in Nat /\ \A i \in 1 .. Count(a) : R(i) \in Seq(P)
  BY CountIs, RowsOfBook
<1> HIDE DEF P, R
<1>2. ASSUME NEW n \in 0 .. Count(a) PROVE cs(n) \in Seq(Seq(P)) /\ Len(cs(n)) = n
  <2> DEFINE Q == Seq(P)
             c == cs(n)
  <2>1. n \in Nat /\ \A i \in 1 .. n : R(i) \in Q
    BY <1>1
  <2> HIDE DEF Q
  <2>2. c \in [1 .. n -> Q] /\ DOMAIN c = 1 .. n
    BY <2>1
  <2> HIDE DEF c
  <2>3. c \in Seq(Q)
    BY <2>1, <2>2, SeqDef
  <2>4. Len(c) = n
    BY <2>1, <2>2, <2>3, LenProperties
  <2> QED BY <2>3, <2>4 DEF c, Q
<1>3. ChunksUpTo(a, k) = FlattenSeq(cs(k)) /\ ChunksUpTo(a, k + 1) = FlattenSeq(cs(k + 1))
      /\ ChunksUpTo(a, 0) = FlattenSeq(cs(0))
  BY DEF ChunksUpTo, R
<1>4. cs(0) = <<>>
  <2>1. 0 \in 0 .. Count(a)
    BY <1>1
  <2>2. cs(0) \in Seq(Seq(P)) /\ Len(cs(0)) = 0
    BY <1>2, <2>1
  <2> HIDE DEF cs
  <2> QED BY <2>2, EmptySeq
<1>5. FlattenSeq(cs(k)) \in Seq(P) /\ FlattenSeq(<<>>) = <<>>
  BY <1>2, FlattenType
<1>6. ASSUME k < Count(a) PROVE FlattenSeq(cs(k + 1)) = FlattenSeq(cs(k)) \o R(k + 1)
  <2> DEFINE c == cs(k)
             e == cs(k + 1)
             x == R(k + 1)
             Q == Seq(P)
  <2>1. k \in Nat /\ k + 1 \in 0 .. Count(a) /\ k + 1 \in 1 .. Count(a)
    BY <1>1, <1>6
  <2>2. c \in Seq(Q) /\ Len(c) = k /\ e \in Seq(Q) /\ Len(e) = k + 1 /\ x \in Q
    BY <1>1, <1>2, <2>1
  <2>3. /\ \A i \in 1 .. k : e[i] = c[i]
        /\ e[k + 1] = x
    BY <2>1
  <2> HIDE DEF c, e, x, cs, Q
  <2>4. /\ Append(c, x) \in Seq(Q) /\ Len(Append(c, x)) = k + 1
        /\ (\A i \in 1 .. k : Append(c, x)[i] = c[i]) /\ Append(c, x)[k + 1] = x
    <3>1. /\ Append(c, x) \in Seq(Q) /\ Len(Append(c, x)) = Len(c) + 1
          /\ (\A i \in 1 .. Len(c) : Append(c, x)[i] = c[i]) /\ Append(c, x)[Len(c) + 1] = x
      BY ONLY <2>2, AppendOf
    <3> QED BY <2>2, <3>1
  <2>5. ASSUME NEW i \in 1 .. k + 1 PROVE e[i] = Append(c, x)[i]
    <3>1. i \in 1 .. k \/ i = k + 1
      BY <2>1
    <3> QED BY <2>3, <2>4, <3>1
  <2>6. e = Append(c, x)
    BY <2>2, <2>4, <2>5, SeqEqual
  <2>7. FlattenSeq(Append(c, x)) = FlattenSeq(c) \o x
    <3>1. c \in Seq(Seq(P)) /\ x \in Seq(P)
      BY <2>2 DEF Q
    <3> QED BY ONLY <3>1, FlattenMore
  <2> QED BY <2>6, <2>7 DEF c, e, x
<1> HIDE DEF cs
<1> QED BY <1>3, <1>4, <1>5, <1>6 DEF P, R

\* Sets with the same members of t pick the same from it.
LEMMA OnlySame ==
  ASSUME NEW P, NEW S, NEW R, NEW t \in Seq(P), \A i \in 1 .. Len(t) : t[i] \in S <=> t[i] \in R
  PROVE  Only(S, t) = Only(R, t)
<1> DEFINE Same(u) == \A i \in 1 .. Len(u) : u[i] \in S <=> u[i] \in R
           T == {u \in Seq(P) : Same(u) => Only(S, u) = Only(R, u)}
<1>1. <<>> \in T
  <2>1. Only(S, <<>>) = <<>> /\ Only(R, <<>>) = <<>> /\ <<>> \in Seq(P)
    BY OnlyType, EmptySeq
  <2> QED BY <2>1
<1>2. ASSUME NEW u \in Seq(P), NEW x \in P, u \in T PROVE Append(u, x) \in T
  <2> DEFINE v == Append(u, x)
  <2>1. /\ v \in Seq(P) /\ Len(v) = Len(u) + 1 /\ Len(u) \in Nat
        /\ (\A i \in 1 .. Len(u) : v[i] = u[i]) /\ v[Len(u) + 1] = x
    BY AppendOf
  <2>2. /\ Only(S, v) = IF x \in S THEN Append(Only(S, u), x) ELSE Only(S, u)
        /\ Only(R, v) = IF x \in R THEN Append(Only(R, u), x) ELSE Only(R, u)
    BY OnlyMore
  <2>3. ASSUME Same(v) PROVE Only(S, v) = Only(R, v)
    <3>1. Len(u) + 1 \in 1 .. Len(v) /\ \A i \in 1 .. Len(u) : i \in 1 .. Len(v)
      BY <2>1
    <3> HIDE DEF v
    <3>2. Same(u) /\ (x \in S <=> x \in R)
      BY <2>1, <2>3, <3>1
    <3>3. Only(S, u) = Only(R, u)
      BY <1>2, <3>2
    <3> QED BY <2>2, <3>2, <3>3
  <2> QED BY <2>1, <2>3
<1>3. Seq(P) \subseteq T
  <2> HIDE DEF T
  <2> QED BY <1>1, <1>2, SeqInd
<1> QED BY <1>3

\* The chunks of one book among those of all.
LEMMA PiecesAre ==
  ASSUME NEW a \in ArgSet, NEW i \in 1 .. Count(a)
  PROVE  PiecesOf(Book(a.dataset, i), ChunksUpTo(a, Count(a))) = ChunkRows(a.dataset, i, a.size)
<1> DEFINE N == Count(a)
           P == ChunksFor(a)
           C(k) == ChunksUpTo(a, k)
           R(j) == ChunkRows(a.dataset, j, a.size)
           S == {r \in P : r.id = i}
           Z == {r \in Range(C(N)) : r.dataset = a.dataset /\ r.id = i}
           T == {k \in Nat : k <= N => Only(S, C(k)) = IF i <= k THEN R(i) ELSE <<>>}
<1>1. N \in Nat /\ \A k \in 0 .. N : C(k) \in Seq(P)
  BY CountIs, ChunksUpToIs
<1>2. ASSUME NEW j \in 1 .. N
      PROVE  R(j) \in Seq(P) /\ Only(S, R(j)) = IF j = i THEN R(j) ELSE <<>>
  <2>1. R(j) \in Seq(P) /\ \A n \in 1 .. Len(R(j)) : R(j)[n].id = j
    BY RowsOfBook
  <2>2. \A n \in 1 .. Len(R(j)) : R(j)[n] \in P
    BY <2>1, ElementOfSeq
  <2> HIDE DEF R, P
  <2>3. CASE j = i
    <3>1. \A n \in 1 .. Len(R(j)) : R(j)[n] \in S
      BY <2>1, <2>2, <2>3
    <3> HIDE DEF S
    <3> QED BY <2>1, <2>3, <3>1, OnlyNoneAll
  <2>4. CASE j # i
    <3>1. \A n \in 1 .. Len(R(j)) : R(j)[n] \notin S
      BY <2>1, <2>2, <2>4
    <3> HIDE DEF S
    <3> QED BY <2>1, <2>4, <3>1, OnlyNoneAll
  <2> QED BY <2>3, <2>4
<1>3. C(0) = <<>> /\ \A k \in 0 .. N : k < N => C(k + 1) = C(k) \o R(k + 1)
  <2>1. 0 \in 0 .. N
    BY <1>1
  <2> QED BY <2>1, ChunksUpToIs
<1> HIDE DEF N, P, C, R, S, Z
<1>4. 0 \in T
  <2>1. Only(S, <<>>) = <<>>
    <3>1. <<>> \in Seq(P)
      BY EmptySeq
    <3> QED BY <3>1, OnlyType
  <2>2. ~(i <= 0)
    BY <1>1 DEF N
  <2> QED BY <1>3, <2>1, <2>2
<1>5. ASSUME NEW k \in Nat, k \in T PROVE k + 1 \in T
  <2> SUFFICES ASSUME k + 1 <= N PROVE Only(S, C(k + 1)) = IF i <= k + 1 THEN R(i) ELSE <<>>
    OBVIOUS
  <2>1. k \in 0 .. N /\ k < N /\ k + 1 \in 1 .. N /\ i \in Nat
    BY <1>1 DEF N
  <2>2. Only(S, C(k)) = IF i <= k THEN R(i) ELSE <<>>
    BY <1>5, <2>1
  <2>3. C(k) \in Seq(P) /\ R(k + 1) \in Seq(P) /\ C(k + 1) = C(k) \o R(k + 1)
    BY <1>1, <1>2, <1>3, <2>1
  <2>4. Only(S, C(k) \o R(k + 1)) = Only(S, C(k)) \o Only(S, R(k + 1))
    BY <2>3, OnlyConcat
  <2>5. Only(S, R(k + 1)) = IF k + 1 = i THEN R(k + 1) ELSE <<>>
    BY <1>2, <2>1
  <2>6. CASE i <= k
    <3>1. k + 1 # i /\ i <= k + 1 /\ i \in 1 .. N
      BY <1>1, <2>1, <2>6 DEF N
    <3>2. R(i) \in Seq(P)
      BY <1>2, <3>1
    <3>3. R(i) \o <<>> = R(i)
      BY <3>2, ConcatEmptySeq
    <3> QED BY <2>2, <2>3, <2>4, <2>5, <2>6, <3>1, <3>3
  <2>7. CASE i = k + 1
    <3>1. ~(i <= k) /\ i <= k + 1
      BY <2>1, <2>7
    <3>2. <<>> \o R(k + 1) = R(k + 1)
      BY <2>3, ConcatEmptySeq
    <3> QED BY <2>2, <2>3, <2>4, <2>5, <2>7, <3>1, <3>2
  <2>8. CASE ~(i <= k + 1)
    <3>1. ~(i <= k) /\ k + 1 # i
      BY <2>1, <2>8
    <3>2. <<>> \o <<>> = <<>>
      BY ConcatEmptySeq, EmptySeq
    <3> QED BY <2>2, <2>3, <2>4, <2>5, <2>8, <3>1, <3>2
  <2>9. i <= k \/ i = k + 1 \/ ~(i <= k + 1)
    BY <2>1
  <2> QED BY <2>6, <2>7, <2>8, <2>9
<1>6. Only(S, C(N)) = R(i)
  <2>1. Nat \subseteq T
    <3> HIDE DEF T
    <3> QED BY <1>4, <1>5, NatInd
  <2>2. N <= N /\ i <= N
    BY <1>1 DEF N
  <2> QED BY <1>1, <2>1, <2>2
<1>7. Only(Z, C(N)) = Only(S, C(N))
  <2>1. C(N) \in Seq(P)
    BY <1>1
  <2>2. ASSUME NEW n \in 1 .. Len(C(N)) PROVE C(N)[n] \in Z <=> C(N)[n] \in S
    <3>1. C(N)[n] \in P /\ n \in DOMAIN C(N)
      BY <2>1, LenProperties, ElementOfSeq
    <3>2. C(N)[n].dataset = a.dataset /\ C(N)[n] \in Range(C(N))
      BY <3>1 DEF P, ChunksFor, Range
    <3> QED BY <3>1, <3>2 DEF Z, S
  <2> QED BY <2>1, <2>2, OnlySame
<1>8. PiecesOf(Book(a.dataset, i), C(N)) = Only(Z, C(N))
  <2>1. Book(a.dataset, i).dataset = a.dataset /\ Book(a.dataset, i).id = i
    BY DEF Book
  <2> QED BY <2>1 DEF PiecesOf, Z
<1> QED BY <1>6, <1>7, <1>8 DEF C, N, R

\* README.md:33, from the tables of a whole data set every book can be read
\* back: its chunks are numbered in order, none is too long, their words are
\* its words, and their chapters count up.
THEOREM WholeReadsBack ==
  ASSUME NEW a \in ArgSet
  PROVE  LET t == ChunksUpTo(a, Count(a))
         IN /\ Ids(t) \subseteq 1 .. Count(a)
            /\ \A i \in 1 .. Count(a) :
                 ReadsBack(Book(a.dataset, i), t, a.size) /\ ChaptersAscend(Book(a.dataset, i), t)
<1> DEFINE N == Count(a)
           t == ChunksUpTo(a, N)
<1>1. N \in Nat /\ t \in Seq(ChunksFor(a))
  <2>1. N \in Nat /\ N \in 0 .. N
    BY CountIs
  <2> QED BY <2>1, ChunksUpToIs
<1>2. Ids(t) \subseteq 1 .. N
  <2> HIDE DEF t
  <2>1. \A n \in DOMAIN t : t[n] \in ChunksFor(a)
    BY <1>1, LenProperties, ElementOfSeq
  <2> QED BY <2>1 DEF Ids, ChunksFor
<1>3. ASSUME NEW i \in 1 .. N
      PROVE  ReadsBack(Book(a.dataset, i), t, a.size) /\ ChaptersAscend(Book(a.dataset, i), t)
  <2> DEFINE b == Book(a.dataset, i)
             book == Library[a.dataset][i]
             rs == ChunkRows(a.dataset, i, a.size)
             q == SplitText(book, a.size)
  <2>1. PiecesOf(b, t) = rs /\ b.dataset = a.dataset /\ b.id = i
    BY PiecesAre DEF Book
  <2>2. /\ DOMAIN rs = DOMAIN q /\ DOMAIN rs = 1 .. Len(rs)
        /\ \A n \in DOMAIN rs : rs[n].chunk = n - 1 /\ rs[n].body = q[n].body /\ rs[n].chapter = q[n].chapter
    BY RowsOfBook
  <2>3. book.text \in Seq(Chars) /\ book.found \in Seq(Headings) /\ a.size \in Nat \ {0}
    BY CountIs
  <2> HIDE DEF b, book, rs, t, N
  <2>4. \A n \in DOMAIN q : Len(q[n].body) <= a.size
    BY <2>3, ChunksFit DEF Bodies
  <2>5. FlattenSeq([n \in DOMAIN q |-> Words(q[n].body)]) = Words(book.text)
    BY <2>3, WordsKept
  <2>6. \A m, n \in DOMAIN q : m < n => Label(q[m].chapter) <= Label(q[n].chapter)
    BY <2>3, ChaptersCountUp
  <2> HIDE DEF q
  <2>7. ReadsBack(b, t, a.size)
    <3>1. \A n \in DOMAIN rs : rs[n].chunk = n - 1 /\ Len(rs[n].body) <= a.size
      BY <2>2, <2>4
    <3>2. [n \in DOMAIN rs |-> Words(rs[n].body)] = [n \in DOMAIN q |-> Words(q[n].body)]
      BY <2>2
    <3>3. Library[b.dataset][b.id].text = book.text
      BY <2>1 DEF book
    <3> QED BY <2>1, <2>5, <3>1, <3>2, <3>3 DEF ReadsBack
  <2>8. ChaptersAscend(b, t)
    BY <2>1, <2>2, <2>6 DEF ChaptersAscend, Label
  <2> QED BY <2>7, <2>8 DEF b
<1> QED BY <1>2, <1>3

-----------------------------------------------------------------------------
(***************************************************************************)
(* A run that nobody overlaps and that takes nothing from --use-cache: at  *)
(* every step its files hold just what it has downloaded and processed so  *)
(* far, since it begins by truncating them, and the tables it copies them  *)
(* into are empty.                                                         *)
(***************************************************************************)
HeaderUpTo(a, k) == <<ColumnNames>> \o BooksUpTo(a, k)
TextUpTo(a, k) == <<ColumnNames>> \o ChunksUpTo(a, k)

FreshAt(w) ==
  LET a == args[w]
      n == Count(a)
  IN /\ pc[w] = "download" => raw[RawOf(w)] = BooksUpTo(a, at[w]) /\ at[w] <= n
     /\ pc[w] \in {"csv", "openText", "process"} => raw[RawOf(w)] = BooksUpTo(a, n)
     /\ pc[w] = "openText" => header[CsvOf(w)] = <<>> /\ holds[w] = {"header"}
     /\ pc[w] = "process" =>
          /\ at[w] <= n /\ holds[w] = {"header", "text"}
          /\ header[CsvOf(w)] = HeaderUpTo(a, at[w])
          /\ text[CsvOf(w)] = TextUpTo(a, at[w])
          /\ wrote[w] = Len(TextUpTo(a, at[w]))
     /\ pc[w] \in {"look", "create", "dropHeader", "copyHeader"} =>
          header[CsvOf(w)] = HeaderUpTo(a, n)
     /\ pc[w] \in {"look", "create", "dropHeader", "copyHeader", "copyText"} =>
          text[CsvOf(w)] = TextUpTo(a, n)
     /\ pc[w] \in {"copyHeader", "copyText", "commit"} => db.header = <<>> /\ db.text = <<>>
     /\ pc[w] \in {"copyText", "commit"} => rows[w].header = BooksUpTo(a, n)
     /\ pc[w] = "commit" => rows[w].text = ChunksUpTo(a, n)

Unshared(w) == pc[w] # "idle" /\ \A o \in Runs \ {w} : pc[o] = "idle"
FreshRun(w) == alone[w] /\ ~args[w].cache

FreshAlone == \A w \in Runs : alone[w] => Unshared(w)
FreshRuns == \A w \in Runs : FreshRun(w) => FreshAt(w)
FreshDb ==
  \A l \in db.by : l.alone /\ ~l.args.cache =>
    db.header = BooksUpTo(l.args, Count(l.args)) /\ db.text = ChunksUpTo(l.args, Count(l.args))

FreshInv == FreshAlone /\ FreshRuns /\ FreshDb

\* Lines written at the end of a file are appended to it.
LEMMA WriteAtEnd ==
  ASSUME NEW L, NEW file \in Seq(L), NEW lines \in Seq(L)
  PROVE  WriteAt(file, Len(file), lines) = file \o lines
<1> DEFINE n == Len(file)
           m == Len(lines)
           z == file \o lines
           r == WriteAt(file, n, lines)
<1>1. n \in Nat /\ m \in Nat
  BY LenProperties
<1>2. /\ z \in Seq(L) /\ Len(z) = n + m
      /\ \A i \in 1 .. n + m : z[i] = IF i <= n THEN file[i] ELSE lines[i - n]
  BY ONLY ConcatProperties, file \in Seq(L), lines \in Seq(L)
<1>3. z = [i \in 1 .. n + m |-> z[i]]
  BY <1>2, LenProperties
<1>4. r = [i \in 1 .. (IF n > n + m THEN n ELSE n + m) |->
             IF i \in n + 1 .. n + m THEN lines[i - n] ELSE IF i <= n THEN file[i] ELSE Hole]
  BY DEF WriteAt
<1>5. (IF n > n + m THEN n ELSE n + m) = n + m
  BY <1>1
<1> HIDE DEF z, r, n, m
<1>6. ASSUME NEW i \in 1 .. n + m PROVE r[i] = z[i]
  <2>1. i \in n + 1 .. n + m <=> ~(i <= n)
    BY <1>1
  <2> QED BY <1>2, <1>4, <1>5, <2>1
<1>7. r = [i \in 1 .. n + m |-> r[i]]
  BY <1>4, <1>5
<1>8. r = z
  BY <1>3, <1>6, <1>7
<1> QED BY <1>8 DEF r, z, n

\* COPY skips the column names and takes whole lines as they are.
LEMMA TakenAll ==
  ASSUME NEW L, NEW t \in Seq(L), \A x \in L : x.is # "cut"
  PROVE  Taken(Tail(<<ColumnNames>> \o t)) = t
<1> DEFINE P == L \cup {ColumnNames}
           s == <<ColumnNames>> \o t
           u == Tail(s)
<1>1. <<ColumnNames>> \in Seq(P) /\ t \in Seq(P) /\ Len(<<ColumnNames>>) = 1 /\ Len(t) \in Nat
  BY SeqMonotonic, LenProperties
<1> HIDE DEF P
<1>2. /\ s \in Seq(P) /\ Len(s) = Len(<<ColumnNames>>) + Len(t)
      /\ \A i \in 1 .. Len(<<ColumnNames>>) + Len(t) :
           s[i] = IF i <= Len(<<ColumnNames>>) THEN <<ColumnNames>>[i]
                  ELSE t[i - Len(<<ColumnNames>>)]
  BY ONLY <1>1, ConcatProperties
<1>3. Len(s) = 1 + Len(t) /\ \A i \in 1 .. Len(t) : s[i + 1] = t[i]
  <2>1. \A i \in 1 .. 1 + Len(t) : s[i] = IF i <= 1 THEN <<ColumnNames>>[i] ELSE t[i - 1]
    BY <1>1, <1>2
  <2>2. ASSUME NEW i \in 1 .. Len(t) PROVE s[i + 1] = t[i]
    <3>1. i + 1 \in 1 .. 1 + Len(t) /\ ~(i + 1 <= 1) /\ (i + 1) - 1 = i
      BY <1>1
    <3> QED BY <2>1, <3>1
  <2> QED BY <1>1, <1>2, <2>2
<1>4. s # <<>>
  BY <1>1, <1>3, EmptySeq
<1> HIDE DEF s
<1>5. u \in Seq(P) /\ Len(u) = Len(s) - 1 /\ \A i \in 1 .. Len(u) : u[i] = s[i + 1]
  BY <1>2, <1>4, HeadTailProperties
<1> HIDE DEF u
<1>6. Len(u) = Len(t) /\ \A i \in 1 .. Len(u) : u[i] = t[i]
  BY <1>1, <1>3, <1>5
<1>7. u = t
  BY <1>1, <1>5, <1>6, SeqEqual
<1>8. DOMAIN t = 1 .. Len(t) /\ \A i \in DOMAIN t : t[i].is # "cut"
  BY LenProperties, ElementOfSeq
<1>9. Taken(t) = t
  <2>1. Taken(t) = [i \in DOMAIN t |-> t[i]]
    BY <1>8 DEF Taken
  <2>2. t = [i \in DOMAIN t |-> t[i]]
    BY <1>8, LenProperties
  <2> QED BY <2>1, <2>2
<1> QED BY <1>7, <1>9 DEF u, s

LEMMA BooksUpToIs ==
  ASSUME NEW a \in ArgSet, NEW k \in 0 .. Count(a)
  PROVE  /\ BooksUpTo(a, k) \in Seq(Books) /\ Len(BooksUpTo(a, k)) = k
         /\ BooksUpTo(a, 0) = <<>>
         /\ \A i \in 1 .. k : BooksUpTo(a, k)[i] = Book(a.dataset, i)
         /\ k < Count(a) => BooksUpTo(a, k + 1) = BooksUpTo(a, k) \o <<Book(a.dataset, k + 1)>>
<1> DEFINE B(i) == Book(a.dataset, i)
           s == BooksUpTo(a, k)
           e == BooksUpTo(a, k + 1)
           x == B(k + 1)
<1>1. Count(a) \in Nat /\ \A i \in 1 .. Count(a) : B(i) \in Books
  BY CountIs
<1>2. \A j : BooksUpTo(a, j) = [i \in 1 .. j |-> B(i)]
  BY DEF BooksUpTo
<1> HIDE DEF B
<1>3. ASSUME NEW j \in 0 .. Count(a)
      PROVE  BooksUpTo(a, j) \in Seq(Books) /\ Len(BooksUpTo(a, j)) = j
  <2>1. \A i \in 1 .. j : B(i) \in Books
    BY <1>1
  <2>2. [i \in 1 .. j |-> B(i)] \in [1 .. j -> Books] /\ j \in Nat
    BY <1>1, <2>1
  <2> QED BY <1>2, <2>2, SeqDef, LenProperties
<1>4. BooksUpTo(a, 0) = <<>>
  <2>1. 0 \in 0 .. Count(a)
    BY <1>1
  <2> QED BY <1>3, <2>1, EmptySeq
<1>5. \A i \in 1 .. k : s[i] = B(i)
  BY <1>2
<1>6. ASSUME k < Count(a) PROVE e = s \o <<x>>
  <2>1. k \in Nat /\ k + 1 \in 0 .. Count(a) /\ k + 1 \in 1 .. Count(a)
    BY <1>1, <1>6
  <2>2. s \in Seq(Books) /\ Len(s) = k /\ e \in Seq(Books) /\ Len(e) = k + 1 /\ x \in Books
    BY <1>1, <1>3, <2>1
  <2>3. (\A i \in 1 .. k : e[i] = s[i]) /\ e[k + 1] = x
    <3>1. \A i \in 1 .. k : i \in 1 .. k + 1
      BY <2>1
    <3>2. k + 1 \in 1 .. k + 1
      BY <2>1
    <3> QED BY <1>2, <1>5, <3>1, <3>2
  <2> HIDE DEF s, e, x
  <2>4. /\ Append(s, x) \in Seq(Books) /\ Len(Append(s, x)) = Len(s) + 1
        /\ (\A i \in 1 .. Len(s) : Append(s, x)[i] = s[i]) /\ Append(s, x)[Len(s) + 1] = x
    BY ONLY <2>2, AppendOf
  <2>5. ASSUME NEW i \in 1 .. k + 1 PROVE e[i] = Append(s, x)[i]
    <3>1. i \in 1 .. k \/ i = k + 1
      BY <2>1
    <3> QED BY <2>2, <2>3, <2>4, <3>1
  <2>6. e = Append(s, x)
    BY <2>2, <2>4, <2>5, SeqEqual
  <2>7. Append(s, x) = s \o <<x>>
    BY ONLY <2>2, AppendIsConcat
  <2> QED BY <2>6, <2>7
<1>7. /\ s \in Seq(Books) /\ Len(s) = k
  BY <1>3
<1> HIDE DEF s, e
<1> QED BY <1>4, <1>5, <1>6, <1>7 DEF B, s, e

\* The files of a run that has processed k books, and what COPY makes of them.
LEMMA FilesUpTo ==
  ASSUME NEW a \in ArgSet, NEW k \in 0 .. Count(a)
  PROVE  /\ HeaderUpTo(a, k) \in Seq(HeaderLines) /\ Len(HeaderUpTo(a, k)) = k + 1
         /\ TextUpTo(a, k) \in Seq(TextLines)
         /\ HeaderUpTo(a, 0) = <<ColumnNames>> /\ TextUpTo(a, 0) = <<ColumnNames>>
         /\ Taken(Tail(HeaderUpTo(a, k))) = BooksUpTo(a, k)
         /\ Taken(Tail(TextUpTo(a, k))) = ChunksUpTo(a, k)
         /\ k < Count(a) =>
              /\ HeaderUpTo(a, k + 1) = HeaderUpTo(a, k) \o <<Book(a.dataset, k + 1)>>
              /\ TextUpTo(a, k + 1) = TextUpTo(a, k) \o ChunkRows(a.dataset, k + 1, a.size)
<1> DEFINE bs(j) == BooksUpTo(a, j)
           cs(j) == ChunksUpTo(a, j)
<1>1. Count(a) \in Nat /\ k \in Nat
  BY CountIs
<1>2. bs(k) \in Seq(HeaderLines) /\ Len(bs(k)) = k /\ bs(k) \in Seq(Books) /\ bs(0) = <<>>
  <2>1. Books \subseteq HeaderLines
    BY DEF HeaderLines, RawLines
  <2>2. bs(k) \in Seq(Books) /\ Len(bs(k)) = k /\ bs(0) = <<>>
    BY BooksUpToIs
  <2> QED BY <2>1, <2>2, SeqMonotonic
<1>3. cs(k) \in Seq(TextLines) /\ cs(k) \in Seq(Chunks) /\ cs(0) = <<>>
  <2>1. ChunksFor(a) \subseteq Chunks /\ Chunks \subseteq TextLines
    BY DEF ChunksFor, TextLines
  <2>2. cs(k) \in Seq(ChunksFor(a)) /\ cs(0) = <<>>
    BY ChunksUpToIs
  <2> QED BY <2>1, <2>2, SeqMonotonic
<1>4. k < Count(a) =>
        /\ bs(k + 1) = bs(k) \o <<Book(a.dataset, k + 1)>>
        /\ cs(k + 1) = cs(k) \o ChunkRows(a.dataset, k + 1, a.size)
        /\ <<Book(a.dataset, k + 1)>> \in Seq(HeaderLines)
        /\ ChunkRows(a.dataset, k + 1, a.size) \in Seq(TextLines)
  <2>1. ASSUME k < Count(a)
        PROVE  /\ <<Book(a.dataset, k + 1)>> \in Seq(HeaderLines)
               /\ ChunkRows(a.dataset, k + 1, a.size) \in Seq(TextLines)
    <3>1. k + 1 \in 1 .. Count(a)
      BY <1>1, <2>1
    <3>2. Book(a.dataset, k + 1) \in HeaderLines
      BY <3>1, CountIs DEF HeaderLines, RawLines
    <3>3. <<Book(a.dataset, k + 1)>> \in Seq(HeaderLines)
      <4> DEFINE y == Book(a.dataset, k + 1)
      <4>1. y \in HeaderLines
        BY <3>2
      <4> HIDE DEF y
      <4>2. <<y>> \in Seq(HeaderLines)
        BY <4>1
      <4> QED BY <4>2 DEF y
    <3>4. ChunkRows(a.dataset, k + 1, a.size) \in Seq(Chunks) /\ Chunks \subseteq TextLines
      BY <3>1, RowsOfBook DEF TextLines
    <3> QED BY <3>3, <3>4, SeqMonotonic
  <2> QED BY <2>1, BooksUpToIs, ChunksUpToIs
<1>5. /\ <<ColumnNames>> \in Seq(HeaderLines) /\ <<ColumnNames>> \in Seq(TextLines)
      /\ Len(<<ColumnNames>>) = 1
  <2>1. ColumnNames \in HeaderLines /\ ColumnNames \in TextLines
    BY DEF HeaderLines, TextLines
  <2> QED BY <2>1
<1>6. /\ Taken(Tail(<<ColumnNames>> \o bs(k))) = bs(k)
      /\ Taken(Tail(<<ColumnNames>> \o cs(k))) = cs(k)
  <2>1. ASSUME NEW x \in Books PROVE x.is # "cut"
    BY BookIs DEF Book
  <2>2. ASSUME NEW x \in Chunks PROVE x.is # "cut"
    BY ChunkIs DEF Chunk
  <2> HIDE DEF bs, cs
  <2> QED BY <1>2, <1>3, <2>1, <2>2, TakenAll
<1> HIDE DEF bs, cs
<1>7. /\ <<ColumnNames>> \o bs(k) \in Seq(HeaderLines)
      /\ Len(<<ColumnNames>> \o bs(k)) = Len(<<ColumnNames>>) + Len(bs(k))
      /\ <<ColumnNames>> \o cs(k) \in Seq(TextLines)
  BY ONLY <1>2, <1>3, <1>5, ConcatProperties
<1>8. Len(<<ColumnNames>> \o bs(k)) = k + 1
  BY <1>1, <1>2, <1>5, <1>7
<1>9. <<ColumnNames>> \o <<>> = <<ColumnNames>>
  BY <1>5, ConcatEmptySeq
<1>10. ASSUME k < Count(a)
       PROVE  /\ <<ColumnNames>> \o bs(k + 1)
                   = (<<ColumnNames>> \o bs(k)) \o <<Book(a.dataset, k + 1)>>
              /\ <<ColumnNames>> \o cs(k + 1)
                   = (<<ColumnNames>> \o cs(k)) \o ChunkRows(a.dataset, k + 1, a.size)
  BY <1>2, <1>3, <1>4, <1>5, <1>10, ConcatAssociative
<1> QED BY <1>2, <1>3, <1>6, <1>7, <1>8, <1>9, <1>10 DEF HeaderUpTo, TextUpTo, bs, cs

-----------------------------------------------------------------------------
(***************************************************************************)
(* Each step of a run keeps what is said of a run that nobody overlaps.    *)
(***************************************************************************)
\* What a step of w has to show, if it changes neither args nor who is alone.
LEMMA FreshStep ==
  ASSUME FreshInv, NEW w \in Runs, pc[w] # "idle", pc'[w] # "idle", Others(w),
         UNCHANGED <<alone, args>>, FreshRun(w) => FreshAt(w)', FreshDb'
  PROVE  FreshInv'
<1>1. ASSUME NEW o \in Runs, o # w PROVE ~alone[o]
  BY <1>1 DEF FreshInv, FreshAlone, Unshared
<1>2. FreshAlone'
  <2>1. ASSUME alone'[w] PROVE Unshared(w)'
    BY <2>1 DEF FreshInv, FreshAlone, Unshared, Others
  <2> QED BY <1>1, <2>1 DEF FreshAlone
<1>3. FreshRuns'
  <2>1. ASSUME NEW o \in Runs, FreshRun(o)' PROVE FreshAt(o)'
    <3>1. o = w
      BY <1>1, <2>1 DEF FreshRun
    <3> QED BY <2>1, <3>1 DEF FreshRun
  <2> QED BY <2>1 DEF FreshRuns
<1> QED BY <1>2, <1>3 DEF FreshInv

\* Steps that leave the tables alone.
LEMMA FreshMove ==
  ASSUME FreshInv, NEW w \in Runs, pc[w] # "idle", pc'[w] # "idle", Others(w),
         UNCHANGED <<alone, args, db>>, FreshRun(w) /\ FreshAt(w) => FreshAt(w)'
  PROVE  FreshInv'
<1>1. FreshDb'
  BY DEF FreshInv, FreshDb
<1>2. FreshRun(w) => FreshAt(w)'
  BY DEF FreshInv, FreshRuns
<1> QED BY <1>1, <1>2, FreshStep

\* Once a run is over no run is alone.
LEMMA FreshEnd ==
  ASSUME TypeInv, FreshInv, NEW w \in Runs, pc[w] # "idle", End(w), UNCHANGED db
  PROVE  FreshInv'
<1>1. ASSUME NEW o \in Runs PROVE ~alone'[o]
  <2>1. o # w => ~alone[o]
    BY DEF FreshInv, FreshAlone, Unshared
  <2> QED BY <2>1 DEF End, TypeInv, TypeOK
<1>2. FreshAlone' /\ FreshRuns'
  BY <1>1 DEF FreshAlone, FreshRuns, FreshRun
<1>3. FreshDb'
  BY DEF FreshInv, FreshDb
<1> QED BY <1>2, <1>3 DEF FreshInv

LEMMA FreshStart ==
  ASSUME TypeInv, FreshInv, NEW w \in Runs, Start(w)
  PROVE  FreshInv'
<1> DEFINE others == {o \in Runs \ {w} : pc[o] # "idle"}
<1>1. alone' = [o \in Runs |-> IF o = w THEN others = {}
                               ELSE IF o \in others THEN FALSE ELSE alone[o]]
  BY DEF Start
<1>2. ASSUME NEW o \in Runs, o # w PROVE ~alone'[o]
  <2>1. o \notin others => ~alone[o]
    BY <1>2 DEF FreshInv, FreshAlone, Unshared
  <2> QED BY <1>1, <1>2, <2>1
<1>3. alone'[w] => \A o \in Runs \ {w} : pc[o] = "idle"
  BY <1>1
<1>4. pc'[w] \in {"raw", "post"} /\ \A o \in Runs \ {w} : pc'[o] = pc[o]
  BY DEF Start, Goto, TypeInv, TypeOK
<1>5. FreshAlone'
  BY <1>2, <1>3, <1>4 DEF FreshAlone, Unshared
<1>6. FreshAt(w)'
  BY <1>4 DEF FreshAt
<1>7. FreshRuns'
  BY <1>2, <1>6 DEF FreshRuns, FreshRun
<1>8. FreshDb'
  BY DEF Start, FreshInv, FreshDb
<1> QED BY <1>5, <1>7, <1>8 DEF FreshInv

\* Of its own the run need not look at the files that others write.
LEMMA FreshReads ==
  ASSUME TypeInv, FreshInv, NEW w \in Runs, FreshRun(w)
  PROVE  /\ VisibleRaw(w) = {raw[RawOf(w)]}
         /\ VisibleHeader(w) = {header[CsvOf(w)]}
         /\ VisibleText(w) = {text[CsvOf(w)]}
BY IdleReads DEF FreshInv, FreshAlone, FreshRun, Unshared

\* Only a run with --use-cache takes files that are there.
LEMMA FreshTakes ==
  ASSUME TypeInv, FreshInv, NEW w \in Runs, TakeRaw(w) \/ TakeCsv(w)
  PROVE  FreshInv'
<1>1. /\ pc[w] # "idle" /\ pc'[w] # "idle" /\ Others(w) /\ UNCHANGED <<alone, args, db>>
  BY DEF TakeRaw, TakeCsv, Others, Goto, TypeInv, TypeOK
<1>2. ~FreshRun(w)
  BY DEF FreshRun, TakeRaw, TakeCsv, CsvCached
<1> QED BY <1>1, <1>2, FreshMove

LEMMA FreshOpenRaw ==
  ASSUME TypeInv, FreshInv, NEW w \in Runs, OpenRaw(w)
  PROVE  FreshInv'
<1>1. /\ raw \in [Limits -> {Missing} \cup Seq(RawLines)] /\ RawOf(w) \in Limits
      /\ args[w] \in ArgSet
  BY NamesOf DEF TypeInv, TypeOK
<1>2. /\ pc[w] = "raw" /\ pc'[w] = "download" /\ Others(w) /\ UNCHANGED <<alone, args, db, at>>
      /\ raw' = [raw EXCEPT ![RawOf(w)] = <<>>]
  BY DEF OpenRaw, Others, Goto, TypeInv, TypeOK
<1>3. at[w] = 0
  BY <1>2 DEF TypeInv, TypeOK
<1>4. RawOf(w)' = RawOf(w) /\ raw'[RawOf(w)] = <<>>
  BY <1>1, <1>2 DEF RawOf
<1>5. BooksUpTo(args[w], 0) = <<>> /\ 0 <= Count(args[w])
  <2>1. Count(args[w]) \in Nat
    BY <1>1, CountIs
  <2>2. 0 \in 0 .. Count(args[w]) /\ 0 <= Count(args[w])
    BY <2>1
  <2>3. BooksUpTo(args[w], 0) = <<>>
    BY ONLY <1>1, <2>2, BooksUpToIs
  <2> QED BY <2>2, <2>3
<1>6. FreshAt(w)'
  BY <1>2, <1>3, <1>4, <1>5 DEF FreshAt
<1> QED BY <1>2, <1>6, FreshMove

LEMMA DownloadsCount ==
  ASSUME NEW w
  PROVE  ToDownload(w) = Count(args[w])
BY DEF ToDownload, Count

LEMMA FreshDownload ==
  ASSUME TypeInv, FreshInv, NEW w \in Runs, Download(w)
  PROVE  FreshInv'
<1> DEFINE a == args[w]
           k == at[w]
           file == raw[RawOf(w)]
           b == Book(a.dataset, k + 1)
<1>1. /\ raw \in [Limits -> {Missing} \cup Seq(RawLines)] /\ RawOf(w) \in Limits
      /\ a \in ArgSet /\ k \in Nat /\ at \in [Runs -> Nat]
  BY NamesOf DEF TypeInv, TypeOK
<1>2. /\ pc[w] = "download" /\ pc' = pc /\ Others(w) /\ UNCHANGED <<alone, args, db>>
      /\ raw' = [raw EXCEPT ![RawOf(w)] = WriteAt(file, k, <<b>>)] /\ at' = [at EXCEPT ![w] = k + 1]
  BY DEF Download, Others
<1>3. k < Count(a) /\ Count(a) \in Nat /\ k \in 0 .. Count(a) /\ k + 1 <= Count(a)
  <2>1. k < Count(a)
    BY DownloadsCount DEF Download
  <2>2. Count(a) \in Nat
    BY <1>1, CountIs
  <2> QED BY <1>1, <2>1, <2>2
<1>4. RawOf(w)' = RawOf(w) /\ raw'[RawOf(w)] = WriteAt(file, k, <<b>>) /\ at'[w] = k + 1
  BY <1>1, <1>2 DEF RawOf
<1>5. ASSUME FreshAt(w) PROVE WriteAt(file, k, <<b>>) = BooksUpTo(a, k + 1)
  <2>1. file = BooksUpTo(a, k)
    BY <1>2, <1>5 DEF FreshAt
  <2>2. /\ file \in Seq(Books) /\ Len(file) = k
        /\ BooksUpTo(a, k + 1) = file \o <<b>>
    BY <1>1, <1>3, <2>1, BooksUpToIs
  <2>3. b \in Books
    BY NextBook DEF Download
  <2> HIDE DEF b, file, k
  <2>4. <<b>> \in Seq(Books)
    BY <2>3
  <2>5. WriteAt(file, Len(file), <<b>>) = file \o <<b>>
    BY <2>2, <2>4, WriteAtEnd
  <2> QED BY <2>2, <2>5
<1>6. ASSUME FreshAt(w) PROVE FreshAt(w)'
  BY <1>2, <1>3, <1>4, <1>5, <1>6 DEF FreshAt
<1> QED BY <1>2, <1>6, FreshMove

LEMMA FreshDownloaded ==
  ASSUME TypeInv, FreshInv, NEW w \in Runs, Downloaded(w)
  PROVE  FreshInv'
<1>1. /\ pc[w] = "download" /\ pc'[w] = "csv" /\ Others(w)
      /\ UNCHANGED <<raw, alone, args, db>> /\ at[w] = Count(args[w])
  BY DownloadsCount DEF Downloaded, Others, Goto, files, TypeInv, TypeOK
<1>2. RawOf(w)' = RawOf(w)
  BY <1>1 DEF RawOf
<1>3. ASSUME FreshAt(w) PROVE FreshAt(w)'
  BY <1>1, <1>2, <1>3 DEF FreshAt
<1> QED BY <1>1, <1>3, FreshMove

LEMMA FreshOpenHeader ==
  ASSUME TypeInv, FreshInv, NEW w \in Runs, OpenHeader(w)
  PROVE  FreshInv'
<1>1. header \in [CsvNames -> {Missing} \cup Seq(HeaderLines)] /\ CsvOf(w) \in CsvNames
  BY NamesOf DEF TypeInv, TypeOK
<1>2. /\ pc[w] = "csv" /\ pc'[w] = "openText" /\ Others(w) /\ holds'[w] = {"header"}
      /\ header' = [header EXCEPT ![CsvOf(w)] = <<>>] /\ UNCHANGED <<raw, alone, args, db>>
  BY DEF OpenHeader, Others, Goto, TypeInv, TypeOK
<1>3. RawOf(w)' = RawOf(w) /\ CsvOf(w)' = CsvOf(w) /\ header'[CsvOf(w)] = <<>>
  BY <1>1, <1>2 DEF RawOf, CsvOf
<1>4. ASSUME FreshAt(w) PROVE FreshAt(w)'
  BY <1>2, <1>3, <1>4 DEF FreshAt
<1> QED BY <1>2, <1>4, FreshMove

LEMMA FreshOpenText ==
  ASSUME TypeInv, FreshInv, NEW w \in Runs, OpenText(w)
  PROVE  FreshInv'
<1> DEFINE a == args[w]
<1>1. /\ header \in [CsvNames -> {Missing} \cup Seq(HeaderLines)]
      /\ text \in [CsvNames -> {Missing} \cup Seq(TextLines)] /\ CsvOf(w) \in CsvNames
      /\ a \in ArgSet
  BY NamesOf DEF TypeInv, TypeOK
<1>2. /\ pc[w] = "openText" /\ pc'[w] = "process" /\ Others(w)
      /\ holds'[w] = holds[w] \cup {"text"} /\ at'[w] = 0 /\ wrote'[w] = 1
      /\ text' = [text EXCEPT ![CsvOf(w)] = <<ColumnNames>>]
      /\ PutHeader(w, 0, ColumnNames) /\ UNCHANGED <<raw, alone, args, db>>
  BY DEF OpenText, Others, Goto, TypeInv, TypeOK
<1>3. /\ RawOf(w)' = RawOf(w) /\ CsvOf(w)' = CsvOf(w) /\ text'[CsvOf(w)] = <<ColumnNames>>
  BY <1>1, <1>2 DEF RawOf, CsvOf
<1>4. /\ Count(a) \in Nat /\ HeaderUpTo(a, 0) = <<ColumnNames>> /\ TextUpTo(a, 0) = <<ColumnNames>>
  <2>1. Count(a) \in Nat /\ 0 \in 0 .. Count(a)
    BY <1>1, CountIs
  <2> QED BY <1>1, <2>1, FilesUpTo
<1>5. WriteAt(<<>>, 0, <<ColumnNames>>) = <<ColumnNames>>
  <2>1. /\ <<>> \in Seq({ColumnNames}) /\ <<ColumnNames>> \in Seq({ColumnNames})
        /\ Len(<<>>) = 0
    OBVIOUS
  <2>2. WriteAt(<<>>, Len(<<>>), <<ColumnNames>>) = <<>> \o <<ColumnNames>>
    BY <2>1, WriteAtEnd
  <2>3. <<>> \o <<ColumnNames>> = <<ColumnNames>>
    BY <2>1, ConcatEmptySeq
  <2> QED BY <2>1, <2>2, <2>3
<1>6. ASSUME FreshAt(w) PROVE FreshAt(w)'
  <2>1. header[CsvOf(w)] = <<>> /\ holds[w] = {"header"} /\ raw[RawOf(w)] = BooksUpTo(a, Count(a))
    BY <1>2, <1>6 DEF FreshAt
  <2>2. header' = [header EXCEPT ![CsvOf(w)] = WriteAt(header[CsvOf(w)], 0, <<ColumnNames>>)]
    BY <1>1, <1>2, <2>1 DEF PutHeader
  <2>3. header'[CsvOf(w)] = <<ColumnNames>>
    BY <1>1, <1>5, <2>1, <2>2
  <2>4. holds'[w] = {"header", "text"} /\ 0 <= Count(a) /\ Len(<<ColumnNames>>) = 1
    BY <1>2, <1>4, <2>1
  <2> QED BY <1>2, <1>3, <1>4, <2>1, <2>3, <2>4 DEF FreshAt
<1> QED BY <1>2, <1>6, FreshMove

LEMMA FreshProcessBook ==
  ASSUME TypeInv, FreshInv, NEW w \in Runs, ProcessBook(w)
  PROVE  FreshInv'
<1> DEFINE a == args[w]
           k == at[w]
           b == Book(a.dataset, k + 1)
           chunks == ChunkRows(a.dataset, k + 1, a.size)
<1>1. /\ header \in [CsvNames -> {Missing} \cup Seq(HeaderLines)]
      /\ text \in [CsvNames -> {Missing} \cup Seq(TextLines)] /\ CsvOf(w) \in CsvNames
      /\ a \in ArgSet /\ k \in Nat /\ at \in [Runs -> Nat] /\ wrote \in [Runs -> Nat]
  BY NamesOf DEF TypeInv, TypeOK
<1>2. /\ pc[w] = "process" /\ pc' = pc /\ Others(w)
      /\ UNCHANGED <<raw, alone, args, db, holds, rows>>
  BY DEF ProcessBook, Others
<1>3. ASSUME FreshRun(w), FreshAt(w) PROVE FreshAt(w)'
  <2> DEFINE H == HeaderUpTo(a, k)
             T == TextUpTo(a, k)
  <2>1. /\ raw[RawOf(w)] = BooksUpTo(a, Count(a)) /\ holds[w] = {"header", "text"}
        /\ header[CsvOf(w)] = H /\ text[CsvOf(w)] = T /\ wrote[w] = Len(T)
    BY <1>2, <1>3 DEF FreshAt
  <2>2. VisibleRaw(w) = {BooksUpTo(a, Count(a))}
    BY <1>3, <2>1, FreshReads
  <2> DEFINE lines == BooksUpTo(a, Count(a))
             line == lines[k + 1]
  <2>3. /\ k < Len(lines) /\ at' = [at EXCEPT ![w] = k + 1] /\ PutHeader(w, k + 1, line)
        /\ LET cs == ChunkRows(line.dataset, line.id, a.size)
           IN /\ text' = IF "text" \in holds[w]
                         THEN [text EXCEPT ![CsvOf(w)] = WriteAt(@, wrote[w], cs)] ELSE text
              /\ wrote' = [wrote EXCEPT ![w] = @ + Len(cs)]
    BY <2>2 DEF ProcessBook
  <2>4. /\ Count(a) \in Nat /\ Count(a) \in 0 .. Count(a)
        /\ Len(lines) = Count(a) /\ \A i \in 1 .. Count(a) : lines[i] = Book(a.dataset, i)
    <3>1. Count(a) \in Nat /\ Count(a) \in 0 .. Count(a)
      BY <1>1, CountIs
    <3> HIDE DEF a
    <3> QED BY ONLY <1>1, <3>1, BooksUpToIs
  <2>5. k < Count(a) /\ k \in 0 .. Count(a) /\ k + 1 \in 1 .. Count(a) /\ k + 1 <= Count(a)
    BY <1>1, <2>3, <2>4
  <2>6. line = b
    BY <2>4, <2>5
  <2> HIDE DEF lines, line
  <2>7. line.dataset = a.dataset /\ line.id = k + 1
    BY <2>6 DEF Book
  <2>8. /\ header' = [header EXCEPT ![CsvOf(w)] = WriteAt(header[CsvOf(w)], k + 1, <<b>>)]
        /\ text' = [text EXCEPT ![CsvOf(w)] = WriteAt(text[CsvOf(w)], wrote[w], chunks)]
        /\ wrote' = [wrote EXCEPT ![w] = wrote[w] + Len(chunks)]
    BY <1>1, <2>1, <2>3, <2>6, <2>7 DEF PutHeader
  <2>9. /\ b \in HeaderLines /\ chunks \in Seq(TextLines) /\ Len(chunks) \in Nat
    <3>1. b \in Books
      BY <1>1, <2>5, CountIs
    <3>2. chunks \in Seq(Chunks) /\ Chunks \subseteq TextLines
      BY <1>1, <2>5, RowsOfBook DEF TextLines
    <3> HIDE DEF b, chunks
    <3> QED BY <3>1, <3>2, SeqMonotonic, LenProperties DEF HeaderLines, RawLines
  <2>10. /\ H \in Seq(HeaderLines) /\ Len(H) = k + 1 /\ T \in Seq(TextLines)
         /\ HeaderUpTo(a, k + 1) = H \o <<b>> /\ TextUpTo(a, k + 1) = T \o chunks
    BY <1>1, <2>5, FilesUpTo
  <2> HIDE DEF H, T, b, chunks
  <2>11. WriteAt(H, k + 1, <<b>>) = H \o <<b>> /\ WriteAt(T, Len(T), chunks) = T \o chunks
    <3>1. <<b>> \in Seq(HeaderLines)
      BY <2>9
    <3> QED BY <2>9, <2>10, <3>1, WriteAtEnd
  <2>12. /\ header'[CsvOf(w)] = HeaderUpTo(a, k + 1) /\ text'[CsvOf(w)] = TextUpTo(a, k + 1)
    BY <1>1, <2>1, <2>8, <2>10, <2>11
  <2>13. wrote'[w] = Len(TextUpTo(a, k + 1))
    <3>1. Len(T \o chunks) = Len(T) + Len(chunks)
      BY ONLY <2>9, <2>10, ConcatProperties
    <3> QED BY <1>1, <2>1, <2>8, <2>10, <3>1
  <2>14. at'[w] = k + 1 /\ RawOf(w)' = RawOf(w) /\ CsvOf(w)' = CsvOf(w)
    BY <1>1, <1>2, <2>3 DEF RawOf, CsvOf
  <2> QED BY <1>2, <2>1, <2>5, <2>12, <2>13, <2>14 DEF FreshAt
<1>4. FreshRun(w) => FreshAt(w)'
  BY <1>3 DEF FreshInv, FreshRuns
<1> QED BY <1>2, <1>4, FreshMove

LEMMA FreshProcessed ==
  ASSUME TypeInv, FreshInv, NEW w \in Runs, Processed(w)
  PROVE  FreshInv'
<1> DEFINE a == args[w]
<1>1. a \in ArgSet /\ at[w] \in Nat
  BY NamesOf DEF TypeInv, TypeOK
<1>2. /\ pc[w] = "process" /\ pc'[w] = "look" /\ Others(w)
      /\ UNCHANGED <<header, text, alone, args, db>>
  BY DEF Processed, Others, Goto, files, TypeInv, TypeOK
<1>3. ASSUME FreshRun(w), FreshAt(w) PROVE FreshAt(w)'
  <2>1. /\ raw[RawOf(w)] = BooksUpTo(a, Count(a)) /\ at[w] <= Count(a)
        /\ header[CsvOf(w)] = HeaderUpTo(a, at[w]) /\ text[CsvOf(w)] = TextUpTo(a, at[w])
    BY <1>2, <1>3 DEF FreshAt
  <2>2. at[w] >= Len(BooksUpTo(a, Count(a)))
    BY <1>3, <2>1, FreshReads DEF Processed
  <2>3. Count(a) \in Nat /\ Count(a) \in 0 .. Count(a)
    BY <1>1, CountIs
  <2>4. Len(BooksUpTo(a, Count(a))) = Count(a)
    BY ONLY <1>1, <2>3, BooksUpToIs
  <2>5. at[w] = Count(a)
    BY <1>1, <2>1, <2>2, <2>3, <2>4
  <2>6. CsvOf(w)' = CsvOf(w)
    BY <1>2 DEF CsvOf
  <2> QED BY <1>2, <2>1, <2>5, <2>6 DEF FreshAt
<1>4. FreshRun(w) => FreshAt(w)'
  BY <1>3 DEF FreshInv, FreshRuns
<1> QED BY <1>2, <1>4, FreshMove

\* To the tables: what is in the files stays there.
LEMMA FreshLook ==
  ASSUME TypeInv, FreshInv, NEW w \in Runs, Look(w) \/ DropText(w)
  PROVE  FreshInv'
<1>1. /\ pc[w] \in {"look", "create"} /\ pc'[w] \in {"create", "dropHeader"} /\ Others(w)
      /\ UNCHANGED <<header, text, alone, args, db>>
  BY DEF Look, DropText, Others, Goto, files, TypeInv, TypeOK
<1>2. CsvOf(w)' = CsvOf(w)
  BY <1>1 DEF CsvOf
<1>3. ASSUME FreshAt(w) PROVE FreshAt(w)'
  BY <1>1, <1>2, <1>3 DEF FreshAt
<1>4. pc[w] # "idle" /\ pc'[w] # "idle"
  BY <1>1
<1> QED BY <1>1, <1>3, <1>4, FreshMove

LEMMA FreshTables ==
  ASSUME TypeInv, FreshInv, NEW w \in Runs, Create(w) \/ DropHeader(w)
  PROVE  FreshInv'
<1>1. /\ pc[w] \in {"create", "dropHeader"} /\ pc'[w] = "copyHeader" /\ Others(w)
      /\ db' = EmptyTables /\ UNCHANGED <<header, text, alone, args>>
  BY DEF Create, DropHeader, Others, Goto, files, TypeInv, TypeOK
<1>2. db'.header = <<>> /\ db'.text = <<>> /\ db'.by = {}
  BY <1>1 DEF EmptyTables, NoTables
<1>3. CsvOf(w)' = CsvOf(w)
  BY <1>1 DEF CsvOf
<1>4. ASSUME FreshRun(w) PROVE FreshAt(w)'
  <2>1. FreshAt(w)
    BY <1>4 DEF FreshInv, FreshRuns
  <2> QED BY <1>1, <1>2, <1>3, <2>1 DEF FreshAt
<1>5. FreshDb'
  BY <1>2 DEF FreshDb
<1> QED BY <1>1, <1>4, <1>5, FreshStep

LEMMA FreshCopyHeader ==
  ASSUME TypeInv, FreshInv, NEW w \in Runs, CopyHeader(w)
  PROVE  FreshInv'
<1> DEFINE a == args[w]
<1>1. a \in ArgSet /\ rows \in [Runs -> [header: Seq(HeaderRows), text: Seq(TextRows)]]
  BY NamesOf DEF TypeInv, TypeOK
<1>2. /\ pc[w] = "copyHeader" /\ pc'[w] = "copyText" /\ Others(w)
      /\ UNCHANGED <<header, text, alone, args, db>>
  BY DEF CopyHeader, Others, Goto, files, TypeInv, TypeOK
<1>3. ASSUME FreshRun(w), FreshAt(w) PROVE FreshAt(w)'
  <2>1. header[CsvOf(w)] = HeaderUpTo(a, Count(a))
    BY <1>2, <1>3 DEF FreshAt
  <2>2. rows' = [rows EXCEPT ![w].header = Taken(Tail(HeaderUpTo(a, Count(a))))]
    BY <1>3, <2>1, FreshReads DEF CopyHeader
  <2>3. Count(a) \in Nat /\ Count(a) \in 0 .. Count(a)
    BY <1>1, CountIs
  <2>4. Taken(Tail(HeaderUpTo(a, Count(a)))) = BooksUpTo(a, Count(a))
    BY ONLY <1>1, <2>3, FilesUpTo
  <2>5. rows'[w].header = BooksUpTo(a, Count(a))
    BY <1>1, <2>2, <2>4
  <2>6. CsvOf(w)' = CsvOf(w)
    BY <1>2 DEF CsvOf
  <2> QED BY <1>2, <1>3, <2>5, <2>6 DEF FreshAt
<1>4. FreshRun(w) => FreshAt(w)'
  BY <1>3 DEF FreshInv, FreshRuns
<1> QED BY <1>2, <1>4, FreshMove

LEMMA FreshCopyText ==
  ASSUME TypeInv, FreshInv, NEW w \in Runs, CopyText(w)
  PROVE  FreshInv'
<1> DEFINE a == args[w]
<1>1. a \in ArgSet /\ rows \in [Runs -> [header: Seq(HeaderRows), text: Seq(TextRows)]]
  BY NamesOf DEF TypeInv, TypeOK
<1>2. /\ pc[w] = "copyText" /\ pc'[w] = "commit" /\ Others(w)
      /\ UNCHANGED <<text, alone, args, db>>
  BY DEF CopyText, Others, Goto, files, TypeInv, TypeOK
<1>3. ASSUME FreshRun(w), FreshAt(w) PROVE FreshAt(w)'
  <2>1. text[CsvOf(w)] = TextUpTo(a, Count(a))
    BY <1>2, <1>3 DEF FreshAt
  <2>2. rows' = [rows EXCEPT ![w].text = Taken(Tail(TextUpTo(a, Count(a))))]
    BY <1>3, <2>1, FreshReads DEF CopyText
  <2>3. Count(a) \in Nat /\ Count(a) \in 0 .. Count(a)
    BY <1>1, CountIs
  <2>4. Taken(Tail(TextUpTo(a, Count(a)))) = ChunksUpTo(a, Count(a))
    BY ONLY <1>1, <2>3, FilesUpTo
  <2>5. rows'[w].text = ChunksUpTo(a, Count(a)) /\ rows'[w].header = rows[w].header
    BY <1>1, <2>2, <2>4
  <2> QED BY <1>2, <1>3, <2>5 DEF FreshAt
<1>4. FreshRun(w) => FreshAt(w)'
  BY <1>3 DEF FreshInv, FreshRuns
<1> QED BY <1>2, <1>4, FreshMove

\* The tables hold what the transaction has copied into the empty ones.
LEMMA FreshCommit ==
  ASSUME TypeInv, FreshInv, NEW w \in Runs, Commit(w)
  PROVE  FreshInv'
<1> DEFINE a == args[w]
           h == rows[w].header
           t == rows[w].text
<1>1. h \in Seq(HeaderRows) /\ t \in Seq(TextRows)
  BY DEF TypeInv, TypeOK
<1>2. /\ pc[w] = "commit" /\ pc'[w] = "clean" /\ Others(w) /\ UNCHANGED <<alone, args>>
  BY DEF Commit, Others, Goto, TypeInv, TypeOK
<1>3. /\ db'.header = db.header \o h /\ db'.text = db.text \o t
      /\ db'.by = {[args |-> a, alone |-> alone[w]]}
  BY DEF Commit, TypeInv, TypeOK
<1>4. FreshDb'
  <2> SUFFICES ASSUME NEW l \in db'.by, l.alone, ~l.args.cache
               PROVE  /\ db'.header = BooksUpTo(l.args, Count(l.args))
                      /\ db'.text = ChunksUpTo(l.args, Count(l.args))
    BY DEF FreshDb
  <2>1. l.args = a /\ l.alone = alone[w]
    <3> DEFINE me == [args |-> a, alone |-> alone[w]]
    <3>1. me.args = a /\ me.alone = alone[w]
      OBVIOUS
    <3>2. l \in {me}
      BY <1>3
    <3> HIDE DEF me
    <3>3. l = me
      BY <3>2
    <3> QED BY <3>1, <3>3
  <2>2. FreshAt(w)
    BY <2>1 DEF FreshInv, FreshRuns, FreshRun
  <2>3. /\ db.header = <<>> /\ db.text = <<>>
        /\ h = BooksUpTo(a, Count(a)) /\ t = ChunksUpTo(a, Count(a))
    BY <1>2, <2>2 DEF FreshAt
  <2> HIDE DEF h, t
  <2>4. <<>> \o h = h /\ <<>> \o t = t
    BY <1>1, ConcatEmptySeq
  <2> QED BY <1>3, <2>1, <2>3, <2>4
<1>5. FreshAt(w)'
  BY <1>2 DEF FreshAt
<1> QED BY <1>2, <1>4, <1>5, FreshStep

LEMMA FreshRemove ==
  ASSUME TypeInv, FreshInv, NEW w \in Runs, RemoveHeader(w) \/ RemoveText(w)
  PROVE  FreshInv'
<1>1. /\ pc[w] # "idle" /\ pc'[w] \in {"cleanText", "post"}
      /\ UNCHANGED <<alone, args, db>> /\ \A o \in Runs \ {w} : pc'[o] = pc[o]
  BY DEF RemoveHeader, RemoveText, Goto, TypeInv, TypeOK
<1>2. FreshAt(w)'
  BY <1>1 DEF FreshAt
<1>3. ASSUME NEW o \in Runs, o # w PROVE ~alone'[o]
  BY <1>1, <1>3 DEF FreshInv, FreshAlone, Unshared
<1>4. FreshAlone'
  <2>1. alone'[w] => Unshared(w)'
    BY <1>1 DEF FreshInv, FreshAlone, Unshared
  <2> QED BY <1>3, <2>1 DEF FreshAlone
<1>5. FreshRuns' /\ FreshDb'
  BY <1>1, <1>2, <1>3 DEF FreshRuns, FreshRun, FreshInv, FreshDb
<1> QED BY <1>4, <1>5 DEF FreshInv

LEMMA InitFresh == Init => FreshInv
<1> SUFFICES ASSUME Init PROVE FreshInv
  OBVIOUS
<1>1. db.by = {} /\ \A w \in Runs : ~alone[w]
  BY DEF Init, NoTables
<1> QED BY <1>1 DEF FreshInv, FreshAlone, FreshRuns, FreshRun, FreshDb

LEMMA NextFresh == TypeInv /\ FreshInv /\ [Next]_vars => FreshInv'
<1> SUFFICES ASSUME TypeInv, FreshInv, [Next]_vars PROVE FreshInv'
  OBVIOUS
<1>1. CASE UNCHANGED vars
  BY <1>1 DEF FreshInv, FreshAlone, FreshRuns, FreshDb, FreshRun, Unshared, FreshAt, RawOf, CsvOf, vars
<1>2. CASE Next
  <2>1. PICK w \in Runs :
          \/ Start(w) \/ TakeRaw(w) \/ OpenRaw(w) \/ Download(w) \/ Downloaded(w) \/ TakeCsv(w)
          \/ OpenHeader(w) \/ OpenText(w) \/ ProcessBook(w) \/ Processed(w) \/ Look(w) \/ Create(w)
          \/ DropText(w) \/ DropHeader(w) \/ CopyHeader(w) \/ CopyText(w) \/ Commit(w)
          \/ RemoveHeader(w) \/ RemoveText(w) \/ Crash(w) \/ EndStep(w)
    BY <1>2, NextCases
  <2>2. CASE EndStep(w)
    <3>1. Fail(w) /\ pc[w] # "idle"
      BY <2>2, EndStepFails DEF EndStep, DownloadFails, ProcessFails, Refused, CreateFails,
         CopyHeaderFails, CopyTextFails, PostProcess, DeadlockDetected, Deadlocked
    <3> QED BY <3>1, FreshEnd DEF Fail
  <2>3. CASE Crash(w)
    BY <2>3, FreshEnd DEF Crash
  <2> QED BY <2>1, <2>2, <2>3, FreshStart, FreshTakes, FreshOpenRaw, FreshDownload, FreshDownloaded,
             FreshOpenHeader, FreshOpenText, FreshProcessBook, FreshProcessed, FreshLook, FreshTables,
             FreshCopyHeader, FreshCopyText, FreshCommit, FreshRemove
<1> QED BY <1>1, <1>2

\* load_to_pg.py, README.md:33: a run without --use-cache that no other run
\* overlaps loads its whole data set, whatever the runs before it and those
\* that were killed have left: every book is in the header table once and in
\* order, and is read back from its chunks in the text table.
THEOREM FreshSafety == Spec => []FreshIsWhole
<1>1. ASSUME TypeInv, FreshInv PROVE FreshIsWhole
  <2> SUFFICES ASSUME NEW l \in db.by, l.alone, ~l.args.cache
               PROVE  LET books == Library[l.args.dataset]
                          n == IF l.args.limit < Len(books) THEN l.args.limit ELSE Len(books)
                      IN /\ db.header = [i \in 1 .. n |-> Book(l.args.dataset, i)]
                         /\ Ids(db.text) \subseteq 1 .. n
                         /\ \A i \in 1 .. n :
                              /\ ReadsBack(Book(l.args.dataset, i), db.text, l.args.size)
                              /\ ChaptersAscend(Book(l.args.dataset, i), db.text)
    BY DEF FreshIsWhole
  <2> DEFINE a == l.args
  <2>1. a \in ArgSet
    BY <1>1 DEF TypeInv, TypeOK
  <2>2. db.header = BooksUpTo(a, Count(a)) /\ db.text = ChunksUpTo(a, Count(a))
    BY <1>1 DEF FreshInv, FreshDb
  <2>3. /\ Ids(db.text) \subseteq 1 .. Count(a)
        /\ \A i \in 1 .. Count(a) :
             /\ ReadsBack(Book(a.dataset, i), db.text, a.size)
             /\ ChaptersAscend(Book(a.dataset, i), db.text)
    BY <2>1, <2>2, WholeReadsBack
  <2> QED BY <2>2, <2>3 DEF Count, BooksUpTo
<1>2. TypeInv /\ FreshInv => FreshIsWhole
  BY <1>1
<1> QED BY <1>2, TypeInvariance, InitFresh, NextFresh, PTL DEF Spec

=============================================================================
