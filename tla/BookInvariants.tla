--------------------------- MODULE BookInvariants ---------------------------
(***************************************************************************)
(* What the runs of load_to_pg.py keep true of the two tables.             *)
(***************************************************************************)
EXTENDS BookLoad

CONSTANTS MaxText, MaxSize   \* bounds: the texts and chunk sizes of SplitIsSound

ASSUME BoundsAssumption == MaxText \in Nat /\ MaxSize \in Nat

PcLabels ==
  {"idle", "raw", "download", "csv", "openText", "process", "look", "create",
   "dropHeader", "copyHeader", "copyText", "commit", "clean", "cleanText", "post"}

\* The lines and rows there may be: of books that are in a data set, and of
\* their chunks.
Books == UNION {{Book(d, i) : i \in DOMAIN Library[d]} : d \in Datasets}
Chunks ==
  UNION {UNION {Range(ChunkRows(b.dataset, b.id, a.size)) : a \in ArgSet} : b \in Books}

Short(line) == [line EXCEPT !.is = "short"]
RawLines == Books \cup {Cut(b) : b \in Books} \cup {Hole}
HeaderLines == RawLines \cup {ColumnNames}
TextLines == Chunks \cup {Cut(c) : c \in Chunks} \cup {Hole, ColumnNames}
HeaderRows == Books \cup {Short(b) : b \in Books}
TextRows == Chunks \cup {Short(c) : c \in Chunks}

\* That there is no file is not a file of any content.
ASSUME MissingAssumption == Missing \notin Seq(HeaderLines \cup TextLines)

TypeOK ==
  /\ raw \in [Limits -> {Missing} \cup Seq(RawLines)]
  /\ header \in [CsvNames -> {Missing} \cup Seq(HeaderLines)]
  /\ text \in [CsvNames -> {Missing} \cup Seq(TextLines)]
  /\ db \in [exists: BOOLEAN, header: Seq(HeaderRows), text: Seq(TextRows),
             by: SUBSET [args: ArgSet, alone: BOOLEAN]]
  /\ rows \in [Runs -> [header: Seq(HeaderRows), text: Seq(TextRows)]]
  /\ pc \in [Runs -> PcLabels]
  /\ args \in [Runs -> ArgSet]
  /\ at \in [Runs -> Nat]
  /\ wrote \in [Runs -> Nat]
  /\ holds \in [Runs -> SUBSET {"raw", "header", "text"}]
  /\ \A w \in Runs : holds[w] # {} => pc[w] \in {"download", "openText", "process"}
  /\ \A w \in Runs : at[w] # 0 => pc[w] \in {"download", "process"}
  /\ existed \in [Runs -> BOOLEAN]
  /\ alone \in [Runs -> BOOLEAN]
  /\ overlap \in BOOLEAN
  /\ starts \in 0 .. MaxStarts

\* The members of S in s, in their order.
Only(S, s) ==
  LET kept[n \in 0 .. Len(s)] ==
        IF n = 0 THEN <<>> ELSE IF s[n] \in S THEN Append(kept[n - 1], s[n]) ELSE kept[n - 1]
  IN kept[Len(s)]

\* s, each of its words with a capital.
Capitals(s) ==
  [i \in DOMAIN s |->
     IF IsWordChar(s[i]) /\ (i = 1 \/ ~IsWordChar(s[i - 1])) THEN "W" ELSE s[i]]

\* The letters of s.
Words(s) == Only({"w", "W"}, s)

\* The chunks of book b in a table of text rows, in their order.
PiecesOf(b, t) == Only({r \in Range(t) : r.dataset = b.dataset /\ r.id = b.id}, t)

\* README.md:33, each book is split into chunks: the chunks of a book are
\* numbered in order, none is longer than the chunk size, and together they
\* are its words.
ReadsBack(b, t, size) ==
  LET pieces == PiecesOf(b, t)
  IN /\ \A i \in DOMAIN pieces : pieces[i].chunk = i - 1 /\ Len(pieces[i].body) <= size
     /\ FlattenSeq([i \in DOMAIN pieces |-> Words(pieces[i].body)])
          = Words(Library[b.dataset][b.id].text)

Texts == UNION {[1 .. n -> {"w", "s", "n"}] : n \in 0 .. MaxText}

\* No word of s is longer than n.
ShortWords(s, n) == \A i \in 1 .. Len(s) - n : \E j \in i .. i + n : ~IsWordChar(s[j])

\* README.md of utils, "at word boundaries": whatever the text and the chunk
\* size, no chunk is too long, no word gets lost, and a word that is shorter
\* than half a chunk is never cut (where spaces, not newlines, part the words).
SplitIsSound ==
  starts = 0 =>
    \A s \in Texts, size \in 1 .. MaxSize :
      LET pieces == SplitText([text |-> s, found |-> <<>>], size)
          bodies == [i \in DOMAIN pieces |-> pieces[i].body]
      IN /\ \A i \in DOMAIN bodies : Len(bodies[i]) <= size
         /\ FlattenSeq([i \in DOMAIN bodies |-> Words(bodies[i])]) = Words(s)
         /\ "n" \notin ToSet(s) /\ ShortWords(s, size - size \div 2 - 1) =>
              FlattenSeq([i \in DOMAIN bodies |-> Words(Capitals(bodies[i]))]) = Words(Capitals(s))

\* chapter_parser.py:12, the chapters never count backwards, although the
\* text names earlier ones.
ChaptersAscend(b, t) ==
  LET pieces == PiecesOf(b, t)
      num(i) == IF pieces[i].chapter = NoNumber THEN 0 ELSE pieces[i].chapter
  IN \A i, j \in DOMAIN pieces : i < j => num(i) <= num(j)

\* A run without --use-cache that no other run overlaps loads its whole data
\* set, whatever killed runs have left in the storage directory.
FreshIsWhole ==
  \A l \in db.by : l.alone /\ ~l.args.cache =>
    LET books == Library[l.args.dataset]
        n == IF l.args.limit < Len(books) THEN l.args.limit ELSE Len(books)
    IN /\ db.header = [i \in 1 .. n |-> Book(l.args.dataset, i)]
       /\ Ids(db.text) \subseteq 1 .. n
       /\ \A i \in 1 .. n :
            /\ ReadsBack(Book(l.args.dataset, i), db.text, l.args.size)
            /\ ChaptersAscend(Book(l.args.dataset, i), db.text)

\* As long as no two runs overlap, no text stands under the title of another
\* data set, also when --use-cache takes the files of runs that were killed.
TitlesMatchText ==
  ~overlap =>
    \A i \in DOMAIN db.text : \E j \in DOMAIN db.header :
      db.header[j].id = db.text[i].id /\ db.header[j].dataset = db.text[i].dataset

\* load_to_pg.py:214, rows that are in the tables only leave them by a run with
\* --override, however several runs interleave between their look at the tables
\* and what they do to them.
KeptUnlessOverride ==
  [][~(IsPrefix(db.header, db'.header) /\ IsPrefix(db.text, db'.text)) =>
       \E w \in Runs : args[w].override /\ pc[w] = "dropHeader"]_vars

=============================================================================
