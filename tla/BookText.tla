------------------------------ MODULE BookText ------------------------------
(***************************************************************************)
(* How the book loader cuts a text into chunks and labels each one with    *)
(* the chapter it begins in.  A text is a sequence of "w" (a character of  *)
(* a word), "s" (a space) and "n" (a newline); a position counts from 0,   *)
(* as in the program.  A heading is a match of one of the patterns of the  *)
(* chapter parser: its position and its number.                            *)
(***************************************************************************)
EXTENDS Integers, Sequences, SequencesExt

CONSTANT NoNumber   \* no number: of a heading, or of a chunk

Blank == {"s", "n"}
Chars == {"w"} \cup Blank

IsWordChar(c) == c \notin Blank

Trim(s) ==
  LET words == {i \in DOMAIN s : IsWordChar(s[i])}
  IN IF words = {} THEN <<>> ELSE SubSeq(s, Min(words), Max(words))

\* Runs of spaces become one space, and runs of newlines one newline.
Dense(content) ==
  LET kept[n \in 0 .. Len(content)] ==
        IF n = 0 THEN <<>>
        ELSE IF n = 1 \/ content[n] # content[n - 1] \/ IsWordChar(content[n])
             THEN Append(kept[n - 1], content[n]) ELSE kept[n - 1]
  IN kept[Len(content)]

\* The ends are trimmed.
Squeeze(content) == Trim(Dense(content))

-----------------------------------------------------------------------------
\* The first of the headings behind pos, or the place after them all.
FirstBehind(headings, pos) ==
  LET behind == {i \in DOMAIN headings : headings[i].pos > pos}
  IN IF behind = {} THEN Len(headings) + 1 ELSE Min(behind)

\* The headings that have a number, in the order of the text; where two are at
\* one place, the one found first comes first.
InOrder(found) ==
  LET sorted[n \in 0 .. Len(found)] ==
        IF n = 0 THEN <<>>
        ELSE LET before == sorted[n - 1]
             IN IF found[n].num = NoNumber THEN before
                ELSE InsertAt(before, FirstBehind(before, found[n].pos), found[n])
  IN sorted[Len(found)]

\* Mutated form: a heading that only refers back to a chapter counts too.
EveryHeading(found) == InOrder(found)

\* ChapterParser.parse: what the patterns have found, in the order of the
\* text, without a heading whose number is not above all those before it.
ParseChapters(found) ==
  LET candidates == InOrder(found)
      result[n \in 0 .. Len(candidates)] ==
        IF n = 0 THEN <<>>
        ELSE LET before == result[n - 1]
                 last_num == IF before = <<>> THEN 0 ELSE Last(before).num
             IN IF candidates[n].num > last_num THEN Append(before, candidates[n]) ELSE before
  IN result[Len(candidates)]

\* find_section: the loop stops at the first heading behind pos.
FindSection(sections, pos) ==
  LET last == FirstBehind(sections, pos) - 1
  IN IF last = 0 THEN NoNumber ELSE sections[last].num

-----------------------------------------------------------------------------
\* text.rfind(" ", pos, end)
LastSpace(content, pos, end) ==
  LET found == {b \in pos .. end - 1 : content[b + 1] = "s"}
  IN IF found = {} THEN -1 ELSE Max(found)

\* Mutated form: the text is cut where the chunk is full.
HardEnd(content, pos, size) == IF pos + size < Len(content) THEN pos + size ELSE Len(content)

\* Where the chunk that begins at pos ends: after size characters, or at the
\* last space if that lies in its second half.
ChunkEnd(content, pos, size) ==
  LET end == IF pos + size < Len(content) THEN pos + size ELSE Len(content)
      bp == LastSpace(content, pos, end)
  IN IF end < Len(content) /\ bp > pos + size \div 2 THEN bp ELSE end

\* The next chunk begins where this one ends.
NextPos(content, end) == end

\* What is cut out of a text, and the chapter it begins in.
Piece(content, sections, pos, end) ==
  [body |-> Trim(SubSeq(content, pos + 1, end)), chapter |-> FindSection(sections, pos)]

\* _split_text: the bodies and chapters of the chunks of a book, in order.
SplitText(book, size) ==
  LET content == Squeeze(book.text)
      sections == ParseChapters(book.found)
      From[pos \in 0 .. Len(content)] ==
        IF pos = Len(content) THEN <<>>
        ELSE LET end == ChunkEnd(content, pos, size)
             IN <<Piece(content, sections, pos, end)>> \o From[NextPos(content, end)]
  IN IF book.text = <<>> THEN <<[body |-> <<>>, chapter |-> NoNumber]>>
     ELSE From[0]

=============================================================================
