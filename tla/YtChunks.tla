------------------------------ MODULE YtChunks ------------------------------
(***************************************************************************)
(* load_video.py: chunk_text, which packs the words of a transcript into   *)
(* chunks of at most max_bytes.  A word stands for its length in bytes.    *)
(***************************************************************************)
EXTENDS YtWorker, SequencesExt

CONSTANTS MaxWords, MaxBytes   \* bounds: the texts and sizes of ChunksAreTight
ASSUME ChunksAssumption == MaxWords \in Nat /\ MaxBytes \in Nat

\* The length of " ".join(buf).
Joined(buf) ==
  LET length[n \in 0 .. Len(buf)] ==
        IF n = 0 THEN 0 ELSE length[n - 1] + buf[n] + IF n = 1 THEN 0 ELSE 1
  IN length[Len(buf)]

\* The words in buf become a chunk.
Flush(s) ==
  [chunks |-> IF s.buf = <<>> THEN s.chunks ELSE Append(s.chunks, s.buf),
   buf |-> <<>>, bytes |-> 0]

\* Mutated form: the blank before the word is not counted.
FitsUnparted(s, w, max) == s.buf = <<>> \/ s.bytes + w <= max

Fits(s, w, max) == s.buf = <<>> \/ s.bytes + 1 + w <= max

\* A word that is too long for any chunk becomes one of its own.
TakeWord(s, w, max) ==
  IF w > max THEN [Flush(s) EXCEPT !.chunks = Append(@, <<w>>)]
  ELSE LET t == IF Fits(s, w, max) THEN s ELSE Flush(s)
       IN [t EXCEPT !.buf = Append(@, w),
                    !.bytes = @ + w + IF t.buf = <<>> THEN 0 ELSE 1]

ChunkText(words, max) ==
  LET taken[n \in 0 .. Len(words)] ==
        IF n = 0 THEN [chunks |-> <<>>, buf |-> <<>>, bytes |-> 0]
        ELSE TakeWord(taken[n - 1], words[n], max)
  IN Flush(taken[Len(words)]).chunks

-----------------------------------------------------------------------------
\* The chunks are the words in their order, none is empty, none but a single
\* long word exceeds max, and none ends before the next word is too much for it.
AreTight(chunks, words, max) ==
  /\ FlattenSeq(chunks) = words
  /\ \A i \in DOMAIN chunks :
       /\ chunks[i] # <<>>
       /\ Joined(chunks[i]) <= max \/ Len(chunks[i]) = 1
       /\ i < Len(chunks) => Joined(chunks[i]) + 1 + Head(chunks[i + 1]) > max

\* What save_chunks stores of a transcript is all of it, in chunks as full as
\* max_bytes allows.  It is about no state, and so it is evaluated in the initial
\* state only.
ChunksAreTight ==
  DbInit /\ WorkerInit =>
    \A words \in BoundedSeq(1 .. MaxBytes + 1, MaxWords), max \in 1 .. MaxBytes :
      AreTight(ChunkText(words, max), words, max)

=============================================================================
