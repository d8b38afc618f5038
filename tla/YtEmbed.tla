------------------------------ MODULE YtEmbed -------------------------------
(***************************************************************************)
(* embed_chunks.py: a queue worker embeds one source at a time, the legacy *)
(* mode (no -p) all chunks of the table at once, whatever their source's   *)
(* status is.                                                              *)
(***************************************************************************)
EXTENDS YtWorker

\* embed_one_source, up to the model: the chunks that have no vector yet.
ReadChunks(w) ==
  /\ pc[w] = "read"
  /\ LET s == cur[w]
         unembedded == {n \in ChunkRows(s) : vector[s][n] = NoText}
     IN /\ rows' = [rows EXCEPT ![w] = {<<s, n, chunkText[s]>> : n \in unembedded}]
        /\ Goto(w, IF unembedded = {} THEN "check" ELSE "write")
  /\ UNCHANGED <<batch, cur, text, tables>>

\* UPDATE yt_chunks SET embedding = ... WHERE id = ..., for every row read
\* that still exists.
WriteVectors(w) ==
  /\ pc[w] = "write"
  /\ vector' = [s \in Sources |-> [n \in ChunkNos |->
                  IF \E t \in Texts : <<s, n, t>> \in rows[w]
                  THEN CHOOSE t \in Texts : <<s, n, t>> \in rows[w]
                  ELSE vector[s][n]]]
  /\ rows' = [rows EXCEPT ![w] = {}]
  /\ Goto(w, IF w \in Legacy THEN "averageAll" ELSE "check")
  /\ UNCHANGED <<batch, cur, text, queueVars, contain, chunkText, average, solution>>

CheckComplete(w) ==
  /\ pc[w] = "check"
  /\ Goto(w, IF FullyEmbedded(cur[w]) THEN "average" ELSE "giveback")
  /\ UNCHANGED <<batch, cur, text, rows, tables>>

\* 'partial chunks embedded': back to the queue of the embedders.
GiveBack(w) ==
  /\ pc[w] = "giveback"
  /\ Conclude(w, "loaded")

\* AVG leaves out the NULLs, and is NULL when nothing is left.
\* Mutated form: an average that is there already is kept.
AverageOnce(w) ==
  /\ pc[w] = "average"
  /\ average' = [average EXCEPT ![cur[w]] =
       IF \A n \in ChunkNos : @[n] = NoText THEN vector[cur[w]] ELSE @]
  /\ Goto(w, "mark")
  /\ UNCHANGED <<batch, cur, text, rows, queueVars, contain, chunkText, vector, solution>>

UpdateAverage(w) ==
  /\ pc[w] = "average"
  /\ average' = [average EXCEPT ![cur[w]] = vector[cur[w]]]
  /\ Goto(w, "mark")
  /\ UNCHANGED <<batch, cur, text, rows, queueVars, contain, chunkText, vector, solution>>

MarkEmbedded(w) ==
  /\ pc[w] = "mark"
  /\ Conclude(w, "embedded")

EmbedError(w) ==
  /\ pc[w] \in {"read", "write", "check", "giveback", "average", "mark"}
  /\ Conclude(w, "failed_embedded")

EmbedStep(w) ==
  \/ ReadChunks(w)
  \/ WriteVectors(w)
  \/ CheckComplete(w)
  \/ GiveBack(w)
  \/ UpdateAverage(w)
  \/ MarkEmbedded(w)
  \/ EmbedError(w)

-----------------------------------------------------------------------------
\* process_legacy reads all chunks (--force) or those without a vector, and
\* --limit may cut the list anywhere; it stops when the list is empty.
LegacyRead(w) ==
  /\ pc[w] = "boot"
  /\ \E force \in BOOLEAN :
       LET found == {r \in Sources \X ChunkNos \X Texts :
                       /\ r[3] = chunkText[r[1]]
                       /\ force \/ vector[r[1]][r[2]] = NoText}
       IN \/ /\ found = {}
             /\ Goto(w, "done")
             /\ UNCHANGED rows
          \/ \E read \in SUBSET found :
               /\ read # {}
               /\ rows' = [rows EXCEPT ![w] = read]
               /\ Goto(w, "write")
  /\ UNCHANGED <<batch, cur, text, tables>>

\* A second transaction averages every source whose chunks are complete.
LegacyAverage(w) ==
  /\ pc[w] = "averageAll"
  /\ average' = [s \in Sources |-> IF FullyEmbedded(s) THEN vector[s] ELSE average[s]]
  /\ Goto(w, "done")
  /\ UNCHANGED <<batch, cur, text, rows, queueVars, contain, chunkText, vector, solution>>

LegacyStep(w) ==
  \/ LegacyRead(w)
  \/ WriteVectors(w)
  \/ LegacyAverage(w)

=============================================================================
