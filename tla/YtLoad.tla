------------------------------- MODULE YtLoad -------------------------------
(***************************************************************************)
(* load_video.py: process_video, run by a queue worker for each source of  *)
(* its batch or by a -y run for the one URL it was given.  It saves in     *)
(* several transactions: the source, the channel and tags (not modelled),  *)
(* the chunks, the status.                                                 *)
(***************************************************************************)
EXTENDS YtWorker

\* enqueue_api.py: POST /enqueue inserts a source it does not know yet.
Enqueue(s) ==
  /\ InsertSource(s)
  /\ UNCHANGED <<dataVars, local>>

\* load_video.py -y: inserts the source unless it is there, and goes on to
\* process it whatever its status is.
CliInsert(c) ==
  /\ c \in Clis
  /\ pc[c] = "boot"
  /\ \E s \in Sources :
       /\ \/ InsertSource(s)
          \/ status[s] # "absent" /\ UNCHANGED queueVars
       /\ cur' = [cur EXCEPT ![c] = s]
  /\ Goto(c, "fetch")
  /\ UNCHANGED <<batch, text, rows, dataVars>>

FetchOk(w) ==
  /\ pc[w] = "fetch"
  /\ \E t \in Fetched : text' = [text EXCEPT ![w] = t]
  /\ Goto(w, "upsert")
  /\ UNCHANGED <<batch, cur, rows, tables>>

\* YouTube gives no metadata or no transcript.
FetchFail(w) ==
  /\ pc[w] = "fetch"
  /\ Conclude(w, "failed_load")

\* Mutated form: ON CONFLICT DO NOTHING keeps the transcript of an earlier load.
InsertTranscript(w) ==
  /\ pc[w] = "upsert"
  /\ contain' = [contain EXCEPT ![cur[w]] = IF @ = NoText THEN text[w] ELSE @]
  /\ Goto(w, "chunks")
  /\ UNCHANGED <<batch, cur, text, rows, queueVars, chunkText, vector, average, solution>>

UpsertSource(w) ==
  /\ pc[w] = "upsert"
  /\ contain' = [contain EXCEPT ![cur[w]] = text[w]]
  /\ Goto(w, "chunks")
  /\ UNCHANGED <<batch, cur, text, rows, queueVars, chunkText, vector, average, solution>>

\* Mutated form: INSERT ... ON CONFLICT (source_id, chunk_no) DO UPDATE SET
\* content, which keeps the rows, their ids and their vectors.
UpsertChunks(w) ==
  /\ pc[w] = "chunks"
  /\ chunkText' = [chunkText EXCEPT ![cur[w]] = IF text[w] = Blank THEN @ ELSE text[w]]
  /\ Goto(w, "mark")
  /\ UNCHANGED <<batch, cur, text, rows, queueVars, contain, vector, average, solution>>

\* DELETE and INSERT in one transaction.  The new rows have new ids, so the
\* ids other processes hold of the deleted rows match nothing any more.  An
\* empty transcript has no chunks: save_chunks returns before the DELETE.
SaveChunks(w) ==
  /\ pc[w] = "chunks"
  /\ \/ /\ text[w] = Blank
        /\ UNCHANGED <<chunkText, vector, rows>>
     \/ /\ text[w] # Blank
        /\ chunkText' = [chunkText EXCEPT ![cur[w]] = text[w]]
        /\ vector' = [vector EXCEPT ![cur[w]] = NoVectors]
        /\ rows' = [p \in Procs |-> {r \in rows[p] : r[1] # cur[w]}]
  /\ Goto(w, "mark")
  /\ UNCHANGED <<batch, cur, text, queueVars, contain, average, solution>>

\* Mutated form: the status README.md:17 names, which the CHECK of yt_status
\* does not know.
MarkOk(w) ==
  /\ pc[w] = "mark"
  /\ Conclude(w, "ok")

MarkLoaded(w) ==
  /\ pc[w] = "mark"
  /\ Conclude(w, "loaded")

\* An exception after the fetch: process_queue rolls back and marks the
\* source, a -y run ends without touching the status.
LoadError(w) ==
  /\ w \in Loaders
  /\ pc[w] \in {"upsert", "chunks", "mark"}
  /\ Conclude(w, "failed_load")

CliError(w) ==
  /\ w \in Clis
  /\ pc[w] \in {"fetch", "upsert", "chunks", "mark"}
  /\ Goto(w, "done")
  /\ cur' = [cur EXCEPT ![w] = NoSource]
  /\ text' = [text EXCEPT ![w] = NoText]
  /\ UNCHANGED <<batch, rows, tables>>

LoadStep(w) ==
  \/ FetchOk(w)
  \/ FetchFail(w)
  \/ UpsertSource(w)
  \/ SaveChunks(w)
  \/ MarkLoaded(w)
  \/ LoadError(w)
  \/ CliError(w)

=============================================================================
