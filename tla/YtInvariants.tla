---------------------------- MODULE YtInvariants ----------------------------
(***************************************************************************)
(* The inductive strengthenings of YtPipeline's invariants that the proofs *)
(* rest on.                                                                *)
(***************************************************************************)
EXTENDS YtPipeline

Working == {"fetch", "upsert", "chunks", "read", "write", "check", "giveback",
            "average", "text", "ask", "save", "mark"}

\* A process at work has a source in hand (legacy runs work on the table).
CurOK ==
  \A w \in Procs \ Legacy : pc[w] \in Working => cur[w] \in Sources

\* A transcript is in memory between the step that gets it and its last use.
TextOK ==
  \A w \in Procs :
    /\ w \in Loaders \cup Clis /\ pc[w] \in {"upsert", "chunks"} => text[w] \in Texts \cup {Blank}
    /\ w \in Analysts /\ pc[w] \in {"ask", "save"} => text[w] \in Texts

TypeInv == TypeOK /\ CurOK /\ TextOK

\* The rows a process will write to have the text it read them with.
RowsMatch ==
  \A w \in Procs : \A r \in rows[w] : r[3] = chunkText[r[1]]

VectorInv == VectorsMatchText /\ RowsMatch

\* A process knows of its source what the status it will write promises.
HolderBacked ==
  /\ \A w \in Loaders \cup Clis : pc[w] \in {"chunks", "mark"} => contain[cur[w]] # NoText
  /\ \A w \in Embedders, s \in Sources : s \in Held(w) => contain[s] # NoText
  /\ \A w \in Embedders : pc[w] \in {"average", "mark"} => chunkText[cur[w]] # NoText
  /\ \A w \in Analysts, s \in Sources :
       s \in Held(w) => contain[s] # NoText /\ chunkText[s] # NoText
  /\ \A w \in Analysts : pc[w] = "mark" => solution[cur[w]] # NoText

BackedInv == StatusBacked /\ HolderBacked

\* A worker has claimed nothing more when it looks into the queue, and no
\* source twice.
BatchOK ==
  \A w \in Workers :
    /\ pc[w] \in {"boot", "poll", "sleep"} => Held(w) = {}
    /\ pc[w] = "pick" => cur[w] = NoSource
    /\ cur[w] \notin batch[w]

\* What a worker holds is marked as being in work in its stage, and it is not
\* old enough for recover_stuck.
Owned ==
  \A w \in Workers, s \in Sources :
    s \in Held(w) => status[s] = Busy[StageOf(w)] /\ s \notin stale

OwnerInv == BatchOK /\ Owned /\ Exclusive

\* What holds of a source with the status st: from 'loaded' on the chunks are
\* those of the stored transcript, unless it came back empty; from 'embedded' on
\* the vectors and their average are complete; a solution is of this transcript.
Promised(s, st) ==
  /\ st \in {"loaded", "process_embed"} \cup Embedded => contain[s] \in {chunkText[s], Blank}
  /\ st \in Embedded => FullyEmbedded(s) /\ average[s] = vector[s]
  /\ st = "solution" => solution[s] = contain[s] /\ contain[s] = chunkText[s]

\* What a worker has done by itself to the source in its hands.
Achieved(w) ==
  \A s \in Sources : s = cur[w] =>
    /\ w \in Loaders /\ pc[w] = "chunks" => contain[s] = text[w]
    /\ w \in Loaders /\ pc[w] = "mark" => contain[s] \in {chunkText[s], Blank}
    /\ w \in Embedders /\ pc[w] \in {"average", "mark"} => FullyEmbedded(s)
    /\ w \in Embedders /\ pc[w] = "mark" => average[s] = vector[s]
    /\ w \in Analysts /\ pc[w] \in {"ask", "save"} => text[w] = contain[s]
    /\ w \in Analysts /\ pc[w] = "mark" => solution[s] = contain[s] /\ contain[s] \in Texts

CurrentInv ==
  /\ \A s \in Sources : Promised(s, status[s])
  /\ \A w \in Workers : Achieved(w)

=============================================================================
