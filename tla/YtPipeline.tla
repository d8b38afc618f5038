----------------------------- MODULE YtPipeline -----------------------------
(***************************************************************************)
(* yt-parser as a whole: the browser plugin enqueues, the three kinds of   *)
(* queue workers run side by side on one database, -y runs and legacy      *)
(* embedding runs go past the queue, processes die, and time passes.       *)
(***************************************************************************)
EXTENDS YtLoad, YtEmbed, YtSolve

Init == DbInit /\ WorkerInit

\* Everything one process does on its own account.
Step(w) ==
  \/ w \in Workers /\ QueueStep(w)
  \/ w \in Loaders \cup Clis /\ LoadStep(w)
  \/ w \in Embedders /\ EmbedStep(w)
  \/ w \in Analysts /\ SolveStep(w)
  \/ w \in Legacy /\ LegacyStep(w)

Next ==
  \/ \E s \in Sources : Enqueue(s) \/ GrowStale(s)
  \/ \E c \in Clis : CliInsert(c)
  \/ \E w \in Procs : Step(w) \/ Crash(w)

Spec == Init /\ [][Next]_vars

\* A process that is not dead goes on, and time passes.  Nobody has to
\* enqueue a video, start a -y run, or kill a process.
Fairness ==
  /\ \A w \in Procs : WF_vars(Step(w))
  /\ \A s \in Sources : WF_vars(GrowStale(s))

FairSpec == Spec /\ Fairness

-----------------------------------------------------------------------------
TypeOK ==
  /\ status \in [Sources -> Statuses \cup {"absent"}]
  /\ stale \subseteq Sources
  /\ before \subseteq Sources \X Sources
  /\ contain \in [Sources -> Texts \cup {Blank, NoText}]
  /\ chunkText \in [Sources -> Texts \cup {NoText}]
  /\ vector \in [Sources -> [ChunkNos -> Texts \cup {NoText}]]
  /\ average \in [Sources -> [ChunkNos -> Texts \cup {NoText}]]
  /\ solution \in [Sources -> Texts \cup {NoText}]
  /\ pc \in [Procs -> PcLabels]
  /\ batch \in [Procs -> SUBSET Sources]
  /\ cur \in [Procs -> Sources \cup {NoSource}]
  /\ text \in [Procs -> Texts \cup {Blank, NoText}]
  /\ rows \in [Procs -> SUBSET (Sources \X ChunkNos \X Texts)]

(***************************************************************************)
(* What holds however slow the workers are, whatever -y and legacy runs    *)
(* do, and wherever processes die.                                         *)
(***************************************************************************)

\* A stored vector was computed from the text its chunk has now: an embedder
\* that read the chunks before load_video replaced them writes nothing.
VectorsMatchText ==
  \A s \in Sources, n \in ChunkNos : vector[s][n] \in {NoText, chunkText[s]}

Embedded == {"embedded", "process_solution", "solution", "failed_solution"}

\* What each status promises at least, also when two workers overwrite each
\* other's statuses: from 'loaded' on there was a transcript, from 'embedded'
\* on there are chunks, and a 'solution' has a yt_solution row.
StatusBacked ==
  \A s \in Sources :
    /\ status[s] \in Embedded \cup {"loaded", "process_embed", "failed_embedded"}
         => contain[s] # NoText
    /\ status[s] \in Embedded => chunkText[s] # NoText
    /\ status[s] = "solution" => solution[s] # NoText

(***************************************************************************)
(* What holds when every claimed row is finished within the 30 minutes of  *)
(* recover_stuck and no -y run interferes.                                 *)
(***************************************************************************)

\* No source is in the hands of two workers (README.md:168, several -p
\* --watch may run in parallel and do not overlap).
Exclusive ==
  \A v, w \in Workers : v # w => Held(v) \cap Held(w) = {}

\* From 'embedded' on every chunk has its vector, yt_source.embedding is the
\* average of exactly these vectors, and the chunks are those of the stored
\* transcript (or it came back empty in a second load, which keeps chunks).
EmbeddedIsComplete ==
  \A s \in Sources : status[s] \in Embedded =>
    /\ FullyEmbedded(s)
    /\ average[s] = vector[s]
    /\ contain[s] \in {chunkText[s], Blank}

\* A solution was extracted from the transcript stored and searched now.
SolutionIsCurrent ==
  \A s \in Sources : status[s] = "solution" =>
    solution[s] = contain[s] /\ contain[s] = chunkText[s]

(***************************************************************************)
(* Liveness.                                                               *)
(***************************************************************************)

Settled == {"solution", "failed_load", "failed_embedded", "failed_solution"}

\* A queued video is brought to its end although workers die with batches in
\* their hands and others come back to the queue for ever, as long as one
\* --watch worker of each kind stays alive, unless its transcript is empty.
EventuallySettled ==
  \A s \in Sources :
    status[s] = "added" ~> status[s] \in Settled \/ contain[s] = Blank

\* ORDER BY updated_at: a source waiting for the embedder gets its turn,
\* although others are put back into the same queue again and again.
LoadedIsClaimed ==
  \A s \in Sources : status[s] = "loaded" ~> status[s] # "loaded"

=============================================================================
