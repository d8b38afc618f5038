------------------------------ MODULE YtWorker ------------------------------
(***************************************************************************)
(* The processes of yt-parser and the loop that load_video.py -p,          *)
(* embed_chunks.py -p and exec_llm.py -p share: recover the stuck rows,    *)
(* claim a batch, work through it, and when the queue is empty stop or,    *)
(* with --watch, sleep and look again.                                     *)
(*                                                                         *)
(* A process runs once: a restart is another member of the same set.       *)
(***************************************************************************)
EXTENDS YtDb

CONSTANTS
  Loaders,    \* load_video.py -p
  Embedders,  \* embed_chunks.py -p
  Analysts,   \* exec_llm.py -p
  Clis,       \* load_video.py -y
  Legacy,     \* embed_chunks.py without -p
  Watch,      \* the workers started with --watch
  Mortal,     \* the processes that may die
  Prompt,     \* a live worker finishes each claimed row within 30 minutes
  NoSource

Workers == Loaders \cup Embedders \cup Analysts
Procs == Workers \cup Clis \cup Legacy

ASSUME WorkerAssumption ==
  /\ Loaders \cap (Embedders \cup Analysts \cup Clis \cup Legacy) = {}
  /\ Embedders \cap (Analysts \cup Clis \cup Legacy) = {}
  /\ Analysts \cap (Clis \cup Legacy) = {}
  /\ Clis \cap Legacy = {}
  /\ Watch \subseteq Workers
  /\ Mortal \subseteq Procs
  /\ Prompt \in BOOLEAN
  /\ NoSource \notin Sources

VARIABLES
  pc,      \* where each process is
  batch,   \* the claimed sources it has not come to yet
  cur,     \* the source it works on
  text,    \* the transcript it fetched or read
  rows     \* the chunk rows it read and will write vectors to: <<s, n, text>>

local == <<pc, batch, cur, text, rows>>
vars == <<tables, local>>

StageOf(w) == IF w \in Loaders THEN "load"
              ELSE IF w \in Embedders THEN "embed" ELSE "solve"

FirstStep == [load |-> "fetch", embed |-> "read", solve |-> "text"]

PcLabels == {"boot", "poll", "sleep", "pick", "fetch", "upsert", "chunks",
             "read", "write", "check", "giveback", "average", "averageAll",
             "text", "ask", "save", "mark", "done", "dead"}

Alive(w) == pc[w] \notin {"done", "dead"}

\* What a queue worker has claimed and not finished.
Held(w) == {s \in Sources : s \in batch[w] \/ s = cur[w]}

WorkerInit ==
  /\ pc = [w \in Procs |-> "boot"]
  /\ batch = [w \in Procs |-> {}]
  /\ cur = [w \in Procs |-> NoSource]
  /\ text = [w \in Procs |-> NoText]
  /\ rows = [w \in Procs |-> {}]

-----------------------------------------------------------------------------
Goto(w, label) == pc' = [pc EXCEPT ![w] = label]

\* The step at the end of one source's work: its row gets the status st and
\* the worker turns to the rest of its batch; a -y run ends.
Conclude(w, st) ==
  /\ SetStatus(cur[w], st)
  /\ Goto(w, IF w \in Clis THEN "done" ELSE "pick")
  /\ cur' = [cur EXCEPT ![w] = NoSource]
  /\ text' = [text EXCEPT ![w] = NoText]
  /\ rows' = [rows EXCEPT ![w] = {}]
  /\ UNCHANGED <<batch, dataVars>>

\* Mutated form: recover_stuck only at the start of the loop.
RecoverAtStart(w) ==
  /\ w \in Workers
  /\ pc[w] \in {"boot", "sleep"}
  /\ IF pc[w] = "boot" THEN RecoverStuck ELSE UNCHANGED queueVars
  /\ Goto(w, "poll")
  /\ UNCHANGED <<batch, cur, text, rows, dataVars>>

\* recover_stuck at the start of the loop, and after each sleep.
Recover(w) ==
  /\ w \in Workers
  /\ pc[w] \in {"boot", "sleep"}
  /\ RecoverStuck
  /\ Goto(w, "poll")
  /\ UNCHANGED <<batch, cur, text, rows, dataVars>>

Claim(w) ==
  /\ pc[w] = "poll"
  /\ \E B \in Batches(StageOf(w)) :
       /\ B # {}
       /\ ClaimByStatus(StageOf(w), B)
       /\ batch' = [batch EXCEPT ![w] = B]
  /\ Goto(w, "pick")
  /\ UNCHANGED <<cur, text, rows, dataVars>>

FindEmpty(w) ==
  /\ pc[w] = "poll"
  /\ Claimable(StageOf(w)) = {}
  /\ Goto(w, IF w \in Watch THEN "sleep" ELSE "done")
  /\ UNCHANGED <<batch, cur, text, rows, tables>>

\* UPDATE ... RETURNING lists the batch in no particular order.
Pick(w) ==
  /\ pc[w] = "pick"
  /\ \E s \in batch[w] :
       /\ batch' = [batch EXCEPT ![w] = @ \ {s}]
       /\ cur' = [cur EXCEPT ![w] = s]
  /\ Goto(w, FirstStep[StageOf(w)])
  /\ UNCHANGED <<text, rows, tables>>

BatchDone(w) ==
  /\ pc[w] = "pick"
  /\ batch[w] = {}
  /\ Goto(w, "poll")
  /\ UNCHANGED <<batch, cur, text, rows, tables>>

QueueStep(w) ==
  \/ Recover(w)
  \/ Claim(w)
  \/ FindEmpty(w)
  \/ Pick(w)
  \/ BatchDone(w)

-----------------------------------------------------------------------------
\* The process is killed, or a database error reaches main, which ends it:
\* an open transaction is rolled back and the statuses stay as they are.
Crash(w) ==
  /\ w \in Mortal
  /\ Alive(w)
  /\ Goto(w, "dead")
  /\ batch' = [batch EXCEPT ![w] = {}]
  /\ cur' = [cur EXCEPT ![w] = NoSource]
  /\ text' = [text EXCEPT ![w] = NoText]
  /\ rows' = [rows EXCEPT ![w] = {}]
  /\ UNCHANGED tables

\* Half an hour passes over a row that no process has updated.
GrowStale(s) ==
  /\ s \notin stale
  /\ \E k \in Stages : status[s] = Busy[k]
  /\ Prompt => \A w \in Workers : s \notin Held(w)
  /\ stale' = stale \cup {s}
  /\ UNCHANGED <<status, before, dataVars, local>>

=============================================================================
