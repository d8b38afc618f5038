-------------------------------- MODULE YtDb --------------------------------
(***************************************************************************)
(* The PostgreSQL tables of yt-parser and the functions of db.py that      *)
(* every process calls on them.  A transaction is one step: PostgreSQL     *)
(* runs them READ COMMITTED and each function commits before it returns.   *)
(*                                                                         *)
(* A text stands for one version of a transcript.  The tables keep texts,  *)
(* and a vector is known by the text it was computed from.                 *)
(***************************************************************************)
EXTENDS Integers, FiniteSets, YtStatus

CONSTANTS
  Sources,    \* the videos that may be queued (ids of yt_source)
  Texts,      \* the non-empty transcripts YouTube may return
  Blank,      \* the empty transcript
  Fetched,    \* the transcripts a fetch may return
  NoText,     \* SQL NULL: nothing stored
  ChunkNos,   \* chunk_no of the chunks a non-empty text is cut into
  BatchSize   \* --batch-size

ASSUME DbAssumption ==
  /\ Blank \notin Texts
  /\ NoText \notin Texts \cup {Blank}
  /\ Fetched \subseteq Texts \cup {Blank}
  /\ ChunkNos # {}
  /\ BatchSize \in Nat \ {0}

VARIABLES
  status,     \* yt_status.status of each source, "absent" before the insert
  stale,      \* sources whose yt_status.updated_at is over 30 minutes old
  before,     \* <<a, b>>: a's yt_status.updated_at is older than b's
  contain,    \* yt_source.contain
  chunkText,  \* the text the source's yt_chunks rows were cut from
  vector,     \* yt_chunks.embedding of each chunk
  average,    \* the vectors yt_source.embedding was averaged from
  solution    \* the text the source's yt_solution row was extracted from

tables == <<status, stale, before, contain, chunkText, vector, average, solution>>
queueVars == <<status, stale, before>>
dataVars == <<contain, chunkText, vector, average, solution>>

-----------------------------------------------------------------------------
NoVectors == [n \in ChunkNos |-> NoText]

DbInit ==
  /\ status = [s \in Sources |-> "absent"]
  /\ stale = {}
  /\ before = {}
  /\ contain = [s \in Sources |-> NoText]
  /\ chunkText = [s \in Sources |-> NoText]
  /\ vector = [s \in Sources |-> NoVectors]
  /\ average = [s \in Sources |-> NoVectors]
  /\ solution = [s \in Sources |-> NoText]

\* updated_at = now() in the rows S: the newest rows, of one age among them.
Touch(S) ==
  /\ stale' = stale \ S
  /\ before' = {p \in before : p[1] \notin S /\ p[2] \notin S}
                 \cup ({s \in Sources : status[s] # "absent"} \ S) \X S

SetStatus(s, st) ==
  /\ status' = [status EXCEPT ![s] = st]
  /\ Touch({s})

\* The trigger on yt_source gives a new source the status 'added'.
InsertSource(s) ==
  /\ status[s] = "absent"
  /\ SetStatus(s, "added")

Claimable(k) == {s \in Sources : status[s] = Ready[k]}

\* Mutated form: the claim without ORDER BY updated_at.
BatchesAnyOrder(k) ==
  {B \in SUBSET Claimable(k) :
     /\ Cardinality(B) <= BatchSize
     /\ Cardinality(B) = BatchSize \/ B = Claimable(k)}

\* The rows LIMIT may leave after ORDER BY updated_at: as many as there are,
\* none of them newer than a row left behind.
Batches(k) ==
  {B \in SUBSET Claimable(k) :
     /\ Cardinality(B) <= BatchSize
     /\ Cardinality(B) = BatchSize \/ B = Claimable(k)
     /\ \A c \in B, u \in Claimable(k) \ B : <<u, c>> \notin before}

ClaimByStatus(k, B) ==
  /\ B \in Batches(k)
  /\ status' = [s \in Sources |-> IF s \in B THEN Busy[k] ELSE status[s]]
  /\ Touch(B)

\* Mutated form: recover_stuck without its test of updated_at.
StuckAnyAge(k) == {s \in Sources : status[s] = Busy[k]}

\* Every process_* row over 30 minutes old goes back to the ready status of
\* its stage, whoever works on it.
Stuck(k) == {s \in stale : status[s] = Busy[k]}

\* Mutated form: recover_stuck sends every stuck row back to the start.
RecoverToAdded ==
  /\ status' = [s \in Sources |->
                  IF \E k \in Stages : s \in Stuck(k) THEN "added" ELSE status[s]]
  /\ Touch(UNION {Stuck(k) : k \in Stages})

RecoverStuck ==
  /\ status' = [s \in Sources |->
                  IF \E k \in Stages : s \in Stuck(k)
                  THEN Ready[CHOOSE k \in Stages : s \in Stuck(k)]
                  ELSE status[s]]
  /\ Touch(UNION {Stuck(k) : k \in Stages})

\* The yt_chunks rows of a source, by chunk_no.
ChunkRows(s) == IF chunkText[s] = NoText THEN {} ELSE ChunkNos

\* Mutated form: source_fully_embedded without its first EXISTS.
NothingUnembedded(s) == \A n \in ChunkRows(s) : vector[s][n] # NoText

\* source_fully_embedded: at least one chunk, and none without a vector.
FullyEmbedded(s) ==
  /\ ChunkRows(s) # {}
  /\ \A n \in ChunkRows(s) : vector[s][n] # NoText

=============================================================================
