-------------------------- MODULE YtPipelineProofs --------------------------
(***************************************************************************)
(* TLAPS proofs about YtPipeline, for any number of videos, transcripts,   *)
(* chunks and processes, and about chunk_text, for any transcript.  The    *)
(* last part is the queue, provided that every claimed row is finished     *)
(* within the half hour of recover_stuck and no -y run sets statuses:      *)
(* owners, and the abstract queue it implements.                           *)
(***************************************************************************)
EXTENDS YtInvariants, YtRefinement, YtChunks, Induction

-----------------------------------------------------------------------------
(* Types.                                                                  *)

\* The initial state has the types of TypeOK.
LEMMA InitTypeOK == Init => TypeOK
BY DEF Init, DbInit, WorkerInit, TypeOK, NoVectors, PcLabels

\* Touch keeps the two columns it changes in their types.
LEMMA TouchType ==
  ASSUME NEW S \in SUBSET Sources, TypeOK, Touch(S)
  PROVE  stale' \subseteq Sources /\ before' \subseteq Sources \X Sources
BY DEF TypeOK, Touch

\* So does every write of one status.
LEMMA SetStatusType ==
  ASSUME NEW s \in Sources, NEW st \in Statuses, TypeOK, SetStatus(s, st)
  PROVE  /\ status' \in [Sources -> Statuses \cup {"absent"}]
         /\ stale' \subseteq Sources
         /\ before' \subseteq Sources \X Sources
<1>1. Touch({s})
  BY DEF SetStatus
<1>2. status' \in [Sources -> Statuses \cup {"absent"}]
  BY DEF SetStatus, TypeOK
<1> QED
  BY <1>1, <1>2, TouchType

\* The end of a source's work keeps the invariant.
LEMMA ConcludeType ==
  ASSUME NEW w \in Procs \ Legacy, NEW st \in Statuses, TypeInv,
         pc[w] \in Working, Conclude(w, st)
  PROVE  TypeInv'
<1>1. /\ status' \in [Sources -> Statuses \cup {"absent"}]
      /\ stale' \subseteq Sources
      /\ before' \subseteq Sources \X Sources
  BY SetStatusType DEF TypeInv, CurOK, Conclude
<1>2. TypeOK'
  BY <1>1 DEF TypeInv, TypeOK, Conclude, Goto, dataVars, PcLabels
<1>3. CurOK' /\ TextOK'
  BY DEF TypeInv, TypeOK, CurOK, TextOK, Conclude, Goto, Working
<1> QED
  BY <1>2, <1>3 DEF TypeInv

\* The common loop of the workers keeps it.
LEMMA QueueStepType ==
  ASSUME NEW w \in Workers, TypeInv, QueueStep(w)
  PROVE  TypeInv'
<1> w \in Procs
  BY DEF Procs
<1> StageOf(w) \in Stages
  BY DEF StageOf, Stages
<1>1. CASE Recover(w)
  <2>1. \A k \in Stages : Stuck(k) \subseteq Sources /\ Ready[k] \in Statuses
    BY DEF Stuck, TypeInv, TypeOK, Stages, Ready, Statuses
  <2>2. status' \in [Sources -> Statuses \cup {"absent"}]
    <3>1. \A s \in Sources : (\E k \in Stages : s \in Stuck(k))
             => (CHOOSE k \in Stages : s \in Stuck(k)) \in Stages
      OBVIOUS
    <3> QED
      BY <1>1, <2>1, <3>1 DEF Recover, RecoverStuck, TypeInv, TypeOK
  <2>3. stale' \subseteq Sources /\ before' \subseteq Sources \X Sources
    BY <1>1, <2>1, TouchType DEF Recover, RecoverStuck, TypeInv
  <2>4. TypeOK'
    BY <1>1, <2>2, <2>3 DEF Recover, Goto, dataVars, TypeInv, TypeOK, PcLabels
  <2> QED
    BY <1>1, <2>4 DEF Recover, Goto, TypeInv, TypeOK, CurOK, TextOK, Working
<1>2. CASE Claim(w)
  <2>1. PICK B \in Batches(StageOf(w)) :
          ClaimByStatus(StageOf(w), B) /\ batch' = [batch EXCEPT ![w] = B]
    BY <1>2 DEF Claim
  <2>2. B \subseteq Sources
    BY DEF Batches, Claimable
  <2>3. stale' \subseteq Sources /\ before' \subseteq Sources \X Sources
    BY <2>1, <2>2, TouchType DEF ClaimByStatus, TypeInv
  <2>4. status' \in [Sources -> Statuses \cup {"absent"}]
    BY <2>1 DEF ClaimByStatus, TypeInv, TypeOK, Stages, Busy, Statuses
  <2>5. TypeOK'
    BY <1>2, <2>1, <2>2, <2>3, <2>4 DEF Claim, Goto, dataVars, TypeInv, TypeOK, PcLabels
  <2> QED
    BY <1>2, <2>5 DEF Claim, Goto, TypeInv, TypeOK, CurOK, TextOK, Working
<1>3. CASE FindEmpty(w)
  BY <1>3 DEF FindEmpty, Goto, tables, TypeInv, TypeOK, CurOK, TextOK, Working, PcLabels
<1>4. CASE Pick(w)
  <2>1. FirstStep[StageOf(w)] \in {"fetch", "read", "text"}
    BY DEF FirstStep, Stages
  <2>2. TypeOK'
    BY <1>4, <2>1 DEF Pick, Goto, tables, TypeInv, TypeOK, PcLabels
  <2> QED
    BY <1>4, <2>1, <2>2 DEF Pick, Goto, TypeInv, TypeOK, CurOK, TextOK
<1>5. CASE BatchDone(w)
  BY <1>5 DEF BatchDone, Goto, tables, TypeInv, TypeOK, CurOK, TextOK, Working, PcLabels
<1> QED
  BY <1>1, <1>2, <1>3, <1>4, <1>5 DEF QueueStep

\* So does each step of process_video,
LEMMA LoadStepType ==
  ASSUME NEW w \in Loaders \cup Clis, TypeInv, LoadStep(w)
  PROVE  TypeInv'
<1> w \in Procs \ Legacy /\ w \notin Analysts
  BY WorkerAssumption DEF Procs, Workers
<1>1. CASE FetchOk(w)
  BY <1>1, DbAssumption
  DEF FetchOk, Goto, tables, TypeInv, TypeOK, CurOK, TextOK, Working, PcLabels
<1>2. CASE FetchFail(w) \/ MarkLoaded(w) \/ LoadError(w)
  BY <1>2, ConcludeType DEF FetchFail, MarkLoaded, LoadError, Working, Statuses
<1>3. CASE UpsertSource(w)
  <2>1. TypeOK'
    BY <1>3 DEF UpsertSource, Goto, queueVars, TypeInv, TypeOK, PcLabels
  <2> QED
    BY <1>3, <2>1 DEF UpsertSource, Goto, TypeInv, CurOK, TextOK, TypeOK, Working
<1>4. CASE SaveChunks(w)
  <2>1. text[w] \in Texts \cup {Blank}
    BY <1>4 DEF SaveChunks, TypeInv, TextOK
  <2>2. chunkText' \in [Sources -> Texts \cup {NoText}]
    BY <1>4, <2>1 DEF SaveChunks, TypeInv, TypeOK
  <2>3. vector' \in [Sources -> [ChunkNos -> Texts \cup {NoText}]]
    <3>1. NoVectors \in [ChunkNos -> Texts \cup {NoText}]
      BY DEF NoVectors
    <3> QED
      BY <1>4, <3>1 DEF SaveChunks, TypeInv, TypeOK
  <2>4. rows' \in [Procs -> SUBSET (Sources \X ChunkNos \X Texts)]
    BY <1>4 DEF SaveChunks, TypeInv, TypeOK
  <2>5. TypeOK'
    BY <1>4, <2>2, <2>3, <2>4 DEF SaveChunks, Goto, queueVars, TypeInv, TypeOK, PcLabels
  <2> QED
    BY <1>4, <2>5 DEF SaveChunks, Goto, TypeInv, CurOK, TextOK, TypeOK, Working
<1>5. CASE CliError(w)
  BY <1>5 DEF CliError, Goto, tables, TypeInv, TypeOK, CurOK, TextOK, Working, PcLabels
<1> QED
  BY <1>1, <1>2, <1>3, <1>4, <1>5 DEF LoadStep

\* the vectors an embedder or a legacy run writes,
LEMMA WriteVectorsType ==
  ASSUME NEW w \in Embedders \cup Legacy, TypeInv, WriteVectors(w)
  PROVE  TypeInv'
<1> w \in Procs /\ w \notin Loaders \cup Clis \cup Analysts
  BY WorkerAssumption DEF Procs, Workers
<1>1. vector' \in [Sources -> [ChunkNos -> Texts \cup {NoText}]]
  <2>1. \A s \in Sources, n \in ChunkNos :
          (\E t \in Texts : <<s, n, t>> \in rows[w])
            => (CHOOSE t \in Texts : <<s, n, t>> \in rows[w]) \in Texts
    OBVIOUS
  <2> QED
    BY <2>1 DEF WriteVectors, TypeInv, TypeOK
<1>2. TypeOK'
  BY <1>1 DEF WriteVectors, Goto, queueVars, TypeInv, TypeOK, PcLabels
<1> QED
  BY <1>2 DEF WriteVectors, Goto, TypeInv, TypeOK, CurOK, TextOK, Working

\* the other steps of an embedder,
LEMMA EmbedStepType ==
  ASSUME NEW w \in Embedders, TypeInv, EmbedStep(w)
  PROVE  TypeInv'
<1> w \in Procs \ Legacy /\ w \notin Loaders \cup Clis \cup Analysts
  BY WorkerAssumption DEF Procs, Workers
<1>1. CASE ReadChunks(w)
  <2>1. cur[w] \in Sources
    BY <1>1 DEF ReadChunks, TypeInv, CurOK, Working
  <2>2. ChunkRows(cur[w]) # {} => chunkText[cur[w]] \in Texts
    BY <2>1 DEF ChunkRows, TypeInv, TypeOK
  <2>3. ChunkRows(cur[w]) \subseteq ChunkNos
    BY DEF ChunkRows
  <2>4. TypeOK'
    BY <1>1, <2>1, <2>2, <2>3 DEF ReadChunks, Goto, tables, TypeInv, TypeOK, PcLabels
  <2> QED
    BY <1>1, <2>4 DEF ReadChunks, Goto, TypeInv, TypeOK, CurOK, TextOK, Working
<1>2. CASE WriteVectors(w)
  BY <1>2, WriteVectorsType
<1>3. CASE CheckComplete(w)
  BY <1>3 DEF CheckComplete, Goto, tables, TypeInv, TypeOK, CurOK, TextOK, Working, PcLabels
<1>4. CASE GiveBack(w) \/ MarkEmbedded(w) \/ EmbedError(w)
  BY <1>4, ConcludeType DEF GiveBack, MarkEmbedded, EmbedError, Working, Statuses
<1>5. CASE UpdateAverage(w)
  <2>1. cur[w] \in Sources
    BY <1>5 DEF UpdateAverage, TypeInv, CurOK, Working
  <2>2. TypeOK'
    BY <1>5, <2>1 DEF UpdateAverage, Goto, queueVars, TypeInv, TypeOK, PcLabels
  <2> QED
    BY <1>5, <2>2 DEF UpdateAverage, Goto, TypeInv, TypeOK, CurOK, TextOK, Working
<1> QED
  BY <1>1, <1>2, <1>3, <1>4, <1>5 DEF EmbedStep

\* of a legacy run,
LEMMA LegacyStepType ==
  ASSUME NEW w \in Legacy, TypeInv, LegacyStep(w)
  PROVE  TypeInv'
<1> w \in Procs /\ w \notin Loaders \cup Clis \cup Analysts
  BY WorkerAssumption DEF Procs, Workers
<1>1. CASE LegacyRead(w)
  <2>1. rows' \in [Procs -> SUBSET (Sources \X ChunkNos \X Texts)]
    BY <1>1 DEF LegacyRead, TypeInv, TypeOK
  <2>2. pc' \in [Procs -> PcLabels] /\ \A p \in Procs \ Legacy : pc'[p] = pc[p]
    BY <1>1 DEF LegacyRead, Goto, TypeInv, TypeOK, PcLabels
  <2>3. \A p \in Procs : p # w => pc'[p] = pc[p]
    BY <1>1 DEF LegacyRead, Goto, TypeInv, TypeOK
  <2> QED
    BY <1>1, <2>1, <2>2, <2>3 DEF LegacyRead, tables, TypeInv, TypeOK, CurOK, TextOK
<1>2. CASE WriteVectors(w)
  BY <1>2, WriteVectorsType
<1>3. CASE LegacyAverage(w)
  <2>1. TypeOK'
    BY <1>3 DEF LegacyAverage, Goto, queueVars, TypeInv, TypeOK, PcLabels
  <2> QED
    BY <1>3, <2>1 DEF LegacyAverage, Goto, TypeInv, TypeOK, CurOK, TextOK, Working
<1> QED
  BY <1>1, <1>2, <1>3 DEF LegacyStep

\* and of an analyst.
LEMMA SolveStepType ==
  ASSUME NEW w \in Analysts, TypeInv, SolveStep(w)
  PROVE  TypeInv'
<1> w \in Procs \ Legacy /\ w \notin Loaders \cup Clis
  BY WorkerAssumption DEF Procs, Workers
<1>1. CASE ReadText(w)
  BY <1>1 DEF ReadText, Goto, tables, TypeInv, TypeOK, CurOK, TextOK, Working, PcLabels
<1>2. CASE NoTextFound(w) \/ MarkSolved(w) \/ SolveError(w)
  BY <1>2, ConcludeType DEF NoTextFound, MarkSolved, SolveError, Working, Statuses
<1>3. CASE AnalyzeOk(w)
  BY <1>3 DEF AnalyzeOk, Goto, tables, TypeInv, TypeOK, CurOK, TextOK, Working, PcLabels
<1>4. CASE SaveSolution(w)
  <2>1. text[w] \in Texts
    BY <1>4 DEF SaveSolution, TypeInv, TextOK
  <2>2. TypeOK'
    BY <1>4, <2>1 DEF SaveSolution, Goto, queueVars, TypeInv, TypeOK, PcLabels
  <2> QED
    BY <1>4, <2>2 DEF SaveSolution, Goto, TypeInv, TypeOK, CurOK, TextOK, Working
<1> QED
  BY <1>1, <1>2, <1>3, <1>4 DEF SolveStep

\* Every step keeps the invariant.
LEMMA NextType == TypeInv /\ [Next]_vars => TypeInv'
<1> SUFFICES ASSUME TypeInv, [Next]_vars
             PROVE  TypeInv'
  OBVIOUS
<1>1. CASE UNCHANGED vars
  BY <1>1 DEF vars, tables, local, TypeInv, TypeOK, CurOK, TextOK
<1>2. ASSUME NEW s \in Sources, Enqueue(s)
      PROVE  TypeInv'
  <2>1. /\ status' \in [Sources -> Statuses \cup {"absent"}]
        /\ stale' \subseteq Sources
        /\ before' \subseteq Sources \X Sources
    BY <1>2, SetStatusType DEF Enqueue, InsertSource, TypeInv, Statuses
  <2> QED
    BY <1>2, <2>1 DEF Enqueue, dataVars, local, TypeInv, TypeOK, CurOK, TextOK
<1>3. ASSUME NEW s \in Sources, GrowStale(s)
      PROVE  TypeInv'
  BY <1>3 DEF GrowStale, dataVars, local, TypeInv, TypeOK, CurOK, TextOK
<1>4. ASSUME NEW c \in Clis, CliInsert(c)
      PROVE  TypeInv'
  <2>1. PICK s \in Sources :
          /\ InsertSource(s) \/ UNCHANGED queueVars
          /\ cur' = [cur EXCEPT ![c] = s]
    BY <1>4 DEF CliInsert
  <2>2. /\ status' \in [Sources -> Statuses \cup {"absent"}]
        /\ stale' \subseteq Sources
        /\ before' \subseteq Sources \X Sources
    BY <2>1, SetStatusType DEF InsertSource, queueVars, TypeInv, TypeOK, Statuses
  <2>3. TypeOK'
    BY <1>4, <2>1, <2>2 DEF CliInsert, Goto, dataVars, TypeInv, TypeOK, PcLabels
  <2> QED
    BY <1>4, <2>1, <2>3 DEF CliInsert, Goto, TypeInv, TypeOK, CurOK, TextOK, Working
<1>5. ASSUME NEW w \in Procs, Step(w)
      PROVE  TypeInv'
  BY <1>5, QueueStepType, LoadStepType, EmbedStepType, SolveStepType, LegacyStepType DEF Step
<1>6. ASSUME NEW w \in Procs, Crash(w)
      PROVE  TypeInv'
  BY <1>6 DEF Crash, Goto, tables, TypeInv, TypeOK, CurOK, TextOK, Working, PcLabels
<1> QED
  BY <1>1, <1>2, <1>3, <1>4, <1>5, <1>6 DEF Next

\* Every reachable state has its types; in particular yt_status never gets a
\* value its CHECK (db.py:113) refuses, and no step works on a source it has
\* not got in hand.
THEOREM TypeSafety == Spec => []TypeInv
<1>1. Init => TypeInv
  BY InitTypeOK DEF Init, WorkerInit, TypeInv, CurOK, TextOK, Working
<1> QED
  BY <1>1, NextType, PTL DEF Spec

\* The type invariant the runs check.
THEOREM TypeCorrect == Spec => []TypeOK
<1>1. TypeInv => TypeOK
  BY DEF TypeInv
<1> QED
  BY <1>1, TypeSafety, PTL

-----------------------------------------------------------------------------
(* Vectors.  Only load_video changes the text of a chunk, and it replaces  *)
(* the row; what an embedder read of the old row it cannot write any more. *)

\* Steps that touch neither the chunks nor what was read of them.
LEMMA VectorFrame ==
  ASSUME VectorInv, UNCHANGED <<chunkText, vector>>, TypeOK,
         \A p \in Procs : rows'[p] \subseteq rows[p]
  PROVE  VectorInv'
BY DEF VectorInv, VectorsMatchText, RowsMatch

\* The end of a source's work only forgets rows.
LEMMA ConcludeVector ==
  ASSUME NEW w \in Procs, NEW st, TypeOK, VectorInv, Conclude(w, st)
  PROVE  VectorInv'
BY VectorFrame DEF Conclude, dataVars, TypeOK

\* The vectors written are those of the text the chunks have.
LEMMA WriteVectorsMatch ==
  ASSUME NEW w \in Procs, TypeOK, VectorInv, WriteVectors(w)
  PROVE  VectorInv'
<1>1. VectorsMatchText'
  <2> SUFFICES ASSUME NEW s \in Sources, NEW n \in ChunkNos
               PROVE  vector'[s][n] \in {NoText, chunkText[s]}
    BY DEF VectorsMatchText, WriteVectors
  <2>1. CASE \E t \in Texts : <<s, n, t>> \in rows[w]
    <3> DEFINE u == CHOOSE t \in Texts : <<s, n, t>> \in rows[w]
    <3>1. u \in Texts /\ <<s, n, u>> \in rows[w]
      BY <2>1
    <3>2. u = chunkText[s]
      BY <3>1 DEF VectorInv, RowsMatch
    <3>3. vector'[s][n] = u
      BY <2>1 DEF WriteVectors
    <3> QED
      BY <3>2, <3>3
  <2>2. CASE ~\E t \in Texts : <<s, n, t>> \in rows[w]
    BY <2>2 DEF WriteVectors, VectorInv, VectorsMatchText
  <2> QED
    BY <2>1, <2>2
<1>2. RowsMatch'
  BY DEF WriteVectors, VectorInv, RowsMatch, TypeOK
<1> QED
  BY <1>1, <1>2 DEF VectorInv

\* Every step keeps vectors and texts together.
LEMMA NextVector == TypeInv /\ VectorInv /\ [Next]_vars => VectorInv'
<1> SUFFICES ASSUME TypeInv, VectorInv, [Next]_vars
             PROVE  VectorInv'
  OBVIOUS
<1> TypeOK
  BY DEF TypeInv
<1>1. CASE UNCHANGED vars
  BY <1>1, VectorFrame DEF vars, tables, local
<1>2. ASSUME NEW s \in Sources, Enqueue(s) \/ GrowStale(s)
      PROVE  VectorInv'
  BY <1>2, VectorFrame DEF Enqueue, GrowStale, dataVars, local
<1>3. ASSUME NEW c \in Clis, CliInsert(c)
      PROVE  VectorInv'
  BY <1>3, VectorFrame DEF CliInsert, dataVars
<1>4. ASSUME NEW w \in Procs, Crash(w)
      PROVE  VectorInv'
  BY <1>4, VectorFrame DEF Crash, tables, TypeOK
<1>5. ASSUME NEW w \in Procs, QueueStep(w)
      PROVE  VectorInv'
  BY <1>5, VectorFrame
  DEF QueueStep, Recover, Claim, FindEmpty, Pick, BatchDone, dataVars, tables
<1>6. ASSUME NEW w \in Loaders \cup Clis, LoadStep(w)
      PROVE  VectorInv'
  <2> w \in Procs /\ w \notin Legacy
    BY WorkerAssumption DEF Procs, Workers
  <2>1. CASE SaveChunks(w)
    <3>1. CASE text[w] = Blank
      BY <2>1, <3>1, VectorFrame DEF SaveChunks
    <3>2. CASE text[w] # Blank
      <4>1. cur[w] \in Sources
        BY <2>1 DEF SaveChunks, TypeInv, CurOK, Working
      <4>2. VectorsMatchText'
        <5>1. \A n \in ChunkNos : vector'[cur[w]][n] = NoText
          BY <2>1, <3>2, <4>1 DEF SaveChunks, NoVectors, TypeOK
        <5>2. \A s \in Sources \ {cur[w]} : vector'[s] = vector[s] /\ chunkText'[s] = chunkText[s]
          BY <2>1, <3>2 DEF SaveChunks, TypeOK
        <5> QED
          BY <5>1, <5>2 DEF VectorInv, VectorsMatchText
      <4>3. \A p \in Procs : \A r \in rows'[p] : r \in rows[p] /\ r[1] # cur[w]
        BY <2>1, <3>2 DEF SaveChunks
      <4>4. RowsMatch'
        BY <2>1, <3>2, <4>1, <4>3 DEF SaveChunks, VectorInv, RowsMatch, TypeOK
      <4> QED
        BY <4>2, <4>4 DEF VectorInv
    <3> QED
      BY <3>1, <3>2
  <2>2. CASE FetchFail(w) \/ MarkLoaded(w) \/ LoadError(w)
    BY <2>2, ConcludeVector DEF FetchFail, MarkLoaded, LoadError
  <2>3. CASE FetchOk(w) \/ UpsertSource(w) \/ CliError(w)
    BY <2>3, VectorFrame DEF FetchOk, UpsertSource, CliError, tables
  <2> QED
    BY <1>6, <2>1, <2>2, <2>3 DEF LoadStep
<1>7. ASSUME NEW w \in Embedders, EmbedStep(w)
      PROVE  VectorInv'
  <2> w \in Procs
    BY DEF Procs, Workers
  <2>1. CASE ReadChunks(w)
    <3>1. \A p \in Procs : \A r \in rows'[p] : r[3] = chunkText[r[1]]
      BY <2>1 DEF ReadChunks, VectorInv, RowsMatch, TypeOK
    <3> QED
      BY <2>1, <3>1 DEF ReadChunks, tables, VectorInv, VectorsMatchText, RowsMatch
  <2>2. CASE WriteVectors(w)
    BY <2>2, WriteVectorsMatch
  <2>3. CASE GiveBack(w) \/ MarkEmbedded(w) \/ EmbedError(w)
    BY <2>3, ConcludeVector DEF GiveBack, MarkEmbedded, EmbedError
  <2>4. CASE CheckComplete(w) \/ UpdateAverage(w)
    BY <2>4, VectorFrame DEF CheckComplete, UpdateAverage, tables
  <2> QED
    BY <1>7, <2>1, <2>2, <2>3, <2>4 DEF EmbedStep
<1>8. ASSUME NEW w \in Analysts, SolveStep(w)
      PROVE  VectorInv'
  <2> w \in Procs
    BY DEF Procs, Workers
  <2>1. CASE NoTextFound(w) \/ MarkSolved(w) \/ SolveError(w)
    BY <2>1, ConcludeVector DEF NoTextFound, MarkSolved, SolveError
  <2>2. CASE ReadText(w) \/ AnalyzeOk(w) \/ SaveSolution(w)
    BY <2>2, VectorFrame DEF ReadText, AnalyzeOk, SaveSolution, tables
  <2> QED
    BY <1>8, <2>1, <2>2 DEF SolveStep
<1>9. ASSUME NEW w \in Legacy, LegacyStep(w)
      PROVE  VectorInv'
  <2> w \in Procs
    BY DEF Procs
  <2>1. CASE LegacyRead(w)
    <3>1. \A p \in Procs : \A r \in rows'[p] : r[3] = chunkText[r[1]]
      BY <2>1 DEF LegacyRead, VectorInv, RowsMatch, TypeOK
    <3> QED
      BY <2>1, <3>1 DEF LegacyRead, tables, VectorInv, VectorsMatchText, RowsMatch
  <2>2. CASE WriteVectors(w)
    BY <2>2, WriteVectorsMatch
  <2>3. CASE LegacyAverage(w)
    BY <2>3, VectorFrame DEF LegacyAverage
  <2> QED
    BY <1>9, <2>1, <2>2, <2>3 DEF LegacyStep
<1> QED
  BY <1>1, <1>2, <1>3, <1>4, <1>5, <1>6, <1>7, <1>8, <1>9 DEF Next, Step

\* However slow the workers are, whatever -y and legacy runs do and wherever
\* processes die: yt_chunks.embedding is of the content beside it.
THEOREM VectorSafety == Spec => []VectorsMatchText
<1>1. Init => VectorInv
  BY DEF Init, DbInit, WorkerInit, NoVectors, VectorInv, VectorsMatchText, RowsMatch
<1>2. VectorInv => VectorsMatchText
  BY DEF VectorInv
<1> QED
  BY <1>1, <1>2, NextVector, TypeSafety, PTL DEF Spec

-----------------------------------------------------------------------------
(***************************************************************************)
(* StatusBacked for any number of processes: what a status promises holds  *)
(* even when two workers have the same source and overwrite each other's   *)
(* statuses, because nothing that a promise rests on is ever taken away.   *)
(***************************************************************************)

\* A transcript, chunks or a solution, once stored, may be replaced but do not
\* disappear.
Kept ==
  \A s \in Sources :
    /\ contain[s] # NoText => contain'[s] # NoText
    /\ chunkText[s] # NoText => chunkText'[s] # NoText
    /\ solution[s] # NoText => solution'[s] # NoText

\* load_video.py only replaces what is stored.
LEMMA KeptByLoad ==
  ASSUME NEW w \in Loaders \cup Clis, TypeInv, LoadStep(w)
  PROVE  Kept
<1> w \in Procs
  BY DEF Procs, Workers
<1>1. CASE UpsertSource(w)
  <2>1. text[w] # NoText
    BY <1>1, DbAssumption DEF UpsertSource, TypeInv, TextOK
  <2> QED
    BY <1>1, <2>1 DEF UpsertSource, Kept, TypeInv, TypeOK
<1>2. CASE SaveChunks(w)
  <2>1. text[w] # NoText
    BY <1>2, DbAssumption DEF SaveChunks, TypeInv, TextOK
  <2> QED
    BY <1>2, <2>1 DEF SaveChunks, Kept, TypeInv, TypeOK
<1>3. CASE FetchOk(w) \/ FetchFail(w) \/ MarkLoaded(w) \/ LoadError(w) \/ CliError(w)
  BY <1>3
  DEF FetchOk, FetchFail, MarkLoaded, LoadError, CliError, Conclude, dataVars, tables, Kept
<1> QED
  BY <1>1, <1>2, <1>3 DEF LoadStep

\* So does exec_llm.py.
LEMMA KeptBySolve ==
  ASSUME NEW w \in Analysts, TypeInv, SolveStep(w)
  PROVE  Kept
<1> w \in Procs
  BY DEF Procs, Workers
<1>1. CASE SaveSolution(w)
  <2>1. text[w] # NoText
    BY <1>1, DbAssumption DEF SaveSolution, TypeInv, TextOK
  <2> QED
    BY <1>1, <2>1 DEF SaveSolution, Kept, TypeInv, TypeOK
<1>2. CASE ReadText(w) \/ NoTextFound(w) \/ AnalyzeOk(w) \/ MarkSolved(w) \/ SolveError(w)
  BY <1>2
  DEF ReadText, NoTextFound, AnalyzeOk, MarkSolved, SolveError, Conclude, dataVars, tables, Kept
<1> QED
  BY <1>1, <1>2 DEF SolveStep

\* Every step keeps what is stored.
LEMMA NextKeeps == TypeInv /\ [Next]_vars => Kept
<1> SUFFICES ASSUME TypeInv, [Next]_vars
             PROVE  Kept
  OBVIOUS
<1>1. CASE UNCHANGED vars
  BY <1>1 DEF vars, tables, Kept
<1>2. ASSUME NEW s \in Sources, Enqueue(s) \/ GrowStale(s)
      PROVE  Kept
  BY <1>2 DEF Enqueue, GrowStale, dataVars, Kept
<1>3. ASSUME NEW c \in Clis, CliInsert(c)
      PROVE  Kept
  BY <1>3 DEF CliInsert, dataVars, Kept
<1>4. ASSUME NEW w \in Procs, Crash(w)
      PROVE  Kept
  BY <1>4 DEF Crash, tables, Kept
<1>5. ASSUME NEW w \in Procs, QueueStep(w)
      PROVE  Kept
  BY <1>5 DEF QueueStep, Recover, Claim, FindEmpty, Pick, BatchDone, dataVars, tables, Kept
<1>6. ASSUME NEW w \in Embedders, EmbedStep(w)
      PROVE  Kept
  BY <1>6
  DEF EmbedStep, ReadChunks, WriteVectors, CheckComplete, GiveBack, UpdateAverage,
      MarkEmbedded, EmbedError, Conclude, dataVars, tables, Kept
<1>7. ASSUME NEW w \in Legacy, LegacyStep(w)
      PROVE  Kept
  BY <1>7 DEF LegacyStep, LegacyRead, WriteVectors, LegacyAverage, tables, Kept
<1> QED
  BY <1>1, <1>2, <1>3, <1>4, <1>5, <1>6, <1>7, KeptByLoad, KeptBySolve DEF Next, Step

-----------------------------------------------------------------------------
\* A status may be written when the tables have what it promises.
Promise(s, st) ==
  /\ st \in Embedded \cup {"loaded", "process_embed", "failed_embedded"} => contain[s] # NoText
  /\ st \in Embedded => chunkText[s] # NoText
  /\ st = "solution" => solution[s] # NoText

\* The end of a source's work keeps the promises, if the new status is backed.
LEMMA ConcludeBacked ==
  ASSUME NEW w \in Procs \ Legacy, NEW st \in Statuses, TypeInv, BackedInv,
         pc[w] \in Working, Conclude(w, st), Promise(cur[w], st)
  PROVE  BackedInv'
<1>1. cur[w] \in Sources
  BY DEF TypeInv, CurOK
<1>2. StatusBacked'
  BY <1>1
  DEF BackedInv, StatusBacked, Conclude, SetStatus, dataVars, Promise, TypeInv, TypeOK
<1>3. \A p \in Procs \ {w} : pc'[p] = pc[p] /\ cur'[p] = cur[p] /\ batch'[p] = batch[p]
  BY DEF Conclude, Goto, TypeInv, TypeOK
<1>4. pc'[w] \in {"done", "pick"} /\ cur'[w] = NoSource /\ batch'[w] = batch[w]
  BY DEF Conclude, Goto, TypeInv, TypeOK
<1>5. \A p \in Procs, s \in Sources : s \in Held(p)' => s \in Held(p)
  BY <1>3, <1>4, WorkerAssumption DEF Held
<1>6. HolderBacked'
  <2> Loaders \cup Clis \cup Embedders \cup Analysts \subseteq Procs
    BY DEF Procs, Workers
  <2> QED
    BY <1>3, <1>4, <1>5 DEF BackedInv, HolderBacked, Conclude, dataVars
<1> QED
  BY <1>2, <1>6 DEF BackedInv

\* Steps that write no status and take no source in hand.
LEMMA FrameBacked ==
  ASSUME NEW w \in Procs, TypeInv, BackedInv, Kept, UNCHANGED <<status, cur, batch>>,
         \A p \in Procs \ {w} : pc'[p] = pc[p],
         w \in Loaders \cup Clis /\ pc'[w] \in {"chunks", "mark"}
           => contain'[cur[w]] # NoText,
         w \in Embedders /\ pc'[w] \in {"average", "mark"} => chunkText'[cur[w]] # NoText,
         w \in Analysts /\ pc'[w] = "mark" => solution'[cur[w]] # NoText
  PROVE  BackedInv'
<1> Loaders \cup Clis \cup Embedders \cup Analysts \subseteq Procs \ Legacy
  BY WorkerAssumption DEF Procs, Workers
<1>1. StatusBacked'
  BY DEF BackedInv, StatusBacked, Kept
<1>2. \A p \in Procs : Held(p)' = Held(p)
  BY DEF Held
<1>3. \A p \in Procs \ Legacy : pc[p] \in {"chunks", "mark", "average"} => cur[p] \in Sources
  BY DEF TypeInv, CurOK, Working
<1>4. HolderBacked'
  BY <1>2, <1>3 DEF BackedInv, HolderBacked, Kept
<1> QED
  BY <1>1, <1>4 DEF BackedInv

\* The loop of a queue worker: recover_stuck and the claim carry a promise
\* from one status of a stage to the other.
LEMMA QueueBacked ==
  ASSUME NEW w \in Workers, TypeInv, BackedInv, QueueStep(w)
  PROVE  BackedInv'
<1> w \in Procs /\ Loaders \cup Clis \cup Embedders \cup Analysts \subseteq Procs
  BY DEF Procs, Workers
<1>1. CASE Recover(w)
  <2>1. \A s \in Sources, k \in Stages :
          s \in Stuck(k) => status[s] = Busy[k]
    BY DEF Stuck
  <2>2. ASSUME NEW s \in Sources
        PROVE  Promise(s, status[s])'
    <3>1. CASE \E k \in Stages : s \in Stuck(k)
      <4> DEFINE k == CHOOSE k \in Stages : s \in Stuck(k)
      <4>1. k \in Stages /\ status[s] = Busy[k]
        BY <3>1, <2>1
      <4>2. status'[s] = Ready[k]
        BY <1>1, <3>1 DEF Recover, RecoverStuck
      <4> HIDE DEF k
      <4> QED
        BY <1>1, <4>1, <4>2
        DEF Recover, dataVars, Stages, Busy, Ready, Promise, BackedInv, StatusBacked, Embedded
    <3>2. CASE ~\E k \in Stages : s \in Stuck(k)
      <4>1. status'[s] = status[s]
        BY <1>1, <3>2 DEF Recover, RecoverStuck
      <4> QED
        BY <1>1, <4>1 DEF Recover, dataVars, Promise, BackedInv, StatusBacked
    <3> QED
      BY <3>1, <3>2
  <2>3. StatusBacked'
    BY <2>2 DEF Promise, StatusBacked
  <2>4. HolderBacked'
    BY <1>1 DEF Recover, Goto, dataVars, TypeInv, TypeOK, BackedInv, HolderBacked, Held
  <2> QED
    BY <2>3, <2>4 DEF BackedInv
<1>2. CASE Claim(w)
  <2>1. PICK B \in Batches(StageOf(w)) :
          ClaimByStatus(StageOf(w), B) /\ batch' = [batch EXCEPT ![w] = B]
    BY <1>2 DEF Claim
  <2>2. \A s \in B : status[s] = Ready[StageOf(w)]
    BY <2>1 DEF Batches, Claimable
  <2>3. StatusBacked'
    BY <1>2, <2>1, <2>2
    DEF Claim, dataVars, ClaimByStatus, BackedInv, StatusBacked, Embedded, StageOf, Ready, Busy
  <2>4. \A p \in Procs \ {w} : pc'[p] = pc[p] /\ cur'[p] = cur[p] /\ Held(p)' = Held(p)
    BY <1>2, <2>1 DEF Claim, Goto, Held, TypeInv, TypeOK
  <2>5. pc'[w] = "pick" /\ \A s \in Sources : s \in Held(w)' => s \in B \/ s \in Held(w)
    BY <1>2, <2>1 DEF Claim, Goto, Held, TypeInv, TypeOK
  <2>6. \A s \in B : s \in Sources
    BY <2>1 DEF Batches, Claimable
  <2>7. \A s \in B : /\ w \in Embedders => contain[s] # NoText
                     /\ w \in Analysts => contain[s] # NoText /\ chunkText[s] # NoText
    <3>1. w \in Embedders => StageOf(w) = "embed"
      BY WorkerAssumption DEF StageOf
    <3>2. w \in Analysts => StageOf(w) = "solve"
      BY WorkerAssumption DEF StageOf
    <3> QED
      BY <2>2, <2>6, <3>1, <3>2 DEF Ready, Embedded, BackedInv, StatusBacked
  <2>8. HolderBacked'
    BY <1>2, <2>4, <2>5, <2>7 DEF Claim, dataVars, BackedInv, HolderBacked
  <2> QED
    BY <2>3, <2>8 DEF BackedInv
<1>3. CASE Pick(w)
  <2>1. FirstStep[StageOf(w)] \in {"fetch", "read", "text"}
    BY DEF FirstStep, StageOf
  <2>2. \A p \in Procs, s \in Sources : s \in Held(p)' => s \in Held(p)
    BY <1>3 DEF Pick, Held, TypeInv, TypeOK
  <2>3. /\ \A p \in Procs \ {w} : pc'[p] = pc[p] /\ cur'[p] = cur[p]
        /\ pc'[w] \in {"fetch", "read", "text"}
    BY <1>3, <2>1 DEF Pick, Goto, TypeInv, TypeOK
  <2>4. HolderBacked'
    BY <1>3, <2>2, <2>3 DEF Pick, tables, BackedInv, HolderBacked
  <2> QED
    BY <1>3, <2>4 DEF Pick, tables, BackedInv, StatusBacked
<1>4. CASE FindEmpty(w) \/ BatchDone(w)
  <2>1. Kept
    BY <1>4 DEF FindEmpty, BatchDone, tables, Kept
  <2>2. \A p \in Procs \ {w} : pc'[p] = pc[p]
    BY <1>4 DEF FindEmpty, BatchDone, Goto, TypeInv, TypeOK
  <2>3. pc'[w] \in {"sleep", "done", "poll"}
    BY <1>4 DEF FindEmpty, BatchDone, Goto, TypeInv, TypeOK
  <2> QED
    BY <1>4, <2>1, <2>2, <2>3, FrameBacked DEF FindEmpty, BatchDone, tables
<1> QED
  BY <1>1, <1>2, <1>3, <1>4 DEF QueueStep

\* process_video: 'loaded' is written after the transcript.
LEMMA LoadBacked ==
  ASSUME NEW w \in Loaders \cup Clis, TypeInv, BackedInv, LoadStep(w)
  PROVE  BackedInv'
<1> w \in Procs \ Legacy /\ w \notin Embedders \cup Analysts
  BY WorkerAssumption DEF Procs, Workers
<1>1. Kept
  BY KeptByLoad
<1>2. CASE FetchFail(w) \/ LoadError(w)
  <2>1. Promise(cur[w], "failed_load")
    BY DEF Promise, Embedded
  <2> QED
    BY <1>2, <2>1, ConcludeBacked DEF FetchFail, LoadError, Working, Statuses
<1>3. CASE MarkLoaded(w)
  <2>1. Promise(cur[w], "loaded")
    BY <1>3 DEF MarkLoaded, Promise, Embedded, BackedInv, HolderBacked
  <2> QED
    BY <1>3, <2>1, ConcludeBacked DEF MarkLoaded, Working, Statuses
<1>4. CASE FetchOk(w)
  <2>1. pc'[w] = "upsert" /\ \A p \in Procs \ {w} : pc'[p] = pc[p]
    BY <1>4 DEF FetchOk, Goto, TypeInv, TypeOK
  <2> QED
    BY <1>1, <1>4, <2>1, FrameBacked DEF FetchOk, tables
<1>5. CASE UpsertSource(w)
  <2>1. pc'[w] = "chunks" /\ \A p \in Procs \ {w} : pc'[p] = pc[p]
    BY <1>5 DEF UpsertSource, Goto, TypeInv, TypeOK
  <2>2. contain'[cur[w]] # NoText
    BY <1>5, DbAssumption DEF UpsertSource, Working, TypeInv, TypeOK, CurOK, TextOK
  <2> QED
    BY <1>1, <1>5, <2>1, <2>2, FrameBacked DEF UpsertSource, queueVars
<1>6. CASE SaveChunks(w)
  <2>1. pc'[w] = "mark" /\ \A p \in Procs \ {w} : pc'[p] = pc[p]
    BY <1>6 DEF SaveChunks, Goto, TypeInv, TypeOK
  <2>2. contain'[cur[w]] # NoText
    BY <1>6 DEF SaveChunks, BackedInv, HolderBacked
  <2> QED
    BY <1>1, <1>6, <2>1, <2>2, FrameBacked DEF SaveChunks, queueVars
<1>7. CASE CliError(w)
  <2>1. \A p \in Procs, s \in Sources : s \in Held(p)' => s \in Held(p)
    BY <1>7, WorkerAssumption DEF CliError, Held, TypeInv, TypeOK
  <2>2. /\ \A p \in Procs \ {w} : pc'[p] = pc[p] /\ cur'[p] = cur[p]
        /\ pc'[w] = "done"
    BY <1>7 DEF CliError, Goto, TypeInv, TypeOK
  <2>3. Loaders \cup Clis \cup Embedders \cup Analysts \subseteq Procs
    BY DEF Procs, Workers
  <2> QED
    BY <1>7, <2>1, <2>2, <2>3 DEF CliError, tables, BackedInv, StatusBacked, HolderBacked
<1> QED
  BY <1>2, <1>3, <1>4, <1>5, <1>6, <1>7 DEF LoadStep

\* embed_chunks.py: 'embedded' is written after a check that saw chunks.
LEMMA EmbedBacked ==
  ASSUME NEW w \in Embedders, TypeInv, BackedInv, EmbedStep(w)
  PROVE  BackedInv'
<1> w \in Procs \ Legacy /\ w \notin Loaders \cup Clis \cup Analysts
  BY WorkerAssumption DEF Procs, Workers
<1>1. TypeInv /\ [Next]_vars => Kept
  BY NextKeeps
<1>2. Kept
  BY <1>1 DEF Next, Step
<1>3. pc[w] \in Working => cur[w] \in Sources /\ contain[cur[w]] # NoText
  BY DEF TypeInv, CurOK, Held, BackedInv, HolderBacked
<1>4. CASE GiveBack(w)
  <2>1. Promise(cur[w], "loaded")
    BY <1>3, <1>4 DEF GiveBack, Working, Promise, Embedded
  <2> QED
    BY <1>4, <2>1, ConcludeBacked DEF GiveBack, Working, Statuses
<1>5. CASE MarkEmbedded(w)
  <2>1. Promise(cur[w], "embedded")
    BY <1>3, <1>5 DEF MarkEmbedded, Working, Promise, BackedInv, HolderBacked
  <2> QED
    BY <1>5, <2>1, ConcludeBacked DEF MarkEmbedded, Working, Statuses
<1>6. CASE EmbedError(w)
  <2>1. Promise(cur[w], "failed_embedded")
    BY <1>3, <1>6 DEF EmbedError, Working, Promise, Embedded
  <2> QED
    BY <1>6, <2>1, ConcludeBacked DEF EmbedError, Working, Statuses
<1>7. CASE ReadChunks(w) \/ WriteVectors(w)
  <2>1. pc'[w] \in {"check", "write"} /\ \A p \in Procs \ {w} : pc'[p] = pc[p]
    BY <1>7, WorkerAssumption DEF ReadChunks, WriteVectors, Goto, TypeInv, TypeOK
  <2> QED
    BY <1>2, <1>7, <2>1, FrameBacked DEF ReadChunks, WriteVectors, tables, queueVars
<1>8. CASE CheckComplete(w)
  <2>1. /\ pc'[w] = "average" => FullyEmbedded(cur[w])
        /\ pc'[w] \in {"average", "giveback"}
        /\ \A p \in Procs \ {w} : pc'[p] = pc[p]
    BY <1>8 DEF CheckComplete, Goto, TypeInv, TypeOK
  <2>2. pc'[w] = "average" => chunkText'[cur[w]] # NoText
    BY <1>8, <2>1 DEF CheckComplete, tables, FullyEmbedded, ChunkRows
  <2> QED
    BY <1>2, <1>8, <2>1, <2>2, FrameBacked DEF CheckComplete, tables
<1>9. CASE UpdateAverage(w)
  <2>1. pc'[w] = "mark" /\ \A p \in Procs \ {w} : pc'[p] = pc[p]
    BY <1>9 DEF UpdateAverage, Goto, TypeInv, TypeOK
  <2>2. chunkText'[cur[w]] # NoText
    BY <1>9 DEF UpdateAverage, BackedInv, HolderBacked
  <2> QED
    BY <1>2, <1>9, <2>1, <2>2, FrameBacked DEF UpdateAverage, queueVars
<1> QED
  BY <1>4, <1>5, <1>6, <1>7, <1>8, <1>9 DEF EmbedStep

\* exec_llm.py: 'solution' is written after the solution, and a source in its
\* hands was embedded once.
LEMMA SolveBacked ==
  ASSUME NEW w \in Analysts, TypeInv, BackedInv, SolveStep(w)
  PROVE  BackedInv'
<1> w \in Procs \ Legacy /\ w \notin Loaders \cup Clis \cup Embedders
  BY WorkerAssumption DEF Procs, Workers
<1>1. Kept
  BY KeptBySolve
<1>2. pc[w] \in Working =>
        cur[w] \in Sources /\ contain[cur[w]] # NoText /\ chunkText[cur[w]] # NoText
  BY DEF TypeInv, CurOK, Held, BackedInv, HolderBacked
<1>3. CASE NoTextFound(w) \/ SolveError(w)
  <2>1. Promise(cur[w], "failed_solution")
    BY <1>2, <1>3 DEF NoTextFound, SolveError, Working, Promise
  <2> QED
    BY <1>3, <2>1, ConcludeBacked DEF NoTextFound, SolveError, Working, Statuses
<1>4. CASE MarkSolved(w)
  <2>1. Promise(cur[w], "solution")
    BY <1>2, <1>4 DEF MarkSolved, Working, Promise, BackedInv, HolderBacked
  <2> QED
    BY <1>4, <2>1, ConcludeBacked DEF MarkSolved, Working, Statuses
<1>5. CASE ReadText(w) \/ AnalyzeOk(w)
  <2>1. pc'[w] \in {"ask", "save"} /\ \A p \in Procs \ {w} : pc'[p] = pc[p]
    BY <1>5 DEF ReadText, AnalyzeOk, Goto, TypeInv, TypeOK
  <2> QED
    BY <1>1, <1>5, <2>1, FrameBacked DEF ReadText, AnalyzeOk, tables
<1>6. CASE SaveSolution(w)
  <2>1. pc'[w] = "mark" /\ \A p \in Procs \ {w} : pc'[p] = pc[p]
    BY <1>6 DEF SaveSolution, Goto, TypeInv, TypeOK
  <2>2. solution'[cur[w]] # NoText
    BY <1>2, <1>6, DbAssumption DEF SaveSolution, Working, TypeInv, TypeOK, TextOK
  <2> QED
    BY <1>1, <1>6, <2>1, <2>2, FrameBacked DEF SaveSolution, queueVars
<1> QED
  BY <1>3, <1>4, <1>5, <1>6 DEF SolveStep

\* A legacy run writes no status and takes no source away.
LEMMA LegacyBacked ==
  ASSUME NEW w \in Legacy, TypeInv, BackedInv, LegacyStep(w)
  PROVE  BackedInv'
<1> w \in Procs /\ w \notin Workers \cup Clis
  BY WorkerAssumption DEF Procs, Workers
<1>1. TypeInv /\ [Next]_vars => Kept
  BY NextKeeps
<1>2. Kept
  BY <1>1 DEF Next, Step
<1>3. \A p \in Procs \ {w} : pc'[p] = pc[p]
  BY DEF LegacyStep, LegacyRead, WriteVectors, LegacyAverage, Goto, TypeInv, TypeOK
<1>4. UNCHANGED <<status, cur, batch>>
  BY DEF LegacyStep, LegacyRead, WriteVectors, LegacyAverage, tables, queueVars
<1> QED
  BY <1>2, <1>3, <1>4, FrameBacked DEF Workers

\* Every step keeps the promises.
LEMMA NextBacked == TypeInv /\ BackedInv /\ [Next]_vars => BackedInv'
<1> SUFFICES ASSUME TypeInv, BackedInv, [Next]_vars
             PROVE  BackedInv'
  OBVIOUS
<1>1. CASE UNCHANGED vars
  BY <1>1
  DEF vars, tables, local, BackedInv, StatusBacked, HolderBacked, Held
<1>2. ASSUME NEW s \in Sources, Enqueue(s)
      PROVE  BackedInv'
  <2>1. \A x \in Sources : status'[x] = status[x] \/ status'[x] = "added"
    BY <1>2 DEF Enqueue, InsertSource, SetStatus, TypeInv, TypeOK
  <2> QED
    BY <1>2, <2>1
    DEF Enqueue, dataVars, local, BackedInv, StatusBacked, HolderBacked, Held, Embedded
<1>3. ASSUME NEW s \in Sources, GrowStale(s)
      PROVE  BackedInv'
  BY <1>3 DEF GrowStale, dataVars, local, BackedInv, StatusBacked, HolderBacked, Held
<1>4. ASSUME NEW c \in Clis, CliInsert(c)
      PROVE  BackedInv'
  <2> c \in Procs /\ c \notin Workers
    BY WorkerAssumption DEF Procs, Workers
  <2>1. \A x \in Sources : status'[x] = status[x] \/ status'[x] = "added"
    BY <1>4 DEF CliInsert, InsertSource, SetStatus, queueVars, TypeInv, TypeOK
  <2>2. StatusBacked'
    BY <1>4, <2>1 DEF CliInsert, dataVars, BackedInv, StatusBacked, Embedded
  <2>3. /\ \A p \in Procs \ {c} : pc'[p] = pc[p] /\ cur'[p] = cur[p] /\ Held(p)' = Held(p)
        /\ pc'[c] = "fetch"
    BY <1>4 DEF CliInsert, Goto, Held, TypeInv, TypeOK
  <2>4. Loaders \cup Clis \cup Embedders \cup Analysts \subseteq Procs
    BY DEF Procs, Workers
  <2>5. HolderBacked'
    BY <1>4, <2>3, <2>4 DEF CliInsert, dataVars, BackedInv, HolderBacked, Workers
  <2> QED
    BY <2>2, <2>5 DEF BackedInv
<1>5. ASSUME NEW w \in Procs, Crash(w)
      PROVE  BackedInv'
  <2>1. \A p \in Procs, s \in Sources : s \in Held(p)' => s \in Held(p)
    BY <1>5, WorkerAssumption DEF Crash, Held, TypeInv, TypeOK
  <2>2. /\ \A p \in Procs \ {w} : pc'[p] = pc[p] /\ cur'[p] = cur[p]
        /\ pc'[w] = "dead"
    BY <1>5 DEF Crash, Goto, TypeInv, TypeOK
  <2>3. Loaders \cup Clis \cup Embedders \cup Analysts \subseteq Procs
    BY DEF Procs, Workers
  <2> QED
    BY <1>5, <2>1, <2>2, <2>3 DEF Crash, tables, BackedInv, StatusBacked, HolderBacked
<1>6. ASSUME NEW w \in Procs, Step(w)
      PROVE  BackedInv'
  BY <1>6, QueueBacked, LoadBacked, EmbedBacked, SolveBacked, LegacyBacked DEF Step
<1> QED
  BY <1>1, <1>2, <1>3, <1>4, <1>5, <1>6 DEF Next

\* However often workers overwrite each other's statuses, a status never
\* promises what the tables do not have: 'loaded' a transcript, 'embedded'
\* chunks, 'solution' a solution.
THEOREM StatusSafety == Spec => []StatusBacked
<1>1. Init => BackedInv
  BY WorkerAssumption
  DEF Init, DbInit, WorkerInit, BackedInv, StatusBacked, HolderBacked, Held, Embedded,
      Procs, Workers
<1>2. BackedInv => StatusBacked
  BY DEF BackedInv
<1> QED
  BY <1>1, <1>2, NextBacked, TypeSafety, PTL DEF Spec

-----------------------------------------------------------------------------
(***************************************************************************)
(* chunk_text.  Its loop is a recursive function; that it is total, and    *)
(* what it returns, follows by induction on the number of words read.      *)
(***************************************************************************)
-----------------------------------------------------------------------------
(***************************************************************************)
(* The length of a chunk.                                                  *)
(***************************************************************************)
JoinedStep(f, buf, n) == IF n = 0 THEN 0 ELSE f[n - 1] + buf[n] + IF n = 1 THEN 0 ELSE 1

Lengths(buf) == CHOOSE f : f = [n \in 0 .. Len(buf) |-> JoinedStep(f, buf, n)]

LEMMA LengthsAre ==
  ASSUME NEW buf \in Seq(Nat)
  PROVE  /\ Joined(buf) = Lengths(buf)[Len(buf)]
         /\ Lengths(buf) = [n \in 0 .. Len(buf) |-> JoinedStep(Lengths(buf), buf, n)]
         /\ \A n \in 0 .. Len(buf) : Lengths(buf)[n] \in Nat
<1> DEFINE N == Len(buf)
           G == [z \in Nat \X (1 .. N) |-> z[1] + buf[z[2]] + IF z[2] = 1 THEN 0 ELSE 1]
<1>1. N \in Nat /\ \A n \in 1 .. N : buf[n] \in Nat
  OBVIOUS
<1>2. G \in [Nat \X (1 .. N) -> Nat]
  BY <1>1
<1>3. \A x \in Nat, n \in 1 .. N : G[<<x, n>>] = x + buf[n] + IF n = 1 THEN 0 ELSE 1
  OBVIOUS
<1> HIDE DEF G
<1>4. PICK f \in [0 .. N -> Nat] : f[0] = 0 /\ \A n \in 1 .. N : f[n] = G[<<f[n - 1], n>>]
  <2> DEFINE b == 0
  <2>1. b \in Nat /\ N \in Nat
    BY <1>1
  <2>2. \E f : IsRecursion(f, Nat, b, N, G)
    <3> HIDE DEF N, b
    <3> QED
      BY ONLY <1>2, <2>1, Recursion
  <2> QED
    BY <2>2 DEF IsRecursion
<1>5. ASSUME NEW n \in 0 .. N PROVE f[n] = JoinedStep(f, buf, n)
  <2>1. CASE n = 0
    BY <1>4, <2>1 DEF JoinedStep
  <2>2. CASE n # 0
    <3>1. n \in 1 .. N /\ n - 1 \in 0 .. N
      BY <1>1, <2>2
    <3>2. f[n] = G[<<f[n - 1], n>>] /\ f[n - 1] \in Nat
      BY <1>4, <3>1
    <3> QED
      BY <1>3, <2>2, <3>1, <3>2 DEF JoinedStep
  <2> QED
    BY <2>1, <2>2
<1>6. f = [n \in 0 .. N |-> JoinedStep(f, buf, n)]
  <2>1. f = [n \in 0 .. N |-> f[n]]
    BY <1>4
  <2> QED
    BY <1>5, <2>1
<1>7. Lengths(buf) = [n \in 0 .. N |-> JoinedStep(Lengths(buf), buf, n)]
  BY <1>6 DEF Lengths
<1>8. Joined(buf) = Lengths(buf)[N]
  BY DEF Joined, Lengths, JoinedStep
<1> DEFINE L == Lengths(buf)
           T == {n \in Nat : n <= N => L[n] \in Nat}
<1>9. 0 \in T
  <2>1. L[0] = JoinedStep(L, buf, 0)
    <3> HIDE DEF L
    <3>1. L = [n \in 0 .. N |-> JoinedStep(L, buf, n)]
      BY <1>7 DEF L
    <3>2. 0 \in 0 .. N
      BY <1>1
    <3> HIDE DEF N
    <3> QED
      BY <3>1, <3>2
  <2> QED
    BY <2>1 DEF JoinedStep
<1>10. ASSUME NEW n \in Nat, n \in T PROVE n + 1 \in T
  <2> HIDE DEF L
  <2> SUFFICES ASSUME n + 1 <= N PROVE L[n + 1] \in Nat
    OBVIOUS
  <2>1. n + 1 \in 0 .. N /\ n + 1 \in 1 .. N /\ L[n] \in Nat /\ (n + 1) - 1 = n /\ n + 1 # 0
    BY <1>1, <1>10
  <2>2. L = [j \in 0 .. N |-> JoinedStep(L, buf, j)]
    BY <1>7 DEF L
  <2>3. L[n + 1] = JoinedStep(L, buf, n + 1)
    <3> HIDE DEF N
    <3> QED
      BY <2>1, <2>2
  <2>4. JoinedStep(L, buf, n + 1) = L[n] + buf[n + 1] + IF n + 1 = 1 THEN 0 ELSE 1
    BY <2>1 DEF JoinedStep
  <2> QED
    BY <1>1, <2>1, <2>3, <2>4
<1>11. \A n \in 0 .. N : L[n] \in Nat
  <2>1. Nat \subseteq T
    <3> HIDE DEF T
    <3> QED
      BY <1>9, <1>10, NatInd
  <2> QED
    BY <1>1, <2>1
<1> QED
  BY <1>7, <1>8, <1>11

LEMMA JoinedOfNone == Joined(<<>>) = 0 /\ \A buf \in Seq(Nat) : Joined(buf) \in Nat
<1>1. <<>> \in Seq(Nat) /\ Len(<<>>) = 0
  OBVIOUS
<1>2. Joined(<<>>) = JoinedStep(Lengths(<<>>), <<>>, 0)
  <2> DEFINE L == Lengths(<<>>)
  <2>1. L = [n \in 0 .. 0 |-> JoinedStep(L, <<>>, n)] /\ Joined(<<>>) = L[0]
    BY <1>1, LengthsAre
  <2> HIDE DEF L
  <2> QED
    BY <2>1
<1>3. ASSUME NEW buf \in Seq(Nat) PROVE Joined(buf) \in Nat
  <2>1. Len(buf) \in 0 .. Len(buf)
    OBVIOUS
  <2> QED
    BY <2>1, LengthsAre
<1> QED
  BY <1>2, <1>3 DEF JoinedStep

\* A chunk grows by a word and the blank before it.
LEMMA JoinedOfMore ==
  ASSUME NEW buf \in Seq(Nat), NEW w \in Nat
  PROVE  Joined(Append(buf, w)) = Joined(buf) + w + IF buf = <<>> THEN 0 ELSE 1
<1> DEFINE c == Append(buf, w)
           N == Len(buf)
           L == Lengths(buf)
           M == Lengths(c)
           T == {n \in Nat : n <= N => M[n] = L[n]}
<1>1. /\ c \in Seq(Nat) /\ Len(c) = N + 1 /\ N \in Nat
      /\ \A i \in 1 .. N : c[i] = buf[i]
      /\ c[N + 1] = w
  <2> HIDE DEF c, N
  <2> QED
    BY AppendOf DEF c, N
<1>2. L = [n \in 0 .. N |-> JoinedStep(L, buf, n)] /\ Joined(buf) = L[N]
  <2> HIDE DEF L, N
  <2> QED
    BY LengthsAre DEF L, N
<1>3. M = [n \in 0 .. N + 1 |-> JoinedStep(M, c, n)] /\ Joined(c) = M[N + 1]
  <2> HIDE DEF c, N, M
  <2> QED
    BY <1>1, LengthsAre DEF M
<1> HIDE DEF c, N, L, M
<1>4. 0 \in T
  <2>1. 0 \in 0 .. N /\ 0 \in 0 .. N + 1
    BY <1>1
  <2>2. M[0] = 0 /\ L[0] = 0
    BY <1>2, <1>3, <2>1 DEF JoinedStep
  <2> QED
    BY <2>2
<1>5. ASSUME NEW n \in Nat, n \in T PROVE n + 1 \in T
  <2> SUFFICES ASSUME n + 1 <= N PROVE M[n + 1] = L[n + 1]
    OBVIOUS
  <2>1. /\ n + 1 \in 0 .. N /\ n + 1 \in 0 .. N + 1 /\ n + 1 \in 1 .. N
        /\ (n + 1) - 1 = n /\ n + 1 # 0
    BY <1>1
  <2>2. M[n] = L[n]
    BY <1>1, <1>5
  <2>3. JoinedStep(M, c, n + 1) = JoinedStep(L, buf, n + 1)
    BY <1>1, <2>1, <2>2 DEF JoinedStep
  <2>4. M[n + 1] = JoinedStep(M, c, n + 1) /\ L[n + 1] = JoinedStep(L, buf, n + 1)
    BY <1>2, <1>3, <2>1
  <2> QED
    BY <2>3, <2>4
<1>6. M[N] = L[N]
  <2> HIDE DEF T
  <2>1. N \in T
    BY <1>1, <1>4, <1>5, NatInd
  <2> QED
    BY <1>1, <2>1 DEF T
<1>7. Joined(c) = JoinedStep(M, c, N + 1)
  <2>1. N + 1 \in 0 .. N + 1
    BY <1>1
  <2> QED
    BY <1>3, <2>1
<1>8. JoinedStep(M, c, N + 1) = M[N] + w + IF N = 0 THEN 0 ELSE 1
  <2>1. N + 1 # 0 /\ (N + 1) - 1 = N /\ (N + 1 = 1 <=> N = 0)
    BY <1>1
  <2> QED
    BY <1>1, <2>1 DEF JoinedStep
<1>9. N = 0 <=> buf = <<>>
  BY EmptySeq DEF N
<1> QED
  BY <1>2, <1>6, <1>7, <1>8, <1>9 DEF c

-----------------------------------------------------------------------------
(***************************************************************************)
(* The loop over the words.                                                *)
(***************************************************************************)
States == [chunks : Seq(Seq(Nat)), buf : Seq(Nat), bytes : Nat]

Begin == [chunks |-> <<>>, buf |-> <<>>, bytes |-> 0]

\* Chunks as ChunksAreTight wants them.
Tight(cs, max) ==
  \A i \in DOMAIN cs :
    /\ cs[i] # <<>>
    /\ Joined(cs[i]) <= max \/ Len(cs[i]) = 1
    /\ i < Len(cs) => Joined(cs[i]) + 1 + Head(cs[i + 1]) > max

\* After the words of read.
Packed(s, read, max) ==
  /\ s \in States
  /\ FlattenSeq(s.chunks) \o s.buf = read
  /\ s.bytes = Joined(s.buf) /\ s.bytes <= max
  /\ Tight(s.chunks, max)
  /\ s.chunks # <<>> =>
       IF s.buf = <<>> THEN Joined(s.chunks[Len(s.chunks)]) >= max
       ELSE Joined(s.chunks[Len(s.chunks)]) + 1 + Head(s.buf) > max

\* One more chunk, the first word of which was too much for the last.
LEMMA TightMore ==
  ASSUME NEW cs \in Seq(Seq(Nat)), NEW c \in Seq(Nat), c # <<>>, NEW max \in Nat,
         Tight(cs, max), Joined(c) <= max \/ Len(c) = 1,
         cs # <<>> => Joined(cs[Len(cs)]) + 1 + Head(c) > max
  PROVE  Tight(Append(cs, c), max)
<1> DEFINE d == Append(cs, c)
           N == Len(cs)
<1>1. /\ d \in Seq(Seq(Nat)) /\ Len(d) = N + 1 /\ N \in Nat
      /\ \A i \in 1 .. N : d[i] = cs[i]
      /\ d[N + 1] = c
  <2> DEFINE Q == Seq(Nat)
  <2> HIDE DEF Q
  <2>1. cs \in Seq(Q) /\ c \in Q
    BY DEF Q
  <2>2. d \in Seq(Q) /\ Len(d) = N + 1 /\ N \in Nat
        /\ (\A i \in 1 .. N : d[i] = cs[i]) /\ d[N + 1] = c
    BY ONLY <2>1, AppendOf
  <2> QED
    BY <2>2 DEF Q
<1>2. DOMAIN cs = 1 .. N /\ DOMAIN d = 1 .. N + 1
  BY <1>1, LenProperties
<1>3. N # 0 => cs # <<>>
  BY EmptySeq
<1> HIDE DEF d, N
<1>4. ASSUME NEW i \in 1 .. N + 1
      PROVE  /\ d[i] # <<>>
             /\ Joined(d[i]) <= max \/ Len(d[i]) = 1
             /\ i < N + 1 => Joined(d[i]) + 1 + Head(d[i + 1]) > max
  <2>1. CASE i = N + 1
    BY <1>1, <2>1
  <2>2. CASE i # N + 1
    <3>0. i \in 1 .. N
      BY <1>1, <2>2
    <3>1. i \in 1 .. N /\ d[i] = cs[i]
      BY <1>1, <3>0
    <3>2. cs[i] # <<>> /\ (Joined(cs[i]) <= max \/ Len(cs[i]) = 1)
      BY <1>2, <3>1 DEF Tight
    <3>3. CASE i = N
      <4>1. Joined(cs[N]) + 1 + Head(c) > max
        BY <1>1, <1>3, <3>1, <3>3 DEF N
      <4>2. d[i + 1] = c
        BY <1>1, <3>3
      <4> QED
        BY <3>1, <3>2, <3>3, <4>1, <4>2
    <3>4. CASE i # N
      <4>1. i < N /\ i + 1 \in 1 .. N
        BY <1>1, <3>1, <3>4
      <4>2. Joined(cs[i]) + 1 + Head(cs[i + 1]) > max
        BY <1>2, <3>1, <4>1 DEF Tight, N
      <4>3. d[i + 1] = cs[i + 1]
        BY <1>1, <4>1
      <4> QED
        BY <3>1, <3>2, <4>2, <4>3
    <3> QED
      BY <3>3, <3>4
  <2> QED
    BY <2>1, <2>2
<1> QED
  BY <1>1, <1>2, <1>4 DEF Tight, d

LEMMA OneWord ==
  ASSUME NEW w \in Nat
  PROVE  /\ <<w>> \in Seq(Nat) /\ <<w>> # <<>> /\ Len(<<w>>) = 1 /\ Head(<<w>>) = w
         /\ Append(<<>>, w) = <<w>>
         /\ Joined(<<w>>) = w
<1>1. /\ <<w>> \in Seq(Nat) /\ <<w>> # <<>> /\ Len(<<w>>) = 1 /\ Head(<<w>>) = w
      /\ Append(<<>>, w) = <<w>> /\ <<>> \in Seq(Nat)
  OBVIOUS
<1>2. Joined(Append(<<>>, w)) = Joined(<<>>) + w + IF <<>> = <<>> THEN 0 ELSE 1
  BY <1>1, JoinedOfMore
<1> QED
  BY <1>1, <1>2, JoinedOfNone

LEMMA StateIs ==
  ASSUME NEW s \in States
  PROVE  s.chunks \in Seq(Seq(Nat)) /\ s.buf \in Seq(Nat) /\ s.bytes \in Nat
BY DEF States

LEMMA StateOf ==
  ASSUME NEW cs \in Seq(Seq(Nat)), NEW b \in Seq(Nat), NEW n \in Nat
  PROVE  [chunks |-> cs, buf |-> b, bytes |-> n] \in States
BY DEF States

LEMMA ChunksWith ==
  ASSUME NEW s, NEW cs, NEW b, NEW n, NEW ds, s = [chunks |-> cs, buf |-> b, bytes |-> n]
  PROVE  [s EXCEPT !.chunks = ds] = [chunks |-> ds, buf |-> b, bytes |-> n]
OBVIOUS

LEMMA BufWith ==
  ASSUME NEW s, NEW cs, NEW b, NEW n, NEW c, NEW m, s = [chunks |-> cs, buf |-> b, bytes |-> n]
  PROVE  [s EXCEPT !.buf = c, !.bytes = m] = [chunks |-> cs, buf |-> c, bytes |-> m]
<1> DEFINE r == [s EXCEPT !.buf = c]
<1>1. r = [chunks |-> cs, buf |-> c, bytes |-> n]
  OBVIOUS
<1>2. [s EXCEPT !.buf = c, !.bytes = m] = [r EXCEPT !.bytes = m]
  OBVIOUS
<1> HIDE DEF r
<1>3. [r EXCEPT !.bytes = m] = [chunks |-> cs, buf |-> c, bytes |-> m]
  BY <1>1
<1> QED
  BY <1>2, <1>3

\* What TakeWord does, without EXCEPT.
LEMMA TakeWordIs ==
  ASSUME NEW s \in States, NEW w \in Nat, NEW max \in Nat
  PROVE  LET flushed == IF s.buf = <<>> THEN s.chunks ELSE Append(s.chunks, s.buf)
         IN TakeWord(s, w, max) =
              IF w > max THEN [chunks |-> Append(flushed, <<w>>), buf |-> <<>>, bytes |-> 0]
              ELSE IF Fits(s, w, max)
                   THEN [chunks |-> s.chunks, buf |-> Append(s.buf, w),
                         bytes |-> s.bytes + w + IF s.buf = <<>> THEN 0 ELSE 1]
                   ELSE [chunks |-> flushed, buf |-> <<w>>, bytes |-> w]
<1> DEFINE flushed == IF s.buf = <<>> THEN s.chunks ELSE Append(s.chunks, s.buf)
<1>1. Flush(s) = [chunks |-> flushed, buf |-> <<>>, bytes |-> 0]
  BY DEF Flush
<1> HIDE DEF flushed
<1>2. CASE w > max
  <2> DEFINE t == Flush(s)
  <2>1. TakeWord(s, w, max) = [t EXCEPT !.chunks = Append(t.chunks, <<w>>)]
    BY <1>2 DEF TakeWord
  <2>2. t = [chunks |-> flushed, buf |-> <<>>, bytes |-> 0] /\ t.chunks = flushed
    BY <1>1
  <2> HIDE DEF t
  <2>3. [t EXCEPT !.chunks = Append(flushed, <<w>>)]
          = [chunks |-> Append(flushed, <<w>>), buf |-> <<>>, bytes |-> 0]
    <3> DEFINE x == Append(flushed, <<w>>)
    <3> HIDE DEF x
    <3>1. [t EXCEPT !.chunks = x] = [chunks |-> x, buf |-> <<>>, bytes |-> 0]
      BY ONLY <2>2, ChunksWith
    <3> QED
      BY <3>1 DEF x
  <2> QED
    BY <1>2, <2>1, <2>2, <2>3 DEF flushed
<1>3. CASE ~(w > max) /\ Fits(s, w, max)
  <2>1. s = [chunks |-> s.chunks, buf |-> s.buf, bytes |-> s.bytes]
    BY DEF States
  <2>2. TakeWord(s, w, max) =
          [s EXCEPT !.buf = Append(s.buf, w),
                    !.bytes = s.bytes + w + IF s.buf = <<>> THEN 0 ELSE 1]
    BY <1>3 DEF TakeWord
  <2> QED
    BY <1>3, <2>1, <2>2, BufWith
<1>4. CASE ~(w > max) /\ ~Fits(s, w, max)
  <2> DEFINE t == Flush(s)
  <2>1. TakeWord(s, w, max) =
          [t EXCEPT !.buf = Append(t.buf, w),
                    !.bytes = t.bytes + w + IF t.buf = <<>> THEN 0 ELSE 1]
    BY <1>4 DEF TakeWord
  <2>2. t.buf = <<>> /\ t.bytes = 0 /\ t = [chunks |-> flushed, buf |-> <<>>, bytes |-> 0]
    BY <1>1
  <2> HIDE DEF t
  <2>3. Append(t.buf, w) = <<w>>
    BY <2>2, OneWord
  <2>4. t.bytes + w + (IF t.buf = <<>> THEN 0 ELSE 1) = w
    BY <2>2
  <2>5. [t EXCEPT !.buf = <<w>>, !.bytes = w] = [chunks |-> flushed, buf |-> <<w>>, bytes |-> w]
    <3> DEFINE x == <<w>>
    <3> HIDE DEF x
    <3> DEFINE e == <<>>
               z == 0
    <3>1. t = [chunks |-> flushed, buf |-> e, bytes |-> z]
      BY <2>2
    <3> HIDE DEF e, z
    <3>2. [t EXCEPT !.buf = x, !.bytes = w] = [chunks |-> flushed, buf |-> x, bytes |-> w]
      <4> DEFINE r == [t EXCEPT !.buf = x]
      <4>1. r = [chunks |-> flushed, buf |-> x, bytes |-> z]
        BY ONLY <3>1
      <4>2. [t EXCEPT !.buf = x, !.bytes = w] = [r EXCEPT !.bytes = w]
        BY ONLY <3>1
      <4> HIDE DEF r
      <4>3. [r EXCEPT !.bytes = w] = [chunks |-> flushed, buf |-> x, bytes |-> w]
        BY ONLY <4>1
      <4> QED
        BY <4>2, <4>3
    <3> QED
      BY <3>2 DEF x
  <2> QED
    BY <1>4, <2>1, <2>3, <2>4, <2>5 DEF flushed
<1> QED
  BY <1>2, <1>3, <1>4 DEF flushed

\* One more chunk.
LEMMA ChunkAdded ==
  ASSUME NEW cs \in Seq(Seq(Nat)), NEW c \in Seq(Nat)
  PROVE  /\ Append(cs, c) \in Seq(Seq(Nat)) /\ Append(cs, c) # <<>>
         /\ Append(cs, c)[Len(Append(cs, c))] = c
         /\ FlattenSeq(Append(cs, c)) = FlattenSeq(cs) \o c
<1> DEFINE Q == Seq(Nat)
<1>1. FlattenSeq(Append(cs, c)) = FlattenSeq(cs) \o c
  BY FlattenMore
<1>2. cs \in Seq(Q) /\ c \in Q
  OBVIOUS
<1> HIDE DEF Q
<1>3. /\ Append(cs, c) \in Seq(Q) /\ Append(cs, c) # <<>>
      /\ Len(Append(cs, c)) = Len(cs) + 1 /\ Append(cs, c)[Len(cs) + 1] = c
  BY ONLY <1>2, AppendOf
<1> QED
  BY <1>1, <1>3 DEF Q

LEMMA TakeType ==
  ASSUME NEW s \in States, NEW w \in Nat, NEW max \in Nat
  PROVE  TakeWord(s, w, max) \in States
<1> DEFINE flushed == IF s.buf = <<>> THEN s.chunks ELSE Append(s.chunks, s.buf)
           more == s.bytes + w + IF s.buf = <<>> THEN 0 ELSE 1
<1>1. s.chunks \in Seq(Seq(Nat)) /\ s.buf \in Seq(Nat) /\ s.bytes \in Nat
  BY StateIs
<1>2. flushed \in Seq(Seq(Nat)) /\ more \in Nat
  BY <1>1, ChunkAdded
<1>3. /\ <<w>> \in Seq(Nat) /\ <<>> \in Seq(Nat) /\ Append(s.buf, w) \in Seq(Nat) /\ 0 \in Nat
  BY <1>1, OneWord
<1>4. Append(flushed, <<w>>) \in Seq(Seq(Nat))
  <2> HIDE DEF flushed
  <2> QED
    BY <1>2, <1>3, ChunkAdded
<1>5. /\ [chunks |-> Append(flushed, <<w>>), buf |-> <<>>, bytes |-> 0] \in States
      /\ [chunks |-> s.chunks, buf |-> Append(s.buf, w), bytes |-> more] \in States
      /\ [chunks |-> flushed, buf |-> <<w>>, bytes |-> w] \in States
  <2> HIDE DEF flushed, more
  <2> QED
    BY <1>1, <1>2, <1>3, <1>4, StateOf
<1> QED
  BY <1>5, TakeWordIs

-----------------------------------------------------------------------------
\* What is known of the last chunk of s, when a word comes that is too much.
TooMuch(cs, w, max) == cs # <<>> => Joined(cs[Len(cs)]) + 1 + w > max

LEMMA PackedIs ==
  ASSUME NEW s, NEW read, NEW max \in Nat, Packed(s, read, max)
  PROVE  /\ s \in States /\ s.chunks \in Seq(Seq(Nat)) /\ s.buf \in Seq(Nat) /\ s.bytes \in Nat
         /\ FlattenSeq(s.chunks) \in Seq(Nat) /\ read \in Seq(Nat)
         /\ read = FlattenSeq(s.chunks) \o s.buf
         /\ s.buf = <<>> => read = FlattenSeq(s.chunks)
         /\ s.bytes = Joined(s.buf) /\ s.bytes <= max
         /\ Tight(s.chunks, max)
         /\ s.buf = <<>> => \A w \in Nat : TooMuch(s.chunks, w, max)
         /\ s.buf # <<>> => Head(s.buf) \in Nat /\ TooMuch(s.chunks, Head(s.buf), max)
<1>1. s \in States /\ s.chunks \in Seq(Seq(Nat)) /\ s.buf \in Seq(Nat) /\ s.bytes \in Nat
  BY StateIs DEF Packed
<1>2. FlattenSeq(s.chunks) \in Seq(Nat)
  BY <1>1, FlattenType
<1>3. read = FlattenSeq(s.chunks) \o s.buf
  BY DEF Packed
<1>4. read \in Seq(Nat)
  BY <1>1, <1>2, <1>3, ConcatProperties
<1>5. s.buf = <<>> => read = FlattenSeq(s.chunks)
  BY <1>2, <1>3, ConcatEmptySeq
<1>6. s.bytes = Joined(s.buf) /\ s.bytes <= max /\ Tight(s.chunks, max)
  BY DEF Packed
<1>7. ASSUME s.buf = <<>>, NEW w \in Nat PROVE TooMuch(s.chunks, w, max)
  <2> SUFFICES ASSUME s.chunks # <<>> PROVE Joined(s.chunks[Len(s.chunks)]) + 1 + w > max
    BY DEF TooMuch
  <2>1. Joined(s.chunks[Len(s.chunks)]) >= max
    BY <1>7 DEF Packed
  <2>2. Joined(s.chunks[Len(s.chunks)]) \in Nat
    <3>1. s.chunks[Len(s.chunks)] \in Seq(Nat)
      <4>1. Len(s.chunks) \in 1 .. Len(s.chunks)
        BY <1>1, EmptySeq
      <4> QED
        BY <1>1, <4>1, ElementOfSeq
    <3> QED
      BY <3>1, JoinedOfNone
  <2> QED
    BY <2>1, <2>2
<1>8. s.buf # <<>> => Head(s.buf) \in Nat /\ TooMuch(s.chunks, Head(s.buf), max)
  <2>1. s.buf # <<>> => TooMuch(s.chunks, Head(s.buf), max)
    BY DEF Packed, TooMuch
  <2>2. s.buf # <<>> => Head(s.buf) \in Nat
    BY <1>1, HeadTailProperties
  <2> QED
    BY <2>1, <2>2
<1> QED
  BY <1>1, <1>2, <1>3, <1>4, <1>5, <1>6, <1>7, <1>8

\* The same with the words in buf made a chunk.
LEMMA FlushedIs ==
  ASSUME NEW s, NEW read, NEW max \in Nat, Packed(s, read, max)
  PROVE  LET flushed == IF s.buf = <<>> THEN s.chunks ELSE Append(s.chunks, s.buf)
         IN /\ flushed \in Seq(Seq(Nat)) /\ FlattenSeq(flushed) = read
            /\ Tight(flushed, max)
            /\ \A w \in Nat : s.bytes + 1 + w > max => TooMuch(flushed, w, max)
<1> DEFINE more == Append(s.chunks, s.buf)
<1>1. CASE s.buf = <<>>
  BY <1>1, PackedIs
<1>2. CASE s.buf # <<>>
  <2>1. more \in Seq(Seq(Nat)) /\ more # <<>> /\ more[Len(more)] = s.buf
        /\ FlattenSeq(more) = read
    <3>1. /\ s.chunks \in Seq(Seq(Nat)) /\ s.buf \in Seq(Nat)
          /\ read = FlattenSeq(s.chunks) \o s.buf
      BY PackedIs
    <3>2. /\ more \in Seq(Seq(Nat)) /\ more # <<>> /\ more[Len(more)] = s.buf
          /\ FlattenSeq(more) = FlattenSeq(s.chunks) \o s.buf
      BY ONLY <3>1, ChunkAdded
    <3> QED
      BY ONLY <3>1, <3>2
  <2>2. Tight(more, max)
    <3> DEFINE cs == s.chunks
               c == s.buf
    <3>1. /\ cs \in Seq(Seq(Nat)) /\ c \in Seq(Nat) /\ c # <<>> /\ Tight(cs, max)
          /\ Joined(c) <= max \/ Len(c) = 1
          /\ cs # <<>> => Joined(cs[Len(cs)]) + 1 + Head(c) > max
      BY <1>2, PackedIs DEF TooMuch
    <3> HIDE DEF cs, c
    <3>2. Tight(Append(cs, c), max)
      BY ONLY <3>1, max \in Nat, TightMore
    <3> QED
      BY <3>2 DEF cs, c
  <2>3. ASSUME NEW w \in Nat, s.bytes + 1 + w > max PROVE TooMuch(more, w, max)
    <3>1. s.bytes = Joined(s.buf)
      BY PackedIs
    <3> HIDE DEF more
    <3> QED
      BY <2>1, <2>3, <3>1 DEF TooMuch
  <2> HIDE DEF more
  <2> QED
    BY <1>2, <2>1, <2>2, <2>3 DEF more
<1> QED
  BY <1>1, <1>2

LEMMA PackedFrom ==
  ASSUME NEW t \in States, NEW read, NEW max, FlattenSeq(t.chunks) \o t.buf = read,
         t.bytes = Joined(t.buf), t.bytes <= max, Tight(t.chunks, max),
         t.buf = <<>> => Joined(t.chunks[Len(t.chunks)]) >= max,
         t.buf # <<>> => TooMuch(t.chunks, Head(t.buf), max)
  PROVE  Packed(t, read, max)
BY DEF Packed, TooMuch

\* Each word keeps it so.
LEMMA PackedStep ==
  ASSUME NEW s, NEW read, NEW max \in Nat, Packed(s, read, max), NEW w \in Nat
  PROVE  Packed(TakeWord(s, w, max), Append(read, w), max)
<1> DEFINE flushed == IF s.buf = <<>> THEN s.chunks ELSE Append(s.chunks, s.buf)
           one == <<w>>
           t == TakeWord(s, w, max)
<1>1. /\ s \in States /\ s.chunks \in Seq(Seq(Nat)) /\ s.buf \in Seq(Nat) /\ s.bytes \in Nat
      /\ FlattenSeq(s.chunks) \in Seq(Nat) /\ read \in Seq(Nat)
      /\ read = FlattenSeq(s.chunks) \o s.buf
      /\ s.bytes = Joined(s.buf) /\ s.bytes <= max
      /\ Tight(s.chunks, max)
      /\ s.buf = <<>> => \A x \in Nat : TooMuch(s.chunks, x, max)
      /\ s.buf # <<>> => Head(s.buf) \in Nat /\ TooMuch(s.chunks, Head(s.buf), max)
  BY PackedIs
<1>2. t \in States
  BY <1>1, TakeType
<1>3. /\ flushed \in Seq(Seq(Nat)) /\ FlattenSeq(flushed) = read /\ Tight(flushed, max)
      /\ \A x \in Nat : s.bytes + 1 + x > max => TooMuch(flushed, x, max)
  BY FlushedIs
<1>4. /\ one \in Seq(Nat) /\ one # <<>> /\ Len(one) = 1 /\ Head(one) = w /\ Joined(one) = w
      /\ Append(<<>>, w) = one
  BY OneWord
<1>5. read \o one = Append(read, w)
  BY <1>1, AppendIsConcat
<1>6. t = IF w > max THEN [chunks |-> Append(flushed, one), buf |-> <<>>, bytes |-> 0]
          ELSE IF Fits(s, w, max)
               THEN [chunks |-> s.chunks, buf |-> Append(s.buf, w),
                     bytes |-> s.bytes + w + IF s.buf = <<>> THEN 0 ELSE 1]
               ELSE [chunks |-> flushed, buf |-> one, bytes |-> w]
  BY <1>1, TakeWordIs
<1> HIDE DEF flushed, one, t
<1>7. CASE w > max
  <2> DEFINE cs == Append(flushed, one)
  <2>1. t.chunks = cs /\ t.buf = <<>> /\ t.bytes = 0
    BY <1>6, <1>7
  <2>2. /\ cs # <<>> /\ cs[Len(cs)] = one /\ FlattenSeq(cs) = read \o one /\ cs \in Seq(Seq(Nat))
    BY <1>3, <1>4, ChunkAdded
  <2>3. TooMuch(flushed, w, max)
    BY <1>1, <1>3, <1>7
  <2>4. Tight(cs, max)
    <3>1. flushed # <<>> => Joined(flushed[Len(flushed)]) + 1 + Head(one) > max
      BY <1>4, <2>3 DEF TooMuch
    <3> QED
      BY <1>3, <1>4, <3>1, TightMore
  <2> HIDE DEF cs
  <2>5. FlattenSeq(t.chunks) \o t.buf = Append(read, w)
    <3>1. FlattenSeq(cs) \in Seq(Nat)
      BY <2>2, FlattenType
    <3>2. FlattenSeq(cs) \o <<>> = FlattenSeq(cs)
      BY <3>1, ConcatEmptySeq
    <3> QED
      BY <1>5, <2>1, <2>2, <3>2
  <2>6. t.bytes = Joined(t.buf) /\ t.bytes <= max
    BY <2>1, JoinedOfNone
  <2>7. Joined(t.chunks[Len(t.chunks)]) >= max
    BY <1>4, <1>7, <2>1, <2>2
  <2> QED
    <3>1. Tight(t.chunks, max)
      BY <2>1, <2>4
    <3>2. t.buf = <<>>
      BY <2>1
    <3> QED
      BY ONLY <1>2, <2>5, <2>6, <2>7, <3>1, <3>2, PackedFrom DEF t
<1>8. CASE ~(w > max) /\ Fits(s, w, max)
  <2> DEFINE b == Append(s.buf, w)
  <2>1. /\ t.chunks = s.chunks /\ t.buf = b
        /\ t.bytes = s.bytes + w + IF s.buf = <<>> THEN 0 ELSE 1
    BY <1>6, <1>8
  <2>2. b \in Seq(Nat) /\ b # <<>> /\ Joined(b) = Joined(s.buf) + w + IF s.buf = <<>> THEN 0 ELSE 1
    BY <1>1, AppendOf, JoinedOfMore
  <2>3. Head(b) = IF s.buf = <<>> THEN w ELSE Head(s.buf)
    <3>1. CASE s.buf = <<>>
      BY <1>4, <3>1
    <3>2. CASE s.buf # <<>>
      <4>1. 1 \in 1 .. Len(s.buf)
        BY <1>1, <3>2, EmptySeq
      <4>2. b[1] = s.buf[1] /\ Len(b) # 0
        BY <1>1, <4>1, AppendOf
      <4>3. \A c \in Seq(Nat) : c # <<>> => Head(c) = c[1]
        OBVIOUS
      <4> HIDE DEF b
      <4> QED
        BY <1>1, <2>2, <3>2, <4>2, <4>3
    <3> QED
      BY <3>1, <3>2
  <2>4. FlattenSeq(s.chunks) \o b = Append(read, w)
    <3>1. b = s.buf \o one
      BY <1>1, AppendIsConcat DEF one
    <3>2. FlattenSeq(s.chunks) \o (s.buf \o one) = (FlattenSeq(s.chunks) \o s.buf) \o one
      <4> DEFINE x == FlattenSeq(s.chunks)
                 y == s.buf
      <4>1. x \in Seq(Nat) /\ y \in Seq(Nat) /\ one \in Seq(Nat)
        BY <1>1, <1>4
      <4> HIDE DEF x, y
      <4>2. x \o (y \o one) = (x \o y) \o one
        BY ONLY <4>1, ConcatAssociative
      <4> QED
        BY <4>2 DEF x, y
    <3> QED
      BY <1>1, <1>5, <3>1, <3>2
  <2>5. t.bytes <= max
    <3>1. CASE s.buf = <<>>
      BY <1>1, <1>8, <2>1, <3>1, JoinedOfNone
    <3>2. CASE s.buf # <<>>
      BY <1>1, <1>8, <2>1, <3>2 DEF Fits
    <3> QED
      BY <3>1, <3>2
  <2>6. TooMuch(s.chunks, Head(b), max)
    BY <1>1, <2>3
  <2> HIDE DEF b
  <2> QED
    <3>1. t.bytes = Joined(b)
      BY <1>1, <2>1, <2>2
    <3>2. FlattenSeq(t.chunks) \o t.buf = Append(read, w)
      BY <2>1, <2>4
    <3>3. Tight(t.chunks, max) /\ t.bytes = Joined(t.buf)
      BY <1>1, <2>1, <3>1
    <3>4. t.buf # <<>> /\ TooMuch(t.chunks, Head(t.buf), max)
      BY <2>1, <2>2, <2>6
    <3> QED
      BY ONLY <1>2, <2>5, <3>2, <3>3, <3>4, PackedFrom DEF t
<1>9. CASE ~(w > max) /\ ~Fits(s, w, max)
  <2>1. t.chunks = flushed /\ t.buf = one /\ t.bytes = w
    BY <1>6, <1>9
  <2>2. TooMuch(flushed, w, max)
    <3>1. s.bytes + 1 + w > max
      BY <1>1, <1>9 DEF Fits
    <3> QED
      BY <1>3, <3>1
  <2>3. FlattenSeq(t.chunks) \o t.buf = Append(read, w)
    BY <1>3, <1>5, <2>1
  <2>4. w <= max
    BY <1>9
  <2> QED
    <3>1. Tight(t.chunks, max) /\ t.bytes = Joined(t.buf) /\ t.bytes <= max
      BY <1>3, <1>4, <2>1, <2>4
    <3>2. t.buf # <<>> /\ TooMuch(t.chunks, Head(t.buf), max)
      BY <1>4, <2>1, <2>2
    <3> QED
      BY ONLY <1>2, <2>3, <3>1, <3>2, PackedFrom DEF t
<1> QED
  BY <1>7, <1>8, <1>9 DEF t

TakenStep(f, words, max, n) == IF n = 0 THEN Begin ELSE TakeWord(f[n - 1], words[n], max)

Taken(words, max) == CHOOSE f : f = [n \in 0 .. Len(words) |-> TakenStep(f, words, max, n)]

LEMMA BeginPacked ==
  ASSUME NEW max \in Nat
  PROVE  Begin \in States /\ Packed(Begin, <<>>, max)
<1>1. <<>> \in Seq(Nat) /\ <<>> \in Seq(Seq(Nat)) /\ 0 \in Nat
  OBVIOUS
<1>2. Begin \in States
  BY <1>1, StateOf DEF Begin
<1>3. Begin.chunks = <<>> /\ Begin.buf = <<>> /\ Begin.bytes = 0
  BY DEF Begin
<1>4. FlattenSeq(<<>>) \o <<>> = <<>>
  <2>1. FlattenSeq(<<>>) = <<>>
    BY <1>1, FlattenType
  <2> QED
    BY <1>1, <2>1, ConcatEmptySeq
<1>5. Tight(<<>>, max)
  <2>1. DOMAIN <<>> = {}
    OBVIOUS
  <2> QED
    BY <2>1 DEF Tight
<1> QED
  BY <1>2, <1>3, <1>4, <1>5, JoinedOfNone DEF Packed

LEMMA TakenAre ==
  ASSUME NEW words \in Seq(Nat), NEW max \in Nat
  PROVE  /\ ChunkText(words, max) = Flush(Taken(words, max)[Len(words)]).chunks
         /\ Taken(words, max) = [n \in 0 .. Len(words) |-> TakenStep(Taken(words, max), words, max, n)]
<1> DEFINE N == Len(words)
           G == [z \in States \X (1 .. N) |-> TakeWord(z[1], words[z[2]], max)]
<1>1. N \in Nat /\ \A n \in 1 .. N : words[n] \in Nat
  OBVIOUS
<1>2. G \in [States \X (1 .. N) -> States]
  <2>1. ASSUME NEW z \in States \X (1 .. N) PROVE TakeWord(z[1], words[z[2]], max) \in States
    <3>1. z[1] \in States /\ words[z[2]] \in Nat
      BY <1>1
    <3> QED
      BY <3>1, TakeType
  <2> QED
    BY <2>1
<1>3. \A x \in States, n \in 1 .. N : G[<<x, n>>] = TakeWord(x, words[n], max)
  OBVIOUS
<1> HIDE DEF G
<1>4. PICK f : IsRecursion(f, States, Begin, N, G)
  <2>1. Begin \in States
    BY BeginPacked
  <2> HIDE DEF N
  <2> QED
    BY ONLY <1>1, <1>2, <2>1, Recursion
<1>5. ASSUME NEW n \in 0 .. N PROVE f[n] = TakenStep(f, words, max, n)
  <2>1. CASE n = 0
    BY <1>4, <2>1 DEF TakenStep, IsRecursion
  <2>2. CASE n # 0
    <3>1. n \in 1 .. N /\ n - 1 \in 0 .. N
      BY <1>1, <2>2
    <3>2. f[n] = G[<<f[n - 1], n>>] /\ f[n - 1] \in States
      BY <1>4, <3>1 DEF IsRecursion
    <3> QED
      BY <1>3, <2>2, <3>1, <3>2 DEF TakenStep
  <2> QED
    BY <2>1, <2>2
<1>6. f = [n \in 0 .. N |-> TakenStep(f, words, max, n)]
  <2>1. f = [n \in 0 .. N |-> f[n]]
    BY <1>4 DEF IsRecursion
  <2> QED
    BY <1>5, <2>1
<1>7. Taken(words, max) = [n \in 0 .. N |-> TakenStep(Taken(words, max), words, max, n)]
  BY <1>6 DEF Taken
<1>8. ChunkText(words, max) = Flush(Taken(words, max)[N]).chunks
  BY DEF ChunkText, Taken, TakenStep, Begin
<1> QED
  BY <1>7, <1>8

\* The loop over all words.
LEMMA AllPacked ==
  ASSUME NEW words \in Seq(Nat), NEW max \in Nat
  PROVE  Packed(Taken(words, max)[Len(words)], words, max)
<1> DEFINE N == Len(words)
           F == Taken(words, max)
           Read(n) == SubSeq(words, 1, n)
           T == {n \in Nat : n <= N => Packed(F[n], Read(n), max)}
<1>1. N \in Nat /\ \A n \in 1 .. N : words[n] \in Nat
  OBVIOUS
<1>2. F = [n \in 0 .. N |-> TakenStep(F, words, max, n)]
  <2> HIDE DEF F, N
  <2> QED
    BY TakenAre DEF F, N
<1> HIDE DEF F, N
<1>3. 0 \in T
  <2>1. 0 \in 0 .. N
    BY <1>1
  <2>2. F[0] = Begin
    BY <1>2, <2>1 DEF TakenStep
  <2>3. Read(0) = <<>>
    BY SubSeqEmpty
  <2> QED
    BY <2>2, <2>3, BeginPacked
<1>4. ASSUME NEW n \in Nat, n \in T PROVE n + 1 \in T
  <2> SUFFICES ASSUME n + 1 <= N PROVE Packed(F[n + 1], Read(n + 1), max)
    OBVIOUS
  <2>1. n + 1 \in 0 .. N /\ n + 1 \in 1 .. N /\ n + 1 # 0 /\ (n + 1) - 1 = n /\ n <= N
    BY <1>1
  <2>2. Packed(F[n], Read(n), max)
    BY <1>4, <2>1
  <2>3. F[n + 1] = TakeWord(F[n], words[n + 1], max)
    <3>1. F[n + 1] = TakenStep(F, words, max, n + 1)
      BY <1>2, <2>1
    <3> QED
      BY <2>1, <3>1 DEF TakenStep
  <2>4. Read(n + 1) = Append(Read(n), words[n + 1])
    <3>1. 1 \in 1 .. n + 1 + 1 /\ n + 1 \in 1 .. N
      BY <2>1
    <3> QED
      BY <1>1, <2>1, SubSeqProperties DEF N
  <2>5. words[n + 1] \in Nat
    BY <1>1, <2>1
  <2> HIDE DEF T
  <2> QED
    BY <2>2, <2>3, <2>4, <2>5, PackedStep
<1>5. Packed(F[N], Read(N), max)
  <2> HIDE DEF T
  <2>1. Nat \subseteq T
    BY <1>3, <1>4, NatInd
  <2> QED
    BY <1>1, <2>1 DEF T
<1>6. Read(N) = words
  BY SubSeqFull DEF N
<1> QED
  BY <1>5, <1>6 DEF F, N

\* Whatever the transcript and the size, the chunks of chunk_text are the
\* words in their order, none too long but for a single long word, and none
\* ending before the next word is too much for it.
THEOREM ChunksPacked ==
  ASSUME NEW words \in Seq(Nat), NEW max \in Nat
  PROVE  AreTight(ChunkText(words, max), words, max)
<1> DEFINE s == Taken(words, max)[Len(words)]
           flushed == IF s.buf = <<>> THEN s.chunks ELSE Append(s.chunks, s.buf)
<1>1. Packed(s, words, max)
  BY AllPacked
<1>2. ChunkText(words, max) = Flush(s).chunks
  BY TakenAre
<1> HIDE DEF s
<1>3. Flush(s).chunks = flushed
  BY DEF Flush
<1>4. FlattenSeq(flushed) = words /\ Tight(flushed, max)
  BY <1>1, FlushedIs
<1> HIDE DEF flushed
<1> QED
  BY <1>2, <1>3, <1>4 DEF AreTight, Tight

LEMMA ChunksAlways == ChunksAreTight
<1> SUFFICES ASSUME NEW words \in BoundedSeq(1 .. MaxBytes + 1, MaxWords),
                    NEW max \in 1 .. MaxBytes
             PROVE  AreTight(ChunkText(words, max), words, max)
  BY DEF ChunksAreTight
<1>1. max \in Nat
  BY ChunksAssumption
<1>2. words \in Seq(Nat)
  <2>1. PICK m \in 0 .. MaxWords : words \in [1 .. m -> 1 .. MaxBytes + 1]
    BY DEF BoundedSeq, SeqOf
  <2>2. m \in Nat /\ words \in [1 .. m -> Nat]
    BY <2>1, ChunksAssumption
  <2> QED
    BY <2>2, SeqDef
<1> QED
  BY <1>1, <1>2, ChunksPacked

\* The same as the runs check it.
THEOREM ChunkSafety == Spec => []ChunksAreTight
<1>1. ChunksAreTight
  BY ChunksAlways
<1>2. []ChunksAreTight
  BY <1>1, PTL
<1> QED
  BY <1>2, PTL

-----------------------------------------------------------------------------
(***************************************************************************)
(* No source is in the hands of two workers, and what an embedded or       *)
(* solved source says is current.  Then: every step is one of the abstract *)
(* queue, or none.                                                         *)
(***************************************************************************)
\* Steps of one worker that take nothing new in hand and write no status.
LEMMA FrameOwner ==
  ASSUME NEW w \in Procs, TypeInv, OwnerInv, UNCHANGED <<status, stale>>,
         \A p \in Workers : Held(p)' \subseteq Held(p),
         \A p \in Workers : cur'[p] \notin batch'[p],
         \A p \in Workers \ {w} : pc'[p] = pc[p] /\ cur'[p] = cur[p],
         w \in Workers /\ pc'[w] \in {"boot", "poll", "sleep"} => Held(w)' = {},
         w \in Workers /\ pc'[w] = "pick" => cur'[w] = NoSource
  PROVE  OwnerInv'
<1>1. Owned'
  BY DEF OwnerInv, Owned
<1>2. Exclusive'
  BY DEF OwnerInv, Exclusive
<1>3. BatchOK'
  BY DEF OwnerInv, BatchOK
<1> QED
  BY <1>1, <1>2, <1>3 DEF OwnerInv

\* The end of a source's work: the worker gives up what it writes to.
LEMMA ConcludeOwner ==
  ASSUME NEW w \in Workers, NEW st \in Statuses, TypeInv, OwnerInv,
         pc[w] \in Working, Conclude(w, st)
  PROVE  OwnerInv'
<1> w \in Procs \ Legacy /\ w \notin Clis
  BY WorkerAssumption DEF Procs, Workers
<1>1. cur[w] \in Sources
  BY DEF TypeInv, CurOK
<1>2. /\ \A p \in Workers \ {w} : pc'[p] = pc[p] /\ cur'[p] = cur[p]
      /\ pc'[w] = "pick" /\ cur'[w] = NoSource
      /\ UNCHANGED batch
  BY DEF Conclude, Goto, TypeInv, TypeOK, Procs
<1>3. \A p \in Workers \ {w} : Held(p)' = Held(p)
  BY <1>2 DEF Held
<1>4. \A s \in Held(w)' : s \in Held(w) /\ s # cur[w]
  BY <1>2, WorkerAssumption DEF Held, OwnerInv, BatchOK
<1>5. \A p \in Workers, s \in Sources : s \in Held(p)' => s \in Held(p) /\ s # cur[w]
  BY <1>1, <1>3, <1>4 DEF OwnerInv, Exclusive, Held
<1>6. \A s \in Sources \ {cur[w]} : status'[s] = status[s] /\ (s \in stale' => s \in stale)
  BY DEF Conclude, SetStatus, Touch, TypeInv, TypeOK
<1>7. Owned'
  BY <1>5, <1>6 DEF OwnerInv, Owned
<1>8. Exclusive'
  BY <1>5 DEF OwnerInv, Exclusive, Held
<1>9. BatchOK'
  <2>1. NoSource \notin batch[w]
    BY WorkerAssumption DEF TypeInv, TypeOK
  <2> QED
    BY <1>2, <1>3, <2>1 DEF OwnerInv, BatchOK
<1> QED
  BY <1>7, <1>8, <1>9 DEF OwnerInv

\* The loop: recover_stuck finds nothing that is held, the claim only what is
\* not held.
LEMMA QueueOwner ==
  ASSUME NEW w \in Workers, TypeInv, OwnerInv, QueueStep(w)
  PROVE  OwnerInv'
<1> w \in Procs
  BY DEF Procs
<1> Workers \subseteq Procs
  BY DEF Procs
<1>1. CASE Recover(w)
  <2>1. \A p \in Workers : cur'[p] = cur[p] /\ batch'[p] = batch[p] /\ Held(p)' = Held(p)
    BY <1>1 DEF Recover, Held
  <2>2. /\ \A p \in Workers \ {w} : pc'[p] = pc[p]
        /\ pc[w] \in {"boot", "sleep"} /\ pc'[w] = "poll"
    BY <1>1 DEF Recover, Goto, TypeInv, TypeOK
  <2>3. ASSUME NEW s \in Sources, s \notin stale
        PROVE  status'[s] = status[s] /\ s \notin stale'
    <3>1. \A k \in Stages : s \notin Stuck(k)
      BY <2>3 DEF Stuck
    <3> QED
      BY <1>1, <2>3, <3>1 DEF Recover, RecoverStuck, Touch, TypeInv, TypeOK
  <2>4. Owned'
    BY <2>1, <2>3 DEF OwnerInv, Owned
  <2>5. Exclusive' /\ BatchOK'
    BY <2>1, <2>2 DEF OwnerInv, Exclusive, BatchOK
  <2> QED
    BY <2>4, <2>5 DEF OwnerInv
<1>2. CASE Claim(w)
  <2>1. PICK B \in Batches(StageOf(w)) :
          ClaimByStatus(StageOf(w), B) /\ batch' = [batch EXCEPT ![w] = B]
    BY <1>2 DEF Claim
  <2>2. StageOf(w) \in Stages
    BY DEF StageOf, Stages
  <2>3. \A s \in B : s \in Sources /\ status[s] = Ready[StageOf(w)]
    BY <2>1 DEF Batches, Claimable
  <2>4. \A p \in Workers, s \in B : s \notin Held(p)
    <3>1. \A p \in Workers : StageOf(p) \in Stages
      BY DEF StageOf, Stages
    <3>2. \A j, k \in Stages : Ready[j] # Busy[k]
      BY DEF Stages, Ready, Busy
    <3> QED
      BY <2>2, <2>3, <3>1, <3>2 DEF OwnerInv, Owned
  <2>5. Held(w) = {}
    BY <1>2 DEF Claim, OwnerInv, BatchOK
  <2>6. cur[w] \notin Sources
    BY <2>5 DEF Held
  <2>7. /\ Held(w)' = B
        /\ \A p \in Workers \ {w} : Held(p)' = Held(p)
    BY <1>2, <2>1, <2>3, <2>6 DEF Claim, Held, TypeInv, TypeOK
  <2>8. \A s \in Sources : s \notin B => status'[s] = status[s] /\ (s \in stale' => s \in stale)
    BY <2>1 DEF ClaimByStatus, Touch, TypeInv, TypeOK
  <2>9. \A s \in B : status'[s] = Busy[StageOf(w)] /\ s \notin stale'
    BY <2>1, <2>3 DEF ClaimByStatus, Touch
  <2>10. Owned'
    BY <2>4, <2>7, <2>8, <2>9 DEF OwnerInv, Owned
  <2>11. Exclusive'
    BY <2>4, <2>7 DEF OwnerInv, Exclusive
  <2>12. BatchOK'
    <3>1. cur[w] = NoSource
      BY <2>6 DEF TypeInv, TypeOK
    <3>2. /\ \A p \in Workers \ {w} : pc'[p] = pc[p] /\ cur'[p] = cur[p] /\ batch'[p] = batch[p]
          /\ pc'[w] = "pick" /\ cur'[w] = cur[w] /\ batch'[w] = B
      BY <1>2, <2>1 DEF Claim, Goto, TypeInv, TypeOK
    <3> QED
      BY <2>3, <2>6, <2>7, <3>1, <3>2 DEF OwnerInv, BatchOK
  <2> QED
    BY <2>10, <2>11, <2>12 DEF OwnerInv
<1>3. CASE FindEmpty(w)
  <2>1. \A p \in Workers : Held(p)' = Held(p)
    BY <1>3 DEF FindEmpty, Held
  <2> QED
    BY <1>3, <2>1, FrameOwner
    DEF FindEmpty, Goto, tables, TypeInv, TypeOK, OwnerInv, BatchOK
<1>4. CASE Pick(w)
  <2>1. PICK s \in batch[w] :
          batch' = [batch EXCEPT ![w] = @ \ {s}] /\ cur' = [cur EXCEPT ![w] = s]
    BY <1>4 DEF Pick
  <2>2. \A p \in Workers : Held(p)' \subseteq Held(p)
    BY <2>1 DEF Held, TypeInv, TypeOK
  <2>3. \A p \in Workers : cur'[p] \notin batch'[p]
    BY <2>1 DEF OwnerInv, BatchOK, TypeInv, TypeOK
  <2>4. /\ \A p \in Workers \ {w} : pc'[p] = pc[p] /\ cur'[p] = cur[p]
        /\ pc'[w] \in {"fetch", "read", "text"}
    BY <1>4, <2>1 DEF Pick, Goto, FirstStep, StageOf, TypeInv, TypeOK
  <2> QED
    BY <1>4, <2>2, <2>3, <2>4, FrameOwner DEF Pick, tables
<1>5. CASE BatchDone(w)
  <2>1. \A p \in Workers : Held(p)' = Held(p)
    BY <1>5 DEF BatchDone, Held
  <2>2. Held(w) = {}
    BY <1>5, WorkerAssumption DEF BatchDone, Held, OwnerInv, BatchOK
  <2> QED
    BY <1>5, <2>1, <2>2, FrameOwner
    DEF BatchDone, Goto, tables, TypeInv, TypeOK, OwnerInv, BatchOK
<1> QED
  BY <1>1, <1>2, <1>3, <1>4, <1>5 DEF QueueStep

\* The work on one source: statuses are written only at its end.
LEMMA WorkOwner ==
  ASSUME NEW w \in Procs, TypeInv, OwnerInv, Clis = {},
         \/ w \in Loaders \cup Clis /\ LoadStep(w)
         \/ w \in Embedders /\ EmbedStep(w)
         \/ w \in Analysts /\ SolveStep(w)
         \/ w \in Legacy /\ LegacyStep(w)
  PROVE  OwnerInv'
<1> Workers \subseteq Procs
  BY DEF Procs
<1>1. CASE w \in Workers /\ \E st \in Statuses : Conclude(w, st) /\ pc[w] \in Working
  BY <1>1, ConcludeOwner
<1>2. CASE ~(w \in Workers /\ \E st \in Statuses : Conclude(w, st) /\ pc[w] \in Working)
  <2>1. UNCHANGED <<status, stale, batch, cur>>
    BY <1>2
    DEF LoadStep, FetchOk, FetchFail, UpsertSource, SaveChunks, MarkLoaded,
        LoadError, CliError, EmbedStep, ReadChunks, WriteVectors, CheckComplete, GiveBack,
        UpdateAverage, MarkEmbedded, EmbedError, SolveStep, ReadText, NoTextFound, AnalyzeOk,
        SaveSolution, MarkSolved, SolveError, LegacyStep, LegacyRead, LegacyAverage,
        tables, queueVars, Workers, Working, Statuses
  <2>2. /\ \A p \in Procs \ {w} : pc'[p] = pc[p]
        /\ w \in Workers => pc'[w] \notin {"boot", "poll", "sleep", "pick"}
    BY <1>2, WorkerAssumption
    DEF LoadStep, FetchOk, FetchFail, UpsertSource, SaveChunks, MarkLoaded,
        LoadError, CliError, EmbedStep, ReadChunks, WriteVectors, CheckComplete, GiveBack,
        UpdateAverage, MarkEmbedded, EmbedError, SolveStep, ReadText, NoTextFound, AnalyzeOk,
        SaveSolution, MarkSolved, SolveError, LegacyStep, LegacyRead, LegacyAverage,
        Goto, Workers, Working, Statuses, TypeInv, TypeOK
  <2>3. \A p \in Workers : Held(p)' = Held(p)
    BY <2>1 DEF Held
  <2> QED
    BY <2>1, <2>2, <2>3, FrameOwner DEF OwnerInv, BatchOK
<1> QED
  BY <1>1, <1>2

\* Every step keeps the sources of the workers apart.
LEMMA NextOwner ==
  ASSUME Prompt, Clis = {}
  PROVE  TypeInv /\ OwnerInv /\ [Next]_vars => OwnerInv'
<1> SUFFICES ASSUME TypeInv, OwnerInv, [Next]_vars
             PROVE  OwnerInv'
  OBVIOUS
<1> Workers \subseteq Procs
  BY DEF Procs
<1>1. CASE UNCHANGED vars
  BY <1>1 DEF vars, tables, local, OwnerInv, BatchOK, Owned, Exclusive, Held
<1>2. ASSUME NEW s \in Sources, Enqueue(s)
      PROVE  OwnerInv'
  <2>1. \A x \in Sources \ {s} : status'[x] = status[x] /\ (x \in stale' => x \in stale)
    BY <1>2 DEF Enqueue, InsertSource, SetStatus, Touch, TypeInv, TypeOK
  <2>2. \A w \in Workers : s \notin Held(w)
    <3>1. \A w \in Workers : Busy[StageOf(w)] # "absent"
      BY DEF Busy, StageOf
    <3> QED
      BY <1>2, <3>1 DEF Enqueue, InsertSource, OwnerInv, Owned
  <2>3. /\ UNCHANGED local
        /\ \A w \in Workers : Held(w)' = Held(w)
    BY <1>2 DEF Enqueue, local, Held
  <2>4. Owned'
    BY <2>1, <2>2, <2>3 DEF OwnerInv, Owned
  <2> QED
    BY <2>3, <2>4 DEF local, OwnerInv, BatchOK, Exclusive
<1>3. ASSUME NEW s \in Sources, GrowStale(s)
      PROVE  OwnerInv'
  <2>1. \A w \in Workers : s \notin Held(w)
    BY <1>3 DEF GrowStale
  <2>2. /\ UNCHANGED local
        /\ \A w \in Workers : Held(w)' = Held(w)
    BY <1>3 DEF GrowStale, local, Held
  <2>3. Owned'
    BY <1>3, <2>1, <2>2 DEF GrowStale, OwnerInv, Owned
  <2> QED
    BY <2>2, <2>3 DEF local, OwnerInv, BatchOK, Exclusive
<1>4. ASSUME NEW w \in Procs, Crash(w)
      PROVE  OwnerInv'
  <2>1. \A p \in Workers : Held(p)' \subseteq Held(p)
    BY <1>4, WorkerAssumption DEF Crash, Held, TypeInv, TypeOK
  <2>2. \A p \in Workers : cur'[p] \notin batch'[p]
    BY <1>4 DEF Crash, OwnerInv, BatchOK, TypeInv, TypeOK
  <2>3. /\ \A p \in Workers \ {w} : pc'[p] = pc[p] /\ cur'[p] = cur[p]
        /\ pc'[w] = "dead"
    BY <1>4 DEF Crash, Goto, TypeInv, TypeOK
  <2> QED
    BY <1>4, <2>1, <2>2, <2>3, FrameOwner DEF Crash, tables
<1>5. ASSUME NEW w \in Procs, Step(w)
      PROVE  OwnerInv'
  <2>1. CASE w \in Workers /\ QueueStep(w)
    BY <2>1, QueueOwner
  <2>2. CASE ~(w \in Workers /\ QueueStep(w))
    BY <1>5, <2>2, WorkOwner DEF Step
  <2> QED
    BY <2>1, <2>2
<1> QED
  BY <1>1, <1>2, <1>3, <1>4, <1>5 DEF Next

\* Several -p --watch workers may run in parallel and do not overlap
\* (README.md:168), if none of them is slower than recover_stuck allows.
THEOREM OwnerSafety ==
  ASSUME Prompt, Clis = {}
  PROVE  Spec => []Exclusive
<1>1. Init => OwnerInv
  BY WorkerAssumption
  DEF Init, WorkerInit, OwnerInv, BatchOK, Owned, Exclusive, Held, Procs
<1>2. OwnerInv => Exclusive
  BY DEF OwnerInv
<1> QED
  BY <1>1, <1>2, NextOwner, TypeSafety, PTL DEF Spec

-----------------------------------------------------------------------------
(***************************************************************************)
(* EmbeddedIsComplete and SolutionIsCurrent for any number of workers and  *)
(* legacy runs: what was stored for a source under one status fits what    *)
(* is stored under the next, because only the worker that holds a source   *)
(* changes what its status promises.                                       *)
(***************************************************************************)

\* The tables keep what they have of a source: vectors may be added where some
\* are missing, and the average may be taken again.
Steady(s) ==
  /\ contain'[s] = contain[s]
  /\ chunkText'[s] = chunkText[s]
  /\ solution'[s] = solution[s]
  /\ FullyEmbedded(s) => vector'[s] = vector[s]
  /\ FullyEmbedded(s) => average'[s] \in {average[s], vector[s]}

\* Complete vectors stay complete.
LEMMA SteadyFull ==
  ASSUME NEW s \in Sources, Steady(s), FullyEmbedded(s)
  PROVE  FullyEmbedded(s)'
BY DEF Steady, FullyEmbedded, ChunkRows

\* So does all that a status promises,
LEMMA SteadyPromise ==
  ASSUME NEW s \in Sources, Steady(s), Promised(s, status[s]), status'[s] = status[s]
  PROVE  Promised(s, status[s])'
<1>1. FullyEmbedded(s) => FullyEmbedded(s)'
  BY SteadyFull
<1>2. status[s] \in Embedded => FullyEmbedded(s)' /\ average'[s] = vector'[s]
  BY <1>1 DEF Promised, Steady
<1>3. status[s] = "solution" => solution'[s] = contain'[s] /\ contain'[s] = chunkText'[s]
  BY DEF Promised, Steady
<1>4. status[s] \in {"loaded", "process_embed"} \cup Embedded
        => contain'[s] \in {chunkText'[s], Blank}
  BY DEF Promised, Steady
<1> QED
  BY <1>2, <1>3, <1>4 DEF Promised, Embedded

\* and what a worker that takes no step has done.
LEMMA SteadyWork ==
  ASSUME NEW p \in Workers, Achieved(p), cur'[p] = cur[p], pc'[p] = pc[p], text'[p] = text[p],
         \A s \in Sources : s = cur[p] /\ pc[p] \in Working => Steady(s)
  PROVE  Achieved(p)'
<1> SUFFICES ASSUME NEW s \in Sources, s = cur[p], pc[p] \in Working
             PROVE  /\ p \in Loaders /\ pc[p] = "chunks" => contain'[s] = text[p]
                    /\ p \in Loaders /\ pc[p] = "mark" => contain'[s] \in {chunkText'[s], Blank}
                    /\ p \in Embedders /\ pc[p] \in {"average", "mark"} => FullyEmbedded(s)'
                    /\ p \in Embedders /\ pc[p] = "mark" => average'[s] = vector'[s]
                    /\ p \in Analysts /\ pc[p] \in {"ask", "save"} => text[p] = contain'[s]
                    /\ p \in Analysts /\ pc[p] = "mark"
                         => solution'[s] = contain'[s] /\ contain'[s] \in Texts
  BY DEF Achieved, Working
<1>1. Steady(s)
  OBVIOUS
<1>2. FullyEmbedded(s) => FullyEmbedded(s)'
  BY <1>1, SteadyFull
<1> QED
  BY <1>1, <1>2 DEF Achieved, Steady

\* Two workers never have one source in hand.
LEMMA OneHolder ==
  ASSUME OwnerInv, NEW w \in Workers, NEW p \in Workers \ {w}, NEW s \in Sources, s = cur[w]
  PROVE  s # cur[p]
BY DEF OwnerInv, Exclusive, Held

\* A step of a worker on the source in its hands that writes no status.
LEMMA FrameCurrent ==
  ASSUME NEW w \in Workers, OwnerInv, CurrentInv, UNCHANGED <<status, cur>>,
         \A p \in Workers \ {w} : pc'[p] = pc[p] /\ text'[p] = text[p],
         \A s \in Sources : s # cur[w] => Steady(s),
         \A s \in Sources : s = cur[w] => Promised(s, status[s])',
         Achieved(w)'
  PROVE  CurrentInv'
<1>1. ASSUME NEW s \in Sources
      PROVE  Promised(s, status[s])'
  <2>1. CASE s = cur[w]
    BY <2>1
  <2>2. CASE s # cur[w]
    BY <2>2, SteadyPromise DEF CurrentInv
  <2> QED
    BY <2>1, <2>2
<1>2. ASSUME NEW p \in Workers \ {w}
      PROVE  Achieved(p)'
  <2>1. \A s \in Sources : s = cur[p] => Steady(s)
    BY OneHolder
  <2> QED
    BY <2>1, SteadyWork DEF CurrentInv
<1> QED
  BY <1>1, <1>2 DEF CurrentInv

\* A step that changes nothing a status promises, and leaves the worker's
\* hands empty or its part done.
LEMMA SteadyCurrent ==
  ASSUME NEW w \in Procs, CurrentInv, UNCHANGED <<status, cur>>,
         \A p \in Workers \ {w} : pc'[p] = pc[p] /\ text'[p] = text[p],
         \A s \in Sources : Steady(s),
         w \in Workers => Achieved(w)'
  PROVE  CurrentInv'
<1>1. \A s \in Sources : Promised(s, status[s])'
  BY SteadyPromise DEF CurrentInv
<1>2. \A p \in Workers \ {w} : Achieved(p)'
  BY SteadyWork DEF CurrentInv
<1> QED
  BY <1>1, <1>2 DEF CurrentInv

\* A step that changes only statuses, and hands that become empty.
LEMMA StatusCurrent ==
  ASSUME CurrentInv, UNCHANGED dataVars,
         \A p \in Workers : \/ cur'[p] = NoSource
                            \/ cur'[p] = cur[p] /\ pc'[p] = pc[p] /\ text'[p] = text[p]
                            \/ pc'[p] \notin {"chunks", "mark", "average", "ask", "save"},
         \A s \in Sources : Promised(s, status'[s])
  PROVE  CurrentInv'
<1>1. \A s \in Sources : Promised(s, status[s])'
  BY DEF Promised, FullyEmbedded, ChunkRows, dataVars
<1>2. ASSUME NEW p \in Workers
      PROVE  Achieved(p)'
  <2>1. CASE cur'[p] = NoSource
    BY <2>1, WorkerAssumption DEF Achieved
  <2>2. CASE cur'[p] = cur[p] /\ pc'[p] = pc[p] /\ text'[p] = text[p]
    BY <2>2 DEF CurrentInv, Achieved, FullyEmbedded, ChunkRows, dataVars
  <2>3. CASE pc'[p] \notin {"chunks", "mark", "average", "ask", "save"}
    BY <2>3 DEF Achieved
  <2> QED
    BY <2>1, <2>2, <2>3
<1> QED
  BY <1>1, <1>2 DEF CurrentInv

\* The end of a source's work, if the new status is true of it.
LEMMA ConcludeCurrent ==
  ASSUME NEW w \in Workers, NEW st \in Statuses, TypeInv, CurrentInv,
         pc[w] \in Working, Conclude(w, st), Promised(cur[w], st)
  PROVE  CurrentInv'
<1> w \in Procs \ Legacy
  BY WorkerAssumption DEF Procs, Workers
<1>1. cur[w] \in Sources
  BY DEF TypeInv, CurOK
<1>2. \A s \in Sources : Promised(s, status'[s])
  BY <1>1 DEF Conclude, SetStatus, CurrentInv, TypeInv, TypeOK
<1>3. \A p \in Workers : \/ cur'[p] = NoSource
                         \/ cur'[p] = cur[p] /\ pc'[p] = pc[p] /\ text'[p] = text[p]
  BY DEF Conclude, Goto, TypeInv, TypeOK, Procs
<1> QED
  BY <1>2, <1>3, StatusCurrent DEF Conclude

-----------------------------------------------------------------------------
\* The loop: recover_stuck and the claim move a source between two statuses
\* that promise the same.
LEMMA QueueCurrent ==
  ASSUME NEW w \in Workers, TypeInv, CurrentInv, QueueStep(w)
  PROVE  CurrentInv'
<1> w \in Procs /\ Workers \subseteq Procs
  BY DEF Procs
<1> DEFINE Hands == \A p \in Workers :
             \/ cur'[p] = cur[p] /\ pc'[p] = pc[p] /\ text'[p] = text[p]
             \/ pc'[p] \notin {"chunks", "mark", "average", "ask", "save"}
<1>1. Hands
  <2>1. FirstStep[StageOf(w)] \in {"fetch", "read", "text"}
    BY DEF FirstStep, StageOf
  <2>2. \A p \in Workers \ {w} : cur'[p] = cur[p] /\ pc'[p] = pc[p] /\ text'[p] = text[p]
    BY DEF QueueStep, Recover, Claim, FindEmpty, Pick, BatchDone, Goto, TypeInv, TypeOK
  <2>3. pc'[w] \in {"poll", "pick", "sleep", "done", "fetch", "read", "text"}
    BY <2>1 DEF QueueStep, Recover, Claim, FindEmpty, Pick, BatchDone, Goto, TypeInv, TypeOK
  <2> QED
    BY <2>2, <2>3
<1>2. UNCHANGED dataVars
  BY DEF QueueStep, Recover, Claim, FindEmpty, Pick, BatchDone, tables, dataVars
<1>3. \A s \in Sources : Promised(s, status'[s])
  <2>1. CASE Recover(w)
    <3> SUFFICES ASSUME NEW s \in Sources
                 PROVE  Promised(s, status'[s])
      OBVIOUS
    <3>1. CASE \E k \in Stages : s \in Stuck(k)
      <4> DEFINE k == CHOOSE k \in Stages : s \in Stuck(k)
      <4>1. k \in Stages /\ status[s] = Busy[k]
        BY <3>1 DEF Stuck
      <4>2. status'[s] = Ready[k]
        BY <2>1, <3>1 DEF Recover, RecoverStuck
      <4> HIDE DEF k
      <4>3. Promised(s, status[s])
        BY DEF CurrentInv
      <4> QED
        BY <4>1, <4>2, <4>3 DEF Stages, Busy, Ready, Promised, Embedded
    <3>2. CASE ~\E k \in Stages : s \in Stuck(k)
      BY <2>1, <3>2 DEF Recover, RecoverStuck, CurrentInv
    <3> QED
      BY <3>1, <3>2
  <2>2. CASE Claim(w)
    <3>1. PICK B \in Batches(StageOf(w)) : ClaimByStatus(StageOf(w), B)
      BY <2>2 DEF Claim
    <3>2. \A s \in B : status[s] = Ready[StageOf(w)]
      BY <3>1 DEF Batches, Claimable
    <3>3. StageOf(w) \in Stages
      BY DEF StageOf, Stages
    <3>4. \A s \in Sources : \/ status'[s] = status[s]
                             \/ \E k \in Stages : status[s] = Ready[k] /\ status'[s] = Busy[k]
      BY <3>1, <3>2, <3>3 DEF ClaimByStatus
    <3> QED
      BY <3>4 DEF Stages, Busy, Ready, Promised, Embedded, CurrentInv
  <2>3. CASE FindEmpty(w) \/ Pick(w) \/ BatchDone(w)
    BY <2>3 DEF FindEmpty, Pick, BatchDone, tables, CurrentInv
  <2> QED
    BY <2>1, <2>2, <2>3 DEF QueueStep
<1> QED
  BY <1>1, <1>2, <1>3, StatusCurrent

\* process_video: while the chunks are replaced the status promises nothing.
LEMMA LoadCurrent ==
  ASSUME NEW w \in Loaders, Clis = {}, TypeInv, OwnerInv, CurrentInv, LoadStep(w)
  PROVE  CurrentInv'
<1> w \in Workers /\ w \in Procs \ Legacy /\ w \notin Embedders \cup Analysts
  BY WorkerAssumption DEF Procs, Workers
<1> Workers \subseteq Procs
  BY DEF Procs
<1>1. pc[w] \in Working => cur[w] \in Sources /\ status[cur[w]] = "process_load"
  BY DEF TypeInv, CurOK, OwnerInv, Owned, Held, StageOf, Busy
<1>2. CASE FetchFail(w) \/ LoadError(w)
  <2>1. Promised(cur[w], "failed_load")
    BY DEF Promised, Embedded
  <2> QED
    BY <1>2, <2>1, ConcludeCurrent DEF FetchFail, LoadError, Working, Statuses
<1>3. CASE MarkLoaded(w)
  <2>1. contain[cur[w]] \in {chunkText[cur[w]], Blank}
    BY <1>1, <1>3 DEF MarkLoaded, Working, CurrentInv, Achieved
  <2>2. Promised(cur[w], "loaded")
    BY <2>1 DEF Promised, Embedded
  <2> QED
    BY <1>3, <2>2, ConcludeCurrent DEF MarkLoaded, Working, Statuses
<1>4. CASE FetchOk(w)
  <2>1. pc'[w] = "upsert" /\ \A p \in Workers \ {w} : pc'[p] = pc[p] /\ text'[p] = text[p]
    BY <1>4 DEF FetchOk, Goto, TypeInv, TypeOK
  <2>2. Achieved(w)'
    BY <2>1 DEF Achieved
  <2>3. \A s \in Sources : Steady(s)
    BY <1>4 DEF FetchOk, tables, Steady
  <2> QED
    BY <1>4, <2>1, <2>2, <2>3, SteadyCurrent DEF FetchOk, tables
<1>5. CASE UpsertSource(w)
  <2>1. pc'[w] = "chunks" /\ \A p \in Workers \ {w} : pc'[p] = pc[p] /\ text'[p] = text[p]
    BY <1>5 DEF UpsertSource, Goto, TypeInv, TypeOK
  <2>2. cur[w] \in Sources /\ status[cur[w]] = "process_load"
    BY <1>1, <1>5 DEF UpsertSource, Working
  <2>3. Achieved(w)'
    BY <1>5, <2>1, <2>2 DEF UpsertSource, Achieved, TypeInv, TypeOK
  <2>4. \A s \in Sources : s # cur[w] => Steady(s)
    BY <1>5 DEF UpsertSource, Steady, TypeInv, TypeOK
  <2>5. \A s \in Sources : s = cur[w] => Promised(s, status[s])'
    BY <1>5, <2>2 DEF UpsertSource, queueVars, Promised, Embedded
  <2> QED
    BY <1>5, <2>1, <2>3, <2>4, <2>5, FrameCurrent DEF UpsertSource, queueVars
<1>6. CASE SaveChunks(w)
  <2>1. pc'[w] = "mark" /\ \A p \in Workers \ {w} : pc'[p] = pc[p] /\ text'[p] = text[p]
    BY <1>6 DEF SaveChunks, Goto, TypeInv, TypeOK
  <2>2. cur[w] \in Sources /\ status[cur[w]] = "process_load"
    BY <1>1, <1>6 DEF SaveChunks, Working
  <2>3. contain[cur[w]] = text[w]
    BY <1>6, <2>2 DEF SaveChunks, CurrentInv, Achieved
  <2>4. contain'[cur[w]] \in {chunkText'[cur[w]], Blank}
    BY <1>6, <2>2, <2>3 DEF SaveChunks, TypeInv, TypeOK
  <2>5. Achieved(w)'
    BY <1>6, <2>1, <2>4 DEF SaveChunks, Achieved
  <2>6. \A s \in Sources : s # cur[w] => Steady(s)
    BY <1>6 DEF SaveChunks, Steady, TypeInv, TypeOK
  <2>7. \A s \in Sources : s = cur[w] => Promised(s, status[s])'
    BY <1>6, <2>2 DEF SaveChunks, queueVars, Promised, Embedded
  <2> QED
    BY <1>6, <2>1, <2>5, <2>6, <2>7, FrameCurrent DEF SaveChunks, queueVars
<1> QED
  BY <1>2, <1>3, <1>4, <1>5, <1>6 DEF LoadStep, CliError

\* The vectors of a source that has them all are written again as they are.
LEMMA WriteSteady ==
  ASSUME NEW w \in Procs, TypeInv, VectorInv, WriteVectors(w), NEW s \in Sources
  PROVE  Steady(s)
<1>1. ASSUME FullyEmbedded(s), NEW n \in ChunkNos
      PROVE  vector'[s][n] = vector[s][n]
  <2>1. vector[s][n] = chunkText[s]
    BY <1>1 DEF FullyEmbedded, ChunkRows, VectorInv, VectorsMatchText
  <2>2. CASE \E t \in Texts : <<s, n, t>> \in rows[w]
    <3> DEFINE u == CHOOSE t \in Texts : <<s, n, t>> \in rows[w]
    <3>1. u \in Texts /\ <<s, n, u>> \in rows[w]
      BY <2>2
    <3>2. u = chunkText[s]
      BY <3>1 DEF VectorInv, RowsMatch
    <3>3. vector'[s][n] = u
      BY <2>2 DEF WriteVectors
    <3> QED
      BY <2>1, <3>2, <3>3
  <2>3. CASE ~\E t \in Texts : <<s, n, t>> \in rows[w]
    BY <2>3 DEF WriteVectors
  <2> QED
    BY <2>2, <2>3
<1>2. vector[s] = [n \in ChunkNos |-> vector[s][n]]
  BY DEF TypeInv, TypeOK
<1>3. vector'[s] = [n \in ChunkNos |-> vector'[s][n]]
  BY DEF WriteVectors
<1>4. FullyEmbedded(s) => vector'[s] = vector[s]
  BY <1>1, <1>2, <1>3
<1> QED
  BY <1>4 DEF Steady, WriteVectors

\* The embedder: 'embedded' is written when all vectors are there and averaged,
\* and nobody takes them away before.
LEMMA EmbedCurrent ==
  ASSUME NEW w \in Embedders, TypeInv, VectorInv, OwnerInv, CurrentInv, EmbedStep(w)
  PROVE  CurrentInv'
<1> w \in Workers /\ w \in Procs \ Legacy /\ w \notin Loaders \cup Analysts
  BY WorkerAssumption DEF Procs, Workers
<1> Workers \subseteq Procs
  BY DEF Procs
<1>1. pc[w] \in Working => cur[w] \in Sources /\ contain[cur[w]] \in {chunkText[cur[w]], Blank}
  BY DEF TypeInv, CurOK, OwnerInv, Owned, Held, StageOf, Busy, CurrentInv, Promised
<1>2. CASE GiveBack(w)
  <2>1. Promised(cur[w], "loaded")
    BY <1>1, <1>2 DEF GiveBack, Working, Promised, Embedded
  <2> QED
    BY <1>2, <2>1, ConcludeCurrent DEF GiveBack, Working, Statuses
<1>3. CASE MarkEmbedded(w)
  <2>1. FullyEmbedded(cur[w]) /\ average[cur[w]] = vector[cur[w]]
    BY <1>1, <1>3 DEF MarkEmbedded, Working, CurrentInv, Achieved
  <2>2. Promised(cur[w], "embedded")
    BY <1>1, <1>3, <2>1 DEF MarkEmbedded, Working, Promised
  <2> QED
    BY <1>3, <2>2, ConcludeCurrent DEF MarkEmbedded, Working, Statuses
<1>4. CASE EmbedError(w)
  <2>1. Promised(cur[w], "failed_embedded")
    BY DEF Promised, Embedded
  <2> QED
    BY <1>4, <2>1, ConcludeCurrent DEF EmbedError, Working, Statuses
<1>5. CASE ReadChunks(w) \/ WriteVectors(w)
  <2>1. pc'[w] \in {"check", "write"}
        /\ \A p \in Workers \ {w} : pc'[p] = pc[p] /\ text'[p] = text[p]
    BY <1>5 DEF ReadChunks, WriteVectors, Goto, TypeInv, TypeOK
  <2>2. Achieved(w)'
    BY <2>1 DEF Achieved
  <2>3. \A s \in Sources : Steady(s)
    BY <1>5, WriteSteady DEF ReadChunks, tables, Steady
  <2> QED
    BY <1>5, <2>1, <2>2, <2>3, SteadyCurrent DEF ReadChunks, WriteVectors, tables, queueVars
<1>6. CASE CheckComplete(w)
  <2>1. /\ pc'[w] = "average" => FullyEmbedded(cur[w])
        /\ pc'[w] \in {"average", "giveback"}
        /\ \A p \in Workers \ {w} : pc'[p] = pc[p] /\ text'[p] = text[p]
    BY <1>6 DEF CheckComplete, Goto, TypeInv, TypeOK
  <2>2. \A s \in Sources : Steady(s)
    BY <1>6 DEF CheckComplete, tables, Steady
  <2>3. \A s \in Sources : s = cur[w] /\ pc'[w] = "average" => FullyEmbedded(s)'
    BY <2>1, <2>2, SteadyFull
  <2>4. Achieved(w)'
    BY <1>6, <2>1, <2>3 DEF CheckComplete, Achieved
  <2> QED
    BY <1>6, <2>1, <2>2, <2>4, SteadyCurrent DEF CheckComplete, tables
<1>7. CASE UpdateAverage(w)
  <2>1. pc'[w] = "mark" /\ \A p \in Workers \ {w} : pc'[p] = pc[p] /\ text'[p] = text[p]
    BY <1>7 DEF UpdateAverage, Goto, TypeInv, TypeOK
  <2>2. \A s \in Sources : Steady(s)
    BY <1>7 DEF UpdateAverage, Steady, TypeInv, TypeOK
  <2>3. cur[w] \in Sources /\ FullyEmbedded(cur[w])
    BY <1>1, <1>7 DEF UpdateAverage, Working, CurrentInv, Achieved
  <2>4. \A s \in Sources : s = cur[w] => FullyEmbedded(s)' /\ average'[s] = vector'[s]
    BY <1>7, <2>2, <2>3, SteadyFull DEF UpdateAverage, TypeInv, TypeOK
  <2>5. Achieved(w)'
    BY <1>7, <2>1, <2>4 DEF UpdateAverage, Achieved
  <2> QED
    BY <1>7, <2>1, <2>2, <2>5, SteadyCurrent DEF UpdateAverage, queueVars
<1> QED
  BY <1>2, <1>3, <1>4, <1>5, <1>6, <1>7 DEF EmbedStep

\* The analyst: the transcript it has read stays the one that is stored.
LEMMA SolveCurrent ==
  ASSUME NEW w \in Analysts, TypeInv, OwnerInv, CurrentInv, SolveStep(w)
  PROVE  CurrentInv'
<1> w \in Workers /\ w \in Procs \ Legacy /\ w \notin Loaders \cup Embedders
  BY WorkerAssumption DEF Procs, Workers
<1> Workers \subseteq Procs
  BY DEF Procs
<1>1. pc[w] \in Working => /\ cur[w] \in Sources
                           /\ status[cur[w]] = "process_solution"
                           /\ Promised(cur[w], "process_solution")
  <2>1. pc[w] \in Working => cur[w] \in Sources
    BY DEF TypeInv, CurOK
  <2>2. pc[w] \in Working => status[cur[w]] = "process_solution"
    BY <2>1 DEF OwnerInv, Owned, Held, StageOf, Busy
  <2> QED
    BY <2>1, <2>2 DEF CurrentInv
<1>2. CASE NoTextFound(w) \/ SolveError(w)
  <2>1. Promised(cur[w], "failed_solution")
    BY <1>1, <1>2 DEF NoTextFound, SolveError, Working, Promised, Embedded
  <2> QED
    BY <1>2, <2>1, ConcludeCurrent DEF NoTextFound, SolveError, Working, Statuses
<1>3. CASE MarkSolved(w)
  <2>1. solution[cur[w]] = contain[cur[w]] /\ contain[cur[w]] \in Texts
    BY <1>1, <1>3 DEF MarkSolved, Working, CurrentInv, Achieved
  <2>2. Promised(cur[w], "solution")
    BY <1>1, <1>3, <2>1, DbAssumption DEF MarkSolved, Working, Promised, Embedded
  <2> QED
    BY <1>3, <2>2, ConcludeCurrent DEF MarkSolved, Working, Statuses
<1>4. CASE ReadText(w) \/ AnalyzeOk(w)
  <2>1. pc'[w] \in {"ask", "save"}
        /\ \A p \in Workers \ {w} : pc'[p] = pc[p] /\ text'[p] = text[p]
    BY <1>4 DEF ReadText, AnalyzeOk, Goto, TypeInv, TypeOK
  <2>2. text'[w] = contain[cur[w]]
    BY <1>1, <1>4 DEF ReadText, AnalyzeOk, Working, CurrentInv, Achieved, TypeInv, TypeOK
  <2>3. Achieved(w)'
    BY <1>4, <2>1, <2>2 DEF ReadText, AnalyzeOk, tables, Achieved
  <2>4. \A s \in Sources : Steady(s)
    BY <1>4 DEF ReadText, AnalyzeOk, tables, Steady
  <2> QED
    BY <1>4, <2>1, <2>3, <2>4, SteadyCurrent DEF ReadText, AnalyzeOk, tables
<1>5. CASE SaveSolution(w)
  <2>1. pc'[w] = "mark" /\ \A p \in Workers \ {w} : pc'[p] = pc[p] /\ text'[p] = text[p]
    BY <1>5 DEF SaveSolution, Goto, TypeInv, TypeOK
  <2>2. cur[w] \in Sources /\ text[w] = contain[cur[w]] /\ text[w] \in Texts
    BY <1>1, <1>5 DEF SaveSolution, Working, CurrentInv, Achieved, TypeInv, TextOK
  <2>3. Achieved(w)'
    BY <1>5, <2>1, <2>2 DEF SaveSolution, Achieved, TypeInv, TypeOK
  <2>4. \A s \in Sources : s # cur[w] => Steady(s)
    BY <1>5 DEF SaveSolution, Steady, TypeInv, TypeOK
  <2>5. \A s \in Sources : s = cur[w] => Promised(s, status[s])'
    BY <1>1, <1>5
    DEF SaveSolution, Working, queueVars, Promised, Embedded, FullyEmbedded, ChunkRows
  <2> QED
    BY <1>5, <2>1, <2>3, <2>4, <2>5, FrameCurrent DEF SaveSolution, queueVars
<1> QED
  BY <1>2, <1>3, <1>4, <1>5 DEF SolveStep

\* A legacy run adds vectors and averages what is complete.
LEMMA LegacyCurrent ==
  ASSUME NEW w \in Legacy, TypeInv, VectorInv, CurrentInv, LegacyStep(w)
  PROVE  CurrentInv'
<1> w \in Procs /\ w \notin Workers
  BY WorkerAssumption DEF Procs, Workers
<1>1. \A s \in Sources : Steady(s)
  <2>1. CASE WriteVectors(w)
    BY <2>1, WriteSteady
  <2>2. CASE LegacyRead(w)
    BY <2>2 DEF LegacyRead, tables, Steady
  <2>3. CASE LegacyAverage(w)
    BY <2>3 DEF LegacyAverage, Steady
  <2> QED
    BY <2>1, <2>2, <2>3 DEF LegacyStep
<1>2. \A p \in Procs \ {w} : pc'[p] = pc[p] /\ text'[p] = text[p]
  BY DEF LegacyStep, LegacyRead, WriteVectors, LegacyAverage, Goto, TypeInv, TypeOK
<1>3. UNCHANGED <<status, cur>>
  BY DEF LegacyStep, LegacyRead, WriteVectors, LegacyAverage, tables, queueVars
<1>4. \A p \in Workers \ {w} : pc'[p] = pc[p] /\ text'[p] = text[p]
  BY <1>2 DEF Procs
<1> QED
  BY <1>1, <1>3, <1>4, SteadyCurrent

\* Every step keeps the promises.
LEMMA NextCurrent ==
  ASSUME Clis = {}
  PROVE  TypeInv /\ VectorInv /\ OwnerInv /\ CurrentInv /\ [Next]_vars => CurrentInv'
<1> SUFFICES ASSUME TypeInv, VectorInv, OwnerInv, CurrentInv, [Next]_vars
             PROVE  CurrentInv'
  OBVIOUS
<1> Workers \subseteq Procs
  BY DEF Procs
<1>1. CASE UNCHANGED vars
  BY <1>1, StatusCurrent DEF vars, tables, local, dataVars, CurrentInv
<1>2. ASSUME NEW x \in Sources, Enqueue(x) \/ GrowStale(x)
      PROVE  CurrentInv'
  <2>1. \A s \in Sources : status'[s] = status[s] \/ status'[s] = "added"
    BY <1>2 DEF Enqueue, GrowStale, InsertSource, SetStatus, TypeInv, TypeOK
  <2>2. \A s \in Sources : Promised(s, status'[s])
    BY <2>1 DEF CurrentInv, Promised, Embedded
  <2>3. UNCHANGED <<dataVars, local>>
    BY <1>2 DEF Enqueue, GrowStale
  <2> QED
    BY <2>2, <2>3, StatusCurrent DEF local
<1>3. ASSUME NEW w \in Procs, Crash(w)
      PROVE  CurrentInv'
  <2>1. \A p \in Workers : \/ cur'[p] = NoSource
                           \/ cur'[p] = cur[p] /\ pc'[p] = pc[p] /\ text'[p] = text[p]
    BY <1>3 DEF Crash, Goto, TypeInv, TypeOK
  <2>2. UNCHANGED <<status, dataVars>>
    BY <1>3 DEF Crash, tables, dataVars
  <2> QED
    BY <2>1, <2>2, StatusCurrent DEF CurrentInv
<1>4. ASSUME NEW w \in Procs, Step(w)
      PROVE  CurrentInv'
  BY <1>4, QueueCurrent, LoadCurrent, EmbedCurrent, SolveCurrent, LegacyCurrent DEF Step
<1> QED
  BY <1>1, <1>2, <1>3, <1>4 DEF Next

\* At first nothing is promised and nobody has begun.
LEMMA InitCurrent == Init => CurrentInv /\ OwnerInv /\ VectorInv
<1> Workers \subseteq Procs
  BY DEF Procs
<1>1. Init => OwnerInv
  BY WorkerAssumption DEF Init, WorkerInit, OwnerInv, BatchOK, Owned, Exclusive, Held
<1>2. Init => VectorInv
  BY DEF Init, DbInit, WorkerInit, NoVectors, VectorInv, VectorsMatchText, RowsMatch
<1>3. Init => CurrentInv
  BY WorkerAssumption
  DEF Init, DbInit, WorkerInit, CurrentInv, Promised, Achieved, Embedded
<1> QED
  BY <1>1, <1>2, <1>3

\* The inductive invariant holds always, with any number of workers and legacy
\* runs, if the workers are prompt and no -y run interferes.
LEMMA CurrentAlways ==
  ASSUME Prompt, Clis = {}
  PROVE  Spec => []CurrentInv
<1>1. TypeInv /\ VectorInv /\ OwnerInv /\ CurrentInv /\ [Next]_vars
        => VectorInv' /\ OwnerInv' /\ CurrentInv'
  BY NextVector, NextOwner, NextCurrent
<1> QED
  BY <1>1, InitCurrent, TypeSafety, PTL DEF Spec

\* From 'embedded' on the search finds every chunk of the stored transcript,
\* and the source by the average of all of them (embed_chunks.py,
\* update_source_embedding), even when legacy runs write vectors meanwhile.
THEOREM EmbeddedSafety ==
  ASSUME Prompt, Clis = {}
  PROVE  Spec => []EmbeddedIsComplete
<1>1. CurrentInv => EmbeddedIsComplete
  BY DEF CurrentInv, Promised, EmbeddedIsComplete
<1> QED
  BY <1>1, CurrentAlways, PTL

\* A solution in yt_solution was extracted from the transcript that is stored
\* and searched (exec_llm.py, process_llm_queue).
THEOREM SolutionSafety ==
  ASSUME Prompt, Clis = {}
  PROVE  Spec => []SolutionIsCurrent
<1>1. CurrentInv => SolutionIsCurrent
  BY DEF CurrentInv, Promised, SolutionIsCurrent
<1> QED
  BY <1>1, CurrentAlways, PTL

-----------------------------------------------------------------------------
(***************************************************************************)
(* YtPipeline implements VideoLifecycle, step by step, for any number of   *)
(* videos, workers and legacy runs.                                        *)
(***************************************************************************)
\* Both modules speak of the same stages and statuses.
LEMMA SameStages ==
  /\ Lifecycle!Stages = Stages
  /\ Lifecycle!Ready = Ready
  /\ Lifecycle!Busy = Busy
  /\ Lifecycle!Finished = Finished
  /\ Lifecycle!Failed = Failed
BY DEF Lifecycle!Stages, Stages, Lifecycle!Ready, Ready, Lifecycle!Busy, Busy,
       Lifecycle!Finished, Finished, Lifecycle!Failed, Failed

\* The owner of a source is the worker that holds it.
LEMMA OwnerOf ==
  ASSUME Exclusive, NEW s \in Sources
  PROVE  /\ \A w \in Workers : s \in Held(w) => Owner[s] = w
         /\ (\A w \in Workers : s \notin Held(w)) => Owner[s] = NoSource
<1>1. ASSUME NEW w \in Workers, s \in Held(w)
      PROVE  Owner[s] = w
  <2>1. PICK v \in Workers : s \in Held(v) /\ Owner[s] = v
    BY <1>1 DEF Owner
  <2> QED
    BY <1>1, <2>1 DEF Exclusive
<1>2. (\A w \in Workers : s \notin Held(w)) => Owner[s] = NoSource
  BY DEF Owner
<1> QED
  BY <1>1, <1>2

\* The same after a step.
LEMMA OwnerOfNext ==
  ASSUME Exclusive', NEW s \in Sources
  PROVE  /\ \A w \in Workers : s \in Held(w)' => Owner'[s] = w
         /\ (\A w \in Workers : s \notin Held(w)') => Owner'[s] = NoSource
<1>1. ASSUME NEW w \in Workers, s \in Held(w)'
      PROVE  Owner'[s] = w
  <2>1. PICK v \in Workers : s \in Held(v)' /\ Owner'[s] = v
    BY <1>1 DEF Owner
  <2> QED
    BY <1>1, <2>1 DEF Exclusive
<1>2. (\A w \in Workers : s \notin Held(w)') => Owner'[s] = NoSource
  BY DEF Owner
<1> QED
  BY <1>1, <1>2

\* Two functions on the sources.
LEMMA OwnerFunction ==
  /\ Owner = [s \in Sources |-> Owner[s]]
  /\ Owner' = [s \in Sources |-> Owner'[s]]
BY DEF Owner

\* Who holds what is all that ownership depends on.
LEMMA OwnerKept ==
  ASSUME Exclusive, Exclusive', NEW s \in Sources,
         \A w \in Workers : s \in Held(w)' <=> s \in Held(w)
  PROVE  Owner'[s] = Owner[s]
<1>1. CASE \E w \in Workers : s \in Held(w)
  BY <1>1, OwnerOf, OwnerOfNext
<1>2. CASE \A w \in Workers : s \notin Held(w)
  BY <1>2, OwnerOf, OwnerOfNext
<1> QED
  BY <1>1, <1>2

\* Steps the queue does not see.
LEMMA Unseen ==
  ASSUME Exclusive, Exclusive', status' = status, \A w \in Workers : Held(w)' = Held(w)
  PROVE  UNCHANGED Lifecycle!vars
<1>1. Owner' = Owner
  BY OwnerKept, OwnerFunction
<1> QED
  BY <1>1 DEF Lifecycle!vars

\* The end of a source's work: its owner moves it on and lets it go.
LEMMA ConcludeImplements ==
  ASSUME NEW w \in Workers, NEW st, TypeInv, OwnerInv, OwnerInv', pc[w] \in Working, Conclude(w, st),
         st \in {Finished[StageOf(w)], Failed[StageOf(w)], Ready[StageOf(w)]}
  PROVE  Lifecycle!Next
<1> w \in Procs \ Legacy /\ w \notin Clis
  BY WorkerAssumption DEF Procs, Workers
<1> Workers \subseteq Procs
  BY DEF Procs
<1> Exclusive /\ Exclusive'
  BY DEF OwnerInv
<1>1. cur[w] \in Sources /\ cur[w] \in Held(w) /\ status[cur[w]] = Busy[StageOf(w)]
  BY DEF TypeInv, CurOK, OwnerInv, Owned, Held
<1>2. /\ \A p \in Workers \ {w} : cur'[p] = cur[p]
      /\ cur'[w] = NoSource
      /\ UNCHANGED batch
  BY DEF Conclude, TypeInv, TypeOK
<1>3. /\ \A s \in Sources \ {cur[w]}, p \in Workers : s \in Held(p)' <=> s \in Held(p)
      /\ \A p \in Workers \ {w} : cur[w] \notin Held(p)'
      /\ cur[w] \notin Held(w)'
  BY <1>1, <1>2, WorkerAssumption DEF Held, OwnerInv, BatchOK, Exclusive
<1>4. Owner[cur[w]] = w
  BY <1>1, OwnerOf
<1>5. Owner'[cur[w]] = NoSource
  BY <1>1, <1>3, OwnerOfNext
<1>6. \A s \in Sources \ {cur[w]} : Owner'[s] = Owner[s]
  BY <1>3, OwnerKept
<1>7. Owner' = [Owner EXCEPT ![cur[w]] = NoSource]
  BY <1>1, <1>5, <1>6, OwnerFunction
<1>8. status' = [status EXCEPT ![cur[w]] = st]
  BY DEF Conclude, SetStatus
<1>9. Lifecycle!Conclude(w, cur[w])
  BY <1>1, <1>4, <1>7, <1>8, SameStages DEF Lifecycle!Conclude
<1> QED
  BY <1>1, <1>9 DEF Lifecycle!Next

\* recover_stuck queues what no live worker holds.
LEMMA RecoverImplements ==
  ASSUME NEW w \in Workers, TypeInv, OwnerInv, OwnerInv', Recover(w)
  PROVE  Lifecycle!Next
<1> Exclusive /\ Exclusive'
  BY DEF OwnerInv
<1> DEFINE S == {s \in stale : \E k \in Stages : status[s] = Busy[k]}
<1>1. S \in SUBSET Sources
  BY DEF TypeInv, TypeOK
<1>2. \A s \in S : Owner[s] = NoSource
  BY <1>1, OwnerOf DEF OwnerInv, Owned
<1>3. Owner' = Owner
  <2>1. \A p \in Workers : Held(p)' = Held(p)
    BY DEF Recover, Held
  <2> QED
    BY <2>1, OwnerKept, OwnerFunction
<1>4. status' = [s \in Sources |-> IF s \in S
                                   THEN Ready[CHOOSE k \in Stages : status[s] = Busy[k]]
                                   ELSE status[s]]
  <2>1. ASSUME NEW s \in Sources, s \in S
        PROVE  status'[s] = Ready[CHOOSE k \in Stages : status[s] = Busy[k]]
    <3> DEFINE j == CHOOSE k \in Stages : s \in Stuck(k)
               k0 == CHOOSE k \in Stages : status[s] = Busy[k]
    <3>1. j \in Stages /\ status[s] = Busy[j]
      BY <2>1 DEF Stuck
    <3>2. k0 \in Stages /\ status[s] = Busy[k0]
      BY <2>1
    <3>3. status'[s] = Ready[j]
      BY <2>1 DEF Recover, RecoverStuck, Stuck
    <3> HIDE DEF j, k0
    <3>4. j = k0
      BY <3>1, <3>2 DEF Stages, Busy
    <3>5. status'[s] = Ready[k0]
      BY <3>3, <3>4
    <3> QED
      BY <3>5 DEF k0
  <2>2. ASSUME NEW s \in Sources, s \notin S
        PROVE  status'[s] = status[s]
    BY <2>2 DEF Recover, RecoverStuck, Stuck
  <2>3. status' = [s \in Sources |-> status'[s]]
    BY DEF Recover, RecoverStuck
  <2> HIDE DEF S
  <2> QED
    BY <2>1, <2>2, <2>3
<1>5. Lifecycle!Requeue(S)
  BY <1>2, <1>3, <1>4, SameStages DEF Lifecycle!Requeue
<1> HIDE DEF S
<1> QED
  BY <1>1, <1>5 DEF Lifecycle!Next

\* The claim takes sources nobody holds into empty hands.
LEMMA ClaimImplements ==
  ASSUME NEW w \in Workers, TypeInv, OwnerInv, OwnerInv', Claim(w)
  PROVE  Lifecycle!Next
<1> w \in Procs
  BY DEF Procs
<1> Exclusive /\ Exclusive'
  BY DEF OwnerInv
<1>1. PICK B \in Batches(StageOf(w)) :
        /\ B # {}
        /\ ClaimByStatus(StageOf(w), B)
        /\ batch' = [batch EXCEPT ![w] = B]
  BY DEF Claim
<1>2. StageOf(w) \in Stages /\ B \in SUBSET Sources
  BY <1>1 DEF StageOf, Stages, Batches, Claimable
<1>3. Held(w) = {}
  BY DEF Claim, OwnerInv, BatchOK
<1>4. \A s \in B : status[s] = Ready[StageOf(w)]
  BY <1>1 DEF Batches, Claimable
<1>5. ASSUME NEW s \in B, NEW p \in Workers
      PROVE  s \notin Held(p)
  <2>1. StageOf(p) \in Stages
    BY DEF StageOf, Stages
  <2>2. Ready[StageOf(w)] # Busy[StageOf(p)]
    BY <1>2, <2>1 DEF Stages, Ready, Busy
  <2> QED
    BY <1>2, <1>4, <2>2 DEF OwnerInv, Owned
<1>6. Held(w)' = B /\ \A p \in Workers \ {w} : Held(p)' = Held(p)
  BY <1>1, <1>2, <1>3 DEF Claim, Held, TypeInv, TypeOK
<1>7. \A s \in Sources : Owner[s] # w
  <2>1. ASSUME NEW s \in Sources, Owner[s] = w
        PROVE  FALSE
    <3>1. PICK p \in Workers : s \in Held(p)
      BY <2>1, OwnerOf, OwnerAssumption
    <3>2. Owner[s] = p
      BY <3>1, OwnerOf
    <3> QED
      BY <1>3, <2>1, <3>1, <3>2
  <2> QED
    BY <2>1
<1>8. \A s \in B : Owner[s] = NoSource /\ Owner'[s] = w
  BY <1>2, <1>5, <1>6, OwnerOf, OwnerOfNext
<1>9. \A s \in Sources \ B : Owner'[s] = Owner[s]
  BY <1>3, <1>6, OwnerKept
<1>10. Owner' = [s \in Sources |-> IF s \in B THEN w ELSE Owner[s]]
  BY <1>8, <1>9, OwnerFunction
<1>11. status' = [s \in Sources |-> IF s \in B THEN Busy[StageOf(w)] ELSE status[s]]
  BY <1>1 DEF ClaimByStatus
<1>12. Lifecycle!Take(w, B)
  BY <1>1, <1>4, <1>7, <1>8, <1>10, <1>11, SameStages DEF Lifecycle!Take
<1> QED
  BY <1>2, <1>12 DEF Lifecycle!Next

\* The other steps of the loop are not seen.
LEMMA QueueImplements ==
  ASSUME NEW w \in Workers, TypeInv, OwnerInv, OwnerInv', QueueStep(w)
  PROVE  Lifecycle!Next \/ UNCHANGED Lifecycle!vars
<1> w \in Procs
  BY DEF Procs
<1> Exclusive /\ Exclusive'
  BY DEF OwnerInv
<1>1. CASE Recover(w) \/ Claim(w)
  BY <1>1, RecoverImplements, ClaimImplements
<1>2. CASE FindEmpty(w) \/ BatchDone(w)
  <2>1. \A p \in Workers : Held(p)' = Held(p)
    BY <1>2 DEF FindEmpty, BatchDone, Held
  <2> QED
    BY <1>2, <2>1, Unseen DEF FindEmpty, BatchDone, tables
<1>3. CASE Pick(w)
  <2>1. PICK s \in batch[w] :
          batch' = [batch EXCEPT ![w] = @ \ {s}] /\ cur' = [cur EXCEPT ![w] = s]
    BY <1>3 DEF Pick
  <2>2. cur[w] = NoSource
    BY <1>3 DEF Pick, OwnerInv, BatchOK
  <2>3. \A p \in Workers : Held(p)' = Held(p)
    BY <2>1, <2>2, WorkerAssumption DEF Held, TypeInv, TypeOK
  <2> QED
    BY <1>3, <2>3, Unseen DEF Pick, tables
<1> QED
  BY <1>1, <1>2, <1>3 DEF QueueStep

\* Of the work on a source only its end is seen.
LEMMA WorkImplements ==
  ASSUME NEW w \in Procs, Clis = {}, TypeInv, OwnerInv, OwnerInv',
         \/ w \in Loaders \cup Clis /\ LoadStep(w)
         \/ w \in Embedders /\ EmbedStep(w)
         \/ w \in Analysts /\ SolveStep(w)
         \/ w \in Legacy /\ LegacyStep(w)
  PROVE  Lifecycle!Next \/ UNCHANGED Lifecycle!vars
<1> Exclusive /\ Exclusive'
  BY DEF OwnerInv
<1> DEFINE Ends(st) ==
      w \in Workers /\ pc[w] \in Working /\ Conclude(w, st)
        /\ st \in {Finished[StageOf(w)], Failed[StageOf(w)], Ready[StageOf(w)]}
<1>1. CASE \E st \in Statuses : Ends(st)
  BY <1>1, ConcludeImplements
<1>2. CASE ~\E st \in Statuses : Ends(st)
  <2>1. UNCHANGED <<status, batch, cur>>
    <3>1. CASE w \in Loaders /\ LoadStep(w)
      <4>1. StageOf(w) = "load" /\ w \in Workers
        BY <3>1 DEF StageOf, Workers
      <4>2. ~Conclude(w, "failed_load") \/ pc[w] \notin Working
        BY <1>2, <4>1 DEF Failed, Statuses
      <4>3. ~Conclude(w, "loaded") \/ pc[w] \notin Working
        BY <1>2, <4>1 DEF Finished, Statuses
      <4> QED
        BY <3>1, <4>2, <4>3
        DEF LoadStep, FetchOk, FetchFail, UpsertSource, SaveChunks, MarkLoaded, LoadError,
            CliError, tables, queueVars, Working
    <3>2. CASE w \in Embedders /\ EmbedStep(w)
      <4>1. StageOf(w) = "embed" /\ w \in Workers
        BY <3>2, WorkerAssumption DEF StageOf, Workers
      <4>2. ~Conclude(w, "failed_embedded") \/ pc[w] \notin Working
        BY <1>2, <4>1 DEF Failed, Statuses
      <4>3. ~Conclude(w, "embedded") \/ pc[w] \notin Working
        BY <1>2, <4>1 DEF Finished, Statuses
      <4>4. ~Conclude(w, "loaded") \/ pc[w] \notin Working
        BY <1>2, <4>1 DEF Ready, Statuses
      <4> QED
        BY <3>2, <4>2, <4>3, <4>4
        DEF EmbedStep, ReadChunks, WriteVectors, CheckComplete, GiveBack, UpdateAverage,
            MarkEmbedded, EmbedError, tables, queueVars, Working
    <3>3. CASE w \in Analysts /\ SolveStep(w)
      <4>1. StageOf(w) = "solve" /\ w \in Workers
        BY <3>3, WorkerAssumption DEF StageOf, Workers
      <4>2. ~Conclude(w, "failed_solution") \/ pc[w] \notin Working
        BY <1>2, <4>1 DEF Failed, Statuses
      <4>3. ~Conclude(w, "solution") \/ pc[w] \notin Working
        BY <1>2, <4>1 DEF Finished, Statuses
      <4> QED
        BY <3>3, <4>2, <4>3
        DEF SolveStep, ReadText, NoTextFound, AnalyzeOk, SaveSolution, MarkSolved, SolveError,
            tables, queueVars, Working
    <3>4. CASE w \in Legacy /\ LegacyStep(w)
      BY <3>4 DEF LegacyStep, LegacyRead, WriteVectors, LegacyAverage, tables, queueVars
    <3> QED
      BY <3>1, <3>2, <3>3, <3>4
  <2>2. \A p \in Workers : Held(p)' = Held(p)
    BY <2>1 DEF Held
  <2> QED
    BY <2>1, <2>2, Unseen
<1> QED
  BY <1>1, <1>2

\* Each step is a step of the lifecycle or none.
LEMMA NextImplements ==
  ASSUME Clis = {}
  PROVE  TypeInv /\ OwnerInv /\ OwnerInv' /\ [Next]_vars => [Lifecycle!Next]_Lifecycle!vars
<1> SUFFICES ASSUME TypeInv, OwnerInv, OwnerInv', [Next]_vars
             PROVE  Lifecycle!Next \/ UNCHANGED Lifecycle!vars
  OBVIOUS
<1> Workers \subseteq Procs
  BY DEF Procs
<1> Exclusive /\ Exclusive'
  BY DEF OwnerInv
<1>1. CASE UNCHANGED vars
  <2>1. \A p \in Workers : Held(p)' = Held(p)
    BY <1>1 DEF vars, local, Held
  <2> QED
    BY <1>1, <2>1, Unseen DEF vars, tables
<1>2. ASSUME NEW s \in Sources, Enqueue(s)
      PROVE  Lifecycle!Next
  <2>1. \A p \in Workers : Held(p)' = Held(p)
    BY <1>2 DEF Enqueue, local, Held
  <2>2. Owner' = Owner
    BY <2>1, OwnerKept, OwnerFunction
  <2>3. Lifecycle!Add(s)
    BY <1>2, <2>2 DEF Enqueue, InsertSource, SetStatus, Lifecycle!Add
  <2> QED
    BY <2>3 DEF Lifecycle!Next
<1>3. ASSUME NEW s \in Sources, GrowStale(s)
      PROVE  UNCHANGED Lifecycle!vars
  <2>1. \A p \in Workers : Held(p)' = Held(p)
    BY <1>3 DEF GrowStale, local, Held
  <2> QED
    BY <1>3, <2>1, Unseen DEF GrowStale
<1>4. ASSUME NEW w \in Procs, Crash(w)
      PROVE  Lifecycle!Next \/ UNCHANGED Lifecycle!vars
  <2>1. \A p \in Workers \ {w} : Held(p)' = Held(p)
    BY <1>4 DEF Crash, Held, TypeInv, TypeOK
  <2>2. CASE w \in Workers
    <3>1. Held(w)' = {}
      BY <1>4, <2>2, WorkerAssumption DEF Crash, Held, TypeInv, TypeOK
    <3>2. ASSUME NEW s \in Sources
          PROVE  Owner'[s] = IF Owner[s] = w THEN NoSource ELSE Owner[s]
      <4>1. CASE s \in Held(w)
        <5>1. \A p \in Workers : s \notin Held(p)'
          BY <2>1, <2>2, <3>1, <4>1 DEF Exclusive
        <5> QED
          BY <2>2, <4>1, <5>1, OwnerOf, OwnerOfNext
      <4>2. CASE s \notin Held(w)
        <5>1. Owner'[s] = Owner[s]
          BY <2>1, <3>1, <4>2, OwnerKept
        <5>2. Owner[s] # w
          BY <2>2, <4>2, OwnerOf, OwnerAssumption
        <5> QED
          BY <5>1, <5>2
      <4> QED
        BY <4>1, <4>2
    <3>3. Owner' = [s \in Sources |-> IF Owner[s] = w THEN NoSource ELSE Owner[s]]
      BY <3>2, OwnerFunction
    <3>4. Lifecycle!Die(w)
      BY <1>4, <3>3 DEF Crash, tables, Lifecycle!Die
    <3> QED
      BY <2>2, <3>4 DEF Lifecycle!Next
  <2>3. CASE w \notin Workers
    BY <1>4, <2>1, <2>3, Unseen DEF Crash, tables
  <2> QED
    BY <2>2, <2>3
<1>5. ASSUME NEW w \in Procs, Step(w)
      PROVE  Lifecycle!Next \/ UNCHANGED Lifecycle!vars
  <2>1. CASE w \in Workers /\ QueueStep(w)
    BY <2>1, QueueImplements
  <2>2. CASE ~(w \in Workers /\ QueueStep(w))
    BY <1>5, <2>2, WorkImplements DEF Step
  <2> QED
    BY <2>1, <2>2
<1> QED
  BY <1>1, <1>2, <1>3, <1>4, <1>5 DEF Next

\* What the queue promises its users (a source in work has one owner, only its
\* owner moves it on, only what has lost its owner is queued again) is what
\* the workers do, if they are prompt and no -y run interferes.
THEOREM LifecycleImplemented ==
  ASSUME Prompt, Clis = {}
  PROVE  Spec => ImplementsLifecycle
<1> Workers \subseteq Procs
  BY DEF Procs
<1>1. Init => OwnerInv
  BY WorkerAssumption DEF Init, WorkerInit, OwnerInv, BatchOK, Owned, Exclusive, Held
<1>2. Init => Lifecycle!Init
  <2> SUFFICES ASSUME Init
               PROVE  Lifecycle!Init
    OBVIOUS
  <2>1. \A w \in Workers : Held(w) = {}
    BY WorkerAssumption DEF Init, WorkerInit, Held
  <2>2. Owner = [s \in Sources |-> NoSource]
    BY <2>1 DEF Owner
  <2> QED
    BY <2>2 DEF Init, DbInit, Lifecycle!Init
<1>3. TypeInv /\ OwnerInv /\ [Next]_vars => OwnerInv'
  BY NextOwner
<1>4. TypeInv /\ OwnerInv /\ OwnerInv' /\ [Next]_vars => [Lifecycle!Next]_Lifecycle!vars
  BY NextImplements
<1> QED
  BY <1>1, <1>2, <1>3, <1>4, TypeSafety, PTL DEF Spec, ImplementsLifecycle, Lifecycle!Spec
=============================================================================
