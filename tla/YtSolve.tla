------------------------------ MODULE YtSolve -------------------------------
(***************************************************************************)
(* exec_llm.py: a queue worker reads the transcript of an embedded source, *)
(* asks the language model, and saves its answer in yt_solution and        *)
(* yt_attributes (one transaction).                                        *)
(***************************************************************************)
EXTENDS YtWorker

ReadText(w) ==
  /\ pc[w] = "text"
  /\ contain[cur[w]] \in Texts
  /\ text' = [text EXCEPT ![w] = contain[cur[w]]]
  /\ Goto(w, "ask")
  /\ UNCHANGED <<batch, cur, rows, tables>>

NoTextFound(w) ==
  /\ pc[w] = "text"
  /\ contain[cur[w]] \notin Texts
  /\ Conclude(w, "failed_solution")

\* Mutated form: an answer that is not saved.
AnalyzeUnsaved(w) ==
  /\ pc[w] = "ask"
  /\ Goto(w, "mark")
  /\ UNCHANGED <<batch, cur, text, rows, tables>>

AnalyzeOk(w) ==
  /\ pc[w] = "ask"
  /\ Goto(w, "save")
  /\ UNCHANGED <<batch, cur, text, rows, tables>>

SaveSolution(w) ==
  /\ pc[w] = "save"
  /\ solution' = [solution EXCEPT ![cur[w]] = text[w]]
  /\ Goto(w, "mark")
  /\ UNCHANGED <<batch, cur, text, rows, queueVars, contain, chunkText, vector, average>>

MarkSolved(w) ==
  /\ pc[w] = "mark"
  /\ Conclude(w, "solution")

\* Three attempts at the model failed, or an exception.
SolveError(w) ==
  /\ pc[w] \in {"ask", "save", "mark"}
  /\ Conclude(w, "failed_solution")

SolveStep(w) ==
  \/ ReadText(w)
  \/ NoTextFound(w)
  \/ AnalyzeOk(w)
  \/ SaveSolution(w)
  \/ MarkSolved(w)
  \/ SolveError(w)

=============================================================================
