--------------------------- MODULE VideoLifecycle ---------------------------
(***************************************************************************)
(* What the queue in yt_status promises to its users, without batches,     *)
(* clocks or tables: a source in work has one owner, only its owner moves  *)
(* it on, along the stages, and only what has lost its owner is queued     *)
(* again.                                                                  *)
(***************************************************************************)
EXTENDS YtStatus

CONSTANTS
  Sources,
  Workers,
  Job,        \* the stage each worker does
  NoOwner

VARIABLES
  status,     \* as in YtDb
  owner       \* the worker that has claimed the source and not finished it

vars == <<status, owner>>

Init ==
  /\ status = [s \in Sources |-> "absent"]
  /\ owner = [s \in Sources |-> NoOwner]

Add(s) ==
  /\ status[s] = "absent"
  /\ status' = [status EXCEPT ![s] = "added"]
  /\ UNCHANGED owner

\* A worker with empty hands takes sources that are ready for its stage.
Take(w, B) ==
  /\ B # {}
  /\ \A s \in B : status[s] = Ready[Job[w]] /\ owner[s] = NoOwner
  /\ \A s \in Sources : owner[s] # w
  /\ status' = [s \in Sources |-> IF s \in B THEN Busy[Job[w]] ELSE status[s]]
  /\ owner' = [s \in Sources |-> IF s \in B THEN w ELSE owner[s]]

\* The stage ends well, ends badly, or the source has to wait for another try.
Conclude(w, s) ==
  /\ status[s] = Busy[Job[w]]
  /\ owner[s] = w
  /\ \E st \in {Finished[Job[w]], Failed[Job[w]], Ready[Job[w]]} :
       status' = [status EXCEPT ![s] = st]
  /\ owner' = [owner EXCEPT ![s] = NoOwner]

Die(w) ==
  /\ UNCHANGED status
  /\ owner' = [s \in Sources |-> IF owner[s] = w THEN NoOwner ELSE owner[s]]

Requeue(S) ==
  /\ \A s \in S : owner[s] = NoOwner /\ \E k \in Stages : status[s] = Busy[k]
  /\ status' = [s \in Sources |->
                  IF s \in S THEN Ready[CHOOSE k \in Stages : status[s] = Busy[k]]
                  ELSE status[s]]
  /\ UNCHANGED owner

Next ==
  \/ \E s \in Sources : Add(s)
  \/ \E w \in Workers, B \in SUBSET Sources : Take(w, B)
  \/ \E w \in Workers, s \in Sources : Conclude(w, s)
  \/ \E w \in Workers : Die(w)
  \/ \E S \in SUBSET Sources : Requeue(S)

Spec == Init /\ [][Next]_vars

=============================================================================
