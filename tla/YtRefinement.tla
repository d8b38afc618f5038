---------------------------- MODULE YtRefinement ----------------------------
(***************************************************************************)
(* YtPipeline implements VideoLifecycle as long as Prompt holds and no -y  *)
(* run interferes: the owner of a source is the worker that has it in its  *)
(* batch or in hand.                                                       *)
(***************************************************************************)
EXTENDS YtPipeline

\* No worker is taken for the missing owner.
ASSUME OwnerAssumption == NoSource \notin Workers

Owner == [s \in Sources |->
            IF \E w \in Workers : s \in Held(w)
            THEN CHOOSE w \in Workers : s \in Held(w)
            ELSE NoSource]

Lifecycle == INSTANCE VideoLifecycle WITH
  owner <- Owner,
  Job <- [w \in Workers |-> StageOf(w)],
  NoOwner <- NoSource

\* Each step of the workers is a step the queue promises, or none at all: a
\* source has one owner, who alone moves it on; a settled source stays
\* settled; only sources of dead workers are queued again.
ImplementsLifecycle == Lifecycle!Spec

=============================================================================
