------------------------------ MODULE YtStatus ------------------------------
(***************************************************************************)
(* The values of yt_status.status, and the three stages whose workers move *)
(* a source from one to the next.                                          *)
(***************************************************************************)

Stages == {"load", "embed", "solve"}

Ready == [load |-> "added", embed |-> "loaded", solve |-> "embedded"]
Busy == [load |-> "process_load", embed |-> "process_embed",
         solve |-> "process_solution"]
Finished == [load |-> "loaded", embed |-> "embedded", solve |-> "solution"]
Failed == [load |-> "failed_load", embed |-> "failed_embedded",
           solve |-> "failed_solution"]

Statuses == {"added", "process_load", "loaded", "failed_load",
             "process_embed", "embedded", "failed_embedded",
             "process_solution", "solution", "failed_solution"}

=============================================================================
