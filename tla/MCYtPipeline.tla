---------------------------- MODULE MCYtPipeline ----------------------------
(***************************************************************************)
(* Small instances of YtPipeline for TLC.  Videos and transcripts are      *)
(* interchangeable; liveness runs use no symmetry.                         *)
(***************************************************************************)
EXTENDS YtRefinement, YtChunks, TLC

CONSTANTS s1, s2, t1, t2, l1, l2, e1, e2, a1, c1, g1

DataSymmetry == Permutations(Sources) \cup Permutations(Texts)

=============================================================================
