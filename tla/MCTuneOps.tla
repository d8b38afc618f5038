------------------------------ MODULE MCTuneOps ------------------------------
(***************************************************************************)
(* Small instances of TuneOps for TLC.                                     *)
(***************************************************************************)
EXTENDS TuneInvariants, TLC

CONSTANTS x1, x2, v1, v2, b1, b2, k1, k2, r1, r2, g1

\* The @latest command is run where PGDATABASE names no database.
AnyDatabase == [w \in Latest |-> NoDb]

TuneSymmetry == Permutations(Versions) \cup Permutations(Bases) \cup Permutations(Dumpers)
                  \cup Permutations(Restorers)

=============================================================================
