---------------------------- MODULE MCConfigAudit ----------------------------
(***************************************************************************)
(* Small instances of ConfigAudit for TLC.  Servers are alike, and so are  *)
(* the two parameters of the one check.                                    *)
(***************************************************************************)
EXTENDS ConfigAudit, TLC

CONSTANTS p1, p2, v0, v1, m1, m2, m3, i1, e1

ServerSymmetry == Permutations(Servers)

=============================================================================
