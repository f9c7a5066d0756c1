-------------------------- MODULE MCGeneralLedger --------------------------
(* Small instances of GeneralLedger for TLC.                                *)
EXTENDS GeneralLedger, TLC

CONSTANTS j1, j2, j3, u1, u2

Symmetry == Permutations(Users)
=============================================================================
