-------------------------- MODULE MCSalesPosting ---------------------------
(* Small instances of SalesPosting for TLC.                                 *)
EXTENDS SalesPosting, TLC

CONSTANTS j1, j2, j3, u1, u2, b1, b2, s1, s2, d1, d2

Symmetry == Permutations(Batches) \cup Permutations(Users)
              \cup Permutations(Days)

OneMonth == [d \in Days |-> 1]
Prices   == [s \in Sales |-> IF s = s1 THEN 1 ELSE 2]
=============================================================================
