---------------------------- MODULE MCOrderToCash ----------------------------
(* Small instances of OrderToCash for TLC.                                  *)
EXTENDS OrderToCash, TLC

Symmetry == Permutations(Invoices) \cup Permutations(Payments)
              \cup Permutations(Returns)
=============================================================================
