---------------------------- MODULE MCZatcaChain ----------------------------
(* Small instances of ZatcaChain for TLC: two requests for one invoice, one *)
(* for another, and a return that reduces the first.                       *)
EXTENDS ZatcaChain, TLC

CONSTANTS r1, r2, r3, r4, invoice1, invoice2, memo

OfFour  == (r1 :> invoice1) @@ (r2 :> invoice1) @@ (r3 :> memo) @@ (r4 :> invoice2)

Numbering == (invoice1 :> "SI") @@ (invoice2 :> "SI") @@ (memo :> "CN")
Reduced   == (invoice1 :> NoDoc) @@ (invoice2 :> NoDoc) @@ (memo :> invoice1)
=============================================================================
