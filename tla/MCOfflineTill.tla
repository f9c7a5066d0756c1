---------------------------- MODULE MCOfflineTill ----------------------------
(* Small instances of OfflineTill. *)
EXTENDS OfflineTill, TLC

\* Two carts of one price: the payment of one fits the other.
CONSTANTS cart1, cart2, main, second

SamePrice == [c \in Carts |-> 1]

ThreeOps == 1..3
FourOps  == 1..4
FiveOps  == 1..5
TwoSlots == 1..2

\* Nothing tells carts of one price apart.
CartsAlike == Permutations(Carts)
=============================================================================
