------------------------ MODULE MCTransitionExecutor ------------------------
(* Small instances of TransitionExecutor for TLC.                           *)
EXTENDS TransitionExecutor, TLC

CONSTANTS a1, a2, a3, k1, k2, h1, h2

Symmetry == Permutations(Attempts) \cup Permutations(Hashes)

ApproveWasKeyed == {<<"approve", k1>>}
NoLegacy == {}
=============================================================================
