------------------------- MODULE MCConsensusTracker -------------------------
(***************************************************************************)
(* ConsensusTracker for TLC: the others are interchangeable.               *)
(***************************************************************************)
EXTENDS ConsensusTracker, TLC

Symmetry == Permutations(Peers)
=============================================================================
