------------------------- MODULE MCModelAggregator -------------------------
(***************************************************************************)
(* ModelAggregator for TLC.  Peers and calls of run_continuous are         *)
(* interchangeable, but the run checks liveness: no symmetry.              *)
(***************************************************************************)
EXTENDS ModelAggregator
=============================================================================
