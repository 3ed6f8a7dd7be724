------------------------- MODULE MCHistoryPipeline -------------------------
(***************************************************************************)
(* Small instances of HistoryPipeline.                                     *)
(***************************************************************************)
EXTENDS HistoryPipeline, TLC

ShardSymmetry == Permutations(Shards)
=============================================================================
