------------------------- MODULE MCTrackingManifest -------------------------
(* TrackingManifest for TLC: videos are numbers, hashed over the shards. *)
EXTENDS TrackingManifest, TLC

HashOf == [v \in Videos |-> v % Cardinality(Shards)]

\* Dates, workers and discoveries are interchangeable.
Symmetry == Permutations(Workers) \cup Permutations(Dates) \cup Permutations(Discoveries)

=============================================================================
