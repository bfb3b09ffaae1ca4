--------------------------- MODULE SpawnBlocksMC ---------------------------
(* SpawnBlocks for TLC.  The two systems of a stage are interchangeable. *)
EXTENDS SpawnBlocks, TLC

Symmetry == Permutations(Systems)

=============================================================================
