------------------------------ MODULE StorageMC ------------------------------
(* Three components in a chain of requirements, for TLC.                   *)
EXTENDS Storage, TLC

MCRequires == [sprite |-> {"place"}, place |-> {"node"}, node |-> {}]
MCBundles  == {{}, {"sprite"}}
MCBatches  == {<<"sprite", "node">>}

Symmetry == Permutations(Entity)
=============================================================================
