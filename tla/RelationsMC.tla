---------------------------- MODULE RelationsMC ----------------------------
(* Relations for TLC: a kind like ChildOf and one like Owns. *)
EXTENDS Relations

=============================================================================
