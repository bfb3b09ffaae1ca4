------------------------- MODULE ChangeDetectionMC -------------------------
(* ChangeDetection for TLC: a writer, then a gated reader that shares its    *)
(* stage with another system, as in the regression test of D6.  Ticks wrap   *)
(* at 32 instead of 2^32 (MaxChangeAge 9 and CheckInterval 4 keep below 16). *)
EXTENDS ChangeDetection, TLC

MCStageOf(s) == IF s = "writer" THEN 1 ELSE 2

\* Rows are alike; no property is temporal.
RowSymmetry == Permutations(Rows)

=============================================================================
