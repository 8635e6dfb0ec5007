--------------------------- MODULE MCIngestionRun ---------------------------
(***************************************************************************)
(* Small instances of IngestionRun for TLC.                                *)
(***************************************************************************)
EXTENDS IngestionRun, TLC

CONSTANTS t1, t2, a, b, w1, w2

\* Two texts of one unit; a text of two units.
MCUnitCost == a :> 1 @@ b :> 1
MCOneText == a :> 2

Workers == Permutations({w1, w2})
=============================================================================
