-------------------------- MODULE MCSectionBatches --------------------------
(***************************************************************************)
(* Small instances of SectionBatches for TLC.                              *)
(***************************************************************************)
EXTENDS SectionBatches

CONSTANTS p1, p2
=============================================================================
