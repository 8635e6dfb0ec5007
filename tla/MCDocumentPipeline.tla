------------------------- MODULE MCDocumentPipeline -------------------------
(***************************************************************************)
(* Small instances of DocumentPipeline for TLC.                            *)
(***************************************************************************)
EXTENDS DocumentPipeline

CONSTANTS c1, c2
=============================================================================
