--------------------------- MODULE MCCorpusImport ---------------------------
(***************************************************************************)
(* Small instances of CorpusImport for TLC.                                *)
(***************************************************************************)
EXTENDS CorpusImport

CONSTANTS d1, d2, t1, t2, f1, f2
=============================================================================
