-------------------------- MODULE MCResearchReport --------------------------
(***************************************************************************)
(* Small instances of ResearchReport for TLC.                              *)
(***************************************************************************)
EXTENDS ResearchReport

CONSTANTS w1, w2
=============================================================================
