-------------------------- MODULE MCChunkedUploads --------------------------
(***************************************************************************)
(* Small instances of ChunkedUploads for TLC.                              *)
(***************************************************************************)
EXTENDS ChunkedUploads, TLC

CONSTANTS p1, p2, q1, q2

Requests == Permutations(Request)
=============================================================================
