--------------------------- MODULE MCWorkerUploads ---------------------------
(***************************************************************************)
(* Small instances of WorkerUploads for TLC.                               *)
(***************************************************************************)
EXTENDS WorkerUploads, TLC

CONSTANTS u1, u2, p1, p2, k1, k2, k3, k4

\* Tokens are compared for equality only; so are tasks.
Anonymous == Permutations({p1, p2}) \cup Permutations({k1, k2, k3, k4})
=============================================================================
