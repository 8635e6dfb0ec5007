--------------------------- MODULE UploadReceipts ---------------------------
(***************************************************************************)
(* What the worker-upload API promises to a remote worker about the        *)
(* receipts it was given: an accepted receipt is imported exactly once or  *)
(* rejected, each failed attempt is charged once to a bounded number of    *)
(* attempts, and only a rejected receipt with attempts left may be         *)
(* retried.  How the server queues, claims, loses and recovers the work is *)
(* none of the caller's business.                                          *)
(***************************************************************************)
EXTENDS Naturals

CONSTANTS
  Upload,      \* receipts that may ever be issued
  MaxAttempts  \* MAX_PROCESSING_ATTEMPTS

VARIABLES
  receipt,   \* what the caller is told about each receipt
  failures,  \* failed attempts charged to it
  docs       \* documents the corpus holds because of it

receiptVars == <<receipt, failures, docs>>

Init ==
  /\ receipt = [u \in Upload |-> "none"]
  /\ failures = [u \in Upload |-> 0]
  /\ docs = [u \in Upload |-> 0]

Accept(u) ==
  /\ receipt[u] = "none"
  /\ receipt' = [receipt EXCEPT ![u] = "accepted"]
  /\ UNCHANGED <<failures, docs>>

\* The document and the outcome appear together.
Import(u) ==
  /\ receipt[u] = "accepted"
  /\ receipt' = [receipt EXCEPT ![u] = "imported"]
  /\ docs' = [docs EXCEPT ![u] = @ + 1]
  /\ UNCHANGED failures

\* Attempts fail; the server tries again or gives up, at the latest when the
\* attempts are exhausted.
FailAttempts(S) ==
  /\ \A u \in S : receipt[u] = "accepted"
  /\ failures' = [u \in Upload |-> IF u \in S THEN failures[u] + 1 ELSE failures[u]]
  /\ \E rejected \in SUBSET S :
       /\ \A u \in S : failures'[u] >= MaxAttempts => u \in rejected
       /\ receipt' = [u \in Upload |-> IF u \in rejected THEN "rejected" ELSE receipt[u]]
  /\ UNCHANGED docs

Retry(u) ==
  /\ receipt[u] = "rejected" /\ failures[u] < MaxAttempts
  /\ receipt' = [receipt EXCEPT ![u] = "accepted"]
  /\ UNCHANGED <<failures, docs>>

Next ==
  \/ \E u \in Upload : Accept(u) \/ Import(u) \/ Retry(u)
  \/ \E S \in SUBSET Upload : FailAttempts(S)

Spec == Init /\ [][Next]_receiptVars
=============================================================================
