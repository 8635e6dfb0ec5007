---------------------------- MODULE WorkerUploads ----------------------------
(***************************************************************************)
(* The staging table of opencontractserver/worker_uploads: receipts staged *)
(* by remote workers, the Celery tasks that claim and import them in       *)
(* batches (process_pending_uploads), the sweep that resets what a dead    *)
(* task left behind (recover_stalled_uploads), and explicit retries.       *)
(*                                                                         *)
(* A claim, the recording of a failure and the sweep are transactions that *)
(* lock the rows they change, so each is one action.  The import of one    *)
(* upload is long: it locks the row and then, for a bound upload, the run, *)
(* reads the credential without a lock, and commits at the end; what       *)
(* respects its locks waits or skips the row, the rest goes on meanwhile.  *)
(* A task holds its batch across all of them.                              *)
(***************************************************************************)
EXTENDS Naturals, FiniteSets

CONSTANTS
  Upload,       \* receipts that may be staged
  Keyed,        \* those staged with an Idempotency-Key
  Bound,        \* those bound to the ingestion run
  Task,         \* concurrent executions of process_pending_uploads
  Token,        \* processing tokens (uuid4)
  MaxAttempts,  \* MAX_PROCESSING_ATTEMPTS
  BatchSize,    \* WORKER_UPLOAD_BATCH_SIZE
  None          \* no token, no upload

ASSUME KeyedAssumption == Keyed \subseteq Upload
\* stage_upload: a run requires an idempotency key.
ASSUME BoundAssumption == Bound \subseteq Keyed
ASSUME FiniteAssumption == IsFiniteSet(Upload)
ASSUME AttemptsAssumption == MaxAttempts \in Nat \ {0} /\ BatchSize \in Nat \ {0}

UploadStatus == {"PENDING", "PROCESSING", "COMPLETED", "FAILED"}

ASSUME NoneAssumption == None \notin Token \cup Upload \cup Task \cup UploadStatus

\* What an upload needs to know of its run; BUDGET_EXHAUSTED stops uploads as
\* PAUSED does.
RunStatus == {"ACTIVE", "PAUSED", "POLICY_VIOLATION", "CANCELLED"}

VARIABLES
  status, created, token, attempts, stale, errors,  \* WorkerDocumentUpload rows
  credential,  \* uploads whose access token is still valid
  file,        \* the staged source: "staged", "deleted" or "lost"
  docs,        \* documents created from each upload
  runStatus,   \* status of the ingestion run
  own,         \* processing token of each task, None when it is not running
  batch,       \* uploads it claimed and has not dealt with yet
  failing,     \* upload whose import raised and whose failure is not recorded
  importing,   \* upload whose row its import transaction has locked
  runHolder    \* task whose import has the run's row locked

\* status is None before the upload is staged; created ranks the rows; stale
\* marks rows whose processing_started is before the sweep's cutoff; errors
\* counts the entries of error_history; a "lost" source was deleted by a
\* transaction that then rolled back.
rowVars == <<status, created, token, attempts, stale, errors>>
taskVars == <<own, batch, failing, importing, runHolder>>
vars == <<rowVars, credential, file, docs, runStatus, taskVars>>

TypeOK ==
  /\ status \in [Upload -> UploadStatus \cup {None}]
  /\ created \in [Upload -> Nat]
  /\ token \in [Upload -> Token \cup {None}]
  /\ attempts \in [Upload -> 0..MaxAttempts]
  /\ stale \in [Upload -> BOOLEAN]
  /\ errors \in [Upload -> Nat]
  /\ credential \subseteq Upload
  /\ file \in [Upload -> {"staged", "deleted", "lost"}]
  /\ docs \in [Upload -> Nat]
  /\ runStatus \in RunStatus
  /\ own \in [Task -> Token \cup {None}]
  /\ batch \in [Task -> SUBSET Upload]
  /\ failing \in [Task -> Upload \cup {None}]
  /\ importing \in [Task -> Upload \cup {None}]
  /\ runHolder \in Task \cup {None}

Init ==
  /\ status = [u \in Upload |-> None]
  /\ created = [u \in Upload |-> 0]
  /\ token = [u \in Upload |-> None]
  /\ attempts = [u \in Upload |-> 0]
  /\ stale = [u \in Upload |-> FALSE]
  /\ errors = [u \in Upload |-> 0]
  /\ credential = {}
  /\ file = [u \in Upload |-> "deleted"]
  /\ docs = [u \in Upload |-> 0]
  /\ runStatus = "ACTIVE"
  /\ own = [p \in Task |-> None]
  /\ batch = [p \in Task |-> {}]
  /\ failing = [p \in Task |-> None]
  /\ importing = [p \in Task |-> None]
  /\ runHolder = None

\* Mutant of RunFree: the import reads its run without locking it.
RunFreeAlways == TRUE

\* Whoever changes the run, or relies on its status, locks its row first.
RunFree == runHolder = None

\* Rows locked by an import: the sweep skips them, other tasks wait.
Locked == {importing[p] : p \in Task} \ {None}

-----------------------------------------------------------------------------
(* REST endpoints *)

\* stage_upload by an authenticated worker.  (Replays of a key return the
\* receipt it already has and change nothing.)
Stage(u) ==
  /\ status[u] = None
  /\ u \in Bound => RunFree /\ runStatus = "ACTIVE"
  /\ status' = [status EXCEPT ![u] = "PENDING"]
  /\ created' = [created EXCEPT ![u] = 1 + Cardinality({v \in Upload : status[v] # None})]
  /\ file' = [file EXCEPT ![u] = "staged"]
  /\ credential' = credential \cup {u}
  /\ UNCHANGED <<token, attempts, stale, errors, docs, runStatus, taskVars>>

\* retry_upload: attempts must be left and the source must still be there.
Retryable(u) ==
  status[u] = "FAILED" /\ attempts[u] < MaxAttempts /\ file[u] = "staged"

RetryUpload(u) ==
  /\ Retryable(u)
  /\ status' = [status EXCEPT ![u] = "PENDING"]
  /\ token' = [token EXCEPT ![u] = None]
  /\ credential' = credential \cup {u}
  /\ UNCHANGED <<created, attempts, stale, errors, file, docs, runStatus, taskVars>>

-----------------------------------------------------------------------------
(* process_pending_uploads *)

Claimable == {u \in Upload : status[u] = "PENDING" /\ (u \in Bound => runStatus = "ACTIVE")}
Oldest(S) == {u \in S : Cardinality({v \in S : created[v] < created[u]}) < BatchSize}
InUse == {token[u] : u \in Upload} \cup {own[p] : p \in Task}

Claim(p) ==
  LET claimed == Oldest(Claimable) IN
  /\ own[p] = None /\ claimed # {}
  /\ \E k \in Token \ InUse :
       /\ own' = [own EXCEPT ![p] = k]
       /\ token' = [u \in Upload |-> IF u \in claimed THEN k ELSE token[u]]
  /\ batch' = [batch EXCEPT ![p] = claimed]
  /\ status' = [u \in Upload |-> IF u \in claimed THEN "PROCESSING" ELSE status[u]]
  /\ attempts' = [u \in Upload |-> IF u \in claimed THEN attempts[u] + 1 ELSE attempts[u]]
  /\ stale' = [u \in Upload |-> IF u \in claimed THEN FALSE ELSE stale[u]]
  /\ UNCHANGED <<created, errors, credential, file, docs, runStatus, failing, importing, runHolder>>

\* The import transaction ends, and with it its locks.
Release(p) ==
  /\ importing' = [importing EXCEPT ![p] = None]
  /\ runHolder' = IF runHolder = p THEN None ELSE runHolder

\* The task is through with u; with its last upload the task ends.
Done(p, u) ==
  /\ batch' = [batch EXCEPT ![p] = @ \ {u}]
  /\ own' = [own EXCEPT ![p] = IF batch[p] = {u} THEN None ELSE @]
  /\ failing' = [failing EXCEPT ![p] = None]
  /\ Release(p)

Turn(p, u) == u \in batch[p] \ Locked /\ failing[p] = None /\ importing[p] = None

\* Mutant of Owns: the claimed row is not looked at again.
OwnsWithoutCheck(p, u) == own[p] # None

\* _process_single_upload: the row still is this task's attempt.
Owns(p, u) == status[u] = "PROCESSING" /\ token[u] = own[p]

SkipLost(p, u) ==
  /\ Turn(p, u) /\ ~Owns(p, u)
  /\ Done(p, u)
  /\ UNCHANGED <<rowVars, credential, file, docs, runStatus>>

\* The row is locked and its credential found valid, once.
BeginImport(p, u) ==
  /\ Turn(p, u) /\ Owns(p, u) /\ u \in credential
  /\ importing' = [importing EXCEPT ![p] = u]
  /\ UNCHANGED <<rowVars, credential, file, docs, runStatus, own, batch, failing, runHolder>>

\* The import raises (invalid credential, missing source, bad metadata, any
\* error) and is rolled back; the failure is recorded by a later transaction.
ImportRaises(p, u) ==
  /\ importing[p] = u \/ (Turn(p, u) /\ Owns(p, u) /\ u \notin credential)
  /\ failing' = [failing EXCEPT ![p] = u]
  /\ Release(p)
  /\ UNCHANGED <<rowVars, credential, file, docs, runStatus, own, batch>>

\* The import of a bound upload locks the run, and goes on while it is ACTIVE.
LockRun(p, u) ==
  /\ importing[p] = u /\ u \in Bound
  /\ RunFree /\ runStatus = "ACTIVE"
  /\ runHolder' = p
  /\ UNCHANGED <<rowVars, credential, file, docs, runStatus, own, batch, failing, importing>>

\* The run is stopped, or this upload violates its policy: the row goes back
\* and the attempt is not charged.
YieldToRun(p, u) ==
  /\ importing[p] = u /\ u \in Bound
  /\ RunFree
  /\ runStatus' = IF runStatus = "ACTIVE" THEN "POLICY_VIOLATION" ELSE runStatus
  /\ status' = [status EXCEPT ![u] = "PENDING"]
  /\ token' = [token EXCEPT ![u] = None]
  /\ attempts' = [attempts EXCEPT ![u] = IF @ = 0 THEN 0 ELSE @ - 1]
  /\ stale' = [stale EXCEPT ![u] = FALSE]
  /\ Done(p, u)
  /\ UNCHANGED <<created, errors, credential, file, docs>>

\* The document and the receipt's outcome commit together.  Queueing the
\* document's embeddings in the same transaction may stop the run.  The source
\* is deleted after the commit, unless the process dies first.
Complete(p, u) ==
  /\ importing[p] = u /\ file[u] = "staged"
  /\ u \in Bound => runHolder = p
  /\ docs' = [docs EXCEPT ![u] = @ + 1]
  /\ status' = [status EXCEPT ![u] = "COMPLETED"]
  /\ runStatus' \in {runStatus} \cup IF u \in Bound THEN {"PAUSED", "POLICY_VIOLATION"} ELSE {}
  /\ file' \in {file, [file EXCEPT ![u] = "deleted"]}
  /\ Done(p, u)
  /\ UNCHANGED <<created, token, attempts, stale, errors, credential>>

\* Mutant of DeletesSource: every failure deletes the source.
DeletesSourceAlways(u) == TRUE

\* _fail_upload deletes the source unless the receipt can be retried.
DeletesSource(u) == u \notin Keyed \/ attempts[u] >= MaxAttempts

\* Mutant of Failable: a late failure is not fenced off by the processing token.
FailableByAny(p, u) == status[u] # "COMPLETED"

Failable(p, u) == status[u] # "COMPLETED" /\ token[u] = own[p]

RecordFailure(p) ==
  LET u == failing[p] IN
  /\ u # None /\ u \notin Locked
  /\ IF Failable(p, u)
     THEN /\ status' = [status EXCEPT ![u] = "FAILED"]
          /\ errors' = [errors EXCEPT ![u] = @ + 1]
          /\ file' = IF DeletesSource(u) THEN [file EXCEPT ![u] = "deleted"] ELSE file
     ELSE UNCHANGED <<status, errors, file>>
  /\ Done(p, u)
  /\ UNCHANGED <<created, token, attempts, stale, credential, docs, runStatus>>

Lost(S) == [u \in Upload |-> IF u \in S /\ file[u] = "staged" THEN "lost" ELSE file[u]]

\* A task dies, or its database connection does: the batch is abandoned.
Abandon(p) ==
  /\ own' = [own EXCEPT ![p] = None]
  /\ batch' = [batch EXCEPT ![p] = {}]
  /\ failing' = [failing EXCEPT ![p] = None]
  /\ Release(p)

Crash(p) ==
  /\ own[p] # None
  /\ Abandon(p)
  /\ UNCHANGED <<rowVars, credential, file, docs, runStatus>>

\* The source was deleted inside _fail_upload's transaction, which then fails.
FailureRollsBack(p) ==
  LET u == failing[p] IN
  /\ u # None /\ u \notin Locked /\ Failable(p, u) /\ DeletesSource(u)
  /\ file' = Lost({u})
  /\ Abandon(p)
  /\ UNCHANGED <<rowVars, credential, docs, runStatus>>

-----------------------------------------------------------------------------
(* recover_stalled_uploads *)

\* Mutant of Stalled: rows without attempts left are not swept.
StalledWithAttempts ==
  {u \in Upload \ Locked : status[u] = "PROCESSING" /\ stale[u] /\ attempts[u] < MaxAttempts}

Stalled == {u \in Upload \ Locked : status[u] = "PROCESSING" /\ stale[u]}

Exhausted(u) == attempts[u] >= MaxAttempts

\* One sweep resets some stalled rows, up to its limit.
Recover(S) ==
  /\ S # {} /\ S \subseteq Stalled
  /\ status' = [u \in Upload |-> IF u \notin S THEN status[u]
                                 ELSE IF Exhausted(u) THEN "FAILED" ELSE "PENDING"]
  /\ token' = [u \in Upload |-> IF u \in S THEN None ELSE token[u]]
  /\ stale' = [u \in Upload |-> IF u \in S THEN FALSE ELSE stale[u]]
  /\ errors' = [u \in Upload |-> IF u \in S THEN errors[u] + 1 ELSE errors[u]]
  /\ file' = [u \in Upload |-> IF u \in S /\ Exhausted(u) THEN "deleted" ELSE file[u]]
  /\ UNCHANGED <<created, attempts, credential, docs, runStatus, taskVars>>

\* The sweep deleted sources of exhausted rows, and then its transaction fails.
RecoverRollsBack ==
  /\ \E S \in SUBSET {u \in Stalled : Exhausted(u)} : S # {} /\ file' = Lost(S)
  /\ UNCHANGED <<rowVars, credential, docs, runStatus, taskVars>>

-----------------------------------------------------------------------------
(* Environment *)

\* WORKER_UPLOAD_STALE_MINUTES pass.
Age(u) ==
  /\ status[u] = "PROCESSING" /\ ~stale[u]
  /\ stale' = [stale EXCEPT ![u] = TRUE]
  /\ UNCHANGED <<status, created, token, attempts, errors, credential, file, docs, runStatus,
                 taskVars>>

\* The access token is revoked, expires or is deleted.
Revoke(u) ==
  /\ u \in credential
  /\ credential' = credential \ {u}
  /\ UNCHANGED <<rowVars, file, docs, runStatus, taskVars>>

\* control_run, seen from here.
ControlRun ==
  /\ RunFree /\ runStatus # "CANCELLED"
  /\ runStatus' \in {"ACTIVE", "PAUSED", "CANCELLED"}
  /\ UNCHANGED <<rowVars, credential, file, docs, taskVars>>

-----------------------------------------------------------------------------

ProcessSingleUpload(p, u) ==
  \/ SkipLost(p, u) \/ BeginImport(p, u) \/ ImportRaises(p, u)
  \/ LockRun(p, u) \/ YieldToRun(p, u) \/ Complete(p, u)

\* What a running task does next.
Step(p) == RecordFailure(p) \/ \E u \in Upload : ProcessSingleUpload(p, u)

Next ==
  \/ \E u \in Upload : Stage(u) \/ RetryUpload(u) \/ Age(u) \/ Revoke(u)
  \/ \E p \in Task : Claim(p) \/ Step(p) \/ Crash(p) \/ FailureRollsBack(p)
  \/ \E S \in SUBSET Upload : Recover(S)
  \/ RecoverRollsBack
  \/ ControlRun

Spec == Init /\ [][Next]_vars

\* Beat runs the drain and the sweep again and again, tasks proceed unless they
\* die, and time passes.  Remote workers and operators need never act.
FairSpec ==
  /\ Spec
  /\ WF_vars(\E p \in Task : Claim(p))
  /\ \A p \in Task : WF_vars(Step(p))
  /\ \A u \in Upload :
       /\ WF_vars(Age(u))
       /\ WF_vars(\E S \in SUBSET Upload : u \in S /\ Recover(S))

-----------------------------------------------------------------------------
(* Properties *)

\* One receipt never puts two documents into the corpus, and says COMPLETED
\* exactly when its document was committed, whatever tasks died or overlapped.
OneDocumentPerUpload ==
  \A u \in Upload : docs[u] = IF status[u] = "COMPLETED" THEN 1 ELSE 0

\* Every attempt charged to a receipt has exactly one outcome: it failed once,
\* it is being processed, or it completed.  A task that lost its row to the
\* sweep cannot record a second failure for it.
AttemptsAccounted ==
  \A u \in Upload :
    attempts[u] = errors[u] + IF status[u] \in {"PROCESSING", "COMPLETED"} THEN 1 ELSE 0

\* A queued receipt has an attempt left, so a claim can never exceed the limit.
QueuedHasAttempts == \A u \in Upload : status[u] = "PENDING" => attempts[u] < MaxAttempts

\* A keyed receipt that failed with attempts left can really be retried: its
\* source is there, unless a transaction deleted it and rolled back.
KeyedKeepsSource ==
  \A u \in Keyed : status[u] = "FAILED" /\ attempts[u] < MaxAttempts => file[u] # "deleted"

\* control_run takes effect at once: once it has paused or cancelled the run,
\* no import that was already under way commits a document of the run.
StoppedRunImportsNothing ==
  [][\A u \in Bound : docs'[u] # docs[u] => runStatus = "ACTIVE"]_vars

\* Once operators leave the run alone, every staged upload is eventually
\* imported or rejected, unless its run has stopped.  (While they keep resuming
\* a run whose oldest uploads violate its policy, those are claimed and given
\* back for ever, ahead of everything staged later.)
UploadsSettle ==
  <>[][~ControlRun]_vars =>
    \A u \in Upload : status[u] \in {"PENDING", "PROCESSING"} ~>
      \/ status[u] \in {"COMPLETED", "FAILED"}
      \/ u \in Bound /\ runStatus # "ACTIVE"

\* tasks.py: "Keyed receipts can be retried with the same prepared source, so
\* keep it until the attempts are exhausted and the receipt is terminal."
\* (The code does not keep it: see "What the code does not keep" in the README.)
SourceKeptWhileRetryable ==
  \A u \in Keyed : status[u] \in {"PENDING", "FAILED"} /\ attempts[u] < MaxAttempts =>
                     file[u] = "staged"

\* What callers are told: a queued upload and one being processed look alike.
Receipt(s) ==
  IF s = None THEN "none"
  ELSE IF s \in {"PENDING", "PROCESSING"} THEN "accepted"
  ELSE IF s = "COMPLETED" THEN "imported" ELSE "rejected"

Receipts == INSTANCE UploadReceipts WITH
  receipt <- [u \in Upload |-> Receipt(status[u])],
  failures <- errors

\* The staging table keeps the promises made about receipts.
KeepsReceipts == Receipts!Spec
=============================================================================
