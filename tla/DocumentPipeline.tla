-------------------------- MODULE DocumentPipeline --------------------------
(***************************************************************************)
(* The processing chain of one document (opencontractserver/tasks/doc_     *)
(* tasks.py): convert, thumbnail, ingest, unlock, its error callback, the  *)
(* reconciliation sweep and the user's retry.  A thread is a chain as far  *)
(* as it has come: the message of its next task and the execution of that  *)
(* task.  A worker that dies after it has sent the next message and before *)
(* it has acknowledged its own leaves two threads.  Markdown and documents *)
(* of an ingestion run, which are not parsed here, are left out.           *)
(***************************************************************************)
EXTENDS Naturals

CONSTANTS
  Thread,      \* chains, and parts of chains, at once
  NoCopy,      \* an execution that has not loaded the document
  MaxTries,    \* retries of a task after transient errors
  MaxCrashes,  \* bound on workers that die
  MaxRetries,  \* bound on the user's retries
  MayLose      \* whether the broker may lose a message

ASSUME BoundsAssumption ==
  /\ MaxTries \in Nat /\ MaxCrashes \in Nat /\ MaxRetries \in Nat
  /\ MayLose \in BOOLEAN

Status == {"PENDING", "PROCESSING", "COMPLETED", "FAILED"}
Finished == {"COMPLETED", "FAILED"}
DocumentRow == [status : Status, lock : BOOLEAN, started : {"lately", "long ago"}]
Step == {"none", "convert", "thumbnail", "ingest", "unlock", "errback"}

ASSUME NoCopyAssumption == NoCopy \notin DocumentRow

VARIABLES
  doc,         \* processing_status, backend_lock, processing_started
  step,        \* task each thread has come to
  at,          \* "queued", "begun", "saving" or "importing"
  copy,        \* the instance its execution loaded
  tries,       \* request.retries
  sweep,       \* "idle", or "seen" between the check and the save
  crashes, retries,
  parsed,      \* parsed data was saved: "no", "copy" (on a copy only) or "yes"
  overlapped,  \* executions on this document have overlapped
  lost         \* the broker has lost a message

threadVars == <<step, at, copy, tries>>
countVars == <<crashes, retries, lost>>
vars == <<doc, threadVars, sweep, countVars, parsed, overlapped>>

TypeOK ==
  /\ doc \in DocumentRow
  /\ step \in [Thread -> Step]
  /\ at \in [Thread -> {"queued", "begun", "saving", "importing"}]
  /\ copy \in [Thread -> DocumentRow \cup {NoCopy}]
  /\ tries \in [Thread -> 0..MaxTries]
  /\ sweep \in {"idle", "seen"}
  /\ crashes \in 0..MaxCrashes /\ retries \in 0..MaxRetries
  /\ parsed \in {"no", "copy", "yes"}
  /\ overlapped \in BOOLEAN /\ lost \in BOOLEAN

First == CHOOSE t \in Thread : TRUE

\* The post_save signal has committed the document and sent its chain.
Init ==
  /\ doc = [status |-> "PENDING", lock |-> TRUE, started |-> "lately"]
  /\ step = [t \in Thread |-> IF t = First THEN "convert" ELSE "none"]
  /\ at = [t \in Thread |-> "queued"]
  /\ copy = [t \in Thread |-> NoCopy]
  /\ tries = [t \in Thread |-> 0]
  /\ sweep = "idle"
  /\ crashes = 0 /\ retries = 0 /\ lost = FALSE
  /\ parsed = "no" /\ overlapped = FALSE

-----------------------------------------------------------------------------
(* Threads *)

NextStep == [convert |-> "thumbnail", thumbnail |-> "ingest", ingest |-> "unlock"]

Moves(moved) ==
  /\ step' = [t \in Thread |-> IF t \in DOMAIN moved THEN moved[t][1] ELSE step[t]]
  /\ tries' = [t \in Thread |-> IF t \in DOMAIN moved THEN moved[t][2] ELSE tries[t]]
  /\ at' = [t \in Thread |-> IF t \in DOMAIN moved THEN "queued" ELSE at[t]]
  /\ copy' = [t \in Thread |-> IF t \in DOMAIN moved THEN NoCopy ELSE copy[t]]

\* Task t ends by sending the message of step s; if its worker dies before the
\* acknowledgement, its own message comes back as another thread.
Sends(t, s, n) ==
  \/ /\ Moves([u \in {t} |-> <<s, n>>])
     /\ UNCHANGED <<countVars, overlapped>>
  \/ /\ crashes < MaxCrashes
     /\ \E v \in Thread :
          /\ step[v] = "none"
          /\ Moves([u \in {t, v} |-> IF u = t THEN <<s, n>> ELSE <<step[t], tries[t]>>])
     /\ crashes' = crashes + 1
     /\ overlapped' = TRUE
     /\ UNCHANGED <<retries, lost>>

Ends(t) == Sends(t, "none", 0)

\* Mutant of Succeeds: an error that a task returns does not halt the chain.
SucceedsAlways(ok) == TRUE

\* raise_on_error_result: a task that returns an error raises, which halts the
\* chain and sends the error callback.
Succeeds(ok) == ok

Proceeds(t, ok) ==
  IF Succeeds(ok) THEN Sends(t, NextStep[step[t]], 0) ELSE Sends(t, "errback", 0)

\* The document is loaded; ingest_doc says PROCESSING on its first attempt.
Take(t) ==
  /\ step[t] # "none" /\ at[t] = "queued"
  /\ at' = [at EXCEPT ![t] = "begun"]
  /\ copy' = [copy EXCEPT ![t] = doc]
  /\ doc' = IF step[t] = "ingest" /\ tries[t] = 0
              THEN [doc EXCEPT !.status = "PROCESSING"] ELSE doc
  /\ UNCHANGED <<step, tries, sweep, countVars, parsed, overlapped>>

\* convert and ingest refuse a user who may not read the document, or is gone:
\* they return an error and write nothing.
Deny(t) ==
  /\ step[t] \in {"convert", "ingest"} /\ at[t] = "queued"
  /\ Proceeds(t, FALSE)
  /\ UNCHANGED <<doc, sweep, parsed>>

\* Mutant of MarkedFailed: a failed document is released.
MarkedUnlocked == [doc EXCEPT !.status = "FAILED", !.lock = FALSE]

\* _mark_document_failed: the lock is left as it is.
MarkedFailed == [doc EXCEPT !.status = "FAILED"]

\* A permanent error, or a transient one too many: FAILED, and the chain halts.
Fail(t) ==
  /\ step[t] \in {"convert", "ingest"} /\ at[t] = "begun"
  /\ doc' = MarkedFailed
  /\ Proceeds(t, FALSE)
  /\ UNCHANGED <<sweep, parsed>>

\* A transient error: the message is sent again.
TryAgain(t) ==
  /\ step[t] \in {"convert", "thumbnail", "ingest"} /\ at[t] # "queued"
  /\ tries[t] < MaxTries
  /\ Sends(t, step[t], tries[t] + 1)
  /\ UNCHANGED <<doc, sweep, parsed>>

\* An exception nobody handles (a thumbnailer, a chunk of the chord, the remap,
\* a save): the chain halts without a verdict.
Raise(t) ==
  /\ step[t] \in {"thumbnail", "ingest", "unlock"} /\ at[t] # "queued"
  /\ Sends(t, "errback", 0)
  /\ UNCHANGED <<doc, sweep, parsed>>

\* Nothing to convert, or converted; no thumbnail.
Pass(t) ==
  /\ step[t] \in {"convert", "thumbnail"} /\ at[t] = "begun"
  /\ Proceeds(t, TRUE)
  /\ UNCHANGED <<doc, sweep, parsed>>

\* The thumbnail is stored with a save of the whole instance.
SaveThumbnail(t) ==
  /\ step[t] = "thumbnail" /\ at[t] = "begun"
  /\ doc' = copy[t]
  /\ Proceeds(t, TRUE)
  /\ UNCHANGED <<sweep, parsed>>

\* save_parsed_data loads the document again after the parse ...
LoadForParsed(t) ==
  /\ step[t] = "ingest" /\ at[t] = "begun"
  /\ at' = [at EXCEPT ![t] = "saving"]
  /\ copy' = [copy EXCEPT ![t] = doc]
  /\ UNCHANGED <<doc, step, tries, sweep, countVars, parsed, overlapped>>

\* ... and if it was in a corpus when the ingest began and has left it since, adds
\* a copy of it to the corpus: all that follows goes to the copy, while the chain
\* stays with the original.  Users move documents at any time, so either may be.
SaveElsewhere(t) ==
  /\ step[t] = "ingest" /\ at[t] = "saving"
  /\ parsed' = IF parsed = "yes" THEN "yes" ELSE "copy"
  /\ Proceeds(t, TRUE)
  /\ UNCHANGED <<doc, sweep>>

\* The files are stored with saves of the whole instance ...
SaveFiles(t) ==
  /\ step[t] = "ingest" /\ at[t] = "saving"
  /\ at' = [at EXCEPT ![t] = "importing"]
  /\ doc' = copy[t]
  /\ UNCHANGED <<step, copy, tries, sweep, countVars, parsed, overlapped>>

\* ... and it is saved once more with its structural annotations, if it has any,
\* after all annotations are imported.
SaveParsed(t) ==
  /\ step[t] = "ingest" /\ at[t] = "importing"
  /\ doc' \in {doc, copy[t]}
  /\ parsed' = "yes"
  /\ Proceeds(t, TRUE)
  /\ UNCHANGED sweep

-----------------------------------------------------------------------------
(* set_doc_lock_state and mark_doc_failed_on_chain_error *)

\* Mutant of Unlocked: the status is saved without the lock.
UnlockedStatusOnly == [doc EXCEPT !.status = "COMPLETED"]

Unlocked == [doc EXCEPT !.status = "COMPLETED", !.lock = FALSE]

Unlock(t) ==
  /\ step[t] = "unlock" /\ at[t] = "begun" /\ copy[t].status # "FAILED"
  /\ doc' = Unlocked
  /\ Ends(t)
  /\ UNCHANGED <<sweep, parsed>>

KeepLocked(t) ==
  /\ step[t] = "unlock" /\ at[t] = "begun" /\ copy[t].status = "FAILED"
  /\ Ends(t)
  /\ UNCHANGED <<doc, sweep, parsed>>

\* Mutant of Resolved: only documents that are being ingested are failed.
ResolvedUnlessProcessing(status) == status # "PROCESSING"

Resolved(status) == status \in Finished

ChainFailed(t) ==
  /\ step[t] = "errback" /\ at[t] = "begun"
  /\ doc' = IF Resolved(copy[t].status) THEN doc ELSE MarkedFailed
  /\ Ends(t)
  /\ UNCHANGED <<sweep, parsed>>

-----------------------------------------------------------------------------
(* reconcile_stuck_documents and retry_document_processing *)

\* Mutant of Stuck: documents that were unlocked meanwhile are looked for.
StuckUnlocked == doc.status = "PROCESSING" /\ ~doc.lock /\ doc.started = "long ago"

Stuck == doc.status = "PROCESSING" /\ doc.lock /\ doc.started = "long ago"

\* The re-check and the save of the sweep are two statements.
FindStuck ==
  /\ sweep = "idle" /\ Stuck
  /\ sweep' = "seen"
  /\ overlapped' = (overlapped \/ \E t \in Thread : step[t] # "none")
  /\ UNCHANGED <<doc, threadVars, countVars, parsed>>

Reclaim ==
  /\ sweep = "seen"
  /\ doc' = MarkedFailed
  /\ sweep' = "idle"
  /\ UNCHANGED <<threadVars, countVars, parsed, overlapped>>

Age ==
  /\ doc.started = "lately"
  /\ doc' = [doc EXCEPT !.started = "long ago"]
  /\ UNCHANGED <<threadVars, sweep, countVars, parsed, overlapped>>

\* A single UPDATE of a FAILED document, then a new chain.
Retry(t) ==
  /\ retries < MaxRetries
  /\ doc.status = "FAILED" /\ step[t] = "none"
  /\ doc' = [status |-> "PENDING", lock |-> TRUE, started |-> "lately"]
  /\ Moves([u \in {t} |-> <<"convert", 0>>])
  /\ retries' = retries + 1
  /\ overlapped' = (overlapped \/ sweep = "seen" \/ \E u \in Thread : step[u] # "none")
  /\ UNCHANGED <<sweep, crashes, lost, parsed>>

-----------------------------------------------------------------------------
(* Failures *)

\* A worker dies in the middle of a task, whose message comes back.
Crash(t) ==
  /\ crashes < MaxCrashes /\ at[t] # "queued"
  /\ Moves([u \in {t} |-> <<step[t], tries[t]>>])
  /\ crashes' = crashes + 1
  /\ UNCHANGED <<doc, sweep, retries, lost, parsed, overlapped>>

\* A message is lost, or never sent by a process that dies first.
Lose(t) ==
  /\ MayLose /\ step[t] # "none" /\ at[t] = "queued"
  /\ Moves([u \in {t} |-> <<"none", 0>>])
  /\ lost' = TRUE
  /\ UNCHANGED <<doc, sweep, crashes, retries, parsed, overlapped>>

-----------------------------------------------------------------------------

Finish(t) ==
  \/ Fail(t) \/ TryAgain(t) \/ Raise(t) \/ Pass(t) \/ SaveThumbnail(t)
  \/ LoadForParsed(t) \/ SaveElsewhere(t) \/ SaveFiles(t) \/ SaveParsed(t)
  \/ Unlock(t) \/ KeepLocked(t) \/ ChainFailed(t)

Next ==
  \/ \E t \in Thread : Take(t) \/ Deny(t) \/ Finish(t) \/ Retry(t) \/ Crash(t) \/ Lose(t)
  \/ FindStuck \/ Reclaim \/ Age

Spec == Init /\ [][Next]_vars

\* Workers take messages and finish tasks, time passes and Beat runs the sweep.
FairSpec ==
  /\ Spec
  /\ \A t \in Thread : WF_vars(Take(t)) /\ WF_vars(Finish(t))
  /\ WF_vars(Age) /\ WF_vars(FindStuck) /\ WF_vars(Reclaim)

-----------------------------------------------------------------------------
(* Properties *)

\* No document is unlocked before its content was parsed and all of it saved, on
\* the document or on the copy that took its place in the corpus: although its
\* status may be reset under a chain that has failed, and stale instances saved.
UnlockedParsed == ~doc.lock => parsed # "no"

\* A document that reads COMPLETED can be used, and one that waits for its chain
\* cannot, whatever stale instances were saved over it.
LockAgrees ==
  /\ doc.status = "COMPLETED" => ~doc.lock
  /\ doc.status = "PENDING" => doc.lock

\* A FAILED document is locked as long as its executions have not overlapped.
FailedLockedAlone == doc.status = "FAILED" /\ ~overlapped => doc.lock

\* The sweep is "the last line of defense": whatever dies or gets lost, a
\* document is not PROCESSING and locked for ever.
StuckReclaimed ==
  (doc.status = "PROCESSING" /\ doc.lock) ~> ~(doc.status = "PROCESSING" /\ doc.lock)

\* Unless messages are lost, every document is finished in the end.
DocumentsSettle == []~lost => ((doc.status \notin Finished) ~> (doc.status \in Finished))

\* _mark_document_failed: "The document remains locked (backend_lock=True) to
\* prevent it from appearing ready for use when it's actually in a broken state".
\* (The code does not keep it: see "What the code does not keep" in the README.)
FailedStaysLocked == doc.status = "FAILED" => doc.lock

\* opencontract-corpus-actions.md: "Corpus actions only run after documents are
\* fully processed (parsed, thumbnailed, embedded)".  Unlocking a document starts
\* them in every corpus it is in by then.
\* (The code does not keep it: see "What the code does not keep" in the README.)
CorpusActionsSeeParsed == [][\A t \in Thread : Unlock(t) => parsed = "yes"]_vars
=============================================================================
