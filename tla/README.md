# OpenContracts in TLA+

Specifications of the server side of OpenContracts, translated from the Django
services and Celery tasks under `src/opencontractserver`, with TLC models of
small instances and TLAPS proofs of every safety property those models are
checked for. `PROJECT.json` lists the components, the runs, the mutants that
show that each property can fail, the theorems, the findings and the hazards,
and its "map" names the source lines behind every definition. Definitions keep
the names of the code where TLA+ allows it.

## 1. The system

OpenContracts stores documents in corpuses, parses, embeds and annotates them,
lets language-model agents work on them, and serves the result over GraphQL,
REST and websockets. PostgreSQL rows are the only durable shared state. Four
kinds of process act on them:

- **web processes** (Django; `ATOMIC_REQUESTS`, one transaction per request),
  which insert rows and enqueue Celery tasks after the commit;
- **Celery workers**, which take messages and run tasks made of several
  transactions, with calls of providers and storage in between;
- **Celery Beat**, which enqueues the drains and the recovery sweeps
  (`config/settings/base.py`);
- **remote workers and harvesters**, which stage work over REST.

Messages are acknowledged late and requeued when a worker is lost
(`CELERY_TASK_ACKS_LATE`, `CELERY_TASK_REJECT_ON_WORKER_LOST`): delivery is at
least once, a message may be lost if the enqueuing process dies before it is
sent, and a task that is not declared idempotent may run twice or overlap with
its own repetition. So the hard behaviour is rarely in one function. It is in
what happens between two transactions of one task, in sweeps that take work
from tasks that are merely slow, in late answers, and in storage that does not
roll back with the database.

### Inventory

| Component | State it keeps | Operations | Interacts with | What makes it correct |
|---|---|---|---|---|
| Ingestion runs (`worker_uploads/run_*.py`) | run row with ceiling, accounted and reserved money; operations; reservations | `route_embedding`, `execute_reservation`, the drain, `control_run` | embedding provider, targets that users edit, uploads bound to the run | money spent and held stays within the ceiling; one call per reservation; late answers do not overwrite |
| Worker uploads (`worker_uploads/tasks.py`, `upload_recovery.py`) | staged receipts with attempt counter, processing token and error history; staged sources | `stage_upload`, `retry_upload`, `process_pending_uploads`, `recover_stalled_uploads` | runs, access tokens, the import into a corpus, storage | one document per receipt; every attempt has one outcome; every receipt is settled |
| Authority-section batches (`worker_uploads/tasks.py`) | staged batches with status and report | push, `process_pending_section_batches`, the second half of the sweep | authority corpora, equivalences | COMPLETED means applied; a verdict is final; every batch gets one |
| Deep research (`research/`, `tasks/research_tasks.py`) | reports with status, findings, cancel flag, progress clock | `start`, `request_cancel`, `run_deep_research`, `reap_stalled_research` | agent framework, notifications | outcomes are not mixed up; findings survive concurrent workers; runs end |
| Chunked uploads (`document_imports/services.py`) | sessions and parts, part files | start, `store_chunk`, `complete_chunked_upload`, purge | imports, storage | the bytes imported are those uploaded, once; the purge spares what is in use |
| Document pipeline (`tasks/doc_tasks.py`) | processing status and backend lock of documents | convert, thumbnail, ingest, unlock, error callback, reconciliation, retry | parsers, thumbnailers, embeddings, corpus actions | nothing is unlocked unparsed; status and lock agree; every document is finished |
| Corpus imports (`tasks/import_tasks_v2.py`, `tasks/doc_tasks.py`) | one import row, one row of pending annotations for each document | enumeration, remap, `_maybe_finalize_corpus_import`, finalization | the pipeline of each document | relationships are wired once, after the last document, from all of them |
| Authority frontier (`enrichment/services/authority_frontier_service.py`) | frontier rows with a discovery state | enqueue, `dequeue_queued`, `mark`, administrators' verbs | crawler, providers | a row is crawled by one worker; none is stranded |
| Versions, paths (`documents/versioning.py`, `corpuses/services/lifecycle.py`) | version trees, path histories | import, add, move, delete, restore, old versions, permanent deletion | everything that shows a corpus | one place per document, one document per path; versions follow the content |
| Corpus actions (`corpuses/services/corpus_actions.py`) | action executions | queue, trigger, run | pipeline, agents | each action runs once per trigger, after processing |
| Extracts, analyses (`tasks/*extract*`, `analyzer/`) | datacells, extract and analysis status | orchestrate, fill, finish | providers, callbacks | finished only when every part is |
| Others | see "components" in `PROJECT.json` | | | |

The first seven rows and the versions and paths are modelled, each as far as its
note in `PROJECT.json` says. The reasons for the others, and the order in which
they are planned, are in sections 6 and 7 and in the components' notes.

## 2. Modules

| Module | Models |
|---|---|
| `Money` | sums of money over a set of rows, as the cardinality of a set of units (no recursion, so that they can be proved about) |
| `IngestionRun` | one run in server embedding mode |
| `UploadReceipts` | abstract: what a remote worker is promised about receipts |
| `WorkerUploads` | the staging table, its drain and its sweep; refines `UploadReceipts` |
| `SectionBatches` | section batches, their drain and their sweep |
| `ResearchReport` | reports and the executions of `run_deep_research` |
| `DocumentPipeline` | the processing chain of one document, its lock, the sweep and the user's retry |
| `CorpusImport` | the fan-in of an import: remaps, observers, finalizers |
| `ChunkedUploads` | one upload session over a storage that does not roll back, and the purge |
| `CorpusFiles` | abstract: what a corpus promises of its documents |
| `CorpusPaths` | the rows of documents and paths and the requests that write them; refines `CorpusFiles` |
| `IngestionRunProofs`, `WorkerUploadsProofs`, `SectionBatchesProofs`, `ResearchReportProofs`, `DocumentPipelineProofs`, `CorpusImportProofs`, `ChunkedUploadsProofs`, `CorpusPathsProofs` | theorems and proofs about the module of that name |
| `MC...` | instances for TLC |

An action is one transaction, or one save where the code saves outside of a
transaction; what the code does between two of them is control state of the
process (`pc`, `batch` and `failing`, `phase`, `step`, `at`, `req`). Where a
transaction holds a lock over a decision that others can observe, by skipping
the row (`CorpusImport`) or by what it does to the storage (`ChunkedUploads`), or
where it writes over what it has read without a lock (`CorpusPaths`), it is more
than one step. Every module has its type invariant, `TypeOK`.

### IngestionRun

`runStatus`, `ceiling`, `accounted`, `reserved` are the run row; `opStatus`,
`attempts`, `created` the operations, which a target and its text identify (the
code digests both into the key); `resStatus`, `settled` the reservations, one
per attempt. A `Text` has a `Cost`, the byte bound at the run's rate. All
transactions lock the run row first, which is why each is atomic.

- `ReadTarget` and `Route` are `route_embedding`: target and vectors are read
  before the lock, the operation is created and admitted under it.
  `RouteRefused` is its refusal of targets it cannot price.
- `Admit` is `_admit_locked` as every caller ends with it: the waiting
  operations, oldest first, are admitted as far as the free allowance goes.
- `Nudge` is the dispatch after the commit, any part of which may be lost.
  `Drain` is the periodic task that dispatches the oldest `DrainBatch` reserved
  rows again.
- `SkipDelivery`, `RefuseDelivery`, `Claim` and `DeliveryRaises` are the first
  transaction of `execute_reservation`: it reads the target's text from storage
  and catches only policy errors, so any other error rolls it back and leaves
  the reservation RESERVED. `access` says whether a target can be read now and
  whether it still belongs to the run's corpus (`ChangeAccess`). `CallProvider`
  the call, answered with usable, unusable or no usage whatever was billed;
  `Settle`, `SettleFails` and `RecordUncertain` the second transaction and the
  exception handler. A message may outlive its delivery, and `Crash` stops a
  worker anywhere.
- `Pause`, `CancelRun`, `Resume`, `CancelOperation`, `RetryOperation` are
  `control_run`, each with its release, admission and dispatch.
- `Edit` and `Reconfigure` are what users and administrators change meanwhile.

`calls` and `billed` are history variables: what the provider really did.

### WorkerUploads and UploadReceipts

`status`, `created`, `token`, `attempts`, `stale` and `errors` are the row;
`file` the staged source, `docs` the documents made of it. A task (`own`,
`batch`, `failing`) claims a batch under one token and works through it, each
upload in a transaction of its own: `SkipLost` if the row is no longer its
attempt, else `BeginImport`, which locks the row and reads the credential once
(`importing`); then `LockRun` if the upload is bound to a run, which is locked
until the commit (`runHolder`); and `Complete`, `YieldToRun` when the run has
stopped or is violated, or `ImportRaises` followed by `RecordFailure`. A token
may be revoked under an import that has begun, which goes on. `Recover` sweeps
any part of the stalled rows (rows locked by an import are skipped).
`ControlRun` waits for the run's row. `FailureRollsBack` and
`RecoverRollsBack` are the transactions that delete a source and then fail.
`Stage`, `RetryUpload` and `Revoke` come from outside.

The refinement maps PENDING and PROCESSING to "accepted", COMPLETED to
"imported", FAILED to "rejected", and the length of the error history to the
failures charged. Claims, crashes, refunds, skipped rows and late failures map
to stutters; a sweep of several rows maps to one `FailAttempts`.

### SectionBatches

Shares the queue and the sweep with uploads but neither holds its row nor
carries a token. `Claim` is the short transaction at the head of the loop;
`Check`, `Bootstrap`, `Equate`, `Complete` and `Raise` the body; `Save` the
unconditional save of the verdict and the report. The equivalence of a batch is
a pair that is malformed for ever (`Malformed`) or whose row is the batch's or
another source's (`owner`, which `Curate` changes meanwhile): `upsert_equivalence`
stores it or skips it, says so in the report, and either way the batch is
COMPLETED.

### ResearchReport

`PassGuard` and `Insert` are the two halves of `start`. `Begin` loads the
report, `MarkStarted` saves RUNNING, `ToolCall` is any tool of the agent that
saves progress and then polls for cancellation, `FinalizeReport` the agent's
own finalization, `ChatEnds` and `Salvage` what follows the chat, `Stopped` the
exception handlers, `Notify` the notification and the end. A worker may be lost
(its message comes back) or killed by the hard time limit (it does not), and
`Reap` enqueues what has gone cold.

### DocumentPipeline

`doc` is the row: status, lock, and whether processing started long ago. A
*thread* is a chain as far as it has come: the message of its next task (`at =
"queued"`) or the execution of it (`"begun"`, `"saving"`), with the instance it
loaded (`copy`) and its retry count. A task ends by sending the next message
(`Sends`); a worker that dies in between leaves its own message with the broker
too, so that one chain becomes two threads. `Take` loads the document (and says
PROCESSING for the first attempt of `ingest_doc`); `Fail`, `TryAgain` and
`Raise` are its three ways to fail, which halt the chain or send the task again
(`raise_on_error_result` is `Succeeds`); `Deny` returns an error and writes
nothing. `save_parsed_data` is `LoadForParsed` and then `SaveFiles` and
`SaveParsed`; or `SaveElsewhere`, if the document was in a corpus when its
ingest began and has been trashed or superseded there since, which users may do
at any time: a copy is added to the corpus and gets the parsed data (`parsed =
"copy"`), while the chain stays with the original. `SaveThumbnail`, `SaveFiles`
and `SaveParsed` save whole instances loaded earlier, over whatever has happened
since; `Unlock` and `KeepLocked` are `set_doc_lock_state`; `ChainFailed` is the
error callback. The sweep checks and saves in two statements (`FindStuck`,
`Reclaim`), `Retry` is the user's `retry_document_processing`. `Crash` and
`Lose` are workers that die and messages that are lost. `overlapped` records
that two executions, or an execution and the sweep, have met on the document.

### CorpusImport

`ImportDoc` is one turn of the loop of `_import_corpus`, `Arm` the moment at
which the run becomes READY. A remap (`Start`, then `Lock` or `Skip` or
`ReadFails`, then `Commit` or `Raise`) takes its row with SKIP LOCKED, imports
the annotations and gives a verdict in one commit. Remaps and the importer are
*observers*: each looks at the run once (`LookAway`, `LockRun`, `Count`, `GiveUp`,
`ClaimRun`, `Dispatch` are the statements of `_maybe_finalize_corpus_import`). A
finalizer reads the run without a lock (`ReadRun`), takes it (`Reclaim`), and
commits the relationships with DONE (`Wire`) or writes FAILED after the rollback
(`WireRaises`, `RecordFailure`). Chains halt, users retry them, documents are
deleted, and workers die at any of these steps.

### ChunkedUploads

A request is one database transaction (`ATOMIC_REQUESTS`), so the committed
`session` and `parts` change in one step at its end, while `storage` changes
under way. `AskToStore` reads the status before the lock, `LockToStore` waits for
the row and deletes the file of a part that is replaced, `Write` and `CommitPart`
follow. `Count`, `Claim`, `Assemble`, `Refuse`, `Import`, `ClearFile` and
`CommitComplete` are `complete_chunked_upload`; ASSEMBLING is written and replaced
within it and is therefore a step of the request and never a committed status.
The purge (`Select`, `List`, `PurgeFile`, `PurgeRows`, `PurgeSession`) runs in no
transaction. `Die` and `PurgeDies` stop either anywhere. `shifted` records the two
cases in which parts change under a request that has counted them.

### CorpusPaths and CorpusFiles

`docs` is the content tree (one document for each version), `rows` the path tree
(one row for each event), both in the order of creation; `erased` and `lost` are
what was deleted from the tables. Requests that lock what they change are single
actions (`AddDocument`, `Move`, `BulkTrash`), except that an import waits for the
row its snapshot found and then sees it as it is by then (`ImportLooks`, `Locked`,
`ImportCreates`, `ImportUpdates`, `ImportRecords`). Requests that read without a
lock have a step for each read and one for the writes: `SoftDelete`, `Restore`,
`RestoreVersion`, `Erase`. A full `save()` of an instance whose row is gone
inserts it again; the foreign keys are checked at the commit, the partial unique
indexes on every write; `Leaves` is a request that is refused or dies. `raced`
records that a request has written over a row it did not know to be superseded.

The refinement maps a version tree to the place and version of its current row.
Until `raced`, every step is an operation of `CorpusFiles` or changes no file.

## 3. Runs

| Run | Instance | States | Checks |
|---|---|---|---|
| `ingestion_retries` | one operation of cost 2, two attempts, ceilings 3 and 5, two workers, targets that become unreadable or leave the corpus | 270 000 | `TypeOK`, `LedgerBalanced`, `SpendCovered`, `OneCallPerReservation`, `RowsAgree`, `CancelledRunDrained`, `OnlyCurrentAttemptPublishes`, `CancellationFinal` |
| `ingestion_edits` | one target that may be unreadable, two texts of cost 1, ceiling 1, drains of one, one worker, fair | 185 000 | `WithinCeiling`, `ActiveRunAdmits`, `PublishedIsCurrent`, `ReservationsServed` |
| `uploads_recovery` | a keyed upload of the run and a legacy one, two tasks, batches of two, two attempts | 339 000 | `OneDocumentPerUpload`, `AttemptsAccounted`, `KeyedKeepsSource`, `StoppedRunImportsNothing`, `KeepsReceipts` |
| `uploads_liveness` | the same uploads, one task, batches of one, fair | 212 000 | `UploadsSettle` |
| `research_workers` | one report, two workers, two findings, two messages, fair | 622 000 | `CleanCompletion`, `FindingsKept`, `RunsEnd` |
| `sections_drain` | two batches, one of them malformed, two tasks, fair | 300 000 | `CompletedApplied`, `NeverRequeued`, `BatchesSettle` |
| `pipeline_faults` | two threads, one retry of a task, one crash, one retry of the user, lost messages, a document that may leave its corpus, fair | 383 000 | `UnlockedParsed`, `LockAgrees`, `FailedLockedAlone`, `StuckReclaimed`, `DocumentsSettle` |
| `import_fan_in` | two documents, two remaps, two finalizers, one interruption, fair | 290 000 | `AnnotationsOnce`, `SettledBeforeWiring`, `WiringComplete`, `WiredOnce`, `ImportsSettle` |
| `chunked_requests` | two parts, two requests, three file names, one crash | 562 000 | `ImportedOnce`, `ImportedWhole`, `PartsBacked` |
| `corpus_paths` | two paths, two requests, five rows, three documents | 199 000 | `VersionsFollowContent`, `OnePlace`, `ActsAsFiles` |

The following runs are expected to find their one property violated; section 4
tells what each shows.

| Run | Instance | Violated |
|---|---|---|
| `import_wake_up` | as `import_fan_in`, with nothing going wrong | `WakeUpKept` |
| `chunked_purge` | as `chunked_requests`, with no crash | `ClaimedPartsKept` |

Every property is stated with its meaning in its module, and every property of
a passing run has a mutant, an operator named next to the definition it
replaces, that breaks it the way a plausible bug would.

**Bounds.** Two workers or tasks are what a race needs: the one that is late and
the one that overtook it; a third only repeats either. Two attempts make "the
attempt before" and "no attempt left" happen. The ceilings 3 and 5 with cost 2
make one attempt fit, the retry exhaust the budget, and a raise pay it. Two
texts suffice for an edit away and back, and make two operations compete for one
ceiling and one drained batch. With the ceiling of `ingestion_edits` only one of
them is ever admitted at a time: a reservation behind unreadable ones that fill
the batch waits in the code too, and the property promises nothing while a
target stays unreadable. The limit of the drain is global in the code; here one
run has it for itself. Batches of two put a row at the end of a batch that is
lost to the sweep before its turn; batches of one let one upload hold up
another. Two findings are needed to lose one; two messages are one more than a
start needs, so redelivery and reaper overlap. Two threads of a chain are the
chain and its redelivered part, or the old chain and the retried one. Two
documents of an import are one that is late and one that is not; two finalizers
and two wirings allow the second wiring that must not happen. Three names for
the file of a part are enough for the file that is replaced, its successor and
one that was left behind. Five rows allow an import, its update, a deletion, a
restoration and one more event of a race; three documents allow two versions of
one file and another file beside it. `MaxFindings` and `MaxMessages` bound
counters the code does not bound (`Room` and the guard of `ToolCall` enforce
them), as do `MaxTries`, `MaxCrashes` and `MaxRetries` (`DocumentPipeline`),
`MaxWirings` and `MaxInterrupts` (`CorpusImport`), `MaxCrashes` and the set
`Name` (`ChunkedUploads`), and `MaxRows` and `MaxDocs` (`CorpusPaths`); the
finite `Token` set stands for uuids that are never reused while in use.

**Symmetry** is used in safety runs only, over workers, tasks, tokens, requests
and paths, which are compared for equality and nothing else.

**Deadlock** is checked for the runs of `IngestionRun` and `CorpusPaths`.
Elsewhere `CHECK_DEADLOCK` is off because a system whose work is all done may
rightly stop.

### Fairness

- Beat runs `process_pending_ingestion_operations` every 30 s, the upload drain
  every 60 s, the sweep and the reaper every 300 s: weak fairness of `Drain`,
  `Claim`, `Recover` and `Reap`. For uploads the fairness of `Recover` is per
  upload: a sweep is limited and skips locked rows, but a row it left is
  eligible for the next.
- Time passes: weak fairness of `Age` and `GoCold`.
- A process that has work proceeds unless it dies: weak fairness of its steps.
  The chat of an agent ends because its steps and tokens are limited.
- The broker is first in, first out, so no message is overtaken for ever:
  strong fairness of delivering one message, since other deliveries can disable
  it in between.
- Pipelines and imports: workers take messages and finish the tasks they have
  begun (`Take`, `Finish`, `Deliver`, `Remap`, `Observe`, `ReadRun`, `Finalize`, and
  the import's own loop), Beat runs `reconcile_stuck_documents` (`FindStuck`,
  `Reclaim`). A user's retry of a failed document is not fair.
- Users, operators, edits, revocations, crashes and failures are never fair,
  and where they could prevent progress for ever, the property says so:
  `UploadsSettle` assumes that operators leave the run alone in the end,
  `RunsEnd` and `BatchesSettle` that workers stop dying, `DocumentsSettle` that no
  message is lost, `ReservationsServed` that no target stays unreadable,
  `ImportsSettle` that nothing is interrupted, that halted chains
  are retried in the end and that observers do not meet at the run's row, which
  is when the import is lost (`WakeUpKept`). `StuckReclaimed` assumes none of it.

## 4. Findings

1. `import_wake_up`. An observer holds the READY row and counts a document that
   is still pending. That document's remap commits, finds the row locked, skips
   it and returns; the first observer then gives up. Every document is settled,
   no observer is left and no sweep looks for such imports: the run stays READY
   and its relationships are never wired. The docstring promises robustness to
   exactly this race (`doc_tasks.py:1982`).
2. `chunked_purge`. ASSEMBLING is meant to keep the purge away from a session that
   is being completed (`document_imports/services.py:1479`), but it is written
   inside the transaction of the request that also ends it, so that no other
   connection ever reads it. The purge deletes the parts of a stale session under
   the request that has claimed it.

### What the code does not keep

These properties are defined in the modules, state what the code, its comments
or its constraints intend, and are violated by the code and by the models. Each
entry names the smallest instance in which TLC finds the violation when the
property is listed in a `.cfg`.

- `ResearchReport!OneActivePerPair` (two reports of one pair in the instance):
  `select_for_update` over no rows locks nothing, so two overlapping `start`
  calls pass the guard and both insert.
- `ResearchReport!CancelStopsRun`: `ResearchCancelled` is raised inside a tool,
  and the tool wrapper turns it into the text of a tool error. The agent carries
  on; the handler that marks the report CANCELLED is out of its reach.
- `ResearchReport!StaysEnded` (one report, two workers): `mark_started` saves
  RUNNING without looking at the stored status. Of two executions that loaded a
  report, one may end it before the other brings it back, although
  `research_reports.py:781` says that no path resets a report out of a terminal
  state.
- `WorkerUploads!SourceKeptWhileRetryable` (one upload of the run, one attempt,
  one task): the sweep and `_fail_upload` delete the staged source inside the
  transaction that makes the row terminal. If that transaction rolls back, the
  row is still PROCESSING without a source; a stopped run then gives the attempt
  back, and a keyed receipt waits with an attempt left and nothing to import.
- `SectionBatches!NoDoubleProcessing` (one batch, two tasks): a batch that
  outlasts the stale limit is reset under the task that is processing it, and
  processed twice at once. What the code relies on, that bootstrapping and
  equivalences are idempotent, is why `CompletedApplied` holds nevertheless.
- `DocumentPipeline!FailedStaysLocked` (two threads): a redelivered ingest that
  fails after the chain has gone on and unlocked the document leaves it FAILED and
  unlocked (`doc_tasks.py:121`).
- `DocumentPipeline!CorpusActionsSeeParsed` (one thread): corpus actions are
  triggered for documents that are ready
  (`docs/architecture/opencontract-corpus-actions.md:19`). A document that has
  left its corpus during the parse is unlocked, and its actions run, though its
  parsed data went to a copy (`parser.py:186`).
- `CorpusImport!NeverDoubleWired` (one document, one remap, two finalizers): a
  finalizer that fails writes FAILED over the DONE of another, and the next
  delivery wires the relationships again, where `doc_tasks.py:2029` promises that
  a duplicate delivery never double-wires.
- `CorpusPaths!OneCurrentRow` (one path, two requests, three rows): deletions
  and restorations read the current row without a lock and append to it after
  another request has superseded it. The document is then at two places
  (`documents/models.py:835` promises one), and emptying the trash takes the
  version in use with it.
- `CorpusPaths!ErasesTrashOnly` (the same instance): a permanent deletion checks
  without a lock that the document is in the trash, and erases it although it has
  been restored meanwhile (`documents/versioning.py:986`).

Observed while modelling, without a property of their own:

- A staged upload fails when its token is revoked before the drain gets to it;
  `docs/worker_uploads/walkthrough.md:412` says queued uploads continue. The same
  page (269) says stalled uploads are reset to PENDING; without attempts left
  they become FAILED.
- A late failure of an attempt that has already been abandoned by a retry, while
  the run is paused, turns the operation's WAITING into UNCERTAIN.
- A reservation whose input has changed is refused, and the run violated, at
  every resume until its operation is cancelled.
- The periodic drain takes the oldest reserved rows of all runs, up to its limit.
  Reservations that cannot be delivered, because their targets' texts cannot be
  read, stay reserved and keep their places; enough of them starve every run.
- A vector that was stored for an older text is not refreshed: `route_embedding`
  skips a target that has any valid vector.
- While operators keep resuming a run whose oldest uploads violate its policy,
  these are claimed and given back for ever, ahead of everything staged later.
- A worker that dies after a report has ended and before `Notify` leaves the
  user untold: the redelivered message is skipped, although the task's docstring
  promises a notification on every terminal state. A worker that is refused by
  `finalize_once` announces completion of a report that was cancelled or failed.
- A soft time limit between `finalize_report` and the end of the task turns a
  COMPLETED report into CANCELLED. A report whose message was lost before it
  was sent stays QUEUED; the reaper looks at RUNNING reports only.
- A task that lost a section batch can save FAILED, with an empty report, over
  another's COMPLETED; an older batch that was reset is applied after a newer
  one of the same sections.
- Saves of whole instances (`save_parsed_data`, thumbnailers) write the status and
  the lock as they were when the instance was loaded. A document that is ingested
  twice has its annotations twice. A PENDING document whose message is lost stays
  PENDING: the sweep looks at PROCESSING only.
- A part stored between the count and the claim of `complete_chunked_upload`, or
  whose replacement is rolled back after its file was deleted, changes what is
  assembled after it was counted. A part can be stored in a session that has been
  completed meanwhile.
- An import that waits for a row that is superseded meanwhile finds nothing and
  creates a second tree at the path; the unique index refuses it, with an
  IntegrityError instead of a new version.
- `RestoreDocumentToVersion` may insert a document and a row again that were
  erased meanwhile. Permanent deletion of a document leaves its earlier versions
  and their rows. `versioning.restore_document` by path expects one deleted row and
  raises after a path has been imported and deleted twice.
  `get_filesystem_at_time` shows a moved document at both places.

## 5. Proofs

The runs cover small instances; the theorems hold for every value of the
constants that satisfies the named assumptions: finite sets of targets, texts,
uploads and research workers, natural costs, ceilings and bounds (at least one
attempt, drains of at least one row), keyed uploads among the uploads and bound
ones among the keyed, paths other than the three words that stand for places
without a path (`PathsAssumption`), and `None`, `NoCopy` and `NoPart` distinct
from what they stand beside. TLC evaluates these assumptions in the passing
runs.

Every safety invariant and every safety action property of the passing runs has
a theorem, and so have both refinements. Each proof has one inductive invariant,
named below, that was checked by TLC on the instance of its run before it was
proved; what it adds to the properties is what the properties silently rest on.

**`IngestionRunProofs`.** `TypeCorrect`, `BudgetSafe` (`WithinCeiling`) and
`LedgerExact` (`LedgerBalanced`) are about the money. The invariant is

    LedgerInv == TypeOK /\ AttemptsCounted /\ JobsClaimed /\ LedgerBalanced /\ WithinCeiling

`LedgerBalanced` alone is not inductive: an admission adds the amount of a fresh
reservation, which is right only if that reservation was not held before
(`AttemptsCounted`: rows exist only for counted attempts), and settling takes an
amount out, which is right only if it is held and no more is accounted than was
held (`JobsClaimed`: what a worker executes was claimed, and answered within its
bound). `AdmittedFits` is the heart of it: the operations admitted oldest first
by running totals fit in the free allowance all together, because the youngest
admitted one has all the others ahead of it. `AdmitPreserves` then serves every
operation that ends in an admission. The module begins with the algebra of sums,
proved from cardinalities since folds and recursion are out of the provers'
reach here.

`RowsConsistent` (`RowsAgree`), `ActiveAdmits` (`ActiveRunAdmits`) and
`CancelledDrained` (`CancelledRunDrained`) are about the rows. `RowsInv` adds to
these three that a started reservation belongs to an operation that runs or was
cancelled, and that an operation not routed yet has no attempts and a running
one at least one. The three
are proved together because one sweep of admissions changes all of them:
`RowsReady` says what the rows are when a sweep is handed to `Admit`, and one
lemma shows that it leaves them agreeing, whichever caller changed them first.

`OneCall` (`OneCallPerReservation`) and `AllSpendCovered` (`SpendCovered`) follow
from `CallsInv`: a reservation that was not claimed was not called for; one
worker at a time is about to call for it, and only if nobody has; what it holds
as its receipt is what was billed, and what settles is that receipt. With
`BudgetSafe`, `SpendCovered` says that the bills of the provider stay within the
ceiling. `PublishesCurrent`, `OnlyCurrentPublishes` and `CancelledForGood` are
action properties, each a case analysis of the steps under `RunInv`, the
conjunction of the three invariants.

**`WorkerUploadsProofs`.** `OneDocument`, `AttemptsExact`, `AttemptsBounded` and
`ReceiptsKept`. `AttemptsBounded` has no run: it states the module's types and
`QueuedHasAttempts`, which the invariant needs. The invariant is

    ReceiptInv == TypeOK /\ TokensUnique /\ FencedRows /\ RowsExact /\ ImportsHeld

`RowsExact` says what a row's counters are in each status. That a failure or an
import is charged to the attempt that made it needs the fence: a row that bears
the token of a running task that still has to deal with it is PROCESSING
(`FencedRows`), which in turn needs that tokens of running tasks differ
(`TokensUnique`). `ReceiptsKept` is the refinement: the initial states agree,
and under `ReceiptInv` every step is a step of `UploadReceipts` or a stutter.
`RetryHasSource` (`KeyedKeepsSource`) adds `SourceHeld`: a keyed receipt has its
source from staging on, in every status from which it may yet fail with an
attempt left. An import that has begun holds its row, so a sweep passes it by
(`ImportsHeld`). `StoppedRunsHold` (`StoppedRunImportsNothing`) needs besides that
the run is ACTIVE as long as an import has it locked (`HeldRunActive`): control
waits for the commit, or the import finds the run stopped.

**`SectionBatchesProofs`.** `AppliedWhenCompleted` (`CompletedApplied`) and
`VerdictsStand` (`NeverRequeued`). Since verdicts are saved late, over whatever
another task has done, the invariant speaks of every task's instance: a task
that is through with a verdict of COMPLETED has the sections of its batch in, and
its report tells what has become of the equivalence (`VerdictEarned`,
`BootstrappedIn`). `Told` is stated so that it lasts: sections are never taken
out, a malformed pair stays malformed, and the batch's own row is nobody else's
to change.

**`ResearchReportProofs`.** `CompletedClean` (`CleanCompletion`) needs to know
where an error can be: on reports that have ended badly and nowhere else
(`ErrorsEnded`). `FindingsOnlyWithheld` (`FindingsKept`) is an action property of
every save of every worker. `ReportTypes` states the types and with them that the
queue is bounded: the messages of a report and the workers they became are
together at most `MaxMessages` (`LoadBounded`), whatever is redelivered.

**`DocumentPipelineProofs`.** `OnlyParsedUnlocked` (`UnlockedParsed`),
`StatusAndLock` (`LockAgrees`) and `FailedKeepsLock` (`FailedLockedAlone`). A
save writes a whole instance over the row, however old it is, so what is true of
the row has to be true of every instance as well: `CopiesAgree` (status and lock
of an instance agree) and `ParsedFirst` (no instance is unlocked before the
parsed data is saved, on the document or on the copy that replaced it). `Alone`
says what "no overlap" gives: one thread at most, a locked document, and a sweep
that has it for itself.

**`CorpusImportProofs`.** `ImportedAtMostOnce` (`AnnotationsOnce`),
`WiringAfterLast` (`SettledBeforeWiring`), `WiringFromAll` (`WiringComplete`) and
`WiringNotRepeated` (`WiredOnce`). The invariant has one part for each of the
three locks and one for what it protects: a remap owns a PENDING row
(`RowsOwned`, `VerdictFirst`), an observer owns a READY run, and what it has
counted stays counted (`RunOwned`, `ArmedThenClaimed`), and a finalizer owns the
run that it wires (`WiringOwned`).

**`ChunkedUploadsProofs`.** `OneImport` (`ImportedOnce`), `ImportsTheWhole`
(`ImportedWhole`) and `RowsAndFiles` (`PartsBacked`). `LockOwned` is the lock of the
session; `FilesMatch` says that a file that is there has the size of its row
unless its part is being replaced, since a storage may give the name of a
deleted file again; `CountedWhole` follows what was counted until it is
imported: the whole of it, or nothing if the purge was there first;
`FilesBacked` names the request that has deleted a file when one is missing.

**`CorpusPathsProofs`.** `VersionsCount` (`VersionsFollowContent`),
`OneFileOneRow` (`OnePlace`) and the refinement `ImplementsFiles` (`ActsAsFiles`).

    PathsInv == /\ TypeOK /\ Linked /\ Requested
                /\ VersionsFollowContent /\ ForeignKeys /\ PathsApart
                /\ ~raced => Orderly

The first two lines (`Base`) hold whatever races: every handler adds rows and
documents and changes nothing of those that exist but their current flag, and
what a request remembers of a row (that it is in the trash, which document it
points to) is of the kind that never changes (`Remembers`). `Orderly` holds until
a race: `OnePlace` as three facts about rows and documents (`Placed`,
`HeadsCurrent`, `CurrentPlaced`), with two more about deletion. A full save may
insert again what was erased, and would bring an erased row into a tree that has
another; that it never does without a race is `ErasedGone` (the document of an
erased row is gone too, so the foreign keys refuse a restoration, and an erased
row that is current is one from the trash, which a deletion does not read). And
a permanent deletion takes whatever descends from the rows of one document;
that these all belong to documents it takes as well is `ContentDescends` (a row
with other content than its predecessor has a version made from it). Every
handler that supersedes one row is one lemma about `Moves`, whichever way it
locks; a bulk deletion is the same for a set of rows.

For the refinement, `MovesFiles`, `CreateFiles`, `BulkFiles` and `EraseFiles` show
which operation of `CorpusFiles` each of these is: the file of one tree (of the
deleted trees) changes, a path that no active row has is free, and the versions
that a content change adds are no trees of their own. `Cascade`, what a deletion
takes along, is defined as the least set that is closed under children, which
needs no recursion.

**Model-checked only.** The liveness properties (`ReservationsServed`,
`UploadsSettle`, `RunsEnd`, `BatchesSettle`, `StuckReclaimed`, `DocumentsSettle`,
`ImportsSettle`): the provers have neither fairness nor ENABLED. The violated
properties of section 4 have counterexamples instead of proofs. The instances
are finite where the theorems are not, but TLC also checks what no proof does:
that the mutants of every property break it, and that every action happens.

## 6. Plan

In this order:

1. An abstract budget that `IngestionRun` refines, and a composition of
   `WorkerUploads` with `IngestionRun` over the run's status, which each now
   sees as a free environment of the other.
2. `AuthorityFrontier`: claims with SKIP LOCKED, marks, the administrators'
   verbs, crashes that strand rows.
3. Extracts (a chord of datacells and its body) and the batching of the embedder
   service.

## 7. What is not modelled

- Content: texts, payloads, metadata and reports are abstracted to what the
  properties tell apart. Blank texts and multimodal annotations appear as
  refusals. The import of an upload is one step that adds a document. A section
  batch has one equivalence.
- The limit of the drain of ingestion operations as several runs share it.
- Prepared results, readiness and policy validation of a run; rate limits;
  deletion of corpuses and users that cascades to rows in use.
- Replays of an idempotency key, which return a receipt and change nothing
  (the look-up and the insert are serialised by an advisory lock).
- Components without a module: the authority frontier, whose rows stay
  `in_progress` when a crawler dies (nothing requeues them), corpus actions,
  forks, extracts, analyses, and the request layers; see the components' notes.
- Folders, history queries and the way a free path is computed; parsers,
  thumbnailers and the chunks of a chunked parse inside one task; the start of a
  chunked session, sizes and hashes beyond "the declared bytes or fewer".
- Real time: clocks appear as "stale", "long ago" and "cold" marks that may be
  set at any moment, so a sweep may always be too early for a slow task, as it
  may be in the code.
- Isolation anomalies within one transaction: rows are locked where the code
  locks them, and where it reads before it locks the model has two steps.
