---------------------------- MODULE CorpusImport ----------------------------
(***************************************************************************)
(* A corpus import in reingest mode (opencontractserver/tasks): _import_   *)
(* corpus enumerates the documents, each gets a processing chain of its    *)
(* own whose remap imports the deferred annotations, and whoever sees the  *)
(* last of them done dispatches the task that wires the relationships.     *)
(* A transaction that holds a row lock over a decision is more than one    *)
(* step; "chain" stands for everything before the remap.                   *)
(***************************************************************************)
EXTENDS Naturals, FiniteSets

CONSTANTS
  Doc,         \* documents of the archive
  Task,        \* concurrent executions of remap_pending_annotations
  Finalizer,   \* concurrent executions of finalize_corpus_import_relationships
  Importer,    \* the execution of _import_corpus
  None,        \* no document
  MaxWirings,  \* bound on how often relationships are wired
  MaxInterrupts, \* bound on workers that die and documents that are deleted
  Faulty       \* whether workers die, chains halt and documents are deleted

ASSUME ImporterAssumption == Importer \notin Task
ASSUME FaultyAssumption == Faulty \in BOOLEAN /\ MaxWirings \in Nat /\ MaxInterrupts \in Nat

Observer == Task \cup {Importer}

VARIABLES
  run,         \* PendingCorpusImport.status
  tried,       \* documents the import's loop has been through
  importing,   \* whether that loop is still running
  interrupts,  \* workers that died and documents that were deleted
  row,         \* status of each document's PendingDocumentAnnotations
  anns,        \* how often its annotations were imported
  chain,       \* its processing chain: "none", "running", "halted" or "over"
  job,         \* document each remap works on, or None
  step,        \* "idle", "listed", "locked" (row and annotations) or "handled"
  look,        \* each observer's turn in _maybe_finalize_corpus_import
  sent,        \* a finalize message is with the broker
  fin,         \* each finalizer: "idle", "read", "locked", "raised" or "done"
  wired,       \* how often the relationships were created
  wiredFrom,   \* documents whose id_map the last wiring used
  overwritten  \* a failed finalizer has overwritten DONE

importVars == <<tried, importing, interrupts>>
taskVars == <<row, anns, chain, job, step>>
finVars == <<sent, fin, wired, wiredFrom, overwritten>>
vars == <<run, importVars, taskVars, look, finVars>>

RunStatus == {"ENUMERATING", "READY", "FINALIZING", "DONE", "FAILED"}

TypeOK ==
  /\ run \in RunStatus
  /\ tried \subseteq Doc /\ importing \in BOOLEAN /\ interrupts \in 0..MaxInterrupts
  /\ row \in [Doc -> {"none", "PENDING", "DONE", "FAILED", "gone"}]
  /\ anns \in [Doc -> Nat]
  /\ chain \in [Doc -> {"none", "running", "halted", "over"}]
  /\ job \in [Task -> Doc \cup {None}]
  /\ step \in [Task -> {"idle", "listed", "locked", "handled"}]
  /\ look \in [Observer -> {"no", "due", "locked", "remaining", "clear", "claimed"}]
  /\ sent \in BOOLEAN /\ overwritten \in BOOLEAN
  /\ fin \in [Finalizer -> {"idle", "read", "locked", "raised", "done"}]
  /\ wired \in 0..MaxWirings /\ wiredFrom \subseteq Doc

Init ==
  /\ run = "ENUMERATING"
  /\ tried = {} /\ importing = TRUE /\ interrupts = 0
  /\ row = [d \in Doc |-> "none"]
  /\ anns = [d \in Doc |-> 0]
  /\ chain = [d \in Doc |-> "none"]
  /\ job = [t \in Task |-> None]
  /\ step = [t \in Task |-> "idle"]
  /\ look = [o \in Observer |-> "no"]
  /\ sent = FALSE
  /\ fin = [f \in Finalizer |-> "idle"]
  /\ wired = 0 /\ wiredFrom = {} /\ overwritten = FALSE

-----------------------------------------------------------------------------
(* The import *)

\* The document and its row are committed together and the chain is sent with
\* them; unchanged and source-less documents get a DONE row; an import that
\* raises is logged and leaves no row.
ImportDoc(d) ==
  /\ importing /\ d \notin tried
  /\ tried' = tried \cup {d}
  /\ \/ /\ row' = [row EXCEPT ![d] = "PENDING"]
        /\ chain' = [chain EXCEPT ![d] = "running"]
        /\ UNCHANGED anns
     \/ /\ row' = [row EXCEPT ![d] = "DONE"]
        /\ anns' = [anns EXCEPT ![d] = 1]
        /\ UNCHANGED chain
     \/ UNCHANGED <<row, chain, anns>>
  /\ UNCHANGED <<run, importing, interrupts, job, step, look, finVars>>

\* All documents are enumerated; the importer becomes the first observer.
Arm ==
  /\ importing /\ tried = Doc
  /\ run' = "READY"
  /\ importing' = FALSE
  /\ look' = [look EXCEPT ![Importer] = "due"]
  /\ UNCHANGED <<tried, interrupts, taskVars, finVars>>

\* The import raises or its worker dies, before or after the run is armed.
ImporterDies ==
  /\ Faulty /\ interrupts < MaxInterrupts
  /\ importing \/ look[Importer] # "no"
  /\ interrupts' = interrupts + 1
  /\ importing' = FALSE
  /\ look' = [look EXCEPT ![Importer] = "no"]
  /\ UNCHANGED <<run, tried, taskVars, finVars>>

-----------------------------------------------------------------------------
(* remap_pending_annotations *)

\* Mutant of Importable: the row is not looked at again under its lock.
ImportableUnchecked(d) == \A u \in Task : ~(job[u] = d /\ step[u] = "locked")

\* SELECT ... FOR UPDATE SKIP LOCKED, and the status again.
Importable(d) ==
  /\ \A u \in Task : ~(job[u] = d /\ step[u] = "locked")
  /\ row[d] = "PENDING"

\* A delivery of the chain's remap; there may be several.
Start(t, d) ==
  /\ job[t] = None
  /\ chain[d] = "running" /\ row[d] = "PENDING"
  /\ job' = [job EXCEPT ![t] = d]
  /\ step' = [step EXCEPT ![t] = "listed"]
  /\ UNCHANGED <<run, importVars, row, anns, chain, look, finVars>>

\* Nothing is pending: the task returns without looking at the run.
StartForNothing(d) ==
  /\ chain[d] = "running" /\ row[d] # "PENDING"
  /\ chain' = [chain EXCEPT ![d] = "over"]
  /\ UNCHANGED <<run, importVars, row, anns, job, step, look, finVars>>

Lock(t) ==
  /\ step[t] = "listed" /\ Importable(job[t])
  /\ step' = [step EXCEPT ![t] = "locked"]
  /\ UNCHANGED <<run, importVars, row, anns, chain, job, look, finVars>>

\* The task is through with its rows and observes the run.
Handled(t) ==
  /\ step' = [step EXCEPT ![t] = "handled"]
  /\ look' = [look EXCEPT ![t] = "due"]

\* FAILED if nothing landed although something was asked for.
Verdict(landed) == IF landed THEN "DONE" ELSE "FAILED"

\* Annotations, relationships and verdict in one commit.
Commit(t) ==
  /\ step[t] = "locked"
  /\ \E landed \in BOOLEAN :
       /\ row' = [row EXCEPT ![job[t]] = Verdict(landed)]
       /\ anns' = IF landed THEN [anns EXCEPT ![job[t]] = @ + 1] ELSE anns
  /\ Handled(t)
  /\ UNCHANGED <<run, importVars, chain, job, finVars>>

\* Another execution has the row or has finished it.
Skip(t) ==
  /\ step[t] = "listed" /\ ~Importable(job[t])
  /\ Handled(t)
  /\ UNCHANGED <<run, importVars, row, anns, chain, job, finVars>>

\* The layers cannot be read: the row is saved as FAILED without a lock and
\* whatever it says by now.
ReadFails(t) ==
  LET d == job[t] IN
  /\ Faulty /\ step[t] = "listed"
  /\ \A u \in Task : ~(job[u] = d /\ step[u] = "locked")
  /\ row' = [row EXCEPT ![d] = IF @ = "gone" THEN @ ELSE "FAILED"]
  /\ Handled(t)
  /\ UNCHANGED <<run, importVars, anns, chain, job, finVars>>

Gone(t) ==
  /\ job' = [job EXCEPT ![t] = None]
  /\ step' = [step EXCEPT ![t] = "idle"]

\* The import of annotations raises: it is rolled back and the chain halts.
Raise(t) ==
  /\ Faulty /\ step[t] = "locked"
  /\ Gone(t)
  /\ chain' = [chain EXCEPT ![job[t]] = "halted"]
  /\ UNCHANGED <<run, importVars, row, anns, look, finVars>>

\* A worker is lost; the message comes back.
Crash(t) ==
  /\ Faulty /\ interrupts < MaxInterrupts /\ job[t] # None
  /\ Gone(t)
  /\ look' = [look EXCEPT ![t] = "no"]
  /\ chain' = [chain EXCEPT ![job[t]] = "running"]
  /\ interrupts' = interrupts + 1
  /\ UNCHANGED <<run, tried, importing, row, anns, finVars>>

-----------------------------------------------------------------------------
(* The chain before the remap *)

\* Conversion or parsing fails: the document is FAILED and nothing is remapped.
Halt(d) ==
  /\ Faulty /\ chain[d] = "running" /\ \A t \in Task : job[t] # d
  /\ chain' = [chain EXCEPT ![d] = "halted"]
  /\ UNCHANGED <<run, importVars, row, anns, job, step, look, finVars>>

\* retry_document_processing.
Retry(d) ==
  /\ chain[d] = "halted"
  /\ chain' = [chain EXCEPT ![d] = "running"]
  /\ UNCHANGED <<run, importVars, row, anns, job, step, look, finVars>>

\* A document is deleted, with its row.
Delete(d) ==
  /\ Faulty /\ interrupts < MaxInterrupts
  /\ row[d] \in {"PENDING", "DONE", "FAILED"}
  /\ \A t \in Task : ~(job[t] = d /\ step[t] = "locked")
  /\ row' = [row EXCEPT ![d] = "gone"]
  /\ interrupts' = interrupts + 1
  /\ UNCHANGED <<run, tried, importing, anns, chain, job, step, look, finVars>>

-----------------------------------------------------------------------------
(* _maybe_finalize_corpus_import *)

\* An execution that is done with the run is done altogether; a duplicate that
\* skipped a row leaves the message to the execution that has it.
Leaves(o) ==
  /\ look' = [look EXCEPT ![o] = "no"]
  /\ job' = [t \in Task |-> IF t = o THEN None ELSE job[t]]
  /\ step' = [t \in Task |-> IF t = o THEN "idle" ELSE step[t]]
  /\ chain' = [d \in Doc |-> IF o \in Task /\ d = job[o] /\ row[d] # "PENDING"
                            THEN "over" ELSE chain[d]]

RunHeld == \E o \in Observer : look[o] \in {"locked", "remaining", "clear"}

\* Mutant of Claimable: a run that is still being enumerated may be claimed.
ClaimableEarly == run \in {"ENUMERATING", "READY"} /\ ~RunHeld

\* SELECT ... FOR UPDATE SKIP LOCKED of the READY row.
Claimable == run = "READY" /\ ~RunHeld

LookAway(o) ==
  /\ look[o] = "due" /\ ~Claimable
  /\ Leaves(o)
  /\ UNCHANGED <<run, importVars, row, anns, finVars>>

LockRun(o) ==
  /\ look[o] = "due" /\ Claimable
  /\ look' = [look EXCEPT ![o] = "locked"]
  /\ UNCHANGED <<run, importVars, taskVars, finVars>>

\* Mutant of Remaining: a failed row holds the run up.
RemainingUnfinished == \E d \in Doc : row[d] \in {"PENDING", "FAILED"}

\* Mutant of Remaining: documents whose chain has halted are not waited for.
RemainingRunning == \E d \in Doc : row[d] = "PENDING" /\ chain[d] = "running"

Remaining == \E d \in Doc : row[d] = "PENDING"

Count(o) ==
  /\ look[o] = "locked"
  /\ look' = [look EXCEPT ![o] = IF Remaining THEN "remaining" ELSE "clear"]
  /\ UNCHANGED <<run, importVars, taskVars, finVars>>

\* The lock is released; "a later observer will re-attempt the claim".
GiveUp(o) ==
  /\ look[o] = "remaining"
  /\ Leaves(o)
  /\ UNCHANGED <<run, importVars, row, anns, finVars>>

ClaimRun(o) ==
  /\ look[o] = "clear"
  /\ run' = "FINALIZING"
  /\ look' = [look EXCEPT ![o] = "claimed"]
  /\ UNCHANGED <<importVars, taskVars, finVars>>

Dispatch(o) ==
  /\ look[o] = "claimed"
  /\ sent' = TRUE
  /\ Leaves(o)
  /\ UNCHANGED <<run, importVars, row, anns, fin, wired, wiredFrom, overwritten>>

-----------------------------------------------------------------------------
(* finalize_corpus_import_relationships *)

FinHeld == \E f \in Finalizer : fin[f] = "locked"

\* Mutant of Rerunnable: a run that is DONE is wired again.
RerunnableAlways == run \in {"FINALIZING", "FAILED", "DONE"}

Rerunnable == run \in {"FINALIZING", "FAILED"}

ReadRun(f) ==
  /\ sent /\ fin[f] = "idle"
  /\ fin' = [fin EXCEPT ![f] = IF Rerunnable THEN "read" ELSE "done"]
  /\ UNCHANGED <<run, importVars, taskVars, look, sent, wired, wiredFrom, overwritten>>

Reclaim(f) ==
  /\ fin[f] = "read" /\ ~FinHeld
  /\ fin' = [fin EXCEPT ![f] = IF Rerunnable THEN "locked" ELSE "done"]
  /\ UNCHANGED <<run, importVars, taskVars, look, sent, wired, wiredFrom, overwritten>>

\* Relationships and DONE in one commit.
Wire(f) ==
  /\ fin[f] = "locked" /\ wired < MaxWirings
  /\ run' = "DONE"
  /\ wired' = wired + 1
  /\ wiredFrom' = {d \in Doc : row[d] = "DONE"}
  /\ fin' = [fin EXCEPT ![f] = "done"]
  /\ UNCHANGED <<importVars, taskVars, look, sent, overwritten>>

\* The wiring raises and is rolled back with the lock; FAILED is written in a
\* statement of its own.
WireRaises(f) ==
  /\ Faulty /\ fin[f] = "locked"
  /\ fin' = [fin EXCEPT ![f] = "raised"]
  /\ UNCHANGED <<run, importVars, taskVars, look, sent, wired, wiredFrom, overwritten>>

RecordFailure(f) ==
  /\ fin[f] = "raised" /\ ~FinHeld
  /\ overwritten' = (overwritten \/ run = "DONE")
  /\ run' = "FAILED"
  /\ fin' = [fin EXCEPT ![f] = "done"]
  /\ UNCHANGED <<importVars, taskVars, look, sent, wired, wiredFrom>>

\* The message is acknowledged when the task has returned.
Acknowledge(f) ==
  /\ fin[f] = "done"
  /\ sent' = FALSE
  /\ fin' = [fin EXCEPT ![f] = "idle"]
  /\ UNCHANGED <<run, importVars, taskVars, look, wired, wiredFrom, overwritten>>

FinalizerCrashes(f) ==
  /\ Faulty /\ interrupts < MaxInterrupts /\ fin[f] # "idle"
  /\ sent' = TRUE
  /\ fin' = [fin EXCEPT ![f] = "idle"]
  /\ interrupts' = interrupts + 1
  /\ UNCHANGED <<run, tried, importing, taskVars, look, wired, wiredFrom, overwritten>>

-----------------------------------------------------------------------------

Import == Arm \/ \E d \in Doc : ImportDoc(d)

Remap(t) == Lock(t) \/ Commit(t) \/ Skip(t) \/ ReadFails(t) \/ Raise(t)

Observe(o) ==
  LookAway(o) \/ LockRun(o) \/ Count(o) \/ GiveUp(o) \/ ClaimRun(o) \/ Dispatch(o)

Finalize(f) ==
  Reclaim(f) \/ Wire(f) \/ WireRaises(f) \/ RecordFailure(f) \/ Acknowledge(f)

Deliver(d) == StartForNothing(d) \/ \E t \in Task : Start(t, d)

Interrupt ==
  \/ ImporterDies
  \/ \E t \in Task : Crash(t)
  \/ \E d \in Doc : Delete(d)
  \/ \E f \in Finalizer : FinalizerCrashes(f)

Next ==
  \/ Import
  \/ \E t \in Task : Remap(t)
  \/ \E o \in Observer : Observe(o)
  \/ \E f \in Finalizer : ReadRun(f) \/ Finalize(f)
  \/ \E d \in Doc : Deliver(d) \/ Halt(d) \/ Retry(d)
  \/ Interrupt

Spec == Init /\ [][Next]_vars

\* Workers take messages and run the tasks they have begun; nothing obliges a
\* user to retry a chain.
FairSpec ==
  /\ Spec
  /\ WF_vars(Import)
  /\ \A d \in Doc : WF_vars(Deliver(d))
  /\ \A t \in Task : WF_vars(Remap(t))
  /\ \A o \in Observer : WF_vars(Observe(o))
  /\ WF_vars(\E f \in Finalizer : ReadRun(f))
  /\ \A f \in Finalizer : WF_vars(Finalize(f))

-----------------------------------------------------------------------------
(* Properties *)

\* However often a chain is delivered, retried or lost on its way, the deferred
\* annotations of a document are imported at most once.
AnnotationsOnce == \A d \in Doc : anns[d] <= 1

\* Relationships are not wired while a document may still be enumerated or
\* remapped: the claim of the run is taken after the last of either.
SettledBeforeWiring == run \in {"FINALIZING", "DONE", "FAILED"} => tried = Doc /\ ~Remaining

\* A wired run has used the id_map of every document whose annotations are in.
WiringComplete == run = "DONE" => {d \in Doc : row[d] = "DONE"} \subseteq wiredFrom

\* Deliveries and failures of the finalizer wire the relationships once, unless
\* a failed execution has overwritten the DONE of another.
WiredOnce == wired <= 1 \/ overwritten

\* "A stray redelivery after success never double-wires" the relationships
\* (finalize_corpus_import_relationships), whoever fails beside it.
\* (The code does not keep it: see "What the code does not keep" in the README.)
NeverDoubleWired == wired <= 1

\* An import whose executions survive, whose halted chains are retried and
\* whose observers never meet at the run's row comes to an end.
ImportsSettle ==
  ( /\ [](interrupts = 0)
    /\ <>[](\A d \in Doc : chain[d] # "halted")
    /\ [](Cardinality({o \in Observer : look[o] # "no"}) <= 1) )
  => <>(run \in {"DONE", "FAILED"})

\* _maybe_finalize_corpus_import is "robust to the post-loop / last-remap race":
\* a run whose rows are all settled still has an observer to come.
\* (The run import_wake_up violates it.)
WakeUpKept == run = "READY" /\ ~Remaining => \E o \in Observer : look[o] # "no"
=============================================================================
