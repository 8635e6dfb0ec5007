--------------------------- MODULE SectionBatches ---------------------------
(***************************************************************************)
(* Authority-section batches (opencontractserver/worker_uploads): staged   *)
(* by harvesters, drained one at a time by process_pending_section_batches *)
(* and reset by the sweep of recover_stalled_uploads.  Unlike an upload, a *)
(* batch carries no token of the attempt and is processed without holding  *)
(* its row: a task saves its verdict whatever has become of the batch.     *)
(***************************************************************************)
EXTENDS Naturals

CONSTANTS
  LastBatch,  \* number of batches, staged in the order of their numbers
  Malformed,  \* batches whose equivalence is malformed or of a key with itself
  Task,       \* concurrent executions of process_pending_section_batches
  None        \* no batch

ASSUME LastBatchAssumption == LastBatch \in Nat \ {0}
Batch == 1..LastBatch
ASSUME MalformedAssumption == Malformed \subseteq Batch
ASSUME NoneAssumption == None \notin Nat

VARIABLES
  status,      \* of each batch, "NONE" before it is staged
  started,     \* processing_started: "never", "lately" or "long ago"
  report,      \* what the report of each tells: nothing, only of the bootstrap, or
               \* of the bootstrap and of what became of the equivalence
  credential,  \* batches whose access token is still valid
  sections,    \* batches whose sections are in the authority corpus
  owner,       \* source of the row of the pair each equates
  job,         \* batch each task processes, or None
  step,        \* how far it is
  verdict      \* batch.status and batch.report of its own instance, once set

batchVars == <<status, started, report, credential, sections, owner>>
taskVars == <<job, step, verdict>>
vars == <<batchVars, taskVars>>

Terminal == {"COMPLETED", "FAILED"}

Outcome == {"STORED", "SKIPPED_OWNED", "SKIPPED_INVALID"}
Report == {"none", "bootstrap"} \cup Outcome

NoVerdict == [status |-> "FAILED", report |-> "none"]

TypeOK ==
  /\ status \in [Batch -> {"NONE", "PENDING", "PROCESSING"} \cup Terminal]
  /\ started \in [Batch -> {"never", "lately", "long ago"}]
  /\ report \in [Batch -> Report]
  /\ credential \subseteq Batch /\ sections \subseteq Batch
  /\ owner \in [Batch -> {"nobody", "batch", "other"}]
  /\ job \in [Task -> Batch \cup {None}]
  /\ step \in [Task -> {"idle", "claimed", "checked", "bootstrapped", "equated", "through"}]
  /\ verdict \in [Task -> [status : Terminal, report : Report]]

Init ==
  /\ status = [b \in Batch |-> "NONE"]
  /\ started = [b \in Batch |-> "never"]
  /\ report = [b \in Batch |-> "none"]
  /\ credential = {} /\ sections = {}
  /\ owner = [b \in Batch |-> "nobody"]
  /\ job = [p \in Task |-> None]
  /\ step = [p \in Task |-> "idle"]
  /\ verdict = [p \in Task |-> NoVerdict]

-----------------------------------------------------------------------------

\* A harvester's push.
Push(b) ==
  /\ status[b] = "NONE" /\ \A a \in Batch : a < b => status[a] # "NONE"
  /\ status' = [status EXCEPT ![b] = "PENDING"]
  /\ credential' = credential \cup {b}
  /\ UNCHANGED <<started, report, sections, owner, taskVars>>

\* The oldest pending batch, in a transaction of its own.
Claim(p, b) ==
  /\ job[p] = None
  /\ status[b] = "PENDING" /\ \A a \in Batch : status[a] = "PENDING" => b <= a
  /\ status' = [status EXCEPT ![b] = "PROCESSING"]
  /\ started' = [started EXCEPT ![b] = "lately"]
  /\ job' = [job EXCEPT ![p] = b]
  /\ step' = [step EXCEPT ![p] = "claimed"]
  /\ UNCHANGED <<report, credential, sections, owner, verdict>>

\* The token is checked once, before anything is written.
Check(p) ==
  /\ step[p] = "claimed" /\ job[p] \in credential
  /\ step' = [step EXCEPT ![p] = "checked"]
  /\ UNCHANGED <<batchVars, job, verdict>>

\* Sections are created or versioned; unchanged ones are skipped.
Bootstrap(p) ==
  /\ step[p] = "checked"
  /\ sections' = sections \cup {job[p]}
  /\ step' = [step EXCEPT ![p] = "bootstrapped"]
  /\ UNCHANGED <<status, started, report, credential, owner, job, verdict>>

\* Mutant of OutcomeOf: the outcome does not depend on the exception.
OutcomeAlways(raised) == "COMPLETED"

OutcomeOf(raised) == IF raised THEN "FAILED" ELSE "COMPLETED"

\* upsert_equivalence: a malformed pair is skipped, and so is one that another
\* source owns; else the row is created or refreshed.
Upserted(b) ==
  IF b \in Malformed THEN "SKIPPED_INVALID"
  ELSE IF owner[b] = "other" THEN "SKIPPED_OWNED" ELSE "STORED"

Equate(p) ==
  LET b == job[p] IN
  /\ step[p] = "bootstrapped"
  /\ owner' = IF Upserted(b) = "STORED" THEN [owner EXCEPT ![b] = "batch"] ELSE owner
  /\ verdict' = [verdict EXCEPT ![p] = [status |-> "FAILED", report |-> Upserted(b)]]
  /\ step' = [step EXCEPT ![p] = "equated"]
  /\ UNCHANGED <<status, started, report, credential, sections, job>>

\* The outcomes are tallied in the report, skipped or not.
Complete(p) ==
  /\ step[p] = "equated"
  /\ verdict' = [verdict EXCEPT ![p].status = OutcomeOf(FALSE)]
  /\ step' = [step EXCEPT ![p] = "through"]
  /\ UNCHANGED <<batchVars, job>>

\* Anything raises, at the latest another equivalence.  The report tells of the
\* bootstrap once the sections are in, and of equivalences only after all of them.
Raise(p) ==
  /\ step[p] \in {"claimed", "checked", "bootstrapped", "equated"}
  /\ verdict' =
       [verdict EXCEPT ![p] =
          [status |-> OutcomeOf(TRUE),
           report |-> IF step[p] \in {"bootstrapped", "equated"} THEN "bootstrap" ELSE "none"]]
  /\ step' = [step EXCEPT ![p] = "through"]
  /\ UNCHANGED <<batchVars, job>>

Leave(p) ==
  /\ job' = [job EXCEPT ![p] = None]
  /\ step' = [step EXCEPT ![p] = "idle"]
  /\ verdict' = [verdict EXCEPT ![p] = NoVerdict]

\* The verdict is saved whoever holds the batch by now.
Save(p) ==
  LET b == job[p] IN
  /\ step[p] = "through"
  /\ status' = [status EXCEPT ![b] = verdict[p].status]
  /\ report' = [report EXCEPT ![b] = verdict[p].report]
  /\ Leave(p)
  /\ UNCHANGED <<started, credential, sections, owner>>

Crash(p) ==
  /\ job[p] # None
  /\ Leave(p)
  /\ UNCHANGED batchVars

\* Mutant of Stalled: the sweep looks at processing_started only.
StalledByClock(b) == started[b] = "long ago"

\* Mutant of Stalled: batches whose token has been revoked are left alone.
StalledWithCredential(b) ==
  status[b] = "PROCESSING" /\ started[b] = "long ago" /\ b \in credential

Stalled(b) == status[b] = "PROCESSING" /\ started[b] = "long ago"

\* The second half of recover_stalled_uploads.
Recover ==
  /\ \E b \in Batch : Stalled(b)
  /\ status' = [b \in Batch |-> IF Stalled(b) THEN "PENDING" ELSE status[b]]
  /\ started' = [b \in Batch |-> IF Stalled(b) THEN "never" ELSE started[b]]
  /\ UNCHANGED <<report, credential, sections, owner, taskVars>>

Age(b) ==
  /\ started[b] = "lately"
  /\ started' = [started EXCEPT ![b] = "long ago"]
  /\ UNCHANGED <<status, report, credential, sections, owner, taskVars>>

Revoke(b) ==
  /\ b \in credential
  /\ credential' = credential \ {b}
  /\ UNCHANGED <<status, started, report, sections, owner, taskVars>>

\* A curator or another importer adds the pair, if it is valid and not there, or
\* deletes its own row of it again.
Curate(b) ==
  /\ b \notin Malformed /\ owner[b] # "batch"
  /\ owner' = [owner EXCEPT ![b] = IF @ = "nobody" THEN "other" ELSE "nobody"]
  /\ UNCHANGED <<status, started, report, credential, sections, taskVars>>

-----------------------------------------------------------------------------

Work(p) == Check(p) \/ Bootstrap(p) \/ Equate(p) \/ Complete(p) \/ Raise(p) \/ Save(p)

Next ==
  \/ \E b \in Batch : Push(b) \/ Age(b) \/ Revoke(b) \/ Curate(b)
  \/ \E p \in Task : Work(p) \/ Crash(p) \/ \E b \in Batch : Claim(p, b)
  \/ Recover

Spec == Init /\ [][Next]_vars

\* The drain is enqueued by every push, by itself while batches are pending and
\* by Beat; tasks proceed unless they die, and Beat runs the sweep.
FairSpec ==
  /\ Spec
  /\ WF_vars(\E p \in Task, b \in Batch : Claim(p, b))
  /\ \A p \in Task : WF_vars(Work(p))
  /\ \A b \in Batch : WF_vars(Age(b))
  /\ WF_vars(Recover)

-----------------------------------------------------------------------------
(* Properties *)

\* What a report r tells of the equivalence of batch b, whose row is from source
\* s, is true.
Told(b, r, s) ==
  /\ r \in Outcome
  /\ r = "STORED" => s = "batch"
  /\ r = "SKIPPED_INVALID" <=> b \in Malformed

\* A batch that reads COMPLETED has its sections in the corpus, and its report
\* tells truly what became of its equivalence, although its tasks may have
\* overlapped, died or failed before: what was stored is there still and the
\* batch's, and only a malformed pair was skipped as invalid.
CompletedApplied ==
  \A b \in Batch : status[b] = "COMPLETED" => b \in sections /\ Told(b, report[b], owner[b])

\* process_pending_section_batches counts on it: "nothing re-queues a FAILED
\* batch", nor a COMPLETED one, however late a sweep or a save comes.
NeverRequeued == [][\A b \in Batch : status[b] \in Terminal => status'[b] \in Terminal]_vars

\* Once tasks no longer die, every staged batch gets its verdict.
BatchesSettle ==
  <>[][\A p \in Task : ~Crash(p)]_vars =>
    \A b \in Batch : status[b] \in {"PENDING", "PROCESSING"} ~> status[b] \in Terminal

\* recover_stalled_uploads: its compare-and-swap is there for "preventing
\* double-processing races", and section batches get the "same sweep, same
\* compare-and-swap".
\* (The code does not keep it: see "What the code does not keep" in the README.)
NoDoubleProcessing == \A p, q \in Task : p # q /\ job[p] # None => job[p] # job[q]
=============================================================================
