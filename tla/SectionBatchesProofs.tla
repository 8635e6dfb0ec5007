------------------------ MODULE SectionBatchesProofs ------------------------
(***************************************************************************)
(* Proofs about SectionBatches for every number of batches and every set   *)
(* of tasks: although several tasks may process one batch, and save their  *)
(* verdicts late, what reads COMPLETED was applied, and what has a verdict *)
(* is never taken up again.                                                *)
(***************************************************************************)
EXTENDS SectionBatches, TLAPS

USE LastBatchAssumption, NoneAssumption, MalformedAssumption DEF Batch

(***************************************************************************)
(* The inductive invariant.  CompletedApplied is about a status that a     *)
(* task saves from its own instance of the batch, so it needs to know of   *)
(* every instance, saved or not: a task holds a batch as long as it is not *)
(* idle, has its sections in from the bootstrap on, tells the truth of the *)
(* equivalence from then on, and has a verdict to complete it only when it *)
(* is through.                                                             *)
(***************************************************************************)
HoldsOne == \A p \in Task : job[p] = None <=> step[p] = "idle"

BootstrappedIn ==
  \A p \in Task :
    /\ step[p] \in {"bootstrapped", "equated"} => job[p] \in sections
    /\ step[p] = "equated" => Told(job[p], verdict[p].report, owner[job[p]])

VerdictEarned ==
  \A p \in Task : verdict[p].status = "COMPLETED" =>
    step[p] = "through" /\ job[p] \in sections /\ Told(job[p], verdict[p].report, owner[job[p]])

BatchInv == TypeOK /\ HoldsOne /\ BootstrappedIn /\ VerdictEarned /\ CompletedApplied

-----------------------------------------------------------------------------

LEMMA InitInv == Init => BatchInv
<1>1. SUFFICES ASSUME Init PROVE BatchInv
  OBVIOUS
<1>2. TypeOK
  BY <1>1 DEF Init, TypeOK, NoVerdict, Terminal, Report
<1>3. HoldsOne /\ BootstrappedIn /\ VerdictEarned /\ CompletedApplied
  BY <1>1 DEF Init, HoldsOne, BootstrappedIn, VerdictEarned, CompletedApplied, NoVerdict
<1>4. QED
  BY <1>2, <1>3 DEF BatchInv

\* A push stages a batch that no task can hold yet, and has no verdict.
LEMMA PushStep == ASSUME BatchInv, NEW b \in Batch, Push(b) PROVE BatchInv'
<1>1. TypeOK'
  BY DEF BatchInv, Push, TypeOK, taskVars
<1>2. (HoldsOne /\ BootstrappedIn /\ VerdictEarned)'
  BY DEF BatchInv, Push, HoldsOne, BootstrappedIn, VerdictEarned, taskVars
<1>3. CompletedApplied'
  BY DEF BatchInv, Push, TypeOK, CompletedApplied
<1>4. QED
  BY <1>1, <1>2, <1>3 DEF BatchInv

LEMMA ClaimStep ==
  ASSUME BatchInv, NEW p \in Task, NEW b \in Batch, Claim(p, b) PROVE BatchInv'
<1>1. /\ status' = [status EXCEPT ![b] = "PROCESSING"]
      /\ job' = [job EXCEPT ![p] = b] /\ step' = [step EXCEPT ![p] = "claimed"]
      /\ sections' = sections /\ owner' = owner /\ report' = report /\ verdict' = verdict
      /\ step[p] = "idle"
  BY DEF BatchInv, HoldsOne, Claim
<1>2. TypeOK'
  BY DEF BatchInv, Claim, TypeOK
<1>3. HoldsOne'
  <2>1. b # None
    OBVIOUS
  <2>2. job'[p] = b /\ step'[p] = "claimed"
    BY <1>1 DEF BatchInv, TypeOK
  <2>3. \A q \in Task : q # p => job'[q] = job[q] /\ step'[q] = step[q]
    BY <1>1 DEF BatchInv, TypeOK
  <2>4. QED
    BY <2>1, <2>2, <2>3 DEF BatchInv, HoldsOne
<1>4. (BootstrappedIn /\ VerdictEarned)'
  BY <1>1 DEF BatchInv, TypeOK, BootstrappedIn, VerdictEarned
<1>5. CompletedApplied'
  BY <1>1 DEF BatchInv, TypeOK, CompletedApplied
<1>6. QED
  BY <1>2, <1>3, <1>4, <1>5 DEF BatchInv

LEMMA CheckStep == ASSUME BatchInv, NEW p \in Task, Check(p) PROVE BatchInv'
<1>1. TypeOK'
  BY DEF BatchInv, Check, TypeOK, batchVars
<1>2. (HoldsOne /\ BootstrappedIn /\ VerdictEarned)'
  BY DEF BatchInv, TypeOK, Check, HoldsOne, BootstrappedIn, VerdictEarned, batchVars
<1>3. CompletedApplied'
  BY DEF BatchInv, Check, CompletedApplied, batchVars
<1>4. QED
  BY <1>1, <1>2, <1>3 DEF BatchInv

LEMMA BootstrapStep == ASSUME BatchInv, NEW p \in Task, Bootstrap(p) PROVE BatchInv'
<1>1. job[p] \in Batch
  BY DEF BatchInv, TypeOK, HoldsOne, Bootstrap
<1>2. TypeOK'
  BY <1>1 DEF BatchInv, Bootstrap, TypeOK
<1>3. (HoldsOne /\ BootstrappedIn /\ VerdictEarned)'
  BY DEF BatchInv, TypeOK, Bootstrap, HoldsOne, BootstrappedIn, VerdictEarned
<1>4. CompletedApplied'
  BY DEF BatchInv, Bootstrap, CompletedApplied
<1>5. QED
  BY <1>2, <1>3, <1>4 DEF BatchInv

\* The equivalence is stored or skipped; what others stored of theirs stays.
LEMMA EquateStep == ASSUME BatchInv, NEW p \in Task, Equate(p) PROVE BatchInv'
<1> DEFINE b == job[p]
<1>1. /\ b \in Batch /\ b \in sections /\ step[p] = "bootstrapped"
      /\ step' = [step EXCEPT ![p] = "equated"]
      /\ verdict' = [verdict EXCEPT ![p] = [status |-> "FAILED", report |-> Upserted(b)]]
      /\ owner' = IF Upserted(b) = "STORED" THEN [owner EXCEPT ![b] = "batch"] ELSE owner
      /\ UNCHANGED <<status, started, report, credential, sections, job>>
  BY DEF BatchInv, TypeOK, HoldsOne, BootstrappedIn, Equate
<1> HIDE DEF b
<1>2. Upserted(b) \in Outcome /\ Told(b, Upserted(b), owner'[b]) /\ owner' \in [Batch -> {"nobody", "batch", "other"}]
  BY <1>1 DEF BatchInv, TypeOK, Upserted, Told, Outcome
<1>3. \A c \in Batch, r \in Report : Told(c, r, owner[c]) => Told(c, r, owner'[c])
  BY <1>1 DEF BatchInv, TypeOK, Told
<1>4. TypeOK'
  <2>1. verdict' \in [Task -> [status : Terminal, report : Report]]
    BY <1>1, <1>2 DEF BatchInv, TypeOK, Terminal, Report
  <2>2. QED
    BY <1>1, <1>2, <2>1 DEF BatchInv, TypeOK
<1>5. /\ step'[p] = "equated" /\ verdict'[p] = [status |-> "FAILED", report |-> Upserted(b)]
      /\ \A q \in Task : q # p => step'[q] = step[q] /\ verdict'[q] = verdict[q]
  BY <1>1 DEF BatchInv, TypeOK
<1>6. \A q \in Task : verdict[q].report \in Report /\ (step[q] # "idle" => job[q] \in Batch)
  BY DEF BatchInv, TypeOK, HoldsOne
<1>7. HoldsOne'
  BY <1>1, <1>5 DEF BatchInv, HoldsOne
<1>8. BootstrappedIn'
  <2>1. SUFFICES ASSUME NEW q \in Task
                 PROVE  /\ step'[q] \in {"bootstrapped", "equated"} => job'[q] \in sections'
                        /\ step'[q] = "equated" => Told(job'[q], verdict'[q].report, owner'[job'[q]])
    BY <1>1 DEF BootstrappedIn
  <2>2. CASE q = p
    BY <1>1, <1>2, <1>5, <2>2 DEF b
  <2>3. CASE q # p
    BY <1>1, <1>3, <1>5, <1>6, <2>3 DEF BatchInv, BootstrappedIn
  <2>4. QED
    BY <2>2, <2>3
<1>9. VerdictEarned'
  BY <1>1, <1>3, <1>5, <1>6 DEF BatchInv, VerdictEarned
<1>10. CompletedApplied'
  BY <1>1, <1>3 DEF BatchInv, TypeOK, CompletedApplied
<1>11. QED
  BY <1>4, <1>7, <1>8, <1>9, <1>10 DEF BatchInv

\* The one step that makes a task's verdict COMPLETED.
LEMMA CompleteStep == ASSUME BatchInv, NEW p \in Task, Complete(p) PROVE BatchInv'
<1>1. /\ step[p] = "equated" /\ job[p] \in sections /\ Told(job[p], verdict[p].report, owner[job[p]])
      /\ verdict' = [verdict EXCEPT ![p].status = "COMPLETED"]
      /\ step' = [step EXCEPT ![p] = "through"]
      /\ UNCHANGED <<batchVars, job>>
  BY DEF BatchInv, BootstrappedIn, Complete, OutcomeOf
<1>2. /\ step'[p] = "through" /\ verdict'[p].status = "COMPLETED"
      /\ verdict'[p].report = verdict[p].report
      /\ \A q \in Task : q # p => step'[q] = step[q] /\ verdict'[q] = verdict[q]
  BY <1>1 DEF BatchInv, TypeOK
<1>3. TypeOK'
  <2>1. verdict' \in [Task -> [status : Terminal, report : Report]]
    BY <1>1 DEF BatchInv, TypeOK, Terminal
  <2>2. QED
    BY <1>1, <2>1 DEF BatchInv, TypeOK, batchVars
<1>4. (HoldsOne /\ BootstrappedIn)'
  BY <1>1, <1>2 DEF BatchInv, HoldsOne, BootstrappedIn, batchVars
<1>5. VerdictEarned'
  BY <1>1, <1>2 DEF BatchInv, VerdictEarned, batchVars
<1>6. CompletedApplied'
  BY <1>1 DEF BatchInv, CompletedApplied, batchVars
<1>7. QED
  BY <1>3, <1>4, <1>5, <1>6 DEF BatchInv

\* An exception leaves a verdict that completes nothing.
LEMMA RaiseStep == ASSUME BatchInv, NEW p \in Task, Raise(p) PROVE BatchInv'
<1> DEFINE told == IF step[p] \in {"bootstrapped", "equated"} THEN "bootstrap" ELSE "none"
<1>1. /\ step[p] # "idle" /\ step' = [step EXCEPT ![p] = "through"]
      /\ verdict' = [verdict EXCEPT ![p] = [status |-> "FAILED", report |-> told]]
      /\ UNCHANGED <<batchVars, job>>
  BY DEF Raise, OutcomeOf
<1>2. told \in Report
  BY DEF Report
<1> HIDE DEF told
<1>3. TypeOK'
  <2>1. verdict' \in [Task -> [status : Terminal, report : Report]]
    BY <1>1, <1>2 DEF BatchInv, TypeOK, Terminal
  <2>2. QED
    BY <1>1, <2>1 DEF BatchInv, TypeOK, batchVars
<1>4. /\ step'[p] = "through" /\ verdict'[p].status = "FAILED"
      /\ \A q \in Task : q # p => step'[q] = step[q] /\ verdict'[q] = verdict[q]
  BY <1>1 DEF BatchInv, TypeOK
<1>5. (HoldsOne /\ BootstrappedIn)'
  BY <1>1, <1>4 DEF BatchInv, HoldsOne, BootstrappedIn, batchVars
<1>6. VerdictEarned'
  BY <1>1, <1>4 DEF BatchInv, VerdictEarned, batchVars
<1>7. CompletedApplied'
  BY <1>1 DEF BatchInv, CompletedApplied, batchVars
<1>8. QED
  BY <1>3, <1>5, <1>6, <1>7 DEF BatchInv

\* A task that leaves takes its instance and its verdict with it.
LEMMA LeaveStep ==
  ASSUME BatchInv, NEW p \in Task, Leave(p), sections' = sections, owner' = owner
  PROVE  /\ job' \in [Task -> Batch \cup {None}]
         /\ step' \in [Task -> {"idle", "claimed", "checked", "bootstrapped", "equated", "through"}]
         /\ verdict' \in [Task -> [status : Terminal, report : Report]]
         /\ (HoldsOne /\ BootstrappedIn /\ VerdictEarned)'
<1>1. NoVerdict \in [status : Terminal, report : Report] /\ NoVerdict.status = "FAILED"
  BY DEF NoVerdict, Terminal, Report
<1>2. verdict' \in [Task -> [status : Terminal, report : Report]]
  BY <1>1 DEF BatchInv, TypeOK, Leave
<1>3. verdict'[p].status = "FAILED" /\ \A q \in Task : q # p => verdict'[q] = verdict[q]
  BY <1>1 DEF BatchInv, TypeOK, Leave
<1>4. (HoldsOne /\ BootstrappedIn)'
  BY DEF BatchInv, TypeOK, Leave, HoldsOne, BootstrappedIn
<1>5. VerdictEarned'
  BY <1>3 DEF BatchInv, TypeOK, Leave, VerdictEarned
<1>6. QED
  BY <1>2, <1>4, <1>5 DEF BatchInv, TypeOK, Leave

\* Saving a verdict overwrites whatever the batch has become, with something
\* that was earned.
LEMMA SaveStep == ASSUME BatchInv, NEW p \in Task, Save(p) PROVE BatchInv'
<1>1. /\ step[p] = "through" /\ Leave(p)
      /\ status' = [status EXCEPT ![job[p]] = verdict[p].status]
      /\ started' = started /\ credential' = credential
      /\ sections' = sections /\ owner' = owner
  BY DEF Save
<1>2. job[p] \in Batch /\ verdict[p].status \in Terminal
  BY <1>1 DEF BatchInv, TypeOK, HoldsOne
<1>3. report' = [report EXCEPT ![job[p]] = verdict[p].report] /\ verdict[p].report \in Report
  BY DEF BatchInv, TypeOK, Save
<1>4. status' \in [Batch -> {"NONE", "PENDING", "PROCESSING"} \cup Terminal]
  BY <1>1, <1>2 DEF BatchInv, TypeOK
<1>5. TypeOK' /\ (HoldsOne /\ BootstrappedIn /\ VerdictEarned)'
  BY <1>1, <1>3, <1>4, LeaveStep DEF BatchInv, TypeOK
<1>6. CompletedApplied'
  <2>1. SUFFICES ASSUME NEW b \in Batch, status'[b] = "COMPLETED"
                 PROVE  b \in sections /\ Told(b, report'[b], owner[b])
    BY <1>1 DEF CompletedApplied
  <2>2. CASE b = job[p]
    BY <1>1, <1>2, <1>3, <2>1, <2>2 DEF BatchInv, TypeOK, VerdictEarned
  <2>3. CASE b # job[p]
    BY <1>1, <1>3, <2>1, <2>3 DEF BatchInv, TypeOK, CompletedApplied
  <2>4. QED
    BY <2>2, <2>3
<1>7. QED
  BY <1>5, <1>6 DEF BatchInv

LEMMA CrashStep == ASSUME BatchInv, NEW p \in Task, Crash(p) PROVE BatchInv'
<1>1. /\ Leave(p) /\ status' = status /\ started' = started /\ report' = report
      /\ credential' = credential /\ sections' = sections /\ owner' = owner
  BY DEF Crash, batchVars
<1>2. TypeOK' /\ (HoldsOne /\ BootstrappedIn /\ VerdictEarned)'
  BY <1>1, LeaveStep DEF BatchInv, TypeOK
<1>3. CompletedApplied'
  BY <1>1 DEF BatchInv, CompletedApplied
<1>4. QED
  BY <1>2, <1>3 DEF BatchInv

LEMMA RecoverStep == ASSUME BatchInv, Recover PROVE BatchInv'
<1>1. TypeOK'
  BY DEF BatchInv, TypeOK, Recover, taskVars
<1>2. (HoldsOne /\ BootstrappedIn /\ VerdictEarned)'
  BY DEF BatchInv, Recover, HoldsOne, BootstrappedIn, VerdictEarned, taskVars
<1>3. CompletedApplied'
  BY DEF BatchInv, Recover, CompletedApplied
<1>4. QED
  BY <1>1, <1>2, <1>3 DEF BatchInv

\* What others do with a pair takes nothing from a batch that stored it.
LEMMA CurateStep == ASSUME BatchInv, NEW b \in Batch, Curate(b) PROVE BatchInv'
<1>1. /\ owner' \in [Batch -> {"nobody", "batch", "other"}]
      /\ \A c \in Batch, r \in Report : Told(c, r, owner[c]) => Told(c, r, owner'[c])
      /\ UNCHANGED <<status, started, report, credential, sections, taskVars>>
  BY DEF BatchInv, TypeOK, Curate, Told
<1>2. TypeOK'
  BY <1>1 DEF BatchInv, TypeOK, taskVars
<1>3. \A q \in Task : verdict[q].report \in Report /\ (step[q] # "idle" => job[q] \in Batch)
  BY DEF BatchInv, TypeOK, HoldsOne
<1>4. (HoldsOne /\ BootstrappedIn /\ VerdictEarned)'
  BY <1>1, <1>3 DEF BatchInv, HoldsOne, BootstrappedIn, VerdictEarned, taskVars
<1>5. CompletedApplied'
  BY <1>1 DEF BatchInv, TypeOK, CompletedApplied
<1>6. QED
  BY <1>2, <1>4, <1>5 DEF BatchInv

\* Time passing and tokens being revoked touch neither statuses nor tasks.
LEMMA ClockStep == ASSUME BatchInv, NEW b \in Batch, Age(b) \/ Revoke(b) PROVE BatchInv'
<1>1. TypeOK'
  BY DEF BatchInv, TypeOK, Age, Revoke, taskVars
<1>2. (HoldsOne /\ BootstrappedIn /\ VerdictEarned /\ CompletedApplied)'
  BY DEF BatchInv, Age, Revoke, HoldsOne, BootstrappedIn, VerdictEarned, CompletedApplied,
         taskVars
<1>3. QED
  BY <1>1, <1>2 DEF BatchInv

LEMMA StepInv == BatchInv /\ [Next]_vars => BatchInv'
<1>1. SUFFICES ASSUME BatchInv, [Next]_vars PROVE BatchInv'
  OBVIOUS
<1>2. CASE UNCHANGED vars
  BY <1>1, <1>2 DEF vars, batchVars, taskVars, BatchInv, TypeOK, HoldsOne, BootstrappedIn,
                    VerdictEarned, CompletedApplied
<1>3. CASE Next
  BY <1>1, <1>3, PushStep, ClockStep, CurateStep, ClaimStep, CheckStep, BootstrapStep, EquateStep,
     CompleteStep, RaiseStep,
     SaveStep, CrashStep, RecoverStep DEF Next, Work
<1>4. QED
  BY <1>1, <1>2, <1>3

LEMMA BatchInvariant == Spec => []BatchInv
BY InitInv, StepInv, PTL DEF Spec

-----------------------------------------------------------------------------
(* The theorems *)

\* Every variable of the batches and of their tasks has its type.
THEOREM BatchTypes == Spec => []TypeOK
<1>1. BatchInv => TypeOK
  BY DEF BatchInv
<1>2. QED
  BY <1>1, BatchInvariant, PTL

\* A batch that reads COMPLETED has its sections in the corpus and a report that is
\* true of its equivalence, which stays the batch's once it is reported as stored,
\* in however many tasks process_pending_section_batches handled the batch.
THEOREM AppliedWhenCompleted == Spec => []CompletedApplied
<1>1. BatchInv => CompletedApplied
  BY DEF BatchInv
<1>2. QED
  BY <1>1, BatchInvariant, PTL

\* No claim, sweep or late save takes up a batch that has its verdict.
THEOREM VerdictsStand == Spec => NeverRequeued
<1>1. ASSUME BatchInv, [Next]_vars
      PROVE  [\A b \in Batch : status[b] \in Terminal => status'[b] \in Terminal]_vars
  <2>1. SUFFICES ASSUME Next, NEW b \in Batch, status[b] \in Terminal
                 PROVE  status'[b] \in Terminal
    BY <1>1
  <2>2. CASE \E p \in Task : Save(p)
    <3>1. PICK p \in Task : Save(p)
      BY <2>2
    <3>2. status' = [status EXCEPT ![job[p]] = verdict[p].status]
      BY <3>1 DEF Save
    <3>3. verdict[p].status \in Terminal /\ status \in [Batch -> {"NONE", "PENDING", "PROCESSING"} \cup Terminal]
      BY <1>1 DEF BatchInv, TypeOK
    <3>4. QED
      BY <2>1, <3>2, <3>3
  <2>3. CASE \E a \in Batch : Push(a) \/ Age(a) \/ Revoke(a) \/ Curate(a)
    BY <1>1, <2>1, <2>3 DEF BatchInv, TypeOK, Push, Age, Revoke, Curate, Terminal
  <2>4. CASE \E p \in Task : Check(p) \/ Bootstrap(p) \/ Equate(p) \/ Complete(p) \/ Raise(p) \/ Crash(p)
    BY <2>1, <2>4 DEF Check, Bootstrap, Equate, Complete, Raise, Crash, batchVars
  <2>5. CASE \E p \in Task, a \in Batch : Claim(p, a)
    BY <1>1, <2>1, <2>5 DEF BatchInv, TypeOK, Claim, Terminal
  <2>6. CASE Recover
    BY <2>1, <2>6 DEF Recover, Stalled, Terminal
  <2>7. QED
    BY <2>1, <2>2, <2>3, <2>4, <2>5, <2>6 DEF Next, Work
<1>2. QED
  BY <1>1, BatchInvariant, PTL DEF Spec, NeverRequeued
=============================================================================
