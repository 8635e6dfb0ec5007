------------------------- MODULE CorpusImportProofs -------------------------
(***************************************************************************)
(* Proofs about CorpusImport for every set of documents, remaps and        *)
(* finalizers and any number of interruptions: annotations are imported    *)
(* once, and relationships are wired once, after the last document and     *)
(* from all of them.                                                       *)
(***************************************************************************)
EXTENDS CorpusImport, TLAPS

(***************************************************************************)
(* The inductive invariant has one part for each lock of the code and one  *)
(* for what the lock protects.                                             *)
(***************************************************************************)

\* SKIP LOCKED on the rows: a remap has the row of an enumerated document; a
\* locked row is PENDING and has one owner.
RowsOwned ==
  /\ \A t \in Task : step[t] # "idle" => job[t] \in tried
  /\ \A t \in Task : step[t] = "locked" => row[job[t]] = "PENDING"
  /\ \A t, u \in Task : step[t] = "locked" /\ step[u] = "locked" /\ job[t] = job[u] => t = u

\* Nothing was imported for a row before its verdict.
VerdictFirst ==
  /\ \A d \in Doc : d \notin tried => row[d] = "none"
  /\ \A d \in Doc : row[d] \in {"none", "PENDING"} => anns[d] = 0

Holding == {"locked", "remaining", "clear"}

\* SKIP LOCKED on the run: one observer holds a READY run, and what it has
\* counted stays counted.
RunOwned ==
  /\ \A o \in Observer : look[o] \in Holding => run = "READY"
  /\ \A o, p \in Observer : look[o] \in Holding /\ look[p] \in Holding => o = p
  /\ \A o \in Observer : look[o] = "clear" => ~Remaining

\* The run is armed when the enumeration is over, and nothing is dispatched
\* before it is claimed.
ArmedThenClaimed ==
  /\ importing => run = "ENUMERATING"
  /\ run # "ENUMERATING" => tried = Doc
  /\ run \in {"ENUMERATING", "READY"} =>
       /\ ~sent
       /\ \A o \in Observer : look[o] # "claimed"
       /\ \A f \in Finalizer : fin[f] = "idle"

\* FOR UPDATE on the run: one finalizer wires, a run that may be wired again;
\* a wiring that was not overwritten is recorded.
WiringOwned ==
  /\ \A f \in Finalizer : fin[f] = "locked" => Rerunnable
  /\ \A f, g \in Finalizer : fin[f] = "locked" /\ fin[g] = "locked" => f = g
  /\ wired > 0 /\ ~overwritten => run = "DONE"

ImportInv ==
  /\ TypeOK
  /\ RowsOwned /\ VerdictFirst /\ AnnotationsOnce
  /\ RunOwned /\ ArmedThenClaimed /\ SettledBeforeWiring
  /\ WiringOwned /\ WiringComplete /\ WiredOnce

RowInv == RowsOwned /\ VerdictFirst /\ AnnotationsOnce
RunInv == RunOwned /\ ArmedThenClaimed /\ SettledBeforeWiring
WireInv == WiringOwned /\ WiringComplete /\ WiredOnce

USE ImporterAssumption, FaultyAssumption

-----------------------------------------------------------------------------
(* Types *)

\* Every step keeps the types of the variables.
LEMMA TypesKept == TypeOK /\ [Next]_vars => TypeOK'
<1> SUFFICES ASSUME TypeOK, [Next]_vars PROVE TypeOK'
  OBVIOUS
<1> USE DEF TypeOK, RunStatus, Observer, importVars, taskVars, finVars
<1>1. ASSUME NEW d \in Doc, ImportDoc(d) PROVE TypeOK'
  BY <1>1 DEF ImportDoc
<1>2. CASE Arm
  BY <1>2 DEF Arm
<1>3. CASE ImporterDies
  <2>1. interrupts' \in 0..MaxInterrupts
    BY <1>3 DEF ImporterDies
  <2> QED BY <1>3, <2>1 DEF ImporterDies
<1>4. ASSUME NEW t \in Task, Lock(t) \/ Skip(t) \/ Raise(t) PROVE TypeOK'
  BY <1>4 DEF Lock, Skip, Raise, Handled, Gone
<1>5. ASSUME NEW t \in Task, Commit(t) PROVE TypeOK'
  <2>1. PICK landed \in BOOLEAN :
          /\ row' = [row EXCEPT ![job[t]] = Verdict(landed)]
          /\ anns' = IF landed THEN [anns EXCEPT ![job[t]] = @ + 1] ELSE anns
    BY <1>5 DEF Commit
  <2>2. row' \in [Doc -> {"none", "PENDING", "DONE", "FAILED", "gone"}]
    BY <2>1 DEF Verdict
  <2>3. anns' \in [Doc -> Nat]
    <3>1. anns' = anns \/ anns' = [anns EXCEPT ![job[t]] = @ + 1]
      BY <2>1
    <3> QED BY <3>1
  <2> QED BY <1>5, <2>2, <2>3 DEF Commit, Handled
<1>6. ASSUME NEW t \in Task, ReadFails(t) PROVE TypeOK'
  BY <1>6 DEF ReadFails, Handled
<1>7. ASSUME NEW o \in Observer, LookAway(o) \/ LockRun(o) \/ Count(o) PROVE TypeOK'
  BY <1>7 DEF LookAway, LockRun, Count, Leaves
<1>8. ASSUME NEW o \in Observer, GiveUp(o) \/ ClaimRun(o) \/ Dispatch(o) PROVE TypeOK'
  <2>1. /\ look' \in [Observer -> {"no", "due", "locked", "remaining", "clear", "claimed"}]
        /\ job' \in [Task -> Doc \cup {None}]
        /\ step' \in [Task -> {"idle", "listed", "locked", "handled"}]
        /\ chain' \in [Doc -> {"none", "running", "halted", "over"}]
    BY <1>8 DEF GiveUp, ClaimRun, Dispatch, Leaves
  <2>2. CASE GiveUp(o) \/ ClaimRun(o)
    BY <2>1, <2>2 DEF GiveUp, ClaimRun
  <2>3. CASE Dispatch(o)
    BY <2>1, <2>3 DEF Dispatch
  <2> QED BY <1>8, <2>2, <2>3
<1>9. ASSUME NEW f \in Finalizer, ReadRun(f) \/ Finalize(f) PROVE TypeOK'
  <2>1. CASE Wire(f)
    BY <2>1 DEF Wire
  <2>2. CASE ReadRun(f) \/ Reclaim(f) \/ WireRaises(f)
    BY <2>2 DEF ReadRun, Reclaim, WireRaises
  <2>3. CASE RecordFailure(f) \/ Acknowledge(f)
    BY <2>3 DEF RecordFailure, Acknowledge
  <2> QED BY <1>9, <2>1, <2>2, <2>3 DEF Finalize
<1>10. ASSUME NEW d \in Doc, Deliver(d) \/ Halt(d) \/ Retry(d) PROVE TypeOK'
  BY <1>10 DEF Deliver, StartForNothing, Start, Halt, Retry
<1>11. ASSUME NEW t \in Task, Crash(t) PROVE TypeOK'
  BY <1>11 DEF Crash, Gone
<1>12. ASSUME NEW d \in Doc, Delete(d) PROVE TypeOK'
  BY <1>12 DEF Delete
<1>13. ASSUME NEW f \in Finalizer, FinalizerCrashes(f) PROVE TypeOK'
  BY <1>13 DEF FinalizerCrashes
<1>14. CASE UNCHANGED vars
  BY <1>14 DEF vars
<1> QED
  BY <1>1, <1>2, <1>3, <1>4, <1>5, <1>6, <1>7, <1>8, <1>9, <1>10, <1>11, <1>12, <1>13, <1>14 DEF Next, Import, Remap, Observe, Interrupt
-----------------------------------------------------------------------------
(* The rows *)

\* An observer that leaves lets go of nothing: only its own job ends.
LEMMA LeavesJobs ==
  ASSUME TypeOK, RowsOwned, NEW o \in Observer, Leaves(o), row' = row, tried' = tried
  PROVE  RowsOwned'
<1>1. \A t \in Task : \/ step'[t] = "idle"
                      \/ step'[t] = step[t] /\ job'[t] = job[t]
  BY DEF Leaves, TypeOK
<1>2. QED
  BY <1>1 DEF RowsOwned

\* A row is imported by the execution that has its lock, and its verdict is
\* committed with the annotations.
LEMMA RowsKept ==
  ASSUME TypeOK, RowInv, [Next]_vars
  PROVE  RowInv'
<1> USE DEF RowInv, RowsOwned, VerdictFirst, AnnotationsOnce, TypeOK
<1>1. ASSUME NEW d \in Doc, ImportDoc(d) PROVE RowInv'
  <2>1. d \notin tried /\ tried' = tried \cup {d} /\ row[d] = "none" /\ anns[d] = 0
    BY <1>1 DEF ImportDoc
  <2>2. job' = job /\ step' = step
    BY <1>1 DEF ImportDoc
  <2>3. \A t \in Task : step[t] = "locked" => job[t] # d
    BY <2>1
  <2>4. /\ row' \in {row, [row EXCEPT ![d] = "PENDING"], [row EXCEPT ![d] = "DONE"]}
        /\ anns' = IF row' = [row EXCEPT ![d] = "DONE"] THEN [anns EXCEPT ![d] = 1] ELSE anns
    BY <1>1, <2>1 DEF ImportDoc
  <2>5. \A e \in Doc \ {d} : row'[e] = row[e] /\ anns'[e] = anns[e]
    BY <2>4
  <2>6. \/ row'[d] \in {"none", "PENDING"} /\ anns'[d] = 0
        \/ row'[d] = "DONE" /\ anns'[d] = 1
    BY <2>1, <2>4
  <2> QED BY <2>1, <2>2, <2>3, <2>5, <2>6
<1>2. ASSUME NEW t \in Task, Lock(t) \/ Skip(t) \/ Raise(t) PROVE RowInv'
  BY <1>2 DEF Lock, Skip, Raise, Handled, Gone, Importable, importVars
<1>3. ASSUME NEW t \in Task, Commit(t) PROVE RowInv'
  <2>1. PICK landed \in BOOLEAN :
          /\ row' = [row EXCEPT ![job[t]] = Verdict(landed)]
          /\ anns' = IF landed THEN [anns EXCEPT ![job[t]] = @ + 1] ELSE anns
    BY <1>3 DEF Commit
  <2>2. /\ step[t] = "locked" /\ job[t] \in Doc /\ row[job[t]] = "PENDING" /\ anns[job[t]] = 0
        /\ step' = [step EXCEPT ![t] = "handled"] /\ job' = job /\ tried' = tried
    BY <1>3 DEF Commit, Handled, importVars
  <2>3. row'[job[t]] \in {"DONE", "FAILED"} /\ anns'[job[t]] <= 1
    BY <2>1, <2>2 DEF Verdict
  <2>4. \A e \in Doc \ {job[t]} : row'[e] = row[e] /\ anns'[e] = anns[e]
    BY <2>1, <2>2
  <2>5. \A u \in Task : step'[u] = "locked" => step[u] = "locked" /\ job[u] # job[t]
    BY <2>2
  <2>6. \A u \in Task : step'[u] # "idle" => step[u] # "idle"
    BY <2>2
  <2>7. job[t] \in tried
    BY <2>2
  <2> QED BY <2>2, <2>3, <2>4, <2>5, <2>6, <2>7
<1>4. ASSUME NEW t \in Task, ReadFails(t) PROVE RowInv'
  <2>1. /\ step[t] = "listed" /\ job[t] \in Doc /\ anns' = anns /\ job' = job /\ tried' = tried
        /\ step' = [step EXCEPT ![t] = "handled"]
        /\ row' = [row EXCEPT ![job[t]] = IF @ = "gone" THEN @ ELSE "FAILED"]
        /\ \A u \in Task : ~(job[u] = job[t] /\ step[u] = "locked")
    BY <1>4 DEF ReadFails, Handled, importVars
  <2> QED BY <2>1
<1>5. ASSUME NEW o \in Observer, LookAway(o) \/ GiveUp(o) \/ Dispatch(o) PROVE RowInv'
  <2>1. Leaves(o) /\ row' = row /\ anns' = anns /\ tried' = tried
    BY <1>5 DEF LookAway, GiveUp, Dispatch, importVars
  <2>2. RowsOwned'
    BY <2>1, LeavesJobs
  <2> QED BY <2>1, <2>2
<1>6. ASSUME NEW d \in Doc, NEW t \in Task, Start(t, d) PROVE RowInv'
  BY <1>6 DEF Start, importVars
<1>7. ASSUME NEW t \in Task, Crash(t) PROVE RowInv'
  BY <1>7 DEF Crash, Gone
<1>8. ASSUME NEW d \in Doc, Delete(d) PROVE RowInv'
  BY <1>8 DEF Delete
<1>9. CASE UNCHANGED <<tried, row, anns, job, step>>
  BY <1>9
<1> QED
  BY <1>1, <1>2, <1>3, <1>4, <1>5, <1>6, <1>7, <1>8, <1>9
     DEF Next, Import, Remap, Observe, Interrupt, Deliver, Arm, ImporterDies, StartForNothing,
         Halt, Retry, LockRun, Count, ClaimRun, ReadRun, Finalize, Reclaim, Wire, WireRaises,
         RecordFailure, Acknowledge, FinalizerCrashes, vars, importVars, taskVars

-----------------------------------------------------------------------------
(* The run *)

\* Whoever claims the run has seen it armed, and every document settled.
LEMMA RunKept ==
  ASSUME TypeOK, RowInv, RunInv, [Next]_vars
  PROVE  RunInv'
<1> USE DEF RunInv, RunOwned, ArmedThenClaimed, SettledBeforeWiring, TypeOK, Holding, RunStatus
<1>1. ASSUME NEW d \in Doc, ImportDoc(d) PROVE RunInv'
  <2>1. run = "ENUMERATING" /\ run' = run /\ sent' = sent /\ fin' = fin /\ look' = look
    BY <1>1 DEF ImportDoc, finVars
  <2>2. \A o \in Observer : look[o] \notin Holding
    BY <2>1
  <2> QED BY <2>1, <2>2
<1>2. CASE Arm
  <2>1. run = "ENUMERATING" /\ run' = "READY" /\ tried' = Doc /\ ~importing' /\ ~sent'
    BY <1>2 DEF Arm, finVars
  <2>2. fin' = fin /\ look' = [look EXCEPT ![Importer] = "due"]
    BY <1>2 DEF Arm, finVars
  <2> QED BY <2>1, <2>2
<1>3. CASE ImporterDies
  <2>1. /\ run' = run /\ tried' = tried /\ ~importing' /\ sent' = sent /\ fin' = fin /\ row' = row
        /\ look' = [look EXCEPT ![Importer] = "no"]
    BY <1>3 DEF ImporterDies, taskVars, finVars
  <2> QED BY <2>1 DEF Remaining
<1>4. ASSUME NEW t \in Task, Commit(t) \/ Skip(t) \/ ReadFails(t) \/ Crash(t) PROVE RunInv'
  <2>1. /\ run' = run /\ tried' = tried /\ importing' = importing /\ sent' = sent /\ fin' = fin
        /\ look' = [look EXCEPT ![t] = "due"] \/ look' = [look EXCEPT ![t] = "no"]
    BY <1>4 DEF Commit, Skip, ReadFails, Crash, Handled, importVars, finVars
  <2>2. \A d \in Doc : row'[d] = "PENDING" => row[d] = "PENDING"
    BY <1>4 DEF Commit, Skip, ReadFails, Crash, Verdict
  <2>3. Remaining' => Remaining
    BY <2>2 DEF Remaining
  <2> QED BY <2>1, <2>3
<1>5. ASSUME NEW o \in Observer, LookAway(o) \/ GiveUp(o) PROVE RunInv'
  <2>1. /\ run' = run /\ tried' = tried /\ importing' = importing /\ sent' = sent /\ fin' = fin
        /\ row' = row /\ look' = [look EXCEPT ![o] = "no"]
    BY <1>5 DEF LookAway, GiveUp, Leaves, importVars, finVars
  <2> QED BY <2>1 DEF Remaining
<1>6. ASSUME NEW o \in Observer, LockRun(o) PROVE RunInv'
  <2>1. /\ run' = run /\ tried' = tried /\ importing' = importing /\ sent' = sent /\ fin' = fin
        /\ row' = row /\ look' = [look EXCEPT ![o] = "locked"]
        /\ run = "READY" /\ \A p \in Observer : look[p] \notin Holding
    BY <1>6 DEF LockRun, Claimable, RunHeld, importVars, taskVars, finVars
  <2> QED BY <2>1 DEF Remaining
<1>7. ASSUME NEW o \in Observer, Count(o) PROVE RunInv'
  <2>1. /\ run' = run /\ tried' = tried /\ importing' = importing /\ sent' = sent /\ fin' = fin
        /\ row' = row /\ look[o] = "locked"
        /\ look' = [look EXCEPT ![o] = IF Remaining THEN "remaining" ELSE "clear"]
    BY <1>7 DEF Count, importVars, taskVars, finVars
  <2>2. Remaining' = Remaining
    BY <2>1 DEF Remaining
  <2> QED BY <2>1, <2>2
<1>8. ASSUME NEW o \in Observer, ClaimRun(o) PROVE RunInv'
  <2>1. /\ tried' = tried /\ importing' = importing /\ row' = row /\ look[o] = "clear"
        /\ run' = "FINALIZING" /\ look' = [look EXCEPT ![o] = "claimed"]
    BY <1>8 DEF ClaimRun, importVars, taskVars
  <2>2. run = "READY" /\ tried = Doc /\ ~Remaining /\ ~importing
    BY <2>1
  <2>3. ~Remaining'
    BY <2>1, <2>2 DEF Remaining
  <2> QED BY <2>1, <2>2, <2>3
<1>9. ASSUME NEW o \in Observer, Dispatch(o) PROVE RunInv'
  <2>1. /\ run' = run /\ tried' = tried /\ importing' = importing /\ row' = row
        /\ look[o] = "claimed" /\ look' = [look EXCEPT ![o] = "no"]
    BY <1>9 DEF Dispatch, Leaves, importVars
  <2>2. run \notin {"ENUMERATING", "READY"}
    BY <2>1
  <2> QED BY <2>1, <2>2 DEF Remaining
<1>10. ASSUME NEW f \in Finalizer, ReadRun(f) \/ Finalize(f) \/ FinalizerCrashes(f) PROVE RunInv'
  <2>1. sent \/ fin[f] # "idle"
    BY <1>10 DEF ReadRun, Finalize, Reclaim, Wire, WireRaises, RecordFailure, Acknowledge,
                 FinalizerCrashes
  <2>2. run \notin {"ENUMERATING", "READY"}
    BY <2>1
  <2>3. run' \in {run, "DONE", "FAILED"} /\ tried' = tried /\ importing' = importing
    BY <1>10 DEF ReadRun, Finalize, Reclaim, Wire, WireRaises, RecordFailure, Acknowledge,
                 FinalizerCrashes, importVars
  <2>4. row' = row /\ look' = look
    BY <1>10 DEF ReadRun, Finalize, Reclaim, Wire, WireRaises, RecordFailure, Acknowledge,
                 FinalizerCrashes, taskVars
  <2> QED BY <2>2, <2>3, <2>4 DEF Remaining
<1>11. ASSUME NEW d \in Doc, Delete(d) PROVE RunInv'
  <2>1. /\ run' = run /\ tried' = tried /\ importing' = importing /\ sent' = sent /\ fin' = fin
        /\ look' = look /\ row' = [row EXCEPT ![d] = "gone"]
    BY <1>11 DEF Delete, finVars
  <2>2. Remaining' => Remaining
    BY <2>1 DEF Remaining
  <2> QED BY <2>1, <2>2
<1>12. CASE UNCHANGED <<run, tried, importing, sent, fin, look, row>>
  BY <1>12 DEF Remaining
<1> QED
  BY <1>1, <1>2, <1>3, <1>4, <1>5, <1>6, <1>7, <1>8, <1>9, <1>10, <1>11, <1>12
     DEF Next, Import, Remap, Observe, Interrupt, Deliver, Lock, Raise, Start, StartForNothing,
         Halt, Retry, vars, importVars, taskVars, finVars

-----------------------------------------------------------------------------
(* The wiring *)

\* Only the finalizer that has the run wires it, and no document is done later.
LEMMA WiringKept ==
  ASSUME TypeOK, RowInv, RunInv, WireInv, [Next]_vars
  PROVE  WireInv'
<1> USE DEF WireInv, WiringOwned, WiringComplete, WiredOnce, TypeOK, RunStatus, Rerunnable
<1>1. \A d \in Doc : run = "DONE" /\ row'[d] = "DONE" => row[d] = "DONE"
  <2> SUFFICES ASSUME NEW d \in Doc, run = "DONE", row'[d] = "DONE", row[d] # "DONE" PROVE FALSE
    OBVIOUS
  <2>1. tried = Doc /\ ~importing /\ \A t \in Task : step[t] # "locked"
    BY DEF RunInv, ArmedThenClaimed, SettledBeforeWiring, Remaining, RowInv, RowsOwned
  <2>2. row' # row
    BY DEF RunInv
  <2>3. CASE \E t \in Task : ReadFails(t)
    <3>1. PICK t \in Task : row' = [row EXCEPT ![job[t]] = IF @ = "gone" THEN @ ELSE "FAILED"]
      BY <2>3 DEF ReadFails
    <3> QED BY <3>1
  <2>4. CASE \E e \in Doc : Delete(e)
    BY <2>4 DEF Delete
  <2> QED
    BY <2>1, <2>2, <2>3, <2>4
       DEF Next, Import, ImportDoc, Arm, Remap, Lock, Commit, Skip, Raise, Observe, LookAway,
           LockRun, Count, GiveUp, ClaimRun, Dispatch, ReadRun, Finalize, Reclaim, Wire,
           WireRaises, RecordFailure, Acknowledge, Deliver, Start, StartForNothing, Halt, Retry,
           Interrupt, ImporterDies, Crash, FinalizerCrashes, vars, taskVars
<1>2. ASSUME NEW f \in Finalizer, ReadRun(f) \/ Reclaim(f) PROVE WireInv'
  <2>1. /\ run' = run /\ row' = row /\ wired' = wired /\ wiredFrom' = wiredFrom
        /\ overwritten' = overwritten
    BY <1>2 DEF ReadRun, Reclaim, taskVars
  <2>2. \/ fin' \in {[fin EXCEPT ![f] = "read"], [fin EXCEPT ![f] = "done"]}
        \/ /\ fin' = [fin EXCEPT ![f] = "locked"]
           /\ Rerunnable /\ \A g \in Finalizer : fin[g] # "locked"
    BY <1>2 DEF ReadRun, Reclaim, FinHeld
  <2> QED BY <2>1, <2>2
<1>3. ASSUME NEW f \in Finalizer, Wire(f) PROVE WireInv'
  <2>1. /\ fin[f] = "locked" /\ run' = "DONE" /\ wired' = wired + 1 /\ row' = row
        /\ wiredFrom' = {d \in Doc : row[d] = "DONE"} /\ overwritten' = overwritten
        /\ fin' = [fin EXCEPT ![f] = "done"]
    BY <1>3 DEF Wire, taskVars
  <2>2. run # "DONE" /\ (wired = 0 \/ overwritten)
    BY <2>1
  <2>3. \A g \in Finalizer : fin'[g] # "locked"
    BY <2>1
  <2> QED BY <2>1, <2>2, <2>3
<1>4. ASSUME NEW f \in Finalizer, WireRaises(f) \/ Acknowledge(f) \/ FinalizerCrashes(f)
      PROVE  WireInv'
  <2>1. /\ run' = run /\ row' = row /\ wired' = wired /\ wiredFrom' = wiredFrom
        /\ overwritten' = overwritten
        /\ fin' \in {[fin EXCEPT ![f] = "raised"], [fin EXCEPT ![f] = "idle"]}
    BY <1>4 DEF WireRaises, Acknowledge, FinalizerCrashes, taskVars
  <2> QED BY <2>1
<1>5. ASSUME NEW f \in Finalizer, RecordFailure(f) PROVE WireInv'
  <2>1. /\ run' = "FAILED" /\ wired' = wired /\ (overwritten' <=> overwritten \/ run = "DONE")
        /\ fin' = [fin EXCEPT ![f] = "done"] /\ \A g \in Finalizer : fin[g] # "locked"
    BY <1>5 DEF RecordFailure, FinHeld
  <2> QED BY <2>1
<1>6. CASE Arm \/ \E o \in Observer : ClaimRun(o)
  <2>1. run \in {"ENUMERATING", "READY"} /\ run' \in {"READY", "FINALIZING"}
    BY <1>6 DEF Arm, ClaimRun, RunInv, ArmedThenClaimed, RunOwned, Holding
  <2>2. wired' = wired /\ overwritten' = overwritten /\ fin' = fin
    BY <1>6 DEF Arm, ClaimRun, finVars
  <2>3. \A g \in Finalizer : fin[g] = "idle"
    BY <2>1 DEF RunInv, ArmedThenClaimed
  <2> QED BY <2>1, <2>2, <2>3
<1>7. CASE UNCHANGED <<run, fin, wired, wiredFrom, overwritten>>
  BY <1>1, <1>7
<1> QED
  BY <1>2, <1>3, <1>4, <1>5, <1>6, <1>7
     DEF Next, Import, ImportDoc, Remap, Lock, Commit, Skip, ReadFails, Raise, Observe, LookAway,
         LockRun, Count, GiveUp, Dispatch, Finalize, Deliver, Start, StartForNothing, Halt, Retry,
         Interrupt, ImporterDies, Crash, Delete, vars, finVars

-----------------------------------------------------------------------------
(* Theorems *)

\* An import that begins satisfies the invariant.
LEMMA ImportInit == Init => ImportInv
<1> SUFFICES ASSUME Init PROVE ImportInv
  OBVIOUS
<1> USE DEF Init
<1>1. TypeOK
  <2>1. interrupts \in 0..MaxInterrupts /\ wired \in 0..MaxWirings
    OBVIOUS
  <2>2. /\ row \in [Doc -> {"none", "PENDING", "DONE", "FAILED", "gone"}]
        /\ anns \in [Doc -> Nat] /\ chain \in [Doc -> {"none", "running", "halted", "over"}]
    OBVIOUS
  <2> QED BY <2>1, <2>2 DEF TypeOK, RunStatus
<1>2. RowsOwned /\ VerdictFirst /\ AnnotationsOnce
  BY DEF RowsOwned, VerdictFirst, AnnotationsOnce
<1>3. RunOwned /\ ArmedThenClaimed /\ SettledBeforeWiring
  BY DEF RunOwned, ArmedThenClaimed, SettledBeforeWiring, Holding
<1>4. WiringOwned /\ WiringComplete /\ WiredOnce
  BY DEF WiringOwned, WiringComplete, WiredOnce
<1>5. QED
  BY <1>1, <1>2, <1>3, <1>4 DEF ImportInv

\* Every reachable state of an import satisfies it.
LEMMA ImportInvariant == Spec => []ImportInv
<1>1. ImportInv /\ [Next]_vars => ImportInv'
  BY TypesKept, RowsKept, RunKept, WiringKept DEF ImportInv, RowInv, RunInv, WireInv
<1>2. QED
  BY <1>1, ImportInit, PTL DEF Spec

\* However often remaps are delivered, retried, overlapped or lost, the deferred
\* annotations of a document are imported at most once.
THEOREM ImportedAtMostOnce == Spec => []AnnotationsOnce
<1>1. ImportInv => AnnotationsOnce
  BY DEF ImportInv
<1>2. QED
  BY <1>1, ImportInvariant, PTL

\* The run is claimed for wiring only when every document has been enumerated
\* and none is pending, and stays so.
THEOREM WiringAfterLast == Spec => []SettledBeforeWiring
<1>1. ImportInv => SettledBeforeWiring
  BY DEF ImportInv
<1>2. QED
  BY <1>1, ImportInvariant, PTL

\* A wired run has used the annotations of every document that is done.
THEOREM WiringFromAll == Spec => []WiringComplete
<1>1. ImportInv => WiringComplete
  BY DEF ImportInv
<1>2. QED
  BY <1>1, ImportInvariant, PTL

\* Relationships are wired once, unless a failed finalizer has overwritten DONE.
THEOREM WiringNotRepeated == Spec => []WiredOnce
<1>1. ImportInv => WiredOnce
  BY DEF ImportInv
<1>2. QED
  BY <1>1, ImportInvariant, PTL
=============================================================================
