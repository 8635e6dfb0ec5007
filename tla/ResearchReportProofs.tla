------------------------ MODULE ResearchReportProofs ------------------------
(***************************************************************************)
(* Proofs about ResearchReport for every set of reports and of workers and *)
(* every bound: however executions of run_deep_research overlap, a         *)
(* completed report carries no error, and findings are only withheld by    *)
(* the step that completes it.                                             *)
(***************************************************************************)
EXTENDS ResearchReport, FiniteSetTheorems, TLAPS

USE BoundsAssumption, NoneAssumption

(***************************************************************************)
(* The inductive invariant.  CleanCompletion needs to know where an error  *)
(* can be when a report is completed: it is left by a step that ends the   *)
(* report, and stays until a worker starts it again; a report is inserted  *)
(* before anything is delivered for it.                                    *)
(***************************************************************************)
ErrorsEnded == \A r \in error : status[r] \in {"FAILED", "CANCELLED"}

Inserted ==
  \A r \in Report : status[r] = "NONE" =>
    messages[r] = 0 /\ \A w \in Worker : job[w] # r

NotYetInserted == \A r \in starting : status[r] = "NONE"

HoldsOne == \A w \in Worker : job[w] = None <=> phase[w] = "idle"

\* What a report has queued or at work was enqueued within the bound.
Load(r) == {w \in Worker : job[w] = r}

LoadBounded == \A r \in Report : messages[r] + Cardinality(Load(r)) <= MaxMessages

ReportInv ==
  TypeOK /\ ErrorsEnded /\ Inserted /\ NotYetInserted /\ HoldsOne /\ LoadBounded

-----------------------------------------------------------------------------
(* Messages and the workers they become *)

LEMMA LoadFinite == ASSUME NEW r PROVE IsFiniteSet(Load(r)) /\ Cardinality(Load(r)) \in Nat
<1>1. IsFiniteSet(Load(r))
  BY WorkersAssumption, FS_Subset DEF Load
<1>2. QED
  BY <1>1, FS_CardinalityType

\* A worker that takes up a report adds one to its load.
LEMMA TakesUp ==
  ASSUME TypeOK, NEW w \in Worker, NEW r \in Report, job[w] = None,
         job' = [job EXCEPT ![w] = r]
  PROVE  /\ Cardinality(Load(r)') = Cardinality(Load(r)) + 1
         /\ \A q \in Report : q # r => Load(q)' = Load(q)
<1>1. Load(r)' = Load(r) \cup {w} /\ w \notin Load(r)
  BY DEF TypeOK, Load
<1>2. \A q \in Report : q # r => Load(q)' = Load(q)
  BY DEF TypeOK, Load
<1>3. QED
  BY <1>1, <1>2, LoadFinite, FS_AddElement

\* A worker that leaves a report takes one off its load.
LEMMA LetsGo ==
  ASSUME TypeOK, NEW w \in Worker, NEW r \in Report, job[w] = r,
         job' = [job EXCEPT ![w] = None]
  PROVE  /\ Cardinality(Load(r)') = Cardinality(Load(r)) - 1
         /\ \A q \in Report : q # r => Load(q)' = Load(q)
<1>1. \A v \in Worker : job'[v] = IF v = w THEN None ELSE job[v]
  BY DEF TypeOK
<1>2. {v \in Worker : job'[v] = r} = Load(r) \ {w} /\ w \in Load(r)
  BY <1>1 DEF Load
<1>3. Cardinality({v \in Worker : job'[v] = r}) = Cardinality(Load(r)) - 1
  BY <1>2, LoadFinite, FS_RemoveElement
<1>4. \A q \in Report : q # r => Load(q)' = Load(q)
  BY <1>1 DEF Load
<1>5. QED
  BY <1>3, <1>4 DEF Load

\* What is not queued and not worked on has no load.
LEMMA NoLoad ==
  ASSUME NEW r \in Report, \A w \in Worker : job[w] # r PROVE Cardinality(Load(r)) = 0
<1>1. Load(r) = {}
  BY DEF Load
<1>2. QED
  BY <1>1, FS_EmptySet

-----------------------------------------------------------------------------
(* Every step keeps the invariant *)

LEMMA InitInv == Init => ReportInv
<1>1. SUFFICES ASSUME Init PROVE ReportInv
  OBVIOUS
<1>2. TypeOK
  BY <1>1 DEF Init, TypeOK, Ended, Active
<1>3. ErrorsEnded /\ Inserted /\ NotYetInserted /\ HoldsOne
  BY <1>1 DEF Init, ErrorsEnded, Inserted, NotYetInserted, HoldsOne
<1>4. LoadBounded
  <2>1. ASSUME NEW r \in Report PROVE messages[r] = 0 /\ Cardinality(Load(r)) = 0
    BY <1>1, NoLoad DEF Init
  <2>2. QED
    BY <2>1 DEF LoadBounded
<1>5. QED
  BY <1>2, <1>3, <1>4 DEF ReportInv

\* A step that gives no job leaves the loads alone.
LEMMA SameLoad ==
  ASSUME LoadBounded, job' = job,
         \A r \in Report : messages'[r] \in Nat /\
           (messages'[r] <= messages[r] \/ messages'[r] + Cardinality(Load(r)) <= MaxMessages),
         messages \in [Report -> Nat]
  PROVE  LoadBounded'
<1>1. \A r : Load(r)' = Load(r)
  BY DEF Load
<1>2. SUFFICES ASSUME NEW r \in Report
               PROVE  messages'[r] + Cardinality(Load(r)) <= MaxMessages
  BY <1>1 DEF LoadBounded
<1>3. Cardinality(Load(r)) \in Nat /\ messages[r] + Cardinality(Load(r)) <= MaxMessages
  BY LoadFinite DEF LoadBounded
<1>4. QED
  BY <1>3

\* Starting a report: the guard, and the insert that enqueues it.
LEMMA StartStep ==
  ASSUME ReportInv, NEW r \in Report, PassGuard(r) \/ Insert(r)
  PROVE  ReportInv'
<1> USE DEF ReportInv
<1>1. CASE PassGuard(r)
  <2>1. TypeOK'
    BY <1>1 DEF PassGuard, TypeOK, reportVars, workerVars
  <2>2. (ErrorsEnded /\ Inserted /\ NotYetInserted /\ HoldsOne)'
    BY <1>1 DEF PassGuard, ErrorsEnded, Inserted, NotYetInserted, HoldsOne, reportVars, workerVars
  <2>3. LoadBounded'
    BY <1>1, SameLoad DEF PassGuard, TypeOK, workerVars
  <2>4. QED
    BY <2>1, <2>2, <2>3
<1>2. CASE Insert(r)
  <2>1. /\ status[r] = "NONE" /\ messages[r] = 0 /\ \A w \in Worker : job[w] # r
        /\ status' = [status EXCEPT ![r] = "QUEUED"] /\ error' = error
        /\ starting' = starting \ {r} /\ job' = job /\ phase' = phase
    BY <1>2 DEF Insert, NotYetInserted, Inserted, workerVars
  <2>2. messages' = messages \/ messages' = [messages EXCEPT ![r] = 1]
    BY <1>2, <2>1 DEF Insert, TypeOK
  <2>3. messages' \in [Report -> 0..MaxMessages] /\ messages'[r] <= 1
        /\ \A q \in Report : q # r => messages'[q] = messages[q]
    BY <2>1, <2>2 DEF TypeOK
  <2>4. TypeOK'
    <3>1. status' \in [Report -> {"NONE"} \cup Active \cup Ended] /\ starting' \subseteq Report
      BY <2>1 DEF TypeOK, Active
    <3>2. recent' \subseteq Report
      BY <1>2 DEF Insert, TypeOK
    <3>3. UNCHANGED <<error, cancelRequested, cold, findings, notified, workerVars>>
      BY <1>2 DEF Insert
    <3>4. QED
      BY <2>3, <3>1, <3>2, <3>3 DEF TypeOK, workerVars
  <2>5. (ErrorsEnded /\ Inserted /\ NotYetInserted /\ HoldsOne)'
    BY <2>1, <2>3 DEF TypeOK, ErrorsEnded, Inserted, NotYetInserted, HoldsOne
  <2>6. LoadBounded'
    <3>1. SUFFICES ASSUME NEW q \in Report
                   PROVE  messages'[q] + Cardinality(Load(q)) <= MaxMessages
      BY <2>1 DEF LoadBounded, Load
    <3>2. CASE q = r
      BY <2>1, <2>3, <2>4, <3>2, NoLoad DEF TypeOK
    <3>3. CASE q # r
      BY <2>3, <3>3 DEF LoadBounded
    <3>4. QED
      BY <3>2, <3>3
  <2>7. QED
    BY <2>4, <2>5, <2>6
<1>3. QED
  BY <1>1, <1>2

\* A message becomes a worker's job, or is dropped.
LEMMA BeginStep ==
  ASSUME ReportInv, NEW w \in Worker, NEW r \in Report, Begin(w, r)
  PROVE  ReportInv'
<1> USE DEF ReportInv
<1>1. /\ job[w] = None /\ messages[r] \in Nat /\ messages[r] > 0
      /\ messages' = [messages EXCEPT ![r] = @ - 1]
      /\ status' = status /\ error' = error /\ starting' = starting /\ findings' = findings
      /\ findings[r] \in 0..MaxFindings
  BY DEF Begin, TypeOK, reportVars
<1>2. /\ messages' \in [Report -> 0..MaxMessages] /\ messages'[r] = messages[r] - 1
      /\ \A q \in Report : q # r => messages'[q] = messages[q]
  BY <1>1 DEF TypeOK
<1>3. status[r] # "NONE"
  BY <1>1 DEF Inserted
<1>4. CASE status[r] \in Ended
  <2>1. UNCHANGED workerVars
    BY <1>4 DEF Begin
  <2>2. TypeOK'
    BY <1>1, <1>2, <2>1 DEF Begin, TypeOK, reportVars, workerVars
  <2>3. (ErrorsEnded /\ Inserted /\ NotYetInserted /\ HoldsOne)'
    BY <1>1, <1>2, <1>3, <2>1 DEF ErrorsEnded, Inserted, NotYetInserted, HoldsOne, workerVars
  <2>4. LoadBounded'
    <3>1. \A q \in Report : messages'[q] \in Nat /\ messages'[q] <= messages[q]
      BY <1>1, <1>2 DEF TypeOK
    <3>2. messages \in [Report -> Nat] /\ job' = job
      BY <2>1 DEF TypeOK, workerVars
    <3>3. QED
      BY <3>1, <3>2, SameLoad
  <2>5. QED
    BY <2>2, <2>3, <2>4
<1>5. CASE status[r] \notin Ended
  <2>1. /\ job' = [job EXCEPT ![w] = r] /\ phase' = [phase EXCEPT ![w] = "loaded"]
        /\ copy' = [copy EXCEPT ![w] = findings[r]] /\ outcome' = outcome
    BY <1>5 DEF Begin
  <2>2. TypeOK'
    BY <1>1, <1>2, <2>1 DEF Begin, TypeOK, reportVars
  <2>3. (ErrorsEnded /\ NotYetInserted /\ HoldsOne)'
    BY <1>1, <2>1 DEF TypeOK, ErrorsEnded, NotYetInserted, HoldsOne
  <2>4. Inserted'
    BY <1>1, <1>2, <1>3, <2>1 DEF TypeOK, Inserted
  <2>5. LoadBounded'
    <3>1. SUFFICES ASSUME NEW q \in Report
                   PROVE  messages'[q] + Cardinality(Load(q)') <= MaxMessages
      BY DEF LoadBounded
    <3>2. CASE q = r
      <4>1. Cardinality(Load(r)') = Cardinality(Load(r)) + 1
        BY <1>1, <2>1, TakesUp
      <4>2. Cardinality(Load(r)) \in Nat /\ messages[r] + Cardinality(Load(r)) <= MaxMessages
        BY LoadFinite DEF LoadBounded
      <4>3. QED
        BY <1>1, <1>2, <3>2, <4>1, <4>2
    <3>3. CASE q # r
      BY <1>1, <1>2, <2>1, <3>3, TakesUp DEF LoadBounded
    <3>4. QED
      BY <3>2, <3>3
  <2>6. QED
    BY <2>2, <2>3, <2>4, <2>5
<1>6. QED
  BY <1>4, <1>5

\* A worker that is not idle works on a report that was inserted.
LEMMA AtWork ==
  ASSUME ReportInv, NEW w \in Worker, phase[w] # "idle"
  PROVE  job[w] \in Report /\ status[job[w]] # "NONE"
BY DEF ReportInv, TypeOK, HoldsOne, Inserted

\* A worker's own saves: whatever they make of the report, an error stays only
\* on one that has ended without a report.
LEMMA WorkStep ==
  ASSUME ReportInv, NEW w \in Worker,
         \/ MarkStarted(w) \/ ToolCall(w) \/ FinalizeReport(w) \/ ChatEnds(w) \/ Salvage(w)
         \/ \E s \in Ended : Stopped(w, s)
  PROVE  ReportInv'
<1> USE DEF ReportInv
<1> DEFINE r == job[w]
<1>1. /\ phase[w] \in {"loaded", "chatting", "salvaging"}
      /\ UNCHANGED <<messages, starting, job>>
  BY DEF MarkStarted, ToolCall, FinalizeReport, ChatEnds, Salvage, Stopped, workerVars, reportVars
<1>2. r \in Report /\ status[r] # "NONE" /\ findings[r] \in 0..MaxFindings
  BY <1>1, AtWork DEF TypeOK
<1>3. \/ status' = status /\ error' = error
      \/ status' = [status EXCEPT ![r] = "RUNNING"] /\ error' = error \ {r}
      \/ MayFinalize(r) /\ status' = [status EXCEPT ![r] = "COMPLETED"] /\ error' = error
      \/ status' = [status EXCEPT ![r] = "CANCELLED"] /\ error' = error
      \/ status' = [status EXCEPT ![r] = "FAILED"] /\ error' = error \cup {r}
  BY DEF MarkStarted, ToolCall, FinalizeReport, ChatEnds, Salvage, Stopped, FinalizeOnce,
         reportVars
<1>4. phase' = phase \/ \E x \in {"chatting", "salvaging", "ending"} : phase' = [phase EXCEPT ![w] = x]
  BY DEF MarkStarted, ToolCall, FinalizeReport, ChatEnds, Salvage, Stopped, workerVars
<1>5. findings' = findings \/ \E n \in 0..MaxFindings : findings' = [findings EXCEPT ![r] = n]
  <2>1. CASE ToolCall(w)
    BY <1>2, <2>1 DEF ToolCall, Appended
  <2>2. CASE FinalizeReport(w) \/ Salvage(w)
    BY <1>2, <2>2 DEF FinalizeReport, Salvage, FinalizeOnce
  <2>3. CASE MarkStarted(w) \/ ChatEnds(w) \/ \E s \in Ended : Stopped(w, s)
    BY <2>3 DEF MarkStarted, ChatEnds, Stopped, reportVars
  <2>4. QED
    BY <2>1, <2>2, <2>3
<1>6. copy' = copy \/ \E n \in 0..MaxFindings : copy' = [copy EXCEPT ![w] = n]
  BY <1>2 DEF MarkStarted, ToolCall, Appended, FinalizeReport, ChatEnds, Salvage, Stopped,
              workerVars
<1>7. cold' \subseteq Report
  BY <1>2 DEF TypeOK, MarkStarted, ToolCall, FinalizeReport, ChatEnds, Salvage, Stopped,
              FinalizeOnce, reportVars
<1>8. outcome' = outcome \/ \E s \in Ended : outcome' = [outcome EXCEPT ![w] = s]
  BY DEF MarkStarted, ToolCall, FinalizeReport, ChatEnds, Salvage, Stopped, Ended, workerVars
<1>9. UNCHANGED <<cancelRequested, recent, notified>>
  BY DEF MarkStarted, ToolCall, FinalizeReport, ChatEnds, Salvage, Stopped, reportVars
<1>10. TypeOK'
  <2>1. status' \in [Report -> {"NONE"} \cup Active \cup Ended] /\ error' \subseteq Report
    BY <1>2, <1>3 DEF TypeOK, Active, Ended
  <2>2. /\ phase' \in [Worker -> {"idle", "loaded", "chatting", "salvaging", "ending"}]
        /\ outcome' \in [Worker -> Ended]
    BY <1>4, <1>8 DEF TypeOK
  <2>3. findings' \in [Report -> 0..MaxFindings] /\ copy' \in [Worker -> 0..MaxFindings]
    BY <1>5, <1>6 DEF TypeOK
  <2>4. QED
    BY <1>1, <1>7, <1>9, <2>1, <2>2, <2>3 DEF TypeOK
<1>11. ErrorsEnded'
  BY <1>2, <1>3 DEF TypeOK, ErrorsEnded, MayFinalize, Ended
<1>12. (Inserted /\ NotYetInserted)'
  <2>1. \A q \in Report : status'[q] = "NONE" <=> status[q] = "NONE"
    BY <1>2, <1>3 DEF TypeOK
  <2>2. QED
    BY <1>1, <2>1 DEF TypeOK, Inserted, NotYetInserted
<1>13. HoldsOne'
  BY <1>1, <1>4 DEF TypeOK, HoldsOne
<1>14. LoadBounded'
  BY <1>1, SameLoad DEF TypeOK
<1>15. QED
  BY <1>10, <1>11, <1>12, <1>13, <1>14

\* A worker leaves, having told the user or died; if it was lost, its message
\* takes its place.
LEMMA LeaveStep ==
  ASSUME ReportInv, NEW w \in Worker, Notify(w) \/ Dies(w)
  PROVE  ReportInv'
<1> USE DEF ReportInv
<1>1. PICK r \in Report :
        /\ job[w] = r /\ Leave(w) /\ r # None /\ status[r] # "NONE"
        /\ UNCHANGED <<status, error, cancelRequested, cold, recent, findings, starting>>
  BY DEF TypeOK, HoldsOne, Inserted, Notify, Dies, WorkerLost, Killed, reportVars
<1>2. messages' = messages \/ messages' = [messages EXCEPT ![r] = @ + 1]
  BY <1>1 DEF Notify, Dies, WorkerLost, Killed
<1>3. notified' \in [Report -> SUBSET Ended]
  BY <1>1 DEF TypeOK, Notify, Dies, WorkerLost, Killed, reportVars
<1>4. /\ job' = [job EXCEPT ![w] = None] /\ phase' = [phase EXCEPT ![w] = "idle"]
      /\ outcome' = outcome /\ copy' = copy
  BY <1>1 DEF Leave
<1>5. /\ messages'[r] \in Nat /\ messages'[r] <= messages[r] + 1
      /\ \A q \in Report : q # r => messages'[q] = messages[q]
      /\ DOMAIN messages' = Report /\ messages' = [q \in Report |-> messages'[q]]
  BY <1>1, <1>2 DEF TypeOK
<1>6. LoadBounded'
  <2>1. SUFFICES ASSUME NEW q \in Report
                 PROVE  messages'[q] + Cardinality(Load(q)') <= MaxMessages
    BY DEF LoadBounded
  <2>2. CASE q = r
    <3>1. Cardinality(Load(r)') = Cardinality(Load(r)) - 1
      BY <1>1, <1>4, LetsGo
    <3>2. messages[r] + Cardinality(Load(r)) <= MaxMessages /\ messages[r] \in Nat
      BY <1>1 DEF LoadBounded, TypeOK
    <3>3. Cardinality(Load(r)) \in Nat
      BY LoadFinite
    <3>4. QED
      BY <1>5, <2>2, <3>1, <3>2, <3>3
  <2>3. CASE q # r
    BY <1>1, <1>4, <1>5, <2>3, LetsGo DEF LoadBounded
  <2>4. QED
    BY <2>2, <2>3
<1>7. messages' \in [Report -> 0..MaxMessages]
  <2>1. ASSUME NEW q \in Report PROVE messages'[q] \in 0..MaxMessages
    <3>1. messages'[q] \in Nat
      BY <1>5 DEF TypeOK
    <3>2. IsFiniteSet(Load(q)') /\ Cardinality(Load(q)') \in Nat
      <4>1. IsFiniteSet(Load(q)')
        BY WorkersAssumption, FS_Subset DEF Load
      <4>2. QED
        BY <4>1, FS_CardinalityType
    <3>3. messages'[q] + Cardinality(Load(q)') <= MaxMessages
      BY <1>6 DEF LoadBounded
    <3>4. QED
      BY <3>1, <3>2, <3>3
  <2>2. QED
    BY <1>5, <2>1
<1>8. TypeOK'
  BY <1>1, <1>3, <1>4, <1>7 DEF TypeOK
<1>9. (ErrorsEnded /\ NotYetInserted)'
  BY <1>1 DEF ErrorsEnded, NotYetInserted
<1>10. HoldsOne'
  BY <1>4 DEF TypeOK, HoldsOne
<1>11. Inserted'
  BY <1>1, <1>4, <1>5 DEF TypeOK, Inserted
<1>12. QED
  BY <1>6, <1>8, <1>9, <1>10, <1>11

\* The reaper enqueues only what fits and is running.
LEMMA ReapStep == ASSUME ReportInv, NEW r \in Report, Reap(r) PROVE ReportInv'
<1> USE DEF ReportInv
<1>1. /\ status[r] = "RUNNING" /\ messages[r] \in Nat
      /\ messages[r] + Cardinality(Load(r)) < MaxMessages
      /\ messages' = [messages EXCEPT ![r] = @ + 1] /\ UNCHANGED <<reportVars, starting, workerVars>>
  BY DEF Reap, Stalled, Room, Load, TypeOK
<1>2. messages' \in [Report -> 0..MaxMessages] /\ messages'[r] = messages[r] + 1
      /\ \A q \in Report : q # r => messages'[q] = messages[q]
  BY <1>1, LoadFinite DEF TypeOK
<1>3. TypeOK'
  BY <1>1, <1>2 DEF TypeOK, reportVars, workerVars
<1>4. (ErrorsEnded /\ Inserted /\ NotYetInserted /\ HoldsOne)'
  BY <1>1, <1>2 DEF ErrorsEnded, Inserted, NotYetInserted, HoldsOne, reportVars, workerVars
<1>5. LoadBounded'
  <2>1. messages \in [Report -> Nat] /\ job' = job
    BY <1>1 DEF TypeOK, workerVars
  <2>2. ASSUME NEW q \in Report
        PROVE  messages'[q] \in Nat /\
                 (messages'[q] <= messages[q] \/ messages'[q] + Cardinality(Load(q)) <= MaxMessages)
    <3>1. CASE q = r
      BY <1>1, <1>2, <3>1, LoadFinite
    <3>2. CASE q # r
      BY <1>2, <2>1, <3>2
    <3>3. QED
      BY <3>1, <3>2
  <2>3. QED
    BY <2>1, <2>2, SameLoad
<1>6. QED
  BY <1>3, <1>4, <1>5

\* Requests to cancel and the clock do not touch statuses, errors or workers.
LEMMA ClockStep ==
  ASSUME ReportInv, NEW r \in Report, RequestCancel(r) \/ GoCold(r) \/ LeaveWindow(r)
  PROVE  ReportInv'
<1> USE DEF ReportInv
<1>1. TypeOK'
  BY DEF RequestCancel, GoCold, LeaveWindow, TypeOK, workerVars
<1>2. (ErrorsEnded /\ Inserted /\ NotYetInserted /\ HoldsOne)'
  BY DEF RequestCancel, GoCold, LeaveWindow, ErrorsEnded, Inserted, NotYetInserted, HoldsOne,
         workerVars
<1>3. LoadBounded'
  BY SameLoad DEF RequestCancel, GoCold, LeaveWindow, TypeOK, workerVars
<1>4. QED
  BY <1>1, <1>2, <1>3

LEMMA StepInv == ReportInv /\ [Next]_vars => ReportInv'
<1>1. SUFFICES ASSUME ReportInv, [Next]_vars PROVE ReportInv'
  OBVIOUS
<1>2. CASE UNCHANGED vars
  BY <1>1, <1>2 DEF vars, reportVars, workerVars, ReportInv, TypeOK, ErrorsEnded, Inserted,
                    NotYetInserted, HoldsOne, LoadBounded, Load
<1>3. CASE Next
  BY <1>1, <1>3, StartStep, BeginStep, WorkStep, LeaveStep, ReapStep, ClockStep DEF Next, Work
<1>4. QED
  BY <1>1, <1>2, <1>3

LEMMA ReportInvariant == Spec => []ReportInv
BY InitInv, StepInv, PTL DEF Spec

-----------------------------------------------------------------------------
(* The theorems *)

\* Every variable has its type, the queue's bound included: the reaper and
\* redeliveries never enqueue more than MaxMessages for a report.
THEOREM ReportTypes == Spec => []TypeOK
<1>1. ReportInv => TypeOK
  BY DEF ReportInv
<1>2. QED
  BY <1>1, ReportInvariant, PTL

\* A report that reads COMPLETED carries no error, whichever of the executions
\* that worked on it failed, was stopped, or started it again.
THEOREM CompletedClean == Spec => []CleanCompletion
<1>1. ReportInv => CleanCompletion
  BY DEF ReportInv, ErrorsEnded, CleanCompletion
<1>2. QED
  BY <1>1, ReportInvariant, PTL

\* Findings only become fewer when finalize_once completes their report: no
\* worker writes back the list it loaded over another worker's finding.
THEOREM FindingsOnlyWithheld == Spec => FindingsKept
<1>1. ASSUME ReportInv, [Next]_vars
      PROVE  [\A r \in Report : findings'[r] < findings[r] =>
                status[r] \notin Ended /\ status'[r] = "COMPLETED"]_vars
  <2>1. SUFFICES ASSUME Next, NEW r \in Report, findings'[r] < findings[r]
                 PROVE  status[r] \notin Ended /\ status'[r] = "COMPLETED"
    BY <1>1
  <2>2. findings \in [Report -> 0..MaxFindings] /\ status \in [Report -> {"NONE"} \cup Active \cup Ended]
    BY <1>1 DEF ReportInv, TypeOK
  <2>3. CASE \E w \in Worker : FinalizeReport(w) \/ Salvage(w)
    <3>1. PICK w \in Worker : FinalizeReport(w) \/ Salvage(w)
      BY <2>3
    <3>2. FinalizeOnce(job[w])
      BY <3>1 DEF FinalizeReport, Salvage
    <3>3. \E n \in 0..findings[job[w]] : findings' = [findings EXCEPT ![job[w]] = n]
      BY <2>1, <2>2, <3>2 DEF FinalizeOnce
    <3>4. job[w] = r
      BY <2>1, <2>2, <3>3
    <3>5. QED
      BY <2>1, <2>2, <3>2, <3>4 DEF FinalizeOnce, MayFinalize
  <2>4. CASE \E w \in Worker : ToolCall(w)
    <3>1. PICK w \in Worker : ToolCall(w)
      BY <2>4
    <3>2. findings' = findings \/ findings' = [findings EXCEPT ![job[w]] = findings[job[w]] + 1]
      BY <3>1 DEF ToolCall, Appended
    <3>3. QED
      BY <2>1, <2>2, <3>2
  <2>5. CASE ~ \E w \in Worker : FinalizeReport(w) \/ Salvage(w) \/ ToolCall(w)
    <3>1. findings' = findings
      BY <2>1, <2>5 DEF Next, Work, Dies, PassGuard, Insert, RequestCancel, Reap, GoCold,
        LeaveWindow, MarkStarted, ChatEnds, Notify, Stopped, WorkerLost, Killed, Begin, reportVars
    <3>2. QED
      BY <2>1, <2>2, <3>1
  <2>6. QED
    BY <2>3, <2>4, <2>5
<1>2. QED
  BY <1>1, ReportInvariant, PTL DEF Spec, FindingsKept
=============================================================================
