--------------------------- MODULE ResearchReport ---------------------------
(***************************************************************************)
(* Deep research (opencontractserver/research, tasks/research_tasks.py):   *)
(* the reports one user starts on one corpus, the Celery executions of     *)
(* run_deep_research that drive an agent until a report is finalized,      *)
(* cooperative cancellation, time limits, dying workers, and the reaper    *)
(* that enqueues a stalled report again, so that several executions may be *)
(* working on one report.                                                  *)
(*                                                                         *)
(* Every save is an action of its own: only findings and the final report  *)
(* are written under the row's lock, other saves are unconditional.        *)
(***************************************************************************)
EXTENDS Naturals, FiniteSets

CONSTANTS
  Report,       \* reports that may be started
  Worker,       \* concurrent executions of run_deep_research
  MaxFindings,  \* bound on the findings recorded for a report
  MaxMessages,  \* bound on the queued messages for a report
  None          \* no report

ASSUME BoundsAssumption == MaxFindings \in Nat /\ MaxMessages \in Nat \ {0}
ASSUME WorkersAssumption == IsFiniteSet(Worker)
ASSUME NoneAssumption == None \notin Report

Ended == {"COMPLETED", "FAILED", "CANCELLED"}
Active == {"QUEUED", "RUNNING"}

VARIABLES
  status,           \* of each report, "NONE" before it is inserted
  error,            \* reports with an error_message
  cancelRequested,  \* reports whose cancellation was requested
  cold,             \* reports without progress for the stuck threshold
  recent,           \* reports created inside the concurrency-guard window
  findings,         \* number of findings stored with each report
  notified,         \* outcomes the user was told of each report
  messages,         \* run_deep_research messages queued for each report
  starting,         \* reports whose start() has passed the concurrency guard
  job,              \* report each worker executes, or None
  phase,            \* how far it is
  outcome,          \* outcome it has to tell the user of
  copy              \* findings its own instance of the report holds

reportVars == <<status, error, cancelRequested, cold, recent, findings, notified>>
workerVars == <<job, phase, outcome, copy>>
vars == <<reportVars, messages, starting, workerVars>>

TypeOK ==
  /\ status \in [Report -> {"NONE"} \cup Active \cup Ended]
  /\ error \subseteq Report /\ cancelRequested \subseteq Report
  /\ cold \subseteq Report /\ recent \subseteq Report
  /\ findings \in [Report -> 0..MaxFindings]
  /\ notified \in [Report -> SUBSET Ended]
  /\ messages \in [Report -> 0..MaxMessages]
  /\ starting \subseteq Report
  /\ job \in [Worker -> Report \cup {None}]
  /\ phase \in [Worker -> {"idle", "loaded", "chatting", "salvaging", "ending"}]
  /\ outcome \in [Worker -> Ended]
  /\ copy \in [Worker -> 0..MaxFindings]

Init ==
  /\ status = [r \in Report |-> "NONE"]
  /\ error = {} /\ cancelRequested = {} /\ cold = {} /\ recent = {}
  /\ findings = [r \in Report |-> 0]
  /\ notified = [r \in Report |-> {}]
  /\ messages = [r \in Report |-> 0]
  /\ starting = {}
  /\ job = [w \in Worker |-> None]
  /\ phase = [w \in Worker |-> "idle"]
  /\ outcome = [w \in Worker |-> "COMPLETED"]
  /\ copy = [w \in Worker |-> 0]

Room(r) == messages[r] + Cardinality({w \in Worker : job[w] = r}) < MaxMessages

-----------------------------------------------------------------------------
(* ResearchReportService.start, request_cancel *)

\* No recent report of this user and corpus is active.  SELECT FOR UPDATE locks
\* the row it finds, and finds none.
PassGuard(r) ==
  /\ status[r] = "NONE" /\ r \notin starting
  /\ \A q \in recent : status[q] \notin Active
  /\ starting' = starting \cup {r}
  /\ UNCHANGED <<reportVars, messages, workerVars>>

\* The row is committed and its task enqueued, unless the process dies between.
Insert(r) ==
  /\ r \in starting
  /\ starting' = starting \ {r}
  /\ status' = [status EXCEPT ![r] = "QUEUED"]
  /\ recent' = recent \cup {r}
  /\ messages' \in {messages, [messages EXCEPT ![r] = @ + 1]}
  /\ UNCHANGED <<error, cancelRequested, cold, findings, notified, workerVars>>

RequestCancel(r) ==
  /\ status[r] \in Active /\ r \notin cancelRequested
  /\ cancelRequested' = cancelRequested \cup {r}
  /\ UNCHANGED <<status, error, cold, recent, findings, notified, messages, starting, workerVars>>

-----------------------------------------------------------------------------
(* run_deep_research *)

\* A delivered message whose report has ended is dropped.
Begin(w, r) ==
  /\ job[w] = None /\ messages[r] > 0
  /\ messages' = [messages EXCEPT ![r] = @ - 1]
  /\ IF status[r] \in Ended
     THEN UNCHANGED workerVars
     ELSE /\ job' = [job EXCEPT ![w] = r]
          /\ phase' = [phase EXCEPT ![w] = "loaded"]
          /\ copy' = [copy EXCEPT ![w] = findings[r]]
          /\ UNCHANGED outcome
  /\ UNCHANGED <<reportVars, starting>>

MarkStarted(w) ==
  LET r == job[w] IN
  /\ phase[w] = "loaded"
  /\ status' = [status EXCEPT ![r] = "RUNNING"]
  /\ error' = error \ {r}
  /\ cold' = cold \ {r}
  /\ phase' = [phase EXCEPT ![w] = "chatting"]
  /\ UNCHANGED <<cancelRequested, recent, findings, notified, messages, starting, job, outcome,
                 copy>>

\* Mutant of Appended: the worker appends to the list it loaded.
AppendedToCopy(w) == copy[w] + 1

\* append_finding appends to the list it reads under the row's lock.
Appended(w) == findings[job[w]] + 1

\* A tool call saves a finding, the plan or the memory, and then polls
\* cancel_requested: ResearchCancelled is handed to the agent as the text of a
\* tool error, and the agent carries on.
ToolCall(w) ==
  LET r == job[w] IN
  /\ phase[w] = "chatting"
  /\ cold' = cold \ {r}
  /\ \/ /\ Appended(w) <= MaxFindings
        /\ findings' = [findings EXCEPT ![r] = Appended(w)]
        /\ copy' = [copy EXCEPT ![w] = Appended(w)]
     \/ UNCHANGED <<findings, copy>>
  /\ UNCHANGED <<status, error, cancelRequested, recent, notified, messages, starting, job, phase,
                 outcome>>

\* Mutant of MayFinalize: only a COMPLETED report is refused.
MayFinalizeUnlessCompleted(r) == status[r] # "COMPLETED"

MayFinalize(r) == status[r] \notin Ended

\* finalize_once: under the row's lock; findings the report does not support
\* are withheld.  An ended report is left alone.
FinalizeOnce(r) ==
  IF MayFinalize(r)
  THEN /\ status' = [status EXCEPT ![r] = "COMPLETED"]
       /\ cold' = cold \ {r}
       /\ \E n \in 0..findings[r] : findings' = [findings EXCEPT ![r] = n]
  ELSE UNCHANGED <<status, cold, findings>>

FinalizeReport(w) ==
  /\ phase[w] = "chatting"
  /\ FinalizeOnce(job[w])
  /\ UNCHANGED <<error, cancelRequested, recent, notified, messages, starting, workerVars>>

\* agent.chat returns, whether the agent finalized, just stopped, or raised.
ChatEnds(w) ==
  LET r == job[w] IN
  /\ phase[w] = "chatting"
  /\ copy' = [copy EXCEPT ![w] = findings[r]]
  /\ IF status[r] = "COMPLETED"
     THEN /\ phase' = [phase EXCEPT ![w] = "ending"]
          /\ outcome' = [outcome EXCEPT ![w] = "COMPLETED"]
     ELSE /\ phase' = [phase EXCEPT ![w] = "salvaging"]
          /\ UNCHANGED outcome
  /\ UNCHANGED <<reportVars, messages, starting, job>>

\* A report is composed from the findings, unless it has ended meanwhile.
Salvage(w) ==
  /\ phase[w] = "salvaging"
  /\ FinalizeOnce(job[w])
  /\ phase' = [phase EXCEPT ![w] = "ending"]
  /\ outcome' = [outcome EXCEPT ![w] = "COMPLETED"]
  /\ UNCHANGED <<error, cancelRequested, recent, notified, messages, starting, job, copy>>

\* The soft time limit, or another exception outside of the agent's chat, ends
\* the run, whatever the status of the report is by now.
Stopped(w, s) ==
  LET r == job[w] IN
  /\ phase[w] \in {"loaded", "chatting", "salvaging"}
  /\ s \in {"CANCELLED", "FAILED"}
  /\ status' = [status EXCEPT ![r] = s]
  /\ error' = IF s = "FAILED" THEN error \cup {r} ELSE error
  /\ cold' = cold \ {r}
  /\ phase' = [phase EXCEPT ![w] = "ending"]
  /\ outcome' = [outcome EXCEPT ![w] = s]
  /\ UNCHANGED <<cancelRequested, recent, findings, notified, messages, starting, job, copy>>

Leave(w) ==
  /\ job' = [job EXCEPT ![w] = None]
  /\ phase' = [phase EXCEPT ![w] = "idle"]
  /\ UNCHANGED <<outcome, copy>>

Notify(w) ==
  /\ phase[w] = "ending"
  /\ notified' = [notified EXCEPT ![job[w]] = @ \cup {outcome[w]}]
  /\ Leave(w)
  /\ UNCHANGED <<status, error, cancelRequested, cold, recent, findings, messages, starting>>

\* The worker process is lost: its message is delivered again.
WorkerLost(w) ==
  /\ job[w] # None
  /\ messages' = [messages EXCEPT ![job[w]] = @ + 1]
  /\ Leave(w)
  /\ UNCHANGED <<reportVars, starting>>

\* The hard time limit kills the task, or an error escapes its handlers; its
\* message is acknowledged.
Killed(w) ==
  /\ job[w] # None
  /\ Leave(w)
  /\ UNCHANGED <<reportVars, messages, starting>>

-----------------------------------------------------------------------------
(* reap_stalled_research *)

\* Mutant of Stalled: reports being cancelled are not resumed.
StalledNotCancelled(r) == status[r] = "RUNNING" /\ r \in cold /\ r \notin cancelRequested

Stalled(r) == status[r] = "RUNNING" /\ r \in cold

Reap(r) ==
  /\ Stalled(r) /\ Room(r)
  /\ messages' = [messages EXCEPT ![r] = @ + 1]
  /\ UNCHANGED <<reportVars, starting, workerVars>>

GoCold(r) ==
  /\ status[r] = "RUNNING" /\ r \notin cold
  /\ cold' = cold \cup {r}
  /\ UNCHANGED <<status, error, cancelRequested, recent, findings, notified, messages, starting,
                 workerVars>>

LeaveWindow(r) ==
  /\ r \in recent
  /\ recent' = recent \ {r}
  /\ UNCHANGED <<status, error, cancelRequested, cold, findings, notified, messages, starting,
                 workerVars>>

-----------------------------------------------------------------------------

\* What a worker does unless it dies.
Work(w) ==
  \/ MarkStarted(w) \/ ToolCall(w) \/ FinalizeReport(w) \/ ChatEnds(w) \/ Salvage(w)
  \/ Notify(w) \/ \E s \in Ended : Stopped(w, s)

Dies(w) == WorkerLost(w) \/ Killed(w)

Next ==
  \/ \E r \in Report : \/ PassGuard(r) \/ Insert(r) \/ RequestCancel(r)
                       \/ Reap(r) \/ GoCold(r) \/ LeaveWindow(r)
  \/ \E w \in Worker : Work(w) \/ Dies(w) \/ \E r \in Report : Begin(w, r)

Spec == Init /\ [][Next]_vars

\* Workers take messages and proceed, a chat ends (its steps and tokens are
\* limited), time passes and Beat runs the reaper.  Nobody need start, cancel
\* or die.
FairSpec ==
  /\ Spec
  /\ \A r \in Report : SF_vars(\E w \in Worker : Begin(w, r)) /\ WF_vars(GoCold(r))
                       /\ WF_vars(Reap(r))
  /\ \A w \in Worker :
       /\ WF_vars(MarkStarted(w)) /\ WF_vars(ChatEnds(w))
       /\ WF_vars(Salvage(w)) /\ WF_vars(Notify(w))

-----------------------------------------------------------------------------
(* Properties *)

\* finalize_once's concern: a report that reads COMPLETED never carries the
\* error of another worker, in whatever order two workers end, restart and
\* finalize it.
CleanCompletion == \A r \in Report : status[r] = "COMPLETED" => r \notin error

\* Findings are lost to no other worker: only finalizing a report, which
\* withholds what it does not support, removes any.
FindingsKept ==
  [][\A r \in Report : findings'[r] < findings[r] =>
       status[r] \notin Ended /\ status'[r] = "COMPLETED"]_vars

\* As long as workers do not die for ever, a running report ends, also when it
\* was abandoned by the worker that died with it, or brought back.
RunsEnd ==
  <>[][\A w \in Worker : ~Dies(w)]_vars =>
    \A r \in Report : status[r] = "RUNNING" ~> status[r] \in Ended

\* start: the guard and the insert "are serialised against concurrent start()
\* calls for the same (creator, corpus)".
\* (The code does not keep it: see "What the code does not keep" in the README.)
OneActivePerPair == Cardinality({r \in recent : status[r] \in Active}) <= 1

\* request_cancel: "The running loop polls and exits."
\* (The code does not keep it: see "What the code does not keep" in the README.)
CancelStopsRun ==
  [][\A w \in Worker : ToolCall(w) /\ job[w] \in cancelRequested => phase'[w] # "chatting"]_vars

\* "No path resets a report out of a terminal state" (finalize_once relies on
\* it): an ended report stays ended, whoever else is executing it.
\* (The code does not keep it: see "What the code does not keep" in the README.)
StaysEnded == [][\A r \in Report : status[r] \in Ended => status'[r] \in Ended]_vars
=============================================================================
