---------------------------- MODULE IngestionRun ----------------------------
(***************************************************************************)
(* One ingestion run of opencontractserver/worker_uploads in "server"      *)
(* embedding mode: its budget, the embedding operations charged to it, the *)
(* reservations (one per attempt of an operation) that stand between the   *)
(* budget and the provider, and the Celery deliveries that execute them.   *)
(*                                                                         *)
(* Every database transaction of run_services.py locks the run row first,  *)
(* so each transaction is one action; the provider call of                 *)
(* execute_reservation lies between two transactions and is a step of its  *)
(* own, so other transactions, crashes and redeliveries interleave with    *)
(* it.                                                                     *)
(***************************************************************************)
EXTENDS Integers, Money

CONSTANTS
  Target,       \* documents, annotations, relationships, notes of the run
  Text,         \* the (non-blank, bounded) texts a target can have
  Cost,         \* Cost[x] = estimated_usd: UTF-8 byte count of x at the run's rate
  MaxAttempts,  \* MAX_OPERATION_ATTEMPTS
  DrainBatch,   \* OPERATION_DRAIN_BATCH_SIZE
  Faults,       \* what may go wrong with a target: a subset of TargetFaults
  Ceilings,     \* ceilings an operator may set
  Worker,       \* Celery processes consuming the worker_uploads queue
  None          \* no such row, vector or job

\* validate_target refuses the target, which is shared with another run or no
\* longer text only; its text cannot be read from storage or not be decoded.
TargetFaults == {"foreign", "unreadable"}
Access == {"valid"} \cup Faults

ASSUME FaultsAssumption == Faults \subseteq TargetFaults
ASSUME FiniteAssumption == IsFiniteSet(Target) /\ IsFiniteSet(Text)
ASSUME CostAssumption == Cost \in [Text -> Nat]
ASSUME AttemptsAssumption == MaxAttempts \in Nat \ {0}
ASSUME BatchAssumption == DrainBatch \in Nat \ {0}
ASSUME CeilingsAssumption == Ceilings \subseteq Nat

RunStatus == {"ACTIVE", "PAUSED", "BUDGET_EXHAUSTED", "POLICY_VIOLATION", "CANCELLED"}
OperationStatus ==
  {"WAITING", "QUEUED", "RUNNING", "COMPLETED", "FAILED", "UNCERTAIN", "CANCELLED"}
ReservationStatus == {"RESERVED", "STARTED", "SETTLED", "UNCERTAIN", "CANCELLED"}

ASSUME NoneAssumption == None \notin Text \cup OperationStatus \cup ReservationStatus

\* An operation's key digests its target and input text: one operation each.
Op == Target \X Text
Attempt == 1..MaxAttempts
\* A reservation is unique per operation and attempt (ingest_attempt_once).
Res == Op \X Attempt

\* estimated_usd of the reservation's operation.
Amount == [r \in Res |-> Cost[r[1][2]]]

VARIABLES
  runStatus, ceiling, accounted, reserved,   \* the IngestionRun row
  opStatus, attempts, created,               \* IngestionOperation rows; created ranks them
  resStatus, settled, issued,                \* IngestionReservation rows: status, accounted_usd,
                                             \* and the rank of created
  text,      \* current text of each target, None once the target is deleted
  access,    \* fault of each target, or "valid"
  vector,    \* text whose vector is stored for the target, None if no vector
  approved,  \* provider configuration and pricing still match the run's policy
  routing,   \* targets and texts read by route_embedding calls not yet at their lock
  queue,     \* reservations with an undelivered or unacknowledged Celery message
  pc,        \* control state of each worker
  job,       \* reservation the worker executes
  receipt,   \* usage cost the provider reported to it
  calls,     \* provider calls ever made for a reservation (history)
  billed     \* what the provider charged for them (history)

runVars == <<runStatus, ceiling, accounted, reserved>>
opVars == <<opStatus, attempts, created>>
resVars == <<resStatus, settled, issued>>
targetVars == <<text, access, vector, approved, routing>>
workerVars == <<pc, job, receipt>>
historyVars == <<calls, billed>>
vars == <<runVars, opVars, resVars, targetVars, queue, workerVars, historyVars>>

TypeOK ==
  /\ runStatus \in RunStatus
  /\ ceiling \in Nat /\ accounted \in Nat /\ reserved \in Nat
  /\ opStatus \in [Op -> OperationStatus \cup {None}]
  /\ attempts \in [Op -> 0..MaxAttempts]
  /\ created \in [Op -> Nat]
  /\ resStatus \in [Res -> ReservationStatus \cup {None}]
  /\ settled \in [Res -> Nat] /\ issued \in [Res -> Nat]
  /\ text \in [Target -> Text \cup {None}]
  /\ access \in [Target -> Access]
  /\ vector \in [Target -> Text \cup {None}]
  /\ approved \in BOOLEAN
  /\ routing \subseteq Op
  /\ queue \subseteq Res
  /\ pc \in [Worker -> {"idle", "calling", "answered", "failed"}]
  /\ job \in [Worker -> Res \cup {None}]
  /\ receipt \in [Worker -> Nat]
  /\ calls \in [Res -> Nat]
  /\ billed \in [Res -> Nat]

\* create_run: the run starts ACTIVE with nothing accounted or reserved.
Init ==
  /\ runStatus = "ACTIVE"
  /\ ceiling \in Ceilings
  /\ accounted = 0 /\ reserved = 0
  /\ opStatus = [o \in Op |-> None]
  /\ attempts = [o \in Op |-> 0]
  /\ created = [o \in Op |-> 0]
  /\ resStatus = [r \in Res |-> None]
  /\ settled = [r \in Res |-> 0] /\ issued = [r \in Res |-> 0]
  /\ text \in [Target -> Text]
  /\ access = [t \in Target |-> "valid"]
  /\ vector = [t \in Target |-> None]
  /\ approved = TRUE
  /\ routing = {}
  /\ queue = {}
  /\ pc = [w \in Worker |-> "idle"]
  /\ job = [w \in Worker |-> None]
  /\ receipt = [w \in Worker |-> 0]
  /\ calls = [r \in Res |-> 0]
  /\ billed = [r \in Res |-> 0]

-----------------------------------------------------------------------------
(* Admission *)

Held == {"RESERVED", "STARTED", "UNCERTAIN"}
HeldRes == {r \in Res : resStatus[r] \in Held}
Executable(s) == s \in {"ACTIVE", "BUDGET_EXHAUSTED"}
Current(o) == <<o, attempts[o]>>

\* Mutant of Violated: a violation overwrites the cancellation.
ViolatedAnyway(s) == "POLICY_VIOLATION"

\* _violate_locked: a cancelled run stays cancelled.
Violated(s) == IF s = "CANCELLED" THEN s ELSE "POLICY_VIOLATION"

\* The reservation the next attempt of o would get.
NextRes(o) == <<o, attempts[o] + 1>>

\* The operations of W, oldest first, whose running total fits in free.
Ahead(W, o) == {p \in W : created[p] <= created[o]}
\* Mutant of Affordable: each admission is checked without those before it.
AffordableAlone(W, free) == {o \in W : Cost[o[2]] <= free}

Affordable(W, free) ==
  {o \in W : Total(Amount, {NextRes(p) : p \in Ahead(W, o)}) <= free}

\* _admit_locked over the operations W, oldest first, in a transaction that
\* has so far given the run the status s, the operations the statuses os, the
\* reservations the statuses rs and the run the reserved sum held.
Admit(W, s, os, rs, held, limit) ==
  LET waiting  == {o \in W : s = "ACTIVE" /\ os[o] = "WAITING"}
      eligible == {o \in waiting : approved /\ attempts[o] < MaxAttempts}
      admitted == Affordable(eligible, limit - accounted - held)
      fresh    == {NextRes(o) : o \in admitted}
  IN /\ runStatus' = IF waiting # {} /\ ~approved THEN Violated(s)
                     ELSE IF admitted # eligible THEN "BUDGET_EXHAUSTED"
                     ELSE s
     /\ opStatus' = [o \in Op |-> IF o \in admitted THEN "QUEUED" ELSE os[o]]
     /\ attempts' = [o \in Op |-> IF o \in admitted THEN attempts[o] + 1 ELSE attempts[o]]
     /\ resStatus' = [r \in Res |-> IF r \in fresh THEN "RESERVED" ELSE rs[r]]
     /\ reserved' = held + Total(Amount, fresh)
     /\ issued' = [r \in Res |->
                     IF r \in fresh
                     THEN Cardinality({x \in Res : resStatus[x] # None})
                            + Cardinality(Ahead(admitted, r[1]))
                     ELSE issued[r]]

\* _nudge: any of the messages may be lost to a broker failure.
Nudge(rows) == \E sent \in SUBSET rows : queue' = queue \cup sent

NewRank == 1 + Cardinality({o \in Op : opStatus[o] # None})

\* route_embedding, before its transaction: a target without a valid vector is
\* due for the one operation of the text it has now.
ReadTarget(t) ==
  /\ text[t] # None /\ access[t] = "valid" /\ vector[t] = None
  /\ routing' = routing \cup {<<t, text[t]>>}
  /\ UNCHANGED <<runVars, opVars, resVars, text, access, vector, approved, queue, workerVars,
                 historyVars>>

\* route_embedding, its transaction: the operation of what was read is created
\* once, and admitted if it waits and the run now is ACTIVE.
Route(o) ==
  LET isNew == opStatus[o] = None
      os    == IF isNew THEN [opStatus EXCEPT ![o] = "WAITING"] ELSE opStatus
  IN /\ o \in routing
     /\ routing' = routing \ {o}
     /\ created' = IF isNew THEN [created EXCEPT ![o] = NewRank] ELSE created
     /\ Admit({o}, runStatus, os, resStatus, reserved, ceiling)
     /\ Nudge({r \in Res : resStatus'[r] = "RESERVED" /\ resStatus[r] # "RESERVED"})
     /\ UNCHANGED <<ceiling, accounted, settled, text, access, vector, approved, workerVars,
                    historyVars>>

\* route_embedding, the refusals: a multimodal annotation, or one shared by
\* the documents of two runs, puts the run in violation.
RouteRefused ==
  /\ \E t \in Target : text[t] # None /\ access[t] = "foreign"
  /\ runStatus' = Violated(runStatus)
  /\ UNCHANGED <<ceiling, accounted, reserved, opVars, resVars, targetVars,
                 queue, workerVars, historyVars>>

-----------------------------------------------------------------------------
(* Execution of a reservation by a Celery worker *)

\* A delivery ends.  Its message may come again: it was duplicated, or the
\* process died before the acknowledgement.
Finish(w) ==
  /\ pc' = [pc EXCEPT ![w] = "idle"]
  /\ job' = [job EXCEPT ![w] = None]
  /\ receipt' = [receipt EXCEPT ![w] = 0]
  /\ queue' \in {queue, queue \ {job[w]}}

\* Mutant of Claimable: a redelivered message claims a started reservation.
ClaimableAgain(r) == resStatus[r] \in {"RESERVED", "STARTED"} /\ Executable(runStatus)

Claimable(r) == resStatus[r] = "RESERVED" /\ Executable(runStatus)

\* Mutant of TargetUnchanged: the target only has to exist.
TargetExists(o) == text[o[1]] # None

\* validate_target: the target still has the text the operation was made for,
\* and belongs to this run alone.
TargetUnchanged(o) == text[o[1]] = o[2] /\ access[o[1]] = "valid"

\* The storage fails, or does not decode, when the target's text is read.
Unreadable(o) == text[o[1]] # None /\ access[o[1]] = "unreadable"

\* execute_reservation, first transaction, early return.
SkipDelivery(w, r) ==
  /\ pc[w] = "idle" /\ r \in queue
  /\ ~Claimable(r)
  /\ queue' = queue \ {r}
  /\ UNCHANGED <<runVars, opVars, resVars, targetVars, workerVars, historyVars>>

\* First transaction, configuration or target no longer what was approved:
\* the reservation stays RESERVED and the operation QUEUED.
RefuseDelivery(w, r) ==
  /\ pc[w] = "idle" /\ r \in queue
  /\ Claimable(r)
  /\ ~approved \/ ~(Unreadable(r[1]) \/ TargetUnchanged(r[1]))
  /\ runStatus' = Violated(runStatus)
  /\ queue' = queue \ {r}
  /\ UNCHANGED <<ceiling, accounted, reserved, opVars, resVars, targetVars,
                 workerVars, historyVars>>

\* First transaction, the target's text cannot be read: the handler catches only
\* policy errors and missing targets, so the transaction is rolled back and the
\* task fails.  A failed task is acknowledged; the next drain sends it again.
DeliveryRaises(w, r) ==
  /\ pc[w] = "idle" /\ r \in queue
  /\ Claimable(r)
  /\ approved /\ Unreadable(r[1])
  /\ queue' = queue \ {r}
  /\ UNCHANGED <<runVars, opVars, resVars, targetVars, workerVars, historyVars>>

\* First transaction, the claim.  The message is acknowledged late, so it
\* stays in the queue and may be delivered again.
Claim(w, r) ==
  /\ pc[w] = "idle" /\ r \in queue
  /\ Claimable(r)
  /\ approved /\ TargetUnchanged(r[1])
  /\ resStatus' = [resStatus EXCEPT ![r] = "STARTED"]
  /\ opStatus' = [opStatus EXCEPT ![r[1]] = "RUNNING"]
  /\ pc' = [pc EXCEPT ![w] = "calling"]
  /\ job' = [job EXCEPT ![w] = r]
  /\ UNCHANGED <<runVars, attempts, created, settled, issued, targetVars, queue, receipt,
                 historyVars>>

\* A usable receipt stays within the byte bound that was reserved: tokens may
\* not exceed the text's bytes, so their cost may not exceed the reservation.
ValidUsage(r, usage) == usage # None /\ usage <= Amount[r]

\* provider.embed_text_accounted: the provider bills at most the byte bound.
\* It answers with its usage, with an impossible usage, or not at all (None:
\* timeout, error), whatever it billed.
CallProvider(w) ==
  LET r == job[w] IN
  /\ pc[w] = "calling"
  /\ \E bill \in 0..Amount[r] : \E usage \in {bill, Amount[r] + 1, None} :
       /\ calls' = [calls EXCEPT ![r] = @ + 1]
       /\ billed' = [billed EXCEPT ![r] = @ + bill]
       /\ pc' = [pc EXCEPT ![w] = IF ValidUsage(r, usage) THEN "answered" ELSE "failed"]
       /\ receipt' = [receipt EXCEPT ![w] = IF ValidUsage(r, usage) THEN usage ELSE 0]
  /\ UNCHANGED <<runVars, opVars, resVars, targetVars, queue, job>>

\* Mutant of Publishable: a late attempt is not fenced off by a newer one.
PublishableByAny(r) == opStatus[r[1]] # "CANCELLED" /\ runStatus # "CANCELLED"

\* A late attempt may publish only for its own, still wanted, operation.
Publishable(r) ==
  /\ attempts[r[1]] = r[2]
  /\ opStatus[r[1]] # "CANCELLED"
  /\ runStatus # "CANCELLED"

PublishVector(o) ==
  /\ TargetUnchanged(o)
  /\ vector' = [vector EXCEPT ![o[1]] = o[2]]
  /\ opStatus' = [opStatus EXCEPT ![o] = "COMPLETED"]
  /\ UNCHANGED runStatus

\* A changed input violates the policy; a missing or unreadable target, an
\* unusable vector or a storage error pauses the run.
PublicationFails(o) ==
  /\ opStatus' = [opStatus EXCEPT ![o] = "FAILED"]
  /\ runStatus' = IF text[o[1]] = None \/ Unreadable(o) \/ TargetUnchanged(o)
                  THEN "PAUSED" ELSE "POLICY_VIOLATION"
  /\ UNCHANGED vector

NoPublication(r) ==
  /\ ~Publishable(r)
  /\ UNCHANGED <<vector, opStatus, runStatus>>

\* execute_reservation, second transaction: known usage always settles.
SettleReceipt(r, actual) ==
  IF resStatus[r] = "SETTLED"
  THEN UNCHANGED <<runVars, opStatus, resVars, vector>>
  ELSE /\ \/ NoPublication(r)
          \/ Publishable(r) /\ PublishVector(r[1])
          \/ Publishable(r) /\ PublicationFails(r[1])
       /\ resStatus' = [resStatus EXCEPT ![r] = "SETTLED"]
       /\ settled' = [settled EXCEPT ![r] = actual]
       /\ reserved' = reserved - Amount[r]
       /\ accounted' = accounted + actual
       /\ UNCHANGED <<ceiling, issued>>

Settle(w) ==
  /\ pc[w] = "answered"
  /\ SettleReceipt(job[w], receipt[w])
  /\ Finish(w)
  /\ UNCHANGED <<attempts, created, text, access, approved, routing, historyVars>>

\* The second transaction itself fails and is rolled back.
SettleFails(w) ==
  /\ pc[w] = "answered"
  /\ pc' = [pc EXCEPT ![w] = "failed"]
  /\ UNCHANGED <<runVars, opVars, resVars, targetVars, queue, job, receipt, historyVars>>

\* Mutant of UncertainOutcome: a late failure is not fenced off by a newer attempt.
UncertainOutcomeOfAny(r) ==
  IF resStatus[r] = "SETTLED"
  THEN UNCHANGED <<resStatus, opStatus, runStatus>>
  ELSE /\ resStatus' = [resStatus EXCEPT ![r] = "UNCERTAIN"]
       /\ opStatus' = [opStatus EXCEPT ![r[1]] = "UNCERTAIN"]
       /\ runStatus' = IF runStatus # "CANCELLED" THEN "PAUSED" ELSE runStatus

\* execute_reservation, exception handler: the bound stays reserved.
UncertainOutcome(r) ==
  IF resStatus[r] = "SETTLED"
  THEN UNCHANGED <<resStatus, opStatus, runStatus>>
  ELSE /\ resStatus' = [resStatus EXCEPT ![r] = "UNCERTAIN"]
       /\ opStatus' = IF attempts[r[1]] = r[2] /\ opStatus[r[1]] # "CANCELLED"
                      THEN [opStatus EXCEPT ![r[1]] = "UNCERTAIN"] ELSE opStatus
       /\ runStatus' = IF runStatus # "CANCELLED" THEN "PAUSED" ELSE runStatus

RecordUncertain(w) ==
  /\ pc[w] = "failed"
  /\ UncertainOutcome(job[w])
  /\ Finish(w)
  /\ UNCHANGED <<ceiling, accounted, reserved, attempts, created, settled, issued, targetVars,
                 historyVars>>

\* The process dies, or its last transaction fails: nothing more is recorded
\* and the unacknowledged message is delivered again.
Crash(w) ==
  /\ pc[w] # "idle"
  /\ pc' = [pc EXCEPT ![w] = "idle"]
  /\ job' = [job EXCEPT ![w] = None]
  /\ receipt' = [receipt EXCEPT ![w] = 0]
  /\ UNCHANGED <<runVars, opVars, resVars, targetVars, queue, historyVars>>

ReservedRows == {r \in Res : resStatus[r] = "RESERVED"}

\* Mutant of Drain: an exhausted run's reservations are not dispatched again.
DrainActiveOnly ==
  /\ runStatus = "ACTIVE"
  /\ queue' = queue \cup ReservedRows
  /\ UNCHANGED <<runVars, opVars, resVars, targetVars, workerVars, historyVars>>

\* process_pending_ingestion_operations, every 30 seconds: the oldest rows.
Drain ==
  /\ Executable(runStatus)
  /\ queue' = queue \cup
       {r \in ReservedRows :
          Cardinality({q \in ReservedRows : issued[q] <= issued[r]}) <= DrainBatch}
  /\ UNCHANGED <<runVars, opVars, resVars, targetVars, workerVars, historyVars>>

-----------------------------------------------------------------------------
(* Operator control of the run: control_run.  A cancelled run refuses every  *)
(* action; a transaction that leaves the run ACTIVE admits what is waiting   *)
(* and dispatches again everything reserved.                                 *)

Redispatch(s) ==
  Nudge({r \in Res : s = "ACTIVE" /\ resStatus'[r] = "RESERVED"})

ControlFrame == UNCHANGED <<accounted, settled, created, targetVars, workerVars, historyVars>>

Pause ==
  /\ runStatus # "CANCELLED"
  /\ runStatus' = "PAUSED"
  /\ UNCHANGED <<ceiling, reserved, attempts, opStatus, resStatus, issued, queue>>
  /\ ControlFrame

\* Mutant of Unused: a started reservation counts as unused.
UnusedOrStarted(ops) ==
  {r \in Res : r[1] \in ops /\ resStatus[r] \in {"RESERVED", "STARTED"}}

\* Mutant of ResCancelled: the released rows are not updated.
ResKept(ops) == resStatus

\* Mutant of HeldAfterRelease: everything the operations ever held is released.
HeldAfterReleaseOfAll(ops) ==
  reserved - Total(Amount, {r \in HeldRes : r[1] \in ops})

\* _cancel_locked: only reservations never claimed are released.
Unused(ops) == {r \in Res : r[1] \in ops /\ resStatus[r] = "RESERVED"}
OpsCancelled(ops) == [o \in Op |-> IF o \in ops THEN "CANCELLED" ELSE opStatus[o]]
ResCancelled(ops) ==
  [r \in Res |-> IF r \in Unused(ops) THEN "CANCELLED" ELSE resStatus[r]]
HeldAfterRelease(ops) == reserved - Total(Amount, Unused(ops))

CancelRun ==
  LET ops == {o \in Op : opStatus[o] \notin {None, "COMPLETED"}}
  IN /\ runStatus # "CANCELLED"
     /\ runStatus' = "CANCELLED"
     /\ opStatus' = OpsCancelled(ops)
     /\ resStatus' = ResCancelled(ops)
     /\ reserved' = HeldAfterRelease(ops)
     /\ UNCHANGED <<ceiling, attempts, issued, queue>>
     /\ ControlFrame

\* The ceiling may only rise; execution must be valid again.
Resume ==
  /\ runStatus # "CANCELLED" /\ approved
  /\ \E c \in Ceilings \cup {ceiling} :
       /\ c >= ceiling
       /\ ceiling' = c
       /\ Admit(Op, "ACTIVE", opStatus, resStatus, reserved, c)
  /\ Redispatch("ACTIVE")
  /\ ControlFrame

CancelOperation(o) ==
  /\ runStatus # "CANCELLED" /\ opStatus[o] # None
  /\ Admit(Op, runStatus, OpsCancelled({o}), ResCancelled({o}), HeldAfterRelease({o}), ceiling)
  /\ Redispatch(runStatus)
  /\ UNCHANGED ceiling
  /\ ControlFrame

\* Mutant of Abandoned: a retry takes the started attempt for unspent.
AbandonedUnspent(o) ==
  [r \in Res |-> IF r[1] = o /\ resStatus[r] = "STARTED" THEN "CANCELLED" ELSE resStatus[r]]

\* A started attempt is never released: it stays charged as UNCERTAIN.
Abandoned(o) ==
  [r \in Res |-> IF r[1] = o /\ resStatus[r] = "STARTED" THEN "UNCERTAIN" ELSE resStatus[r]]

\* Mutant of Retryable: no limit on the attempts of an operation.
RetryableAlways(o) == opStatus[o] \in {"UNCERTAIN", "RUNNING", "FAILED"}

Retryable(o) ==
  opStatus[o] \in {"UNCERTAIN", "RUNNING", "FAILED"} /\ attempts[o] < MaxAttempts

RetryOperation(o) ==
  /\ runStatus # "CANCELLED"
  /\ Retryable(o)
  /\ Admit(Op, runStatus, [opStatus EXCEPT ![o] = "WAITING"], Abandoned(o), reserved, ceiling)
  /\ Redispatch(runStatus)
  /\ UNCHANGED ceiling
  /\ ControlFrame

-----------------------------------------------------------------------------
(* Environment: what users and administrators change under the run *)

\* A target's text is edited, or the target and its vector are deleted.
Edit(t) ==
  /\ text[t] # None
  /\ \E x \in (Text \cup {None}) \ {text[t]} :
       /\ text' = [text EXCEPT ![t] = x]
       /\ vector' = IF x = None THEN [vector EXCEPT ![t] = None] ELSE vector
  /\ UNCHANGED <<runVars, opVars, resVars, access, approved, routing, queue, workerVars,
                 historyVars>>

\* The storage stops or starts to answer; a target comes to be shared with
\* another run, or not text only, or ceases to be.
ChangeAccess(t) ==
  /\ text[t] # None
  /\ \E a \in Access \ {access[t]} : access' = [access EXCEPT ![t] = a]
  /\ UNCHANGED <<runVars, opVars, resVars, text, vector, approved, routing, queue,
                 workerVars, historyVars>>

\* The provider's configuration or price drifts from the policy, or is restored.
Reconfigure ==
  /\ approved' = ~approved
  /\ UNCHANGED <<runVars, opVars, resVars, text, access, vector, routing, queue, workerVars,
                 historyVars>>

-----------------------------------------------------------------------------

Deliver(w, r) ==
  SkipDelivery(w, r) \/ RefuseDelivery(w, r) \/ DeliveryRaises(w, r) \/ Claim(w, r)

Execute(w) == CallProvider(w) \/ Settle(w) \/ SettleFails(w) \/ RecordUncertain(w)

Control ==
  \/ Pause \/ CancelRun \/ Resume
  \/ \E o \in Op : CancelOperation(o) \/ RetryOperation(o)

Environment ==
  RouteRefused \/ Reconfigure \/ \E t \in Target : Edit(t) \/ ChangeAccess(t)

Next ==
  \/ \E t \in Target : ReadTarget(t)
  \/ \E o \in Op : Route(o)
  \/ \E w \in Worker, r \in Res : Deliver(w, r)
  \/ \E w \in Worker : Execute(w) \/ Crash(w)
  \/ Drain
  \/ Control
  \/ Environment

Spec == Init /\ [][Next]_vars

\* Celery and Beat keep working: the drain is periodic, the broker is first
\* in first out so no message is overtaken forever, and an executing worker
\* proceeds unless it crashes.  Users and operators need never act.
FairSpec ==
  /\ Spec
  /\ WF_vars(Drain)
  /\ \A r \in Res : SF_vars(\E w \in Worker : Deliver(w, r))
  /\ \A w \in Worker : WF_vars(Execute(w))

-----------------------------------------------------------------------------
(* Safety *)

\* ingest_run_within_ceiling: money spent plus money that may be spent never
\* exceeds the operator's ceiling, whatever is in flight, retried or raised.
WithinCeiling == accounted + reserved <= ceiling

\* The two counters of the run row are exactly what its reservation rows say:
\* reserved is what is reserved, started or uncertain, accounted what settled.
LedgerBalanced ==
  /\ reserved = Total(Amount, HeldRes)
  /\ accounted = Total(settled, {r \in Res : resStatus[r] = "SETTLED"})

\* What the provider really billed, crashes and timeouts included, is covered
\* by what is accounted plus what attempts that reached the provider still hold.
SpendCovered ==
  Total(billed, Res) <=
    accounted + Total(Amount, {r \in Res : resStatus[r] \in {"STARTED", "UNCERTAIN"}})

\* A redelivered, duplicated or retried task never calls the provider twice
\* for one reservation.
OneCallPerReservation == \A r \in Res : calls[r] <= 1

\* Reservation and operation rows agree: only the current attempt may be
\* reserved or started, a queued operation has exactly its current attempt
\* reserved, a running one exactly that started, and a cancelled operation has
\* nothing left that a delivery could claim.
RowsAgree ==
  /\ \A r \in Res : resStatus[r] \in {"RESERVED", "STARTED"} => r = Current(r[1])
  /\ \A o \in Op :
       /\ opStatus[o] = "QUEUED" <=> \E r \in Res : r[1] = o /\ resStatus[r] = "RESERVED"
       /\ opStatus[o] = "RUNNING" => resStatus[Current(o)] = "STARTED"
       /\ opStatus[o] = "WAITING" => attempts[o] < MaxAttempts

\* An ACTIVE run leaves no admissible operation waiting: whatever waits is
\* admitted by the transaction that made it wait, or stops the run.
ActiveRunAdmits == runStatus = "ACTIVE" => \A o \in Op : opStatus[o] # "WAITING"

\* A cancelled run can start nothing more and holds only what reached the
\* provider before.
CancelledRunDrained ==
  runStatus = "CANCELLED" =>
    /\ \A r \in Res : resStatus[r] # "RESERVED"
    /\ \A o \in Op : opStatus[o] \notin {"QUEUED", "RUNNING"}

\* A vector is only ever published for the text the target has at that moment,
\* however long the provider took and whatever was edited meanwhile.
PublishedIsCurrent ==
  [][\A t \in Target : vector'[t] \notin {vector[t], None} => vector'[t] = text'[t]]_vars

\* A publication settles the newest attempt of an operation nobody cancelled,
\* in a run nobody cancelled: late attempts cannot overwrite newer output.
OnlyCurrentAttemptPublishes ==
  [][\A t \in Target : vector'[t] \notin {vector[t], None} =>
       LET o == <<t, vector'[t]>>
       IN /\ runStatus # "CANCELLED" /\ opStatus[o] # "CANCELLED"
          /\ resStatus[Current(o)] # "SETTLED" /\ resStatus'[Current(o)] = "SETTLED"]_vars

\* Cancellation is final for operations and for the run, also for attempts
\* that answer or fail afterwards.
CancellationFinal ==
  [][/\ runStatus = "CANCELLED" => runStatus' = "CANCELLED"
     /\ \A o \in Op : opStatus[o] = "CANCELLED" => opStatus'[o] = "CANCELLED"]_vars

(* Liveness *)

\* Unless its target stays unreadable, an admitted reservation is eventually
\* claimed, cancelled or stopped with its run, even if every direct dispatch of it
\* is lost and however many deliveries of it raise.  (One unreadable target may
\* hold up the reservations behind it in the drain's batch for as long as it is.)
ReservationsServed ==
  (\A t \in Target : <>[](access[t] # "unreadable")) =>
    \A r \in Res : resStatus[r] = "RESERVED" ~>
                     \/ resStatus[r] # "RESERVED"
                     \/ runStatus \notin {"ACTIVE", "BUDGET_EXHAUSTED"}
=============================================================================
