------------------------ MODULE WorkerUploadsProofs ------------------------
(***************************************************************************)
(* Proofs about WorkerUploads for any number of uploads, tasks, attempts   *)
(* and any batch size: every attempt charged to a receipt has exactly one  *)
(* outcome, a receipt has a document exactly when it says so, and the      *)
(* table keeps the promises of UploadReceipts.                             *)
(***************************************************************************)
EXTENDS WorkerUploads, FiniteSetTheorems, TLAPS

(***************************************************************************)
(* The inductive invariant.  Beside the accounting it needs that a token   *)
(* identifies an attempt: while a task may still fail a row, the row is    *)
(* being processed, so that failure is the attempt's only outcome.         *)
(***************************************************************************)

\* Tasks that run have tokens of their own, which no other task has.
TokensUnique ==
  \A p, q \in Task : p # q /\ own[p] # None => own[p] # own[q]

\* A row that carries the token of a running task, and is still to be dealt
\* with by it, is being processed; a task's failing upload is in its batch.
FencedRows ==
  \A p \in Task :
    /\ \A u \in batch[p] : own[p] # None /\ (token[u] = own[p] => status[u] = "PROCESSING")
    /\ failing[p] # None => failing[p] \in batch[p]

\* What one row's counters say, by its status.  Nothing is charged to a receipt
\* before it is staged.
RowExact(u) ==
  /\ status[u] = None => attempts[u] = 0
  /\ status[u] = "PENDING" => attempts[u] < MaxAttempts
  /\ status[u] \in {"PROCESSING", "COMPLETED"} => attempts[u] = errors[u] + 1
  /\ status[u] \notin {"PROCESSING", "COMPLETED"} => attempts[u] = errors[u]
  /\ status[u] = "COMPLETED" => docs[u] = 1
  /\ status[u] # "COMPLETED" => docs[u] = 0

RowsExact == \A u \in Upload : RowExact(u)

\* An import has locked a row that is its task's attempt, still to be dealt with.
ImportsHeld ==
  \A p \in Task : importing[p] # None => importing[p] \in batch[p] /\ Owns(p, importing[p])

ReceiptInv ==
  /\ TypeOK
  /\ TokensUnique
  /\ FencedRows
  /\ RowsExact
  /\ ImportsHeld

USE KeyedAssumption, BoundAssumption, AttemptsAssumption, NoneAssumption

\* The receipts that exist can be counted.
LEMMA RankType == 1 + Cardinality({v \in Upload : status[v] # None}) \in Nat
<1>1. IsFiniteSet({v \in Upload : status[v] # None})
  BY FiniteAssumption, FS_Subset
<1>2. QED
  BY <1>1, FS_CardinalityType

\* The empty table satisfies the invariant.
LEMMA ReceiptInit == Init => ReceiptInv
<1> SUFFICES ASSUME Init PROVE ReceiptInv
  OBVIOUS
<1> USE DEF Init
<1>1. TypeOK
  BY DEF TypeOK, RunStatus
<1>2. TokensUnique /\ FencedRows
  BY DEF TokensUnique, FencedRows
<1>3. RowsExact
  BY DEF RowsExact, RowExact, UploadStatus
<1>4. ImportsHeld
  BY DEF ImportsHeld
<1>5. QED
  BY <1>1, <1>2, <1>3, <1>4 DEF ReceiptInv

\* The endpoints touch one row that no task is processing.
LEMMA EndpointStep ==
  ASSUME ReceiptInv, NEW u \in Upload, Stage(u) \/ RetryUpload(u)
  PROVE  ReceiptInv'
<1> USE DEF ReceiptInv
<1>1. /\ status[u] \in {None, "FAILED"} /\ status' = [status EXCEPT ![u] = "PENDING"]
      /\ token' \in {token, [token EXCEPT ![u] = None]}
      /\ status[u] = "FAILED" => attempts[u] < MaxAttempts
      /\ UNCHANGED <<attempts, errors, docs, own, batch, failing, importing, runHolder>>
  <2>1. CASE Stage(u)
    <3>1. status[u] = None /\ status' = [status EXCEPT ![u] = "PENDING"]
      BY <2>1 DEF Stage
    <3>2. UNCHANGED <<token, attempts, errors, docs, own, batch, failing, importing, runHolder>>
      BY <2>1 DEF Stage, taskVars
    <3> QED BY <3>1, <3>2 DEF UploadStatus
  <2>2. CASE RetryUpload(u)
    BY <2>2 DEF RetryUpload, Retryable, taskVars
  <2> QED BY <2>1, <2>2
<1>2. TypeOK'
  <2>1. created' \in [Upload -> Nat]
    BY RankType DEF Stage, RetryUpload, TypeOK
  <2>2. file' \in [Upload -> {"staged", "deleted", "lost"}] /\ credential' \subseteq Upload
    BY DEF Stage, RetryUpload, TypeOK
  <2>3. stale' = stale /\ runStatus' = runStatus
    BY DEF Stage, RetryUpload
  <2>4. status' \in [Upload -> UploadStatus \cup {None}] /\ token' \in [Upload -> Token \cup {None}]
    BY <1>1 DEF TypeOK, UploadStatus
  <2> QED BY <1>1, <2>1, <2>2, <2>3, <2>4 DEF TypeOK
<1>3. TokensUnique'
  BY <1>1 DEF TokensUnique
<1>4. FencedRows'
  <2> SUFFICES ASSUME NEW q \in Task, NEW v \in batch[q]
               PROVE  own[q] # None /\ (token'[v] = own[q] => status'[v] = "PROCESSING")
    BY <1>1 DEF FencedRows
  <2>1. own[q] # None /\ (token[v] = own[q] => status[v] = "PROCESSING") /\ v \in Upload
    BY DEF FencedRows, TypeOK
  <2>2. CASE v = u
    BY <1>1, <2>1, <2>2 DEF TypeOK, UploadStatus
  <2>3. CASE v # u
    BY <1>1, <2>1, <2>3 DEF TypeOK
  <2> QED BY <2>2, <2>3
<1>5. RowsExact'
  <2> SUFFICES ASSUME NEW v \in Upload PROVE RowExact(v)'
    BY DEF RowsExact
  <2>1. RowExact(v) /\ attempts[v] \in Nat /\ errors[v] \in Nat
    BY DEF RowsExact, TypeOK
  <2>2. CASE v = u
    <3>1. status'[v] = "PENDING"
      BY <1>1, <2>2 DEF TypeOK
    <3>2. attempts[v] < MaxAttempts /\ attempts[v] = errors[v] /\ docs[v] = 0
      BY <1>1, <2>1, <2>2 DEF RowExact, UploadStatus
    <3> QED BY <1>1, <3>1, <3>2 DEF RowExact, UploadStatus
  <2>3. CASE v # u
    BY <1>1, <2>1, <2>3 DEF RowExact, TypeOK
  <2> QED BY <2>2, <2>3
<1>6. ImportsHeld'
  BY <1>1 DEF ImportsHeld, Owns, UploadStatus, TypeOK
<1>7. QED
  BY <1>2, <1>3, <1>4, <1>5, <1>6

\* A claim takes only queued rows, and gives them a token nobody has.
LEMMA ClaimStep ==
  ASSUME ReceiptInv, NEW p \in Task, Claim(p)
  PROVE  ReceiptInv'
<1> USE DEF ReceiptInv
<1> DEFINE claimed == Oldest(Claimable)
<1>1. claimed \subseteq Upload /\ \A u \in claimed : status[u] = "PENDING"
  BY DEF Oldest, Claimable
<1>2. PICK k \in Token \ InUse :
        /\ own' = [own EXCEPT ![p] = k]
        /\ token' = [u \in Upload |-> IF u \in claimed THEN k ELSE token[u]]
  BY DEF Claim
<1>3. /\ batch' = [batch EXCEPT ![p] = claimed] /\ own[p] = None
      /\ status' = [u \in Upload |-> IF u \in claimed THEN "PROCESSING" ELSE status[u]]
      /\ attempts' = [u \in Upload |-> IF u \in claimed THEN attempts[u] + 1 ELSE attempts[u]]
      /\ stale' = [u \in Upload |-> IF u \in claimed THEN FALSE ELSE stale[u]]
      /\ UNCHANGED <<created, errors, credential, file, docs, runStatus, failing, importing,
                     runHolder>>
  BY DEF Claim
<1> HIDE DEF claimed
<1>4. \A u \in claimed : attempts[u] < MaxAttempts /\ attempts[u] \in Nat
  BY <1>1 DEF RowsExact, RowExact, TypeOK
<1>5. attempts' \in [Upload -> 0..MaxAttempts]
  BY <1>3, <1>4 DEF TypeOK
<1>6. TypeOK'
  <2>1. status' \in [Upload -> UploadStatus \cup {None}]
    BY <1>3 DEF TypeOK, UploadStatus
  <2>2. own' \in [Task -> Token \cup {None}] /\ batch' \in [Task -> SUBSET Upload]
    BY <1>1, <1>2, <1>3 DEF TypeOK
  <2>3. token' \in [Upload -> Token \cup {None}] /\ stale' \in [Upload -> BOOLEAN]
    BY <1>2, <1>3 DEF TypeOK
  <2> QED BY <1>3, <1>5, <2>1, <2>2, <2>3 DEF TypeOK
<1>7. \A q \in Task : own[q] # k
  BY DEF InUse
<1>8. TokensUnique'
  BY <1>2, <1>7 DEF TokensUnique, TypeOK
<1>9. FencedRows'
  <2> SUFFICES ASSUME NEW q \in Task
               PROVE  /\ \A u \in batch'[q] : own'[q] # None /\
                             (token'[u] = own'[q] => status'[u] = "PROCESSING")
                      /\ failing'[q] # None => failing'[q] \in batch'[q]
    BY DEF FencedRows
  <2>1. CASE q = p
    <3>1. batch'[q] = claimed /\ own'[q] = k
      BY <1>2, <1>3, <2>1 DEF TypeOK
    <3>2. batch[p] = {}
      BY <1>3 DEF FencedRows
    <3>3. failing'[q] = None
      BY <1>3, <2>1, <3>2 DEF FencedRows
    <3>4. \A u \in claimed : status'[u] = "PROCESSING"
      BY <1>1, <1>3
    <3> QED BY <3>1, <3>3, <3>4
  <2>2. CASE q # p
    <3>1. batch'[q] = batch[q] /\ own'[q] = own[q] /\ failing'[q] = failing[q]
      BY <1>2, <1>3, <2>2 DEF TypeOK
    <3>2. \A u \in batch[q] : u \in Upload
      BY DEF TypeOK
    <3>3. \A u \in batch[q] : own[q] # None /\
                              (token'[u] = own[q] => status'[u] = "PROCESSING")
      BY <1>2, <1>3, <1>7, <3>2 DEF FencedRows
    <3> QED BY <3>1, <3>3 DEF FencedRows
  <2> QED BY <2>1, <2>2
<1>10. RowsExact'
  <2> SUFFICES ASSUME NEW u \in Upload PROVE RowExact(u)'
    BY DEF RowsExact
  <2>1. RowExact(u) /\ attempts[u] \in Nat /\ errors[u] \in Nat
    BY DEF RowsExact, TypeOK
  <2>2. CASE u \in claimed
    BY <1>1, <1>3, <2>1, <2>2 DEF RowExact, UploadStatus
  <2>3. CASE u \notin claimed
    BY <1>3, <2>1, <2>3 DEF RowExact
  <2> QED BY <2>2, <2>3
<1>11. ImportsHeld'
  <2> SUFFICES ASSUME NEW q \in Task, importing[q] # None
               PROVE  /\ importing[q] \in batch'[q]
                      /\ status'[importing[q]] = "PROCESSING" /\ token'[importing[q]] = own'[q]
    BY <1>3 DEF ImportsHeld, Owns
  <2>1. /\ importing[q] \in batch[q] /\ importing[q] \in Upload
        /\ status[importing[q]] = "PROCESSING" /\ token[importing[q]] = own[q]
    BY DEF ImportsHeld, Owns, TypeOK
  <2>2. q # p
    BY <1>3, <2>1 DEF FencedRows
  <2>3. importing[q] \notin claimed
    BY <1>1, <2>1
  <2> QED BY <1>2, <1>3, <2>1, <2>2, <2>3 DEF TypeOK
<1>12. QED
  BY <1>6, <1>8, <1>9, <1>10, <1>11

\* The part of TypeOK that is about tasks.
TaskTypes ==
  /\ own \in [Task -> Token \cup {None}] /\ batch \in [Task -> SUBSET Upload]
  /\ failing \in [Task -> Upload \cup {None}] /\ importing \in [Task -> Upload \cup {None}]
  /\ runHolder \in Task \cup {None}

\* What a task does to its own state when it is done with an upload, or dies,
\* keeps tokens unique and the other tasks' rows fenced, provided no row gets
\* a token and only rows that lose theirs, or are this upload's, change.
LEMMA TaskFenced ==
  ASSUME ReceiptInv, NEW p \in Task, NEW u \in batch[p], own[p] # None,
         token' \in {token, [token EXCEPT ![u] = None]},
         token[u] = own[p] \/ UNCHANGED <<status, token>>,
         \A v \in Upload : v # u => status'[v] = status[v],
         Done(p, u)
  PROVE  TokensUnique' /\ FencedRows' /\ ImportsHeld' /\ TaskTypes'
<1> USE DEF ReceiptInv
<1>0. importing' = [importing EXCEPT ![p] = None] /\ runHolder' \in {None, runHolder}
  BY DEF Done, Release
<1>1. /\ batch' = [batch EXCEPT ![p] = @ \ {u}]
      /\ own' = [own EXCEPT ![p] = IF batch[p] = {u} THEN None ELSE @]
      /\ failing' = [failing EXCEPT ![p] = None]
  BY DEF Done
<1>2. TaskTypes'
  BY <1>0, <1>1 DEF TypeOK, TaskTypes
<1>3. TokensUnique'
  BY <1>1 DEF TokensUnique, TypeOK
<1>4. FencedRows'
  <2> SUFFICES ASSUME NEW q \in Task
               PROVE  /\ \A v \in batch'[q] : own'[q] # None /\
                             (token'[v] = own'[q] => status'[v] = "PROCESSING")
                      /\ failing'[q] # None => failing'[q] \in batch'[q]
    BY DEF FencedRows
  <2>0. batch[q] \subseteq Upload /\ u \in Upload /\ own[q] \in Token \cup {None}
    BY DEF TypeOK
  <2>1. CASE q = p
    <3>1. failing'[q] = None /\ batch'[q] = batch[p] \ {u}
      BY <1>1, <2>1 DEF TypeOK
    <3>2. ASSUME NEW v \in batch'[q]
          PROVE  own'[q] # None /\ (token'[v] = own'[q] => status'[v] = "PROCESSING")
      <4>1. v \in batch[p] /\ v # u /\ own'[q] = own[p] /\ own[p] # None
        BY <1>1, <2>1, <3>1 DEF TypeOK
      <4>2. token'[v] = token[v] /\ status'[v] = status[v]
        BY <2>0, <2>1, <4>1 DEF TypeOK
      <4> QED BY <2>1, <4>1, <4>2 DEF FencedRows
    <3> QED BY <3>1, <3>2
  <2>2. CASE q # p
    <3>1. batch'[q] = batch[q] /\ own'[q] = own[q] /\ failing'[q] = failing[q]
      BY <1>1, <2>2 DEF TypeOK
    <3>2. ASSUME NEW v \in batch[q]
          PROVE  own[q] # None /\ (token'[v] = own[q] => status'[v] = "PROCESSING")
      <4>1. own[q] # None /\ (token[v] = own[q] => status[v] = "PROCESSING")
        BY DEF FencedRows
      <4>2. token'[v] \in {token[v], None}
        BY <2>0 DEF TypeOK
      <4>3. CASE v = u
        <5>1. own[q] # own[p]
          BY <2>2, <4>1 DEF TokensUnique
        <5> QED BY <4>1, <4>2, <4>3, <5>1
      <4>4. CASE v # u
        <5>1. status'[v] = status[v]
          BY <2>0, <4>4
        <5> QED BY <4>1, <4>2, <5>1
      <4> QED BY <4>3, <4>4
    <3> QED BY <3>1, <3>2 DEF FencedRows
  <2> QED BY <2>1, <2>2
<1>5. ImportsHeld'
  <2> SUFFICES ASSUME NEW q \in Task, q # p, importing[q] # None
               PROVE  /\ importing[q] \in batch'[q]
                      /\ status'[importing[q]] = "PROCESSING" /\ token'[importing[q]] = own'[q]
    BY <1>0 DEF ImportsHeld, Owns, TypeOK
  <2> DEFINE v == importing[q]
  <2>1. v \in batch[q] /\ v \in Upload /\ status[v] = "PROCESSING" /\ token[v] = own[q]
    BY DEF ImportsHeld, Owns, TypeOK
  <2>2. batch'[q] = batch[q] /\ own'[q] = own[q] /\ own[q] # None
    BY <1>1, <2>1 DEF TypeOK, FencedRows
  <2>3. own[q] # own[p]
    BY <2>2 DEF TokensUnique
  <2> HIDE DEF v
  <2>4. status'[v] = "PROCESSING" /\ token'[v] = token[v]
    <3>1. CASE v = u
      BY <2>1, <2>3, <3>1 DEF TypeOK
    <3>2. CASE v # u
      BY <2>1, <3>2 DEF TypeOK
    <3> QED BY <3>1, <3>2
  <2> QED BY <2>1, <2>2, <2>4 DEF v
<1>6. QED
  BY <1>2, <1>3, <1>4, <1>5

\* The import transaction, whatever its outcome.
LEMMA ProcessStep ==
  ASSUME ReceiptInv, NEW p \in Task, NEW u \in Upload, ProcessSingleUpload(p, u)
  PROVE  ReceiptInv'
<1> USE DEF ReceiptInv
<1>1. u \in batch[p] /\ own[p] # None
  BY DEF ProcessSingleUpload, SkipLost, BeginImport, ImportRaises, LockRun, YieldToRun, Complete,
         Turn, FencedRows, ImportsHeld, TypeOK
<1>2. CASE SkipLost(p, u)
  <2>1. /\ UNCHANGED <<rowVars, credential, file, docs, runStatus>> /\ Done(p, u)
    BY <1>2 DEF SkipLost
  <2>2. TokensUnique' /\ FencedRows' /\ ImportsHeld' /\ TaskTypes'
    BY <1>1, <2>1, TaskFenced DEF rowVars
  <2> QED BY <2>1, <2>2 DEF rowVars, TaskTypes, TypeOK, RowsExact, RowExact
<1>3. CASE BeginImport(p, u) \/ LockRun(p, u) \/ ImportRaises(p, u)
  <2>1. UNCHANGED <<rowVars, credential, file, docs, runStatus, own, batch>>
    BY <1>3 DEF BeginImport, LockRun, ImportRaises
  <2>2. /\ failing' \in {failing, [failing EXCEPT ![p] = u]}
        /\ importing' \in {importing, [importing EXCEPT ![p] = None]}
             \/ (importing' = [importing EXCEPT ![p] = u] /\ Owns(p, u))
        /\ runHolder' \in {runHolder, p, None}
    BY <1>3 DEF BeginImport, LockRun, ImportRaises, Release
  <2>3. TypeOK' /\ TokensUnique'
    BY <2>1, <2>2 DEF rowVars, TypeOK, TokensUnique
  <2>4. FencedRows'
    BY <1>1, <2>1, <2>2 DEF rowVars, TypeOK, FencedRows
  <2>5. ImportsHeld'
    BY <1>1, <2>1, <2>2 DEF rowVars, TypeOK, ImportsHeld, Owns
  <2> QED BY <2>1, <2>3, <2>4, <2>5 DEF rowVars, RowsExact, RowExact
<1>4. CASE YieldToRun(p, u)
  <2>1. /\ status[u] = "PROCESSING" /\ token[u] = own[p]
        /\ runStatus' \in RunStatus
        /\ status' = [status EXCEPT ![u] = "PENDING"]
        /\ token' = [token EXCEPT ![u] = None]
        /\ attempts' = [attempts EXCEPT ![u] = IF @ = 0 THEN 0 ELSE @ - 1]
        /\ stale' = [stale EXCEPT ![u] = FALSE]
        /\ Done(p, u)
        /\ UNCHANGED <<created, errors, credential, file, docs>>
    BY <1>4 DEF YieldToRun, ImportsHeld, Owns, RunStatus, TypeOK
  <2>2. /\ attempts[u] = errors[u] + 1 /\ attempts[u] \in 0..MaxAttempts
        /\ errors[u] \in Nat
    BY <2>1 DEF RowsExact, RowExact, TypeOK
  <2>3. attempts' = [attempts EXCEPT ![u] = errors[u]] /\ errors[u] < MaxAttempts
    <3>1. attempts[u] # 0 /\ attempts[u] - 1 = errors[u] /\ errors[u] < MaxAttempts
      BY <2>2
    <3> QED BY <2>1, <3>1
  <2>4. TokensUnique' /\ FencedRows' /\ ImportsHeld' /\ TaskTypes'
    BY <1>1, <2>1, TaskFenced DEF TypeOK
  <2>5. TypeOK'
    BY <2>1, <2>2, <2>3, <2>4 DEF TaskTypes, TypeOK, UploadStatus
  <2>6. RowsExact'
    <3> SUFFICES ASSUME NEW v \in Upload PROVE RowExact(v)'
      BY DEF RowsExact
    <3>1. RowExact(v)
      BY DEF RowsExact
    <3>2. CASE v = u
      <4>1. /\ status'[v] = "PENDING" /\ attempts'[v] = errors[v]
            /\ errors'[v] = errors[v] /\ docs'[v] = docs[v]
        BY <2>1, <2>3, <3>2 DEF TypeOK
      <4> QED BY <2>1, <2>3, <3>1, <3>2, <4>1 DEF RowExact, UploadStatus
    <3>3. CASE v # u
      BY <2>1, <2>3, <3>1, <3>3 DEF RowExact, TypeOK
    <3> QED BY <3>2, <3>3
  <2> QED BY <2>4, <2>5, <2>6
<1>5. CASE Complete(p, u)
  <2>1. /\ status[u] = "PROCESSING" /\ token[u] = own[p]
        /\ docs' = [docs EXCEPT ![u] = @ + 1]
        /\ status' = [status EXCEPT ![u] = "COMPLETED"]
        /\ runStatus' \in RunStatus
        /\ file' \in {file, [file EXCEPT ![u] = "deleted"]}
        /\ Done(p, u)
        /\ UNCHANGED <<created, token, attempts, stale, errors, credential>>
    BY <1>5 DEF Complete, ImportsHeld, Owns, RunStatus, TypeOK
  <2>2. TokensUnique' /\ FencedRows' /\ ImportsHeld' /\ TaskTypes'
    BY <1>1, <2>1, TaskFenced DEF TypeOK
  <2>3. TypeOK'
    BY <2>1, <2>2 DEF TaskTypes, TypeOK, UploadStatus
  <2>4. RowsExact'
    <3> SUFFICES ASSUME NEW v \in Upload PROVE RowExact(v)'
      BY DEF RowsExact
    <3>1. RowExact(v)
      BY DEF RowsExact
    <3>2. CASE v = u
      <4>1. status'[v] = "COMPLETED" /\ docs'[v] = docs[v] + 1
        BY <2>1, <3>2 DEF TypeOK
      <4> QED BY <2>1, <3>1, <3>2, <4>1 DEF RowExact, UploadStatus
    <3>3. CASE v # u
      BY <2>1, <3>1, <3>3 DEF RowExact, TypeOK
    <3> QED BY <3>2, <3>3
  <2> QED BY <2>2, <2>3, <2>4
<1>6. QED
  BY <1>2, <1>3, <1>4, <1>5 DEF ProcessSingleUpload

\* A failure is recorded only on the attempt that failed.
LEMMA RecordFailureStep ==
  ASSUME ReceiptInv, NEW p \in Task, RecordFailure(p)
  PROVE  ReceiptInv'
<1> USE DEF ReceiptInv
<1> DEFINE u == failing[p]
<1>1. u \in batch[p] /\ u \in Upload /\ own[p] # None
  BY DEF RecordFailure, FencedRows, TypeOK
<1>2. /\ IF Failable(p, u)
         THEN /\ status' = [status EXCEPT ![u] = "FAILED"]
              /\ errors' = [errors EXCEPT ![u] = @ + 1]
              /\ file' = IF DeletesSource(u) THEN [file EXCEPT ![u] = "deleted"] ELSE file
         ELSE UNCHANGED <<status, errors, file>>
      /\ Done(p, u)
      /\ UNCHANGED <<created, token, attempts, stale, credential, docs, runStatus>>
  BY DEF RecordFailure
<1> HIDE DEF u
<1>3. Failable(p, u) => token[u] = own[p] /\ status[u] = "PROCESSING"
  BY <1>1 DEF Failable, FencedRows
<1>4. TokensUnique' /\ FencedRows' /\ ImportsHeld' /\ TaskTypes'
  <2>1. token[u] = own[p] \/ UNCHANGED <<status, token>>
    BY <1>2, <1>3
  <2>2. \A v \in Upload : v # u => status'[v] = status[v]
    BY <1>2 DEF TypeOK
  <2> QED BY <1>1, <1>2, <2>1, <2>2, TaskFenced
<1>5. TypeOK'
  BY <1>1, <1>2, <1>4 DEF TaskTypes, TypeOK, UploadStatus
<1>6. RowsExact'
  <2> SUFFICES ASSUME NEW v \in Upload PROVE RowExact(v)'
    BY DEF RowsExact
  <2>1. RowExact(v)
    BY DEF RowsExact
  <2>2. CASE ~Failable(p, u) \/ v # u
    <3>1. status'[v] = status[v] /\ errors'[v] = errors[v]
      BY <1>2, <2>2 DEF TypeOK
    <3> QED BY <1>2, <2>1, <3>1 DEF RowExact
  <2>3. CASE Failable(p, u) /\ v = u
    <3>1. status'[v] = "FAILED" /\ errors'[v] = errors[v] + 1 /\ status[v] = "PROCESSING"
      BY <1>2, <1>3, <2>3 DEF TypeOK
    <3> QED BY <1>2, <2>1, <3>1 DEF RowExact, UploadStatus
  <2> QED BY <2>2, <2>3
<1>7. QED
  BY <1>4, <1>5, <1>6

\* A sweep ends the attempts of the rows it resets and takes their tokens.
LEMMA RecoverStep ==
  ASSUME ReceiptInv, NEW S \in SUBSET Upload, Recover(S)
  PROVE  ReceiptInv'
<1> USE DEF ReceiptInv
<1>1. \A u \in S : status[u] = "PROCESSING" /\ u \notin Locked
  BY DEF Recover, Stalled
<1>2. /\ status' = [u \in Upload |-> IF u \notin S THEN status[u]
                                    ELSE IF Exhausted(u) THEN "FAILED" ELSE "PENDING"]
      /\ token' = [u \in Upload |-> IF u \in S THEN None ELSE token[u]]
      /\ stale' = [u \in Upload |-> IF u \in S THEN FALSE ELSE stale[u]]
      /\ errors' = [u \in Upload |-> IF u \in S THEN errors[u] + 1 ELSE errors[u]]
      /\ file' = [u \in Upload |-> IF u \in S /\ Exhausted(u) THEN "deleted" ELSE file[u]]
      /\ UNCHANGED <<created, attempts, credential, docs, runStatus, own, batch, failing,
                     importing, runHolder>>
  BY DEF Recover, taskVars
<1>3. TypeOK'
  <2>1. status' \in [Upload -> UploadStatus \cup {None}]
    BY <1>2 DEF TypeOK, UploadStatus
  <2>2. token' \in [Upload -> Token \cup {None}] /\ stale' \in [Upload -> BOOLEAN]
    BY <1>2 DEF TypeOK
  <2>3. errors' \in [Upload -> Nat] /\ file' \in [Upload -> {"staged", "deleted", "lost"}]
    BY <1>2 DEF TypeOK
  <2> QED BY <1>2, <2>1, <2>2, <2>3 DEF TypeOK
<1>4. TokensUnique' /\ FencedRows'
  <2>1. TokensUnique'
    BY <1>2 DEF TokensUnique
  <2>2. ASSUME NEW q \in Task, NEW v \in batch[q]
        PROVE  own[q] # None /\ (token'[v] = own[q] => status'[v] = "PROCESSING")
    <3>1. own[q] # None /\ (token[v] = own[q] => status[v] = "PROCESSING") /\ v \in Upload
      BY <2>2 DEF FencedRows, TypeOK
    <3> QED BY <1>2, <3>1
  <2> QED BY <1>2, <2>1, <2>2 DEF FencedRows
<1>5. RowsExact'
  <2> SUFFICES ASSUME NEW v \in Upload PROVE RowExact(v)'
    BY DEF RowsExact
  <2>1. RowExact(v) /\ attempts[v] \in 0..MaxAttempts /\ errors[v] \in Nat
    BY DEF RowsExact, TypeOK
  <2>2. CASE v \in S
    <3>1. /\ status'[v] \in {"FAILED", "PENDING"} /\ errors'[v] = errors[v] + 1
          /\ attempts[v] >= MaxAttempts => status'[v] = "FAILED"
          /\ status[v] = "PROCESSING"
      BY <1>1, <1>2, <2>2 DEF Exhausted
    <3> QED BY <1>2, <2>1, <3>1 DEF RowExact, UploadStatus
  <2>3. CASE v \notin S
    BY <1>2, <2>1, <2>3 DEF RowExact
  <2> QED BY <2>2, <2>3
<1>6. ImportsHeld'
  <2> SUFFICES ASSUME NEW q \in Task, importing[q] # None
               PROVE  /\ importing[q] \in batch[q] /\ status'[importing[q]] = "PROCESSING"
                      /\ token'[importing[q]] = own[q]
    BY <1>2 DEF ImportsHeld, Owns
  <2>1. importing[q] \notin S
    BY <1>1 DEF Locked
  <2>2. importing[q] \in Upload
    BY DEF TypeOK
  <2> QED BY <1>2, <2>1, <2>2 DEF ImportsHeld, Owns
<1>7. QED
  BY <1>3, <1>4, <1>5, <1>6

\* Steps that change no attempt, outcome or document: the environment's, a
\* transaction that rolls back, and the death of a task.
LEMMA BystanderStep ==
  ASSUME ReceiptInv,
         \/ \E u \in Upload : Age(u) \/ Revoke(u)
         \/ \E p \in Task : Crash(p) \/ FailureRollsBack(p)
         \/ RecoverRollsBack \/ ControlRun \/ UNCHANGED vars
  PROVE  ReceiptInv'
<1> USE DEF ReceiptInv
<1>1. UNCHANGED <<status, created, token, attempts, errors, docs>>
  BY DEF Age, Revoke, Crash, FailureRollsBack, RecoverRollsBack, ControlRun, vars, rowVars
<1>2. /\ stale' \in [Upload -> BOOLEAN] /\ credential' \subseteq Upload
      /\ runStatus' \in RunStatus
  BY DEF Age, Revoke, Crash, FailureRollsBack, RecoverRollsBack, ControlRun, vars, rowVars,
         TypeOK, RunStatus
<1>3. file' \in [Upload -> {"staged", "deleted", "lost"}]
  <2>1. ASSUME NEW S PROVE Lost(S) \in [Upload -> {"staged", "deleted", "lost"}]
    BY DEF Lost, TypeOK
  <2>2. file' = file \/ \E S : file' = Lost(S)
    BY DEF Age, Revoke, Crash, FailureRollsBack, RecoverRollsBack, ControlRun, vars
  <2> QED BY <2>1, <2>2 DEF TypeOK
<1>4. \/ UNCHANGED taskVars
      \/ \E p \in Task : Abandon(p)
  BY DEF Age, Revoke, Crash, FailureRollsBack, RecoverRollsBack, ControlRun, vars
<1>5. TaskTypes'
  BY <1>4 DEF taskVars, Abandon, Release, TypeOK, TaskTypes
<1>6. TypeOK'
  BY <1>1, <1>2, <1>3, <1>5 DEF TypeOK, TaskTypes
<1>7. TokensUnique' /\ FencedRows' /\ ImportsHeld'
  <2>1. CASE UNCHANGED taskVars
    BY <1>1, <2>1 DEF taskVars, TokensUnique, FencedRows, ImportsHeld, Owns
  <2>2. CASE \E p \in Task : Abandon(p)
    BY <1>1, <2>2 DEF Abandon, Release, TokensUnique, FencedRows, ImportsHeld, Owns, TypeOK
  <2> QED BY <1>4, <2>1, <2>2
<1>8. RowsExact'
  BY <1>1 DEF RowsExact, RowExact
<1>9. QED
  BY <1>6, <1>7, <1>8

\* The invariant is inductive.
LEMMA ReceiptStep == ReceiptInv /\ [Next]_vars => ReceiptInv'
<1> SUFFICES ASSUME ReceiptInv, [Next]_vars PROVE ReceiptInv'
  OBVIOUS
<1>1. ASSUME NEW u \in Upload, Stage(u) \/ RetryUpload(u) \/ Age(u) \/ Revoke(u)
      PROVE  ReceiptInv'
  BY <1>1, EndpointStep, BystanderStep
<1>2. ASSUME NEW p \in Task, Claim(p) \/ Step(p) \/ Crash(p) \/ FailureRollsBack(p)
      PROVE  ReceiptInv'
  BY <1>2, ClaimStep, ProcessStep, RecordFailureStep, BystanderStep DEF Step
<1>3. ASSUME NEW S \in SUBSET Upload, Recover(S) PROVE ReceiptInv'
  BY <1>3, RecoverStep
<1>4. CASE RecoverRollsBack \/ ControlRun \/ UNCHANGED vars
  BY <1>4, BystanderStep
<1>5. QED
  BY <1>1, <1>2, <1>3, <1>4 DEF Next

\* Every reachable state satisfies the invariant.
LEMMA ReceiptInvariant == Spec => []ReceiptInv
BY ReceiptInit, ReceiptStep, PTL DEF Spec

-----------------------------------------------------------------------------
(* Theorems *)

\* One receipt, one document: committed exactly when the receipt says so.
THEOREM OneDocument == Spec => []OneDocumentPerUpload
<1>1. ReceiptInv => OneDocumentPerUpload
  BY DEF ReceiptInv, RowsExact, RowExact, OneDocumentPerUpload
<1>2. QED
  BY <1>1, ReceiptInvariant, PTL

\* Every attempt charged has exactly one outcome, across late failures, sweeps,
\* refunds and retries.
THEOREM AttemptsExact == Spec => []AttemptsAccounted
<1>1. ReceiptInv => AttemptsAccounted
  <2> SUFFICES ASSUME ReceiptInv, NEW u \in Upload
               PROVE  attempts[u] = errors[u] +
                        IF status[u] \in {"PROCESSING", "COMPLETED"} THEN 1 ELSE 0
    BY DEF AttemptsAccounted
  <2>1. RowExact(u) /\ errors[u] \in Nat
    BY DEF ReceiptInv, RowsExact, TypeOK
  <2>2. CASE status[u] \in {"PROCESSING", "COMPLETED"}
    BY <2>1, <2>2 DEF RowExact
  <2>3. CASE status[u] \notin {"PROCESSING", "COMPLETED"}
    BY <2>1, <2>3 DEF RowExact
  <2> QED BY <2>2, <2>3
<1>2. QED
  BY <1>1, ReceiptInvariant, PTL

\* The counter of attempts stays within its limit: types, and no queued receipt
\* without an attempt left.
THEOREM AttemptsBounded == Spec => [](TypeOK /\ QueuedHasAttempts)
<1>1. ReceiptInv => TypeOK /\ QueuedHasAttempts
  BY DEF ReceiptInv, RowsExact, RowExact, QueuedHasAttempts
<1>2. QED
  BY <1>1, ReceiptInvariant, PTL

-----------------------------------------------------------------------------
(* The staging table implements UploadReceipts *)

\* What callers are told, in terms of the row's status.
LEMMA ReceiptOf ==
  /\ Receipt(None) = "none"
  /\ Receipt("PENDING") = "accepted" /\ Receipt("PROCESSING") = "accepted"
  /\ Receipt("COMPLETED") = "imported" /\ Receipt("FAILED") = "rejected"
BY DEF Receipt, UploadStatus

\* A step that changes the status of one row changes one receipt.
LEMMA OneReceipt ==
  ASSUME TypeOK, NEW u \in Upload, NEW s, status' = [status EXCEPT ![u] = s]
  PROVE  [v \in Upload |-> Receipt(status[v])]' =
           [[v \in Upload |-> Receipt(status[v])] EXCEPT ![u] = Receipt(s)]
BY DEF TypeOK

\* A step that tells callers the same, charges no failure and imports nothing
\* is none of the callers' business.
LEMMA Unnoticed ==
  ASSUME \A u \in Upload : Receipt(status'[u]) = Receipt(status[u]),
         UNCHANGED <<errors, docs>>
  PROVE  UNCHANGED Receipts!receiptVars
<1>1. [v \in Upload |-> Receipt(status[v])]' = [v \in Upload |-> Receipt(status[v])]
  OBVIOUS
<1>2. QED
  BY <1>1 DEF Receipts!receiptVars

\* Staging accepts a receipt, a retry accepts a rejected one again.
LEMMA EndpointImplements ==
  ASSUME ReceiptInv, NEW u \in Upload, Stage(u) \/ RetryUpload(u)
  PROVE  Receipts!Accept(u) \/ Receipts!Retry(u)
<1> USE DEF ReceiptInv
<1>1. status' = [status EXCEPT ![u] = "PENDING"] /\ UNCHANGED <<errors, docs>>
  BY DEF Stage, RetryUpload
<1>2. [v \in Upload |-> Receipt(status[v])]' =
        [[v \in Upload |-> Receipt(status[v])] EXCEPT ![u] = "accepted"]
  BY <1>1, OneReceipt, ReceiptOf
<1>3. CASE Stage(u)
  <2>1. Receipt(status[u]) = "none"
    BY <1>3, ReceiptOf DEF Stage
  <2> QED BY <1>1, <1>2, <2>1 DEF Receipts!Accept
<1>4. CASE RetryUpload(u)
  <2>1. Receipt(status[u]) = "rejected" /\ status[u] = "FAILED" /\ attempts[u] < MaxAttempts
    BY <1>4, ReceiptOf DEF RetryUpload, Retryable
  <2>2. errors[u] < MaxAttempts
    BY <2>1 DEF RowsExact, RowExact
  <2> QED BY <1>1, <1>2, <2>1, <2>2 DEF Receipts!Retry
<1>5. QED
  BY <1>3, <1>4

\* Processing an upload imports it, or callers notice nothing.
LEMMA ProcessImplements ==
  ASSUME ReceiptInv, NEW p \in Task, NEW u \in Upload, ProcessSingleUpload(p, u)
  PROVE  Receipts!Import(u) \/ UNCHANGED Receipts!receiptVars
<1> USE DEF ReceiptInv
<1>1. CASE SkipLost(p, u) \/ BeginImport(p, u) \/ LockRun(p, u) \/ ImportRaises(p, u)
  BY <1>1, Unnoticed DEF SkipLost, BeginImport, LockRun, ImportRaises, rowVars
<1>2. CASE YieldToRun(p, u)
  <2>1. /\ status[u] = "PROCESSING" /\ status' = [status EXCEPT ![u] = "PENDING"]
        /\ UNCHANGED <<errors, docs>>
    BY <1>2 DEF YieldToRun, ImportsHeld, Owns, TypeOK
  <2>2. \A v \in Upload : Receipt(status'[v]) = Receipt(status[v])
    BY <2>1, ReceiptOf DEF TypeOK
  <2> QED BY <2>1, <2>2, Unnoticed
<1>3. CASE Complete(p, u)
  <2>1. /\ status[u] = "PROCESSING" /\ status' = [status EXCEPT ![u] = "COMPLETED"]
        /\ docs' = [docs EXCEPT ![u] = @ + 1] /\ errors' = errors
    BY <1>3 DEF Complete, ImportsHeld, Owns, TypeOK
  <2>2. [v \in Upload |-> Receipt(status[v])]' =
          [[v \in Upload |-> Receipt(status[v])] EXCEPT ![u] = "imported"]
    BY <2>1, OneReceipt, ReceiptOf
  <2>3. Receipt(status[u]) = "accepted"
    BY <2>1, ReceiptOf
  <2> QED BY <2>1, <2>2, <2>3 DEF Receipts!Import
<1>4. QED
  BY <1>1, <1>2, <1>3 DEF ProcessSingleUpload

\* A recorded failure is one failed attempt of one receipt; one that comes too
\* late is not noticed.
LEMMA FailureImplements ==
  ASSUME ReceiptInv, NEW p \in Task, RecordFailure(p)
  PROVE  (\E S \in SUBSET Upload : Receipts!FailAttempts(S)) \/ UNCHANGED Receipts!receiptVars
<1> USE DEF ReceiptInv
<1> DEFINE u == failing[p]
<1>1. u \in batch[p] /\ u \in Upload
  BY DEF RecordFailure, FencedRows, TypeOK
<1>2. CASE ~Failable(p, u)
  BY <1>2, Unnoticed DEF RecordFailure
<1>3. CASE Failable(p, u)
  <2>1. /\ status' = [status EXCEPT ![u] = "FAILED"] /\ errors' = [errors EXCEPT ![u] = @ + 1]
        /\ docs' = docs
    BY <1>3 DEF RecordFailure
  <2>2. status[u] = "PROCESSING"
    BY <1>1, <1>3 DEF Failable, FencedRows
  <2> HIDE DEF u
  <2>3. [v \in Upload |-> Receipt(status[v])]' =
          [[v \in Upload |-> Receipt(status[v])] EXCEPT ![u] = "rejected"]
    BY <1>1, <2>1, OneReceipt, ReceiptOf
  <2>4. Receipt(status[u]) = "accepted"
    BY <2>2, ReceiptOf
  <2>5. errors' = [v \in Upload |-> IF v \in {u} THEN errors[v] + 1 ELSE errors[v]]
    BY <1>1, <2>1 DEF TypeOK
  <2>6. [v \in Upload |-> Receipt(status[v])]' =
          [v \in Upload |-> IF v \in {u} THEN "rejected"
                            ELSE [w \in Upload |-> Receipt(status[w])][v]]
    BY <1>1, <2>3
  <2>7. Receipts!FailAttempts({u})
    BY <1>1, <2>1, <2>4, <2>5, <2>6 DEF Receipts!FailAttempts
  <2> QED BY <1>1, <2>7
<1>4. QED
  BY <1>2, <1>3

\* A sweep fails one attempt of every row it resets, and rejects the exhausted.
LEMMA RecoverImplements ==
  ASSUME ReceiptInv, NEW S \in SUBSET Upload, Recover(S)
  PROVE  Receipts!FailAttempts(S)
<1> USE DEF ReceiptInv
<1> DEFINE rejected == {u \in S : Exhausted(u)}
<1>1. \A u \in S : status[u] = "PROCESSING"
  BY DEF Recover, Stalled
<1>2. /\ status' = [u \in Upload |-> IF u \notin S THEN status[u]
                                    ELSE IF Exhausted(u) THEN "FAILED" ELSE "PENDING"]
      /\ errors' = [u \in Upload |-> IF u \in S THEN errors[u] + 1 ELSE errors[u]]
      /\ docs' = docs
  BY DEF Recover
<1>3. \A u \in S : Receipt(status[u]) = "accepted"
  BY <1>1, ReceiptOf
<1>4. ASSUME NEW u \in S, errors'[u] >= MaxAttempts PROVE u \in rejected
  <2>1. attempts[u] = errors[u] + 1
    BY <1>1 DEF RowsExact, RowExact
  <2> QED BY <1>2, <1>4, <2>1 DEF Exhausted
<1>5. [v \in Upload |-> Receipt(status[v])]' =
        [v \in Upload |-> IF v \in rejected THEN "rejected"
                          ELSE [w \in Upload |-> Receipt(status[w])][v]]
  <2> SUFFICES ASSUME NEW v \in Upload
               PROVE  Receipt(status'[v]) =
                        IF v \in rejected THEN "rejected" ELSE Receipt(status[v])
    OBVIOUS
  <2>1. CASE v \in S
    BY <1>2, <1>3, <2>1, ReceiptOf
  <2>2. CASE v \notin S
    BY <1>2, <2>2
  <2> QED BY <2>1, <2>2
<1>6. rejected \in SUBSET S
  OBVIOUS
<1> HIDE DEF rejected
<1>7. QED
  BY <1>2, <1>3, <1>4, <1>5, <1>6 DEF Receipts!FailAttempts

\* Claims, crashes, rollbacks and the environment go unnoticed.
LEMMA OthersImplement ==
  ASSUME ReceiptInv,
         \/ \E u \in Upload : Age(u) \/ Revoke(u)
         \/ \E p \in Task : Claim(p) \/ Crash(p) \/ FailureRollsBack(p)
         \/ RecoverRollsBack \/ ControlRun \/ UNCHANGED vars
  PROVE  UNCHANGED Receipts!receiptVars
<1> USE DEF ReceiptInv
<1>1. CASE \E p \in Task : Claim(p)
  <2>1. PICK S : /\ \A u \in S : status[u] = "PENDING"
                 /\ status' = [u \in Upload |-> IF u \in S THEN "PROCESSING" ELSE status[u]]
    BY <1>1 DEF Claim, Oldest, Claimable
  <2>2. \A u \in Upload : Receipt(status'[u]) = Receipt(status[u])
    BY <2>1, ReceiptOf
  <2>3. UNCHANGED <<errors, docs>>
    BY <1>1 DEF Claim
  <2> QED BY <2>2, <2>3, Unnoticed
<1>2. CASE ~ \E p \in Task : Claim(p)
  <2>1. UNCHANGED <<status, errors, docs>>
    BY <1>2 DEF Age, Revoke, Crash, FailureRollsBack, RecoverRollsBack, ControlRun, vars, rowVars
  <2> QED BY <2>1, Unnoticed
<1>3. QED
  BY <1>1, <1>2

\* The table keeps the promises of UploadReceipts: whatever is claimed, lost,
\* swept, given back and retried, callers see receipts accepted, imported once
\* or rejected, and failures charged once.
THEOREM ReceiptsKept == Spec => KeepsReceipts
<1>1. Init => Receipts!Init
  BY ReceiptOf DEF Init, Receipts!Init
<1>2. ReceiptInv /\ [Next]_vars => [Receipts!Next]_(Receipts!receiptVars)
  <2> SUFFICES ASSUME ReceiptInv, [Next]_vars
               PROVE  Receipts!Next \/ UNCHANGED Receipts!receiptVars
    OBVIOUS
  <2>1. ASSUME NEW u \in Upload, Stage(u) \/ RetryUpload(u)
        PROVE  Receipts!Next
    BY <2>1, EndpointImplements DEF Receipts!Next
  <2>2. ASSUME NEW p \in Task, NEW u \in Upload, ProcessSingleUpload(p, u)
        PROVE  Receipts!Next \/ UNCHANGED Receipts!receiptVars
    BY <2>2, ProcessImplements DEF Receipts!Next
  <2>3. ASSUME NEW p \in Task, RecordFailure(p)
        PROVE  Receipts!Next \/ UNCHANGED Receipts!receiptVars
    BY <2>3, FailureImplements DEF Receipts!Next
  <2>4. ASSUME NEW S \in SUBSET Upload, Recover(S) PROVE Receipts!Next
    BY <2>4, RecoverImplements DEF Receipts!Next
  <2>5. CASE \/ \E u \in Upload : Age(u) \/ Revoke(u)
             \/ \E p \in Task : Claim(p) \/ Crash(p) \/ FailureRollsBack(p)
             \/ RecoverRollsBack \/ ControlRun \/ UNCHANGED vars
    BY <2>5, OthersImplement
  <2> QED BY <2>1, <2>2, <2>3, <2>4, <2>5 DEF Next, Step
<1>3. QED
  BY <1>1, <1>2, ReceiptInvariant, PTL DEF Spec, KeepsReceipts, Receipts!Spec

-----------------------------------------------------------------------------
(* Sources and authority *)

(***************************************************************************)
(* KeyedKeepsSource is about receipts that have failed, so it needs to     *)
(* know of those that may fail next: a keyed receipt keeps its source from *)
(* staging on, until it fails with no attempt left or is imported.         *)
(***************************************************************************)
Needed(u) ==
  status[u] \in {"PENDING", "PROCESSING"} \/ (status[u] = "FAILED" /\ attempts[u] < MaxAttempts)

SourceHeld == \A u \in Keyed : Needed(u) => file[u] # "deleted"

SourceInv == ReceiptInv /\ SourceHeld

\* A source that was lost by a rollback was not deleted.
LEMMA LostNotDeleted ==
  ASSUME TypeOK, NEW S \in SUBSET Upload, file' = Lost(S), status' = status, attempts' = attempts,
         SourceHeld
  PROVE  SourceHeld'
BY DEF TypeOK, Lost, SourceHeld, Needed

\* The endpoints bring a receipt back only with its source.
LEMMA EndpointHolds ==
  ASSUME SourceInv, NEW u \in Upload, Stage(u) \/ RetryUpload(u)
  PROVE  SourceHeld'
<1> USE DEF SourceInv, ReceiptInv
<1>1. /\ status' = [status EXCEPT ![u] = "PENDING"] /\ attempts' = attempts
      /\ file'[u] = "staged" /\ \A v \in Upload : v # u => file'[v] = file[v]
  BY DEF TypeOK, Stage, RetryUpload, Retryable
<1>2. SUFFICES ASSUME NEW v \in Keyed, Needed(v)' PROVE file'[v] # "deleted"
  BY DEF SourceHeld
<1>3. CASE v = u
  BY <1>1, <1>3
<1>4. CASE v # u
  BY <1>1, <1>2, <1>4 DEF TypeOK, SourceHeld, Needed
<1>5. QED
  BY <1>3, <1>4

\* Claims need a source that is pending; an import uses its source up.
LEMMA TaskHolds ==
  ASSUME SourceInv, NEW p \in Task, Claim(p) \/ \E u \in Upload : ProcessSingleUpload(p, u)
  PROVE  SourceHeld'
<1> USE DEF SourceInv, ReceiptInv
<1>1. CASE Claim(p)
  <2>1. PICK S : /\ \A u \in S : status[u] = "PENDING"
                 /\ status' = [u \in Upload |-> IF u \in S THEN "PROCESSING" ELSE status[u]]
                 /\ attempts' = [u \in Upload |-> IF u \in S THEN attempts[u] + 1
                                                  ELSE attempts[u]]
                 /\ file' = file
    BY <1>1 DEF Claim, Oldest, Claimable
  <2>2. SUFFICES ASSUME NEW v \in Keyed, Needed(v)' PROVE Needed(v)
    BY <2>1 DEF SourceHeld
  <2>3. QED
    BY <2>1, <2>2 DEF Needed
<1>2. CASE \E u \in Upload : SkipLost(p, u) \/ BeginImport(p, u) \/ LockRun(p, u)
                              \/ ImportRaises(p, u)
  BY <1>2 DEF SkipLost, BeginImport, LockRun, ImportRaises, rowVars, SourceHeld, Needed
<1>3. CASE \E u \in Upload : YieldToRun(p, u)
  <2>1. PICK u \in Upload : YieldToRun(p, u)
    BY <1>3
  <2>2. /\ status[u] = "PROCESSING" /\ file' = file
        /\ status' = [status EXCEPT ![u] = "PENDING"]
        /\ \A v \in Upload : v # u => attempts'[v] = attempts[v]
    BY <2>1 DEF TypeOK, YieldToRun, ImportsHeld, Owns
  <2>3. \A v \in Upload : Needed(v)' => Needed(v)
    BY <2>2 DEF TypeOK, Needed
  <2>4. QED
    BY <2>2, <2>3 DEF SourceHeld
<1>4. CASE \E u \in Upload : Complete(p, u)
  <2>1. PICK u \in Upload : Complete(p, u)
    BY <1>4
  <2>2. /\ status' = [status EXCEPT ![u] = "COMPLETED"] /\ attempts' = attempts
        /\ \A v \in Upload : v # u => file'[v] = file[v]
    BY <2>1 DEF TypeOK, Complete
  <2>3. QED
    BY <2>2 DEF TypeOK, SourceHeld, Needed
<1>5. QED
  BY <1>1, <1>2, <1>3, <1>4 DEF ProcessSingleUpload

\* A failure with attempts left keeps the source: what is failed was being
\* processed, so it was held.
LEMMA FailureHolds ==
  ASSUME SourceInv, NEW p \in Task, RecordFailure(p)
  PROVE  SourceHeld'
<1> USE DEF SourceInv, ReceiptInv
<1> DEFINE u == failing[p]
<1>1. u \in Upload /\ u \in batch[p] /\ attempts' = attempts
  BY DEF TypeOK, RecordFailure, FencedRows
<1>2. CASE ~Failable(p, u)
  BY <1>2 DEF RecordFailure, SourceHeld, Needed
<1>3. CASE Failable(p, u)
  <2>1. /\ status' = [status EXCEPT ![u] = "FAILED"]
        /\ file' = IF DeletesSource(u) THEN [file EXCEPT ![u] = "deleted"] ELSE file
    BY <1>3 DEF RecordFailure
  <2>2. status[u] = "PROCESSING"
    BY <1>1, <1>3 DEF Failable, FencedRows
  <2>3. SUFFICES ASSUME NEW v \in Keyed, Needed(v)' PROVE file'[v] # "deleted"
    BY DEF SourceHeld
  <2>4. Needed(v)
    BY <1>1, <2>1, <2>2, <2>3 DEF TypeOK, Needed
  <2>5. v = u => ~DeletesSource(u)
    BY <1>1, <2>1, <2>3 DEF TypeOK, Needed, DeletesSource
  <2>6. QED
    BY <1>1, <2>1, <2>4, <2>5 DEF TypeOK, SourceHeld
<1>4. QED
  BY <1>2, <1>3

\* A sweep deletes the sources of exhausted rows only, which it fails.
LEMMA SweepHolds ==
  ASSUME SourceInv, NEW S \in SUBSET Upload, Recover(S)
  PROVE  SourceHeld'
<1> USE DEF SourceInv, ReceiptInv
<1>1. /\ \A u \in S : status[u] = "PROCESSING"
      /\ status' = [u \in Upload |-> IF u \notin S THEN status[u]
                                     ELSE IF Exhausted(u) THEN "FAILED" ELSE "PENDING"]
      /\ file' = [u \in Upload |-> IF u \in S /\ Exhausted(u) THEN "deleted" ELSE file[u]]
      /\ attempts' = attempts
  BY DEF Recover, Stalled
<1>2. SUFFICES ASSUME NEW v \in Keyed, Needed(v)' PROVE file'[v] # "deleted"
  BY DEF SourceHeld
<1>3. Needed(v)
  BY <1>1, <1>2 DEF Needed
<1>4. ~(v \in S /\ Exhausted(v))
  BY <1>1, <1>2 DEF TypeOK, Needed, Exhausted
<1>5. QED
  BY <1>1, <1>3, <1>4 DEF SourceHeld

LEMMA SourceStep == SourceInv /\ [Next]_vars => SourceInv'
<1>1. SUFFICES ASSUME SourceInv, [Next]_vars PROVE SourceHeld'
  BY ReceiptStep DEF SourceInv
<1>2. CASE \E p \in Task : FailureRollsBack(p)
  <2>1. PICK p \in Task : FailureRollsBack(p)
    BY <1>2
  <2>2. failing[p] \in Upload /\ file' = Lost({failing[p]})
    BY <1>1, <2>1 DEF SourceInv, ReceiptInv, TypeOK, FailureRollsBack
  <2>3. status' = status /\ attempts' = attempts
    BY <2>1 DEF FailureRollsBack, rowVars
  <2>4. QED
    BY <1>1, <2>2, <2>3, LostNotDeleted DEF SourceInv, ReceiptInv
<1>3. CASE RecoverRollsBack
  <2>1. PICK S \in SUBSET {u \in Stalled : Exhausted(u)} : file' = Lost(S)
    BY <1>3 DEF RecoverRollsBack
  <2>2. S \in SUBSET Upload /\ status' = status /\ attempts' = attempts
    BY <1>3 DEF RecoverRollsBack, rowVars, Stalled
  <2>3. QED
    BY <1>1, <2>1, <2>2, LostNotDeleted DEF SourceInv, ReceiptInv
<1>4. CASE \/ \E u \in Upload : Age(u) \/ Revoke(u)
           \/ \E p \in Task : Crash(p)
           \/ ControlRun \/ UNCHANGED vars
  <2>1. UNCHANGED <<status, attempts, file>>
    BY <1>4 DEF Age, Revoke, Crash, ControlRun, vars, rowVars
  <2>2. QED
    BY <1>1, <2>1 DEF SourceInv, SourceHeld, Needed
<1>5. QED
  BY <1>1, <1>2, <1>3, <1>4, EndpointHolds, TaskHolds, FailureHolds, SweepHolds DEF Next, Step

\* A keyed receipt that _fail_upload or the sweep failed with attempts left can
\* be retried: neither deleted its source, in whatever order tasks and sweeps
\* came to it.
THEOREM RetryHasSource == Spec => []KeyedKeepsSource
<1>1. Init => SourceInv
  BY ReceiptInit DEF Init, SourceInv, SourceHeld, Needed, UploadStatus
<1>2. SourceInv => KeyedKeepsSource
  BY DEF SourceInv, SourceHeld, Needed, KeyedKeepsSource
<1>3. QED
  BY <1>1, <1>2, SourceStep, PTL DEF Spec

(***************************************************************************)
(* The run's lock is what makes control_run final: while an import holds   *)
(* it, the run is ACTIVE, and a bound upload is committed by its holder.   *)
(***************************************************************************)
HeldRunActive == runHolder # None => runStatus = "ACTIVE"

RunInv == ReceiptInv /\ HeldRunActive

LEMMA RunStep == RunInv /\ [Next]_vars => RunInv'
<1>1. SUFFICES ASSUME RunInv, [Next]_vars PROVE HeldRunActive'
  BY ReceiptStep DEF RunInv
<1> USE DEF RunInv, HeldRunActive
<1>2. CASE \E p \in Task, u \in Upload : LockRun(p, u)
  BY <1>1, <1>2 DEF LockRun
<1>3. CASE \/ ControlRun \/ \E u \in Upload : Stage(u) \/ RetryUpload(u) \/ Age(u) \/ Revoke(u)
           \/ \E S \in SUBSET Upload : Recover(S)
           \/ RecoverRollsBack \/ UNCHANGED vars
           \/ \E p \in Task : Claim(p)
           \/ \E p \in Task, u \in Upload : BeginImport(p, u)
  BY <1>1, <1>3 DEF ControlRun, RunFree, Stage, RetryUpload, Age, Revoke, Recover,
     RecoverRollsBack, vars, taskVars, Claim, BeginImport
<1>4. CASE \E p \in Task : \/ RecordFailure(p) \/ Crash(p) \/ FailureRollsBack(p)
                          \/ \E u \in Upload : SkipLost(p, u) \/ ImportRaises(p, u)
  BY <1>1, <1>4 DEF RecordFailure, Crash, FailureRollsBack, Abandon, SkipLost, ImportRaises,
     Done, Release
<1>5. CASE \E p \in Task, u \in Upload : YieldToRun(p, u)
  BY <1>1, <1>5 DEF YieldToRun, RunFree, Done, Release
<1>6. CASE \E p \in Task, u \in Upload : Complete(p, u)
  BY <1>1, <1>6 DEF Complete, Done, Release
<1>7. QED
  BY <1>1, <1>2, <1>3, <1>4, <1>5, <1>6 DEF Next, Step, ProcessSingleUpload

\* control_run waits for an import that has the run, and an import that has not
\* got it yet finds the run stopped: no document of a stopped run is committed.
THEOREM StoppedRunsHold == Spec => StoppedRunImportsNothing
<1>1. Init => RunInv
  BY ReceiptInit DEF Init, RunInv, HeldRunActive
<1>2. ASSUME RunInv, [Next]_vars
      PROVE  [\A u \in Bound : docs'[u] # docs[u] => runStatus = "ACTIVE"]_vars
  <2>1. SUFFICES ASSUME Next, NEW u \in Bound, docs'[u] # docs[u]
                 PROVE  runStatus = "ACTIVE"
    BY <1>2
  <2>2. CASE \E p \in Task, v \in Upload : Complete(p, v)
    <3>1. PICK p \in Task, v \in Upload : Complete(p, v)
      BY <2>2
    <3>2. u = v
      BY <1>2, <2>1, <3>1 DEF RunInv, ReceiptInv, TypeOK, Complete
    <3>3. runHolder = p
      BY <3>1, <3>2 DEF Complete
    <3>4. QED
      BY <1>2, <3>3 DEF RunInv, HeldRunActive
  <2>3. CASE ~ \E p \in Task, v \in Upload : Complete(p, v)
    <3>1. docs' = docs
      BY <2>1, <2>3 DEF Next, Step, ProcessSingleUpload, Stage, RetryUpload, Age, Revoke, Claim,
        RecordFailure, SkipLost, BeginImport, LockRun, ImportRaises, YieldToRun, Crash,
        FailureRollsBack, Recover, RecoverRollsBack, ControlRun
    <3>2. QED
      BY <2>1, <3>1
  <2>4. QED
    BY <2>2, <2>3
<1>3. QED
  BY <1>1, <1>2, RunStep, PTL DEF Spec, StoppedRunImportsNothing
=============================================================================
