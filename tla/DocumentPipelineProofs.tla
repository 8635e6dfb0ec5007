----------------------- MODULE DocumentPipelineProofs -----------------------
(***************************************************************************)
(* Proofs about DocumentPipeline for any number of threads, retries and    *)
(* crashes: what the status and the lock of a document may say together,   *)
(* in spite of instances that are loaded early and saved late.             *)
(***************************************************************************)
EXTENDS DocumentPipeline, TLAPS

\* An execution has loaded the document from when it begins.
Loaded == \A t \in Thread : copy[t] = NoCopy <=> at[t] = "queued"

Agrees(row) ==
  /\ row.status = "COMPLETED" => ~row.lock
  /\ row.status = "PENDING" => row.lock

\* Stale instances agree with themselves, so saving one over the document keeps
\* it agreeing.
CopiesAgree == \A t \in Thread : copy[t] # NoCopy => Agrees(copy[t])

\* The parsed data has been saved, on the document or on a copy.
HasParsed == parsed # "no"

\* No instance is unlocked before the parsed data is saved, and unlocking comes
\* after it in every chain.
ParsedFirst ==
  /\ \A t \in Thread : copy[t] # NoCopy /\ ~copy[t].lock => HasParsed
  /\ \A t \in Thread : step[t] = "unlock" => HasParsed

\* Without an overlap one execution at most has the document, which is locked as
\* long as it lasts; the sweep has it for itself.
Alone ==
  ~overlapped =>
    /\ \A t, u \in Thread : step[t] # "none" /\ step[u] # "none" => t = u
    /\ \A t \in Thread : step[t] # "none" =>
         doc.lock /\ (copy[t] # NoCopy => copy[t].lock)
    /\ sweep = "seen" => doc.lock /\ \A t \in Thread : step[t] = "none"

PipelineInv ==
  /\ TypeOK /\ Loaded
  /\ LockAgrees /\ CopiesAgree
  /\ UnlockedParsed /\ ParsedFirst
  /\ FailedLockedAlone /\ Alone

USE BoundsAssumption, NoCopyAssumption

-----------------------------------------------------------------------------
(* Threads *)

\* A thread as it was, or with a message of the given task that nobody has taken.
Kept(t) == step'[t] = step[t] /\ at'[t] = at[t] /\ copy'[t] = copy[t]
Queued(t, s) == step'[t] = s /\ at'[t] = "queued" /\ copy'[t] = NoCopy

ThreadTypes ==
  /\ step \in [Thread -> Step]
  /\ at \in [Thread -> {"queued", "begun", "saving", "importing"}]
  /\ copy \in [Thread -> DocumentRow \cup {NoCopy}]
  /\ tries \in [Thread -> 0..MaxTries]

\* One thread is given a new message.
LEMMA MovesOne ==
  ASSUME TypeOK, NEW t \in Thread, NEW s \in Step, NEW n \in 0..MaxTries,
         Moves([u \in {t} |-> <<s, n>>])
  PROVE  ThreadTypes' /\ Queued(t, s) /\ \A u \in Thread \ {t} : Kept(u)
  BY DEF TypeOK, ThreadTypes, Moves, Queued, Kept

\* A task ends with a message, or with two threads if its worker dies first.
LEMMA Sending ==
  ASSUME TypeOK, NEW t \in Thread, NEW s \in Step, NEW n \in 0..MaxTries, Sends(t, s, n)
  PROVE  /\ ThreadTypes'
         /\ crashes' \in 0..MaxCrashes /\ overlapped' \in BOOLEAN
         /\ UNCHANGED <<retries, lost>>
         /\ Queued(t, s)
         /\ \A u \in Thread \ {t} : Kept(u) \/ Queued(u, step[t])
         /\ ~overlapped' => ~overlapped /\ \A u \in Thread \ {t} : Kept(u)
<1>1. CASE Moves([u \in {t} |-> <<s, n>>]) /\ UNCHANGED <<countVars, overlapped>>
  <2>1. ThreadTypes' /\ Queued(t, s) /\ \A u \in Thread \ {t} : Kept(u)
    BY <1>1, MovesOne
  <2>2. UNCHANGED <<crashes, retries, lost, overlapped>>
    BY <1>1 DEF countVars
  <2> QED BY <2>1, <2>2 DEF TypeOK
<1>2. CASE /\ crashes < MaxCrashes
           /\ \E v \in Thread :
                /\ step[v] = "none"
                /\ Moves([u \in {t, v} |-> IF u = t THEN <<s, n>> ELSE <<step[t], tries[t]>>])
           /\ crashes' = crashes + 1
           /\ overlapped' = TRUE
           /\ UNCHANGED <<retries, lost>>
  <2>1. PICK v \in Thread :
          Moves([u \in {t, v} |-> IF u = t THEN <<s, n>> ELSE <<step[t], tries[t]>>])
    BY <1>2
  <2>2. ThreadTypes' /\ Queued(t, s) /\ \A u \in Thread \ {t} : Kept(u) \/ Queued(u, step[t])
    BY <2>1 DEF TypeOK, ThreadTypes, Moves, Queued, Kept
  <2>3. crashes' \in 0..MaxCrashes
    BY <1>2 DEF TypeOK
  <2>4. overlapped'
    BY <1>2
  <2> QED BY <1>2, <2>2, <2>3, <2>4
<1> QED BY <1>1, <1>2 DEF Sends

\* The steps of an ingest that goes on with what it has loaded.
Middle(t) == LoadForParsed(t) \/ SaveFiles(t)

\* The steps that end an execution of a task.
Ending(t) == Deny(t) \/ (Finish(t) /\ ~Middle(t))

\* They send a message, which is that of unlock only after the data was saved.
LEMMA Finishing ==
  ASSUME TypeOK, NEW t \in Thread, Ending(t)
  PROVE  \E s \in Step, n \in 0..MaxTries :
           /\ Sends(t, s, n)
           /\ step[t] # "none" /\ sweep' = sweep
           /\ s = "unlock" => step[t] = "unlock" \/ HasParsed'
<1> USE DEF Succeeds
<1>1. \A s \in Step : s \in {"convert", "thumbnail", "ingest"} =>
        NextStep[s] \in Step /\ (NextStep[s] = "unlock" => s = "ingest")
  BY DEF NextStep, Step
<1>2. CASE Deny(t) \/ Fail(t) \/ Raise(t)
  <2>1. Sends(t, "errback", 0) /\ step[t] # "none" /\ sweep' = sweep
    BY <1>2 DEF Deny, Fail, Raise, Proceeds
  <2> QED BY <2>1 DEF Step
<1>3. CASE TryAgain(t)
  <2>1. /\ Sends(t, step[t], tries[t] + 1) /\ tries[t] + 1 \in 0..MaxTries
        /\ step[t] \in Step /\ step[t] # "none" /\ sweep' = sweep
    BY <1>3 DEF TryAgain, TypeOK
  <2> QED BY <2>1
<1>4. CASE Pass(t) \/ SaveThumbnail(t) \/ SaveParsed(t) \/ SaveElsewhere(t)
  <2>1. /\ Sends(t, NextStep[step[t]], 0) /\ step[t] \in {"convert", "thumbnail", "ingest"}
        /\ sweep' = sweep
        /\ step[t] = "ingest" => HasParsed'
    BY <1>4 DEF Pass, SaveThumbnail, SaveParsed, SaveElsewhere, Proceeds, HasParsed
  <2>2. NextStep[step[t]] \in Step /\ (NextStep[step[t]] = "unlock" => step[t] = "ingest")
    BY <1>1, <2>1 DEF Step
  <2> QED BY <2>1, <2>2
<1>5. CASE Unlock(t) \/ KeepLocked(t) \/ ChainFailed(t)
  <2>1. Sends(t, "none", 0) /\ step[t] # "none" /\ sweep' = sweep
    BY <1>5 DEF Unlock, KeepLocked, ChainFailed, Ends
  <2> QED BY <2>1 DEF Step
<1> QED BY <1>2, <1>3, <1>4, <1>5 DEF Ending, Middle, Finish

\* What those steps save over the document.
Saved(t) ==
  \/ doc' = doc
  \/ doc' = [doc EXCEPT !.status = "FAILED"]
  \/ doc' = copy[t] /\ copy[t] # NoCopy
  \/ doc' = [doc EXCEPT !.status = "COMPLETED", !.lock = FALSE] /\ step[t] = "unlock"

LEMMA Saving ==
  ASSUME TypeOK, Loaded, NEW t \in Thread, Deny(t) \/ Finish(t)
  PROVE  Saved(t) /\ (HasParsed => HasParsed') /\ parsed' \in {"no", "copy", "yes"}
<1> USE DEF HasParsed
<1>1. CASE Fail(t)
  BY <1>1 DEF Fail, MarkedFailed, Saved, TypeOK
<1>2. CASE Deny(t) \/ TryAgain(t) \/ Raise(t) \/ Pass(t) \/ LoadForParsed(t) \/ KeepLocked(t)
  BY <1>2 DEF Deny, TryAgain, Raise, Pass, LoadForParsed, KeepLocked, Saved, TypeOK
<1>3. CASE SaveThumbnail(t)
  BY <1>3 DEF SaveThumbnail, Saved, TypeOK, Loaded
<1>4. CASE SaveElsewhere(t) \/ SaveFiles(t) \/ SaveParsed(t)
  BY <1>4 DEF SaveElsewhere, SaveFiles, SaveParsed, Saved, TypeOK, Loaded
<1>5. CASE Unlock(t)
  BY <1>5 DEF Unlock, Unlocked, Saved, TypeOK
<1>6. CASE ChainFailed(t)
  BY <1>6 DEF ChainFailed, MarkedFailed, Saved, TypeOK
<1> QED BY <1>1, <1>2, <1>3, <1>4, <1>5, <1>6 DEF Finish

-----------------------------------------------------------------------------
(* Types *)

LEMMA SavedRow ==
  ASSUME TypeOK, NEW t \in Thread, Saved(t)
  PROVE  doc' \in DocumentRow
<1>1. doc \in DocumentRow /\ copy[t] \in DocumentRow \cup {NoCopy}
  BY DEF TypeOK
<1>2. \A s \in Status : [doc EXCEPT !.status = s] \in DocumentRow
  BY <1>1 DEF DocumentRow
<1>3. [doc EXCEPT !.status = "COMPLETED", !.lock = FALSE] \in DocumentRow
  BY <1>1 DEF DocumentRow, Status
<1> QED BY <1>1, <1>2, <1>3 DEF Saved, Status

\* Every step keeps the types of the variables.
LEMMA TypesKept == TypeOK /\ Loaded /\ [Next]_vars => TypeOK' /\ Loaded'
<1> SUFFICES ASSUME TypeOK, Loaded, [Next]_vars PROVE TypeOK' /\ Loaded'
  OBVIOUS
<1> USE DEF threadVars, countVars
<1>1. ASSUME NEW t \in Thread, Take(t) PROVE TypeOK' /\ Loaded'
  <2>1. doc' \in DocumentRow
    BY <1>1 DEF Take, TypeOK, DocumentRow, Status
  <2>2. ThreadTypes' /\ Loaded'
    BY <1>1 DEF Take, TypeOK, ThreadTypes, Loaded
  <2> QED BY <1>1, <2>1, <2>2 DEF Take, TypeOK, ThreadTypes
<1>2. ASSUME NEW t \in Thread, Ending(t) PROVE TypeOK' /\ Loaded'
  <2>1. PICK s \in Step, n \in 0..MaxTries :
          Sends(t, s, n) /\ sweep' = sweep
    BY <1>2, Finishing
  <2>2. /\ ThreadTypes' /\ Queued(t, s)
        /\ \A u \in Thread \ {t} : Kept(u) \/ Queued(u, step[t])
        /\ crashes' \in 0..MaxCrashes /\ overlapped' \in BOOLEAN
        /\ UNCHANGED <<retries, lost>>
    BY <2>1, Sending
  <2>3. doc' \in DocumentRow /\ parsed' \in {"no", "copy", "yes"}
    BY <1>2, Saving, SavedRow DEF Ending
  <2>4. Loaded'
    BY <2>2 DEF Loaded, Kept, Queued
  <2> QED BY <2>1, <2>2, <2>3, <2>4 DEF TypeOK, ThreadTypes
<1>3. ASSUME NEW t \in Thread, Middle(t) PROVE TypeOK' /\ Loaded'
  BY <1>3 DEF Middle, LoadForParsed, SaveFiles, TypeOK, Loaded
<1>4. ASSUME NEW t \in Thread, Retry(t) PROVE TypeOK' /\ Loaded'
  <2>1. ThreadTypes' /\ Loaded'
    <3>1. Moves([u \in {t} |-> <<"convert", 0>>])
      BY <1>4 DEF Retry
    <3>2. ThreadTypes' /\ Queued(t, "convert") /\ \A u \in Thread \ {t} : Kept(u)
      <4>1. "convert" \in Step /\ 0 \in 0..MaxTries
        BY DEF Step
      <4> QED BY <3>1, <4>1, MovesOne, Zenon
    <3> QED BY <3>2 DEF Kept, Queued, Loaded
  <2>2. doc' \in DocumentRow /\ retries' \in 0..MaxRetries
    <3>1. doc' = [status |-> "PENDING", lock |-> TRUE, started |-> "lately"]
      BY <1>4 DEF Retry
    <3>2. retries' \in 0..MaxRetries
      BY <1>4 DEF Retry, TypeOK
    <3> QED BY <3>1, <3>2 DEF DocumentRow, Status
  <2>3. overlapped' \in BOOLEAN
    BY <1>4 DEF Retry
  <2> QED BY <1>4, <2>1, <2>2, <2>3 DEF Retry, TypeOK, ThreadTypes
<1>5. ASSUME NEW t \in Thread, Crash(t) PROVE TypeOK' /\ Loaded'
  <2>1. step[t] \in Step /\ tries[t] \in 0..MaxTries /\ crashes' \in 0..MaxCrashes
    BY <1>5 DEF Crash, TypeOK
  <2>2. ThreadTypes' /\ Loaded'
    BY <1>5, <2>1, MovesOne DEF Crash, Kept, Queued, Loaded
  <2> QED BY <1>5, <2>1, <2>2 DEF Crash, TypeOK, ThreadTypes
<1>6. ASSUME NEW t \in Thread, Lose(t) PROVE TypeOK' /\ Loaded'
  <2>1. ThreadTypes' /\ Loaded'
    <3>1. Moves([u \in {t} |-> <<"none", 0>>])
      BY <1>6 DEF Lose
    <3>2. ThreadTypes' /\ Queued(t, "none") /\ \A u \in Thread \ {t} : Kept(u)
      <4>1. "none" \in Step /\ 0 \in 0..MaxTries
        BY DEF Step
      <4> QED BY <3>1, <4>1, MovesOne, Zenon
    <3> QED BY <3>2 DEF Kept, Queued, Loaded
  <2> QED BY <1>6, <2>1 DEF Lose, TypeOK, ThreadTypes
<1>7. CASE FindStuck
  <2>1. overlapped' \in BOOLEAN
    BY <1>7 DEF FindStuck
  <2> QED BY <1>7, <2>1 DEF FindStuck, TypeOK, Loaded
<1>8. CASE Reclaim \/ Age
  <2>1. doc' \in DocumentRow
    BY <1>8 DEF Reclaim, Age, MarkedFailed, TypeOK, DocumentRow, Status
  <2> QED BY <1>8, <2>1 DEF Reclaim, Age, TypeOK, Loaded
<1>9. CASE UNCHANGED vars
  BY <1>9 DEF vars, TypeOK, Loaded
<1> QED BY <1>1, <1>2, <1>3, <1>4, <1>5, <1>6, <1>7, <1>8, <1>9 DEF Next, Ending

-----------------------------------------------------------------------------
(* Instances *)

\* What may be committed of the document, and from what.
Written ==
  \/ \E t \in Thread : Saved(t)
  \/ doc' = doc
  \/ doc' = [doc EXCEPT !.status = "PROCESSING"]
  \/ doc' = [doc EXCEPT !.status = "FAILED"]
  \/ doc' = [doc EXCEPT !.started = "long ago"]
  \/ doc' = [status |-> "PENDING", lock |-> TRUE, started |-> "lately"]

\* Every step loads or drops instances, or leaves them, and saves one of them or
\* some fields.
LEMMA Instances ==
  ASSUME TypeOK, Loaded, [Next]_vars
  PROVE  /\ \A u \in Thread : copy'[u] \in {copy[u], doc, NoCopy}
         /\ Written
         /\ HasParsed => HasParsed'
<1> USE DEF threadVars, countVars
<1>1. ASSUME NEW t \in Thread, Take(t) \/ Middle(t)
      PROVE  (\A u \in Thread : copy'[u] \in {copy[u], doc, NoCopy}) /\ Written /\ parsed' = parsed
  <2>1. CASE Take(t) \/ LoadForParsed(t)
    BY <2>1 DEF Take, LoadForParsed, TypeOK, Written
  <2>2. CASE SaveFiles(t)
    BY <2>2, Saving DEF SaveFiles, Finish, Written
  <2> QED BY <1>1, <2>1, <2>2 DEF Middle
<1>2. ASSUME NEW t \in Thread, Ending(t)
      PROVE  (\A u \in Thread : copy'[u] \in {copy[u], doc, NoCopy}) /\ Written
             /\ (HasParsed => HasParsed')
  <2>1. PICK s \in Step, n \in 0..MaxTries : Sends(t, s, n)
    BY <1>2, Finishing
  <2>2. \A u \in Thread : copy'[u] \in {copy[u], NoCopy}
    BY <2>1, Sending DEF Kept, Queued
  <2> QED BY <1>2, <2>2, Saving DEF Written, Ending
<1>3. ASSUME NEW t \in Thread, Retry(t) \/ Crash(t) \/ Lose(t)
      PROVE  (\A u \in Thread : copy'[u] \in {copy[u], doc, NoCopy}) /\ Written /\ parsed' = parsed
  <2>1. \A u \in Thread : copy'[u] \in {copy[u], NoCopy}
    BY <1>3 DEF Retry, Crash, Lose, Moves
  <2>2. Written /\ parsed' = parsed
    BY <1>3 DEF Retry, Crash, Lose, Written
  <2> QED BY <2>1, <2>2
<1>4. CASE FindStuck \/ Reclaim \/ Age
  <2>1. Written
    BY <1>4 DEF FindStuck, Reclaim, Age, MarkedFailed, Written
  <2>2. copy' = copy /\ parsed' = parsed
    BY <1>4 DEF FindStuck, Reclaim, Age
  <2> QED BY <2>1, <2>2 DEF HasParsed
<1>5. CASE UNCHANGED vars
  BY <1>5 DEF vars, Written, HasParsed
<1> QED BY <1>1, <1>2, <1>3, <1>4, <1>5 DEF Next, Ending, HasParsed

\* Every saved row comes from rows that agree with themselves.
LEMMA AgreeKept ==
  TypeOK /\ Loaded /\ LockAgrees /\ CopiesAgree /\ [Next]_vars => LockAgrees' /\ CopiesAgree'
<1> SUFFICES ASSUME TypeOK, Loaded, LockAgrees, CopiesAgree, [Next]_vars
             PROVE  LockAgrees' /\ CopiesAgree'
  OBVIOUS
<1>1. Agrees(doc) /\ doc \in DocumentRow
  BY DEF LockAgrees, Agrees, TypeOK
<1>2. CopiesAgree'
  BY <1>1, Instances DEF CopiesAgree
<1>3. ASSUME NEW t \in Thread, Saved(t) PROVE Agrees(doc')
  BY <1>1, <1>3 DEF Saved, CopiesAgree, Agrees, DocumentRow
<1>4. Agrees(doc')
  <2>1. \A x \in Status, y \in {"lately", "long ago"} :
          /\ x \in {"PROCESSING", "FAILED"} => Agrees([doc EXCEPT !.status = x])
          /\ Agrees([doc EXCEPT !.started = y])
    BY <1>1 DEF Agrees, DocumentRow
  <2>2. Agrees([status |-> "PENDING", lock |-> TRUE, started |-> "lately"])
    BY DEF Agrees
  <2> QED BY <1>1, <1>3, <2>1, <2>2, Instances DEF Written, Status
<1> QED BY <1>2, <1>4 DEF LockAgrees, Agrees

\* A chain comes to unlock through save_parsed_data only.
LEMMA UnlockLast ==
  ASSUME TypeOK, Loaded, [Next]_vars, NEW u \in Thread, step'[u] = "unlock"
  PROVE  (\E t \in Thread : step[t] = "unlock") \/ HasParsed'
<1>1. ASSUME NEW t \in Thread, Take(t) \/ Middle(t) PROVE step[u] = "unlock"
  BY <1>1 DEF Take, Middle, LoadForParsed, SaveFiles
<1>2. ASSUME NEW t \in Thread, Ending(t)
      PROVE  (\E v \in Thread : step[v] = "unlock") \/ HasParsed'
  <2>1. PICK s \in Step, n \in 0..MaxTries :
          Sends(t, s, n) /\ (s = "unlock" => step[t] = "unlock" \/ HasParsed')
    BY <1>2, Finishing
  <2>2. Queued(t, s) /\ \A v \in Thread \ {t} : Kept(v) \/ Queued(v, step[t])
    BY <2>1, Sending
  <2>3. step'[u] \in {s, step[u], step[t]}
    BY <2>2 DEF Kept, Queued
  <2> QED BY <2>1, <2>3
<1>3. ASSUME NEW t \in Thread, Retry(t) \/ Crash(t) \/ Lose(t) PROVE step[u] = "unlock"
  BY <1>3 DEF Retry, Crash, Lose, Moves
<1>4. CASE FindStuck \/ Reclaim \/ Age \/ UNCHANGED vars
  BY <1>4 DEF FindStuck, Reclaim, Age, vars, threadVars
<1> QED BY <1>1, <1>2, <1>3, <1>4 DEF Next, Ending

\* Nothing unlocked is loaded or saved before the parsed data is.
LEMMA ParsedKept ==
  TypeOK /\ Loaded /\ UnlockedParsed /\ ParsedFirst /\ [Next]_vars => UnlockedParsed' /\ ParsedFirst'
<1> SUFFICES ASSUME TypeOK, Loaded, UnlockedParsed, ParsedFirst, [Next]_vars
             PROVE  UnlockedParsed' /\ ParsedFirst'
  OBVIOUS
<1>1. (HasParsed => HasParsed') /\ doc \in DocumentRow
  BY Instances DEF TypeOK
<1>2. ASSUME NEW t \in Thread, copy'[t] # NoCopy, ~copy'[t].lock PROVE HasParsed'
  BY <1>1, <1>2, Instances DEF HasParsed, UnlockedParsed, ParsedFirst
<1>3. ASSUME NEW t \in Thread, step'[t] = "unlock" PROVE HasParsed'
  BY <1>1, <1>3, UnlockLast DEF ParsedFirst
<1>4. ASSUME ~doc'.lock PROVE HasParsed'
  <2>1. ASSUME NEW t \in Thread, Saved(t) PROVE HasParsed'
    BY <1>1, <1>4, <2>1 DEF Saved, HasParsed, UnlockedParsed, ParsedFirst, DocumentRow
  <2>2. CASE \/ doc' \in {doc, [doc EXCEPT !.status = "PROCESSING"]}
             \/ doc' = [doc EXCEPT !.status = "FAILED"]
             \/ doc' = [doc EXCEPT !.started = "long ago"]
    <3>1. ~doc.lock
      BY <1>1, <1>4, <2>2 DEF DocumentRow
    <3> QED BY <1>1, <3>1 DEF HasParsed, UnlockedParsed
  <2>3. CASE doc' = [status |-> "PENDING", lock |-> TRUE, started |-> "lately"]
    BY <1>4, <2>3
  <2> QED BY <2>1, <2>2, <2>3, Instances DEF Written
<1> QED BY <1>2, <1>3, <1>4 DEF HasParsed, UnlockedParsed, ParsedFirst

-----------------------------------------------------------------------------
(* One execution at a time *)

\* As long as nothing has overlapped, locks and executions go together.
LEMMA AloneKept ==
  TypeOK /\ Loaded /\ FailedLockedAlone /\ Alone /\ [Next]_vars => FailedLockedAlone' /\ Alone'
<1> SUFFICES ASSUME TypeOK, Loaded, FailedLockedAlone, Alone, [Next]_vars, ~overlapped'
             PROVE  FailedLockedAlone' /\ Alone'
  BY DEF FailedLockedAlone, Alone
<1> USE DEF threadVars, countVars
<1>0. doc \in DocumentRow
  BY DEF TypeOK
<1>1. ASSUME NEW t \in Thread, Take(t) PROVE FailedLockedAlone' /\ Alone'
  BY <1>0, <1>1 DEF Take, TypeOK, FailedLockedAlone, Alone, DocumentRow
<1>2. ASSUME NEW t \in Thread, Ending(t) PROVE FailedLockedAlone' /\ Alone'
  <2>1. PICK s \in Step, n \in 0..MaxTries :
          Sends(t, s, n) /\ step[t] # "none" /\ sweep' = sweep
    BY <1>2, Finishing
  <2>2. Queued(t, s) /\ ~overlapped /\ \A u \in Thread \ {t} : Kept(u)
    BY <2>1, Sending
  <2>3. /\ \A u \in Thread \ {t} : step[u] = "none"
        /\ sweep # "seen" /\ doc.lock /\ (copy[t] # NoCopy => copy[t].lock)
    BY <2>1, <2>2 DEF Alone
  <2>4. \A u \in Thread \ {t} : step'[u] = "none"
    BY <2>2, <2>3 DEF Kept
  <2>5. CASE doc'.lock
    BY <2>1, <2>2, <2>3, <2>4, <2>5 DEF Alone, FailedLockedAlone, Queued
  <2>6. CASE ~doc'.lock
    <3>1. Unlock(t)
      <4>1. CASE Fail(t)
        BY <1>0, <2>3, <2>6, <4>1 DEF Fail, MarkedFailed, DocumentRow
      <4>2. CASE \/ Deny(t) \/ TryAgain(t) \/ Raise(t) \/ Pass(t) \/ SaveElsewhere(t)
                 \/ KeepLocked(t)
        BY <2>3, <2>6, <4>2 DEF Deny, TryAgain, Raise, Pass, SaveElsewhere, KeepLocked
      <4>3. CASE SaveThumbnail(t) \/ SaveParsed(t)
        BY <2>1, <2>3, <2>6, <4>3 DEF SaveThumbnail, SaveParsed, Loaded
      <4>4. CASE ChainFailed(t)
        BY <1>0, <2>3, <2>6, <4>4 DEF ChainFailed, MarkedFailed, DocumentRow
      <4> QED BY <1>2, <4>1, <4>2, <4>3, <4>4 DEF Ending, Middle, Finish
    <3>2. Sends(t, "none", 0) /\ doc' = [doc EXCEPT !.status = "COMPLETED", !.lock = FALSE]
      BY <3>1 DEF Unlock, Unlocked, Ends
    <3>3. Queued(t, "none")
      BY <3>2, Sending DEF Step
    <3>4. doc'.status = "COMPLETED"
      BY <1>0, <3>2 DEF DocumentRow
    <3> QED BY <2>1, <2>3, <2>4, <3>3, <3>4 DEF Alone, FailedLockedAlone, Queued
  <2> QED BY <2>5, <2>6
<1>3. ASSUME NEW t \in Thread, Middle(t) PROVE FailedLockedAlone' /\ Alone'
  <2>1. CASE LoadForParsed(t)
    BY <2>1 DEF LoadForParsed, TypeOK, FailedLockedAlone, Alone
  <2>2. CASE SaveFiles(t)
    BY <2>2 DEF SaveFiles, TypeOK, Loaded, FailedLockedAlone, Alone
  <2> QED BY <1>3, <2>1, <2>2 DEF Middle
<1>4. ASSUME NEW t \in Thread, Retry(t) PROVE FailedLockedAlone' /\ Alone'
  <2>1. ~overlapped /\ sweep # "seen" /\ \A u \in Thread : step[u] = "none"
    BY <1>4, Zenon DEF Retry
  <2>2. doc'.lock /\ sweep' = sweep
    BY <1>4 DEF Retry
  <2>3. \A u \in Thread : copy'[u] = IF u = t THEN NoCopy ELSE copy[u]
    BY <1>4 DEF Retry, Moves
  <2>4. \A u \in Thread : u # t => step'[u] = "none"
    BY <1>4, <2>1 DEF Retry, Moves
  <2> QED BY <2>1, <2>2, <2>3, <2>4 DEF Alone, FailedLockedAlone
<1>5. ASSUME NEW t \in Thread, Crash(t) \/ Lose(t) PROVE FailedLockedAlone' /\ Alone'
  <2>1. UNCHANGED <<doc, sweep, overlapped>>
    BY <1>5 DEF Crash, Lose
  <2>2. \A u \in Thread : step'[u] \in {step[u], "none"} /\ copy'[u] \in {copy[u], NoCopy}
    BY <1>5 DEF Crash, Lose, Moves
  <2> QED BY <2>1, <2>2 DEF Alone, FailedLockedAlone
<1>6. CASE FindStuck
  <2>1. ~overlapped /\ \A u \in Thread : step[u] = "none"
    BY <1>6, Zenon DEF FindStuck
  <2> QED BY <1>6, <2>1 DEF FindStuck, Stuck, Alone, FailedLockedAlone
<1>7. CASE Reclaim
  BY <1>0, <1>7 DEF Reclaim, MarkedFailed, Alone, FailedLockedAlone, DocumentRow
<1>8. CASE Age
  BY <1>0, <1>8 DEF Age, Alone, FailedLockedAlone, DocumentRow
<1>9. CASE UNCHANGED vars
  BY <1>9 DEF vars, Alone, FailedLockedAlone
<1> QED BY <1>1, <1>2, <1>3, <1>4, <1>5, <1>6, <1>7, <1>8, <1>9 DEF Next, Ending

-----------------------------------------------------------------------------
(* Theorems *)

LEMMA PipelineInit == Init => PipelineInv
<1> SUFFICES ASSUME Init PROVE PipelineInv
  OBVIOUS
<1>1. /\ step = [t \in Thread |-> IF t = First THEN "convert" ELSE "none"]
      /\ doc = [status |-> "PENDING", lock |-> TRUE, started |-> "lately"]
  BY DEF Init
<1>2. /\ at = [t \in Thread |-> "queued"] /\ copy = [t \in Thread |-> NoCopy]
      /\ tries = [t \in Thread |-> 0] /\ sweep = "idle"
      /\ crashes = 0 /\ retries = 0 /\ lost = FALSE
      /\ parsed = "no" /\ overlapped = FALSE
  BY DEF Init
<1>3. TypeOK
  <2>1. doc \in DocumentRow /\ step \in [Thread -> Step]
    BY <1>1 DEF DocumentRow, Status, Step
  <2>2. copy \in [Thread -> DocumentRow \cup {NoCopy}]
    BY <1>2
  <2>3. 0 \in 0..MaxTries /\ crashes \in 0..MaxCrashes /\ retries \in 0..MaxRetries
    BY <1>2
  <2>4. lost \in BOOLEAN /\ overlapped \in BOOLEAN
    BY <1>2, Zenon
  <2> QED BY <1>2, <2>1, <2>2, <2>3, <2>4 DEF TypeOK
<1> QED BY <1>1, <1>2, <1>3 DEF PipelineInv, Loaded, LockAgrees, CopiesAgree, UnlockedParsed,
           ParsedFirst, FailedLockedAlone, Alone

LEMMA PipelineInvariant == Spec => []PipelineInv
<1>1. PipelineInv /\ [Next]_vars => PipelineInv'
  BY TypesKept, AgreeKept, ParsedKept, AloneKept DEF PipelineInv
<1> QED BY PipelineInit, <1>1, PTL DEF Spec

\* The document's row and the instances of it have their types at every step.
THEOREM PipelineTypes == Spec => []TypeOK
<1>1. PipelineInv => TypeOK
  BY DEF PipelineInv
<1> QED BY <1>1, PipelineInvariant, PTL

\* set_doc_lock_state unlocks nothing before save_parsed_data has saved all of the
\* parse, on the document or on the copy it has made, and no stale instance does.
THEOREM OnlyParsedUnlocked == Spec => []UnlockedParsed
<1>1. PipelineInv => UnlockedParsed
  BY DEF PipelineInv
<1> QED BY <1>1, PipelineInvariant, PTL

\* A document that reads COMPLETED is unlocked and one that reads PENDING is
\* locked, whatever instance was saved last.
THEOREM StatusAndLock == Spec => []LockAgrees
<1>1. PipelineInv => LockAgrees
  BY DEF PipelineInv
<1> QED BY <1>1, PipelineInvariant, PTL

\* A FAILED document stays locked, as _mark_document_failed says, as long as no
\* two executions on it have overlapped.
THEOREM FailedKeepsLock == Spec => []FailedLockedAlone
<1>1. PipelineInv => FailedLockedAlone
  BY DEF PipelineInv
<1> QED BY <1>1, PipelineInvariant, PTL
=============================================================================
