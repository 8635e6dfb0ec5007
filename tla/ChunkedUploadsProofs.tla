------------------------ MODULE ChunkedUploadsProofs ------------------------
(***************************************************************************)
(* Proofs about ChunkedUploads for any number of parts, requests, file     *)
(* names and crashes: a session is imported once and whole, and rows and   *)
(* files agree while nothing is lost.                                      *)
(***************************************************************************)
EXTENDS ChunkedUploads, TLAPS

\* The lock of the session: one request holds it, and what it has claimed stays
\* PENDING for everyone else until it commits; an imported session is never
\* PENDING again.
LockOwned ==
  /\ \A r, q \in Request : Holds(r) /\ Holds(q) => r = q
  /\ \A r \in Request :
       pc[r] \in {"claimed", "assembled", "clearing"} => session.status = "PENDING"
  /\ imports > 0 => session.status \in {"COMPLETED", "gone"} /\ imports = 1

\* The file of a part bears its index.
RowsPlaced == \A i \in Part : i \in Stored => parts[i].file[1] = i

Replaced(i) == \E r \in Request : pc[r] = "stored" /\ carries[r].file[1] = i

\* A file is missing or has the size its row says, unless its part is being
\* replaced: the storage may reuse the name of the file that was deleted.
FilesMatch ==
  /\ ~shifted => \A i \in Part :
       i \in Stored => storage[parts[i].file] \in {NoPart, parts[i].size} \/ Replaced(i)
  /\ \A r \in Request :
       pc[r] = "stored" => storage[carries[r].file] \in {NoPart, carries[r].size}

Whole == [i \in Part |-> "slice"]

\* What was counted is there until it is assembled, or the purge has taken all
\* of it; what is assembled is the whole or nothing.
CountedWhole ==
  ~shifted =>
    /\ \A r \in Request :
         /\ pc[r] \in {"counted", "claimed"} => Complete \/ Stored = {}
         /\ pc[r] = "assembled" => carries[r] \in {Whole, Nothing}
         /\ pc[r] = "clearing" => carries[r] = Whole
    /\ imports > 0 => imported = Whole

Working(r, i) ==
  \/ pc[r] = "replacing" /\ carries[r][1] = i
  \/ pc[r] = "stored" /\ carries[r].file[1] = i
  \/ pc[r] = "clearing"

\* With nothing lost and no purge at work, a file is missing only while the
\* request that deleted it has the lock.
FilesBacked ==
  crashes = 0 /\ purge = "idle" =>
    /\ \A i \in Part : i \in Stored =>
         storage[parts[i].file] = parts[i].size \/ \E r \in Request : Working(r, i)
    /\ \A r \in Request : pc[r] = "stored" => storage[carries[r].file] = carries[r].size

SessionInv ==
  TypeOK /\ LockOwned /\ RowsPlaced /\ FilesMatch /\ CountedWhole /\ FilesBacked

USE CrashesAssumption, NoPartAssumption

-----------------------------------------------------------------------------
(* Types *)

\* A new file has the index of its part, and nothing is stored under its name.
LEMMA NewFile ==
  ASSUME TypeOK, NEW i \in Part, Taken(i) # Name
  PROVE  FreeFile(i) \in File /\ FreeFile(i)[1] = i /\ storage[FreeFile(i)] = NoPart
<1>1. PICK n \in Name : n \notin Taken(i)
  BY DEF Taken
<1>2. (CHOOSE m \in Name : m \notin Taken(i)) \in Name \ Taken(i)
  <2> Taken(i) \subseteq Name
    BY DEF Taken
  <2> QED BY <1>1
<1> QED BY <1>2 DEF FreeFile, Taken, File

\* What a request goes on with has the type that belongs to its step.
LEMMA Going ==
  ASSUME TypeOK, NEW r \in Request, NEW s \in Step, NEW x, GoesWith(r, s, x),
         s \in {"idle", "counted", "claimed"} => x = NoPart,
         s \in {"asked", "replacing", "creating"} => x \in Sent,
         s = "stored" => x \in PartRow,
         s \in {"assembled", "clearing"} => x \in Bytes
  PROVE  /\ pc' \in [Request -> Step]
         /\ carries' = [q \in Request |-> carries'[q]]
         /\ \A q \in Request : Carries(q)'
         /\ pc'[r] = s /\ carries'[r] = x
         /\ \A q \in Request \ {r} : pc'[q] = pc[q] /\ carries'[q] = carries[q]
<1>1. /\ pc' \in [Request -> Step]
      /\ carries' = [q \in Request |-> carries'[q]]
      /\ pc'[r] = s /\ carries'[r] = x
      /\ \A q \in Request \ {r} : pc'[q] = pc[q] /\ carries'[q] = carries[q]
  BY DEF TypeOK, GoesWith
<1>2. ASSUME NEW q \in Request PROVE Carries(q)'
  <2>1. CASE q = r
    BY <1>1, <2>1 DEF Carries
  <2>2. CASE q # r
    BY <1>1, <2>2 DEF Carries, TypeOK
  <2> QED BY <2>1, <2>2
<1> QED BY <1>1, <1>2

\* Every step keeps the types of the variables.
LEMMA TypesKept == TypeOK /\ [Next]_vars => TypeOK'
<1> SUFFICES ASSUME TypeOK, [Next]_vars PROVE TypeOK'
  OBVIOUS
<1> USE DEF TypeOK, Content, requestVars, purgeVars, importVars
<1> DEFINE ReqOK == /\ pc \in [Request -> Step]
                    /\ carries = [r \in Request |-> carries[r]]
                    /\ \A r \in Request : Carries(r)
<1>1. ASSUME NEW r \in Request, AskToStore(r) PROVE TypeOK'
  <2>1. PICK sent \in Sent : GoesWith(r, "asked", sent)
    BY <1>1 DEF AskToStore
  <2>2. ReqOK'
    BY <2>1, Going DEF Step
  <2> QED BY <1>1, <2>2 DEF AskToStore
<1>2. ASSUME NEW r \in Request, LockToStore(r) PROVE TypeOK'
  <2>1. carries[r] \in Sent
    BY <1>2 DEF LockToStore, Carries
  <2>2. ReqOK'
    <3> DEFINE s == IF carries[r][1] \in Stored THEN "replacing" ELSE "creating"
    <3>1. GoesWith(r, s, carries[r]) /\ s \in {"replacing", "creating"}
      BY <1>2 DEF LockToStore, Goes
    <3> HIDE DEF s
    <3> QED BY <2>1, <3>1, Going DEF Step
  <2> QED BY <1>2, <2>2 DEF LockToStore
<1>3. ASSUME NEW r \in Request, NothingToLock(r) PROVE TypeOK'
  <2>1. ReqOK'
    BY <1>3, Going DEF NothingToLock, Ends, Step
  <2> QED BY <1>3, <2>1 DEF NothingToLock
<1>4. ASSUME NEW r \in Request, Write(r) PROVE TypeOK'
  <2> DEFINE i == carries[r][1]  c == carries[r][2]
  <2>1. carries[r] \in Sent /\ i \in Part /\ c \in Content
    BY <1>4 DEF Write, Carries, Sent
  <2>2. FreeFile(i) \in File
    BY <1>4, <2>1, NewFile DEF Write
  <2>3. ReqOK'
    <3>1. CASE Ends(r)
      BY <3>1, Going DEF Ends, Step
    <3>2. CASE GoesWith(r, "stored", [file |-> FreeFile(i), size |-> c])
      <4>1. [file |-> FreeFile(i), size |-> c] \in PartRow
        BY <2>1, <2>2 DEF PartRow
      <4> QED BY <3>2, <4>1, Going DEF Step
    <3> QED BY <1>4, <3>1, <3>2 DEF Write
  <2>4. storage' = [storage EXCEPT ![FreeFile(i)] = c]
    BY <1>4 DEF Write
  <2> QED BY <1>4, <2>1, <2>2, <2>3, <2>4 DEF Write
<1>5. ASSUME NEW r \in Request, CommitPart(r) PROVE TypeOK'
  <2>1. ReqOK'
    BY <1>5, Going DEF CommitPart, Ends, Step
  <2>2. carries[r] \in PartRow
    BY <1>5 DEF CommitPart, Carries
  <2>3. shifted' \in BOOLEAN
    BY <1>5 DEF CommitPart
  <2>4. parts' \in [Part -> PartRow \cup {NoPart}]
    BY <1>5, <2>2 DEF CommitPart
  <2> QED BY <1>5, <2>1, <2>3, <2>4 DEF CommitPart
<1>6. ASSUME NEW r \in Request, Count(r) PROVE TypeOK'
  <2>1. ReqOK'
    BY <1>6, Going DEF Count, Goes, Step, Carries
  <2> QED BY <1>6, <2>1 DEF Count
<1>7. ASSUME NEW r \in Request, Claim(r) PROVE TypeOK'
  <2>1. carries[r] = NoPart
    BY <1>7 DEF Claim, Carries
  <2>2. ReqOK'
    <3>1. CASE Goes(r, "claimed")
      BY <2>1, <3>1, Going DEF Goes, Step
    <3>2. CASE Ends(r)
      BY <3>2, Going DEF Ends, Step
    <3> QED BY <1>7, <3>1, <3>2 DEF Claim
  <2> QED BY <1>7, <2>2 DEF Claim
<1>8. ASSUME NEW r \in Request, Assemble(r) PROVE TypeOK'
  <2> DEFINE bytes == [i \in Part |-> IF i \in Stored THEN storage[parts[i].file] ELSE NoPart]
  <2>1. bytes \in Bytes
    BY DEF Bytes, Stored, PartRow
  <2>2. ReqOK'
    <3>1. CASE GoesWith(r, "assembled", bytes)
      BY <2>1, <3>1, Going DEF Step
    <3>2. CASE Ends(r)
      BY <3>2, Going DEF Ends, Step
    <3> QED BY <1>8, <3>1, <3>2 DEF Assemble
  <2> QED BY <1>8, <2>2 DEF Assemble
<1>9. ASSUME NEW r \in Request, Refuse(r) PROVE TypeOK'
  <2>1. ReqOK'
    BY <1>9, Going DEF Refuse, Ends, Step
  <2> QED BY <1>9, <2>1 DEF Refuse
<1>10. ASSUME NEW r \in Request, Import(r) PROVE TypeOK'
  <2>1. carries[r] \in Bytes
    BY <1>10 DEF Import, Carries
  <2>2. ReqOK'
    BY <1>10, <2>1, Going DEF Import, Goes, Step
  <2> QED BY <1>10, <2>2 DEF Import
<1>11. ASSUME NEW r \in Request, ClearFile(r) PROVE TypeOK'
  <2>1. storage' \in [File -> Content \cup {NoPart}]
    BY <1>11 DEF ClearFile
  <2>2. ReqOK'
    BY <1>11 DEF ClearFile, Carries
  <2> QED BY <1>11, <2>1, <2>2 DEF ClearFile
<1>12. ASSUME NEW r \in Request, CommitComplete(r) PROVE TypeOK'
  <2>1. ReqOK'
    BY <1>12, Going DEF CommitComplete, Ends, Step
  <2>2. imported' \in Bytes
    BY <1>12 DEF CommitComplete, Carries
  <2>3. parts' \in [Part -> PartRow \cup {NoPart}]
    BY <1>12 DEF CommitComplete, Cleared, Nothing
  <2> QED BY <1>12, <2>1, <2>2, <2>3 DEF CommitComplete
<1>13. ASSUME NEW r \in Request, Die(r) PROVE TypeOK'
  <2>1. ReqOK'
    BY <1>13, Going DEF Die, Ends, Step
  <2>2. shifted' \in BOOLEAN
    BY <1>13 DEF Die
  <2>3. crashes' \in 0..MaxCrashes
    BY <1>13 DEF Die
  <2> QED BY <1>13, <2>1, <2>2, <2>3 DEF Die
<1>14. CASE Purge \/ PurgeDies \/ Age
  <2>1. ReqOK'
    BY <1>14 DEF Purge, Select, List, PurgeFile, PurgeRows, PurgeSession, PurgeDies, Age, Carries
  <2>2. CASE Select \/ PurgeRows
    BY <2>1, <2>2 DEF Select, PurgeRows, Nothing
  <2>6. CASE PurgeSession
    BY <2>1, <2>6 DEF PurgeSession, Nothing
  <2>7. CASE Age
    BY <2>1, <2>7 DEF Age
  <2>3. CASE List
    <3>1. FilesOf(Stored) \subseteq File
      BY DEF FilesOf, Stored, PartRow
    <3> QED BY <2>1, <2>3, <3>1 DEF List
  <2>4. CASE PurgeFile
    <3>1. PICK f \in doomed : /\ doomed' = doomed \ {f}
                              /\ storage' \in {storage, [storage EXCEPT ![f] = NoPart]}
      BY <2>4 DEF PurgeFile
    <3> QED BY <2>1, <2>4, <3>1 DEF PurgeFile
  <2>5. CASE PurgeDies
    <3>1. crashes' \in 0..MaxCrashes
      BY <2>5 DEF PurgeDies
    <3> QED BY <2>1, <2>5, <3>1 DEF PurgeDies
  <2> QED BY <1>14, <2>2, <2>3, <2>4, <2>5, <2>6, <2>7 DEF Purge
<1>15. CASE UNCHANGED vars
  BY <1>15 DEF vars, Carries
<1> QED BY <1>1, <1>2, <1>3, <1>4, <1>5, <1>6, <1>7, <1>8, <1>9, <1>10, <1>11, <1>12,
           <1>13, <1>14, <1>15 DEF Next, StoreSteps, CompleteSteps

-----------------------------------------------------------------------------
(* Locks and rows *)

\* Steps of a request: it alone moves.
LEMMA OneMoves ==
  ASSUME TypeOK, NEW r \in Request, NEW s, NEW x, GoesWith(r, s, x)
  PROVE  /\ pc'[r] = s /\ carries'[r] = x
         /\ \A q \in Request : q # r => pc'[q] = pc[q] /\ carries'[q] = carries[q]
  BY DEF GoesWith, TypeOK

\* The lock has one owner, which a claimed session waits for.
LEMMA LockKept == TypeOK /\ LockOwned /\ [Next]_vars => LockOwned'
<1> SUFFICES ASSUME TypeOK, LockOwned, [Next]_vars PROVE LockOwned'
  OBVIOUS
<1> USE DEF LockOwned, Holds, requestVars, purgeVars, importVars, Goes, Ends
<1>0. /\ session \in [status : {"PENDING", "COMPLETED", "FAILED", "gone"}, stale : BOOLEAN]
      /\ imports \in Nat
  BY DEF TypeOK
<1>1. ASSUME NEW r \in Request, AskToStore(r) \/ NothingToLock(r) \/ Count(r) PROVE LockOwned'
  BY <1>1, OneMoves DEF AskToStore, NothingToLock, Count
<1>2. ASSUME NEW r \in Request, LockToStore(r) PROVE LockOwned'
  BY <1>2, OneMoves DEF LockToStore, Unlocked
<1>3. ASSUME NEW r \in Request, Write(r) PROVE LockOwned'
  <2>1. PICK s, x : GoesWith(r, s, x) /\ s \in {"idle", "stored"}
    BY <1>3 DEF Write
  <2> QED BY <1>3, <2>1, OneMoves DEF Write
<1>4. ASSUME NEW r \in Request, CommitPart(r) PROVE LockOwned'
  BY <1>0, <1>4, OneMoves DEF CommitPart
<1>5. ASSUME NEW r \in Request, Claim(r) PROVE LockOwned'
  <2>1. CASE Claimable
    BY <1>5, <2>1, OneMoves DEF Claim, Unlocked, Claimable
  <2>2. CASE ~Claimable
    BY <1>5, <2>2, OneMoves DEF Claim
  <2> QED BY <2>1, <2>2
<1>6. ASSUME NEW r \in Request, Assemble(r) PROVE LockOwned'
  <2>1. PICK s, x : GoesWith(r, s, x) /\ s \in {"idle", "assembled"}
    BY <1>6 DEF Assemble
  <2> QED BY <1>6, <2>1, OneMoves DEF Assemble
<1>7. ASSUME NEW r \in Request, Refuse(r) PROVE LockOwned'
  <2>1. imports = 0
    BY <1>0, <1>7 DEF Refuse
  <2> QED BY <1>7, <2>1, OneMoves DEF Refuse
<1>8. ASSUME NEW r \in Request, Import(r) \/ ClearFile(r) \/ Die(r) PROVE LockOwned'
  BY <1>8, OneMoves DEF Import, ClearFile, Die
<1>9. ASSUME NEW r \in Request, CommitComplete(r) PROVE LockOwned'
  <2>1. imports' = 1
    BY <1>0, <1>9 DEF CommitComplete
  <2> QED BY <1>9, <2>1, OneMoves DEF CommitComplete
<1>10. CASE Purge \/ PurgeDies \/ Age
  <2>1. UNCHANGED <<pc, carries, imports>>
    BY <1>10 DEF Purge, Select, List, PurgeFile, PurgeRows, PurgeSession, PurgeDies, Age
  <2>2. CASE session'.status = session.status
    BY <2>1, <2>2
  <2>3. CASE PurgeSession
    BY <2>1, <2>3 DEF PurgeSession, Unlocked
  <2>4. ~PurgeSession => session'.status = session.status
    BY <1>0, <1>10 DEF Purge, Select, List, PurgeFile, PurgeRows, PurgeDies, Age
  <2> QED BY <2>2, <2>3, <2>4
<1>11. CASE UNCHANGED vars
  BY <1>11 DEF vars
<1> QED BY <1>1, <1>2, <1>3, <1>4, <1>5, <1>6, <1>7, <1>8, <1>9, <1>10, <1>11
        DEF Next, StoreSteps, CompleteSteps

\* What a request carries may be told from its step.
LEMMA Carried ==
  ASSUME TypeOK, NEW r \in Request
  PROVE  /\ pc[r] \in {"asked", "replacing", "creating"} =>
              carries[r] \in Sent /\ carries[r][1] \in Part /\ carries[r][2] \in Content
         /\ pc[r] = "stored" =>
              /\ carries[r] \in PartRow /\ carries[r] # NoPart
              /\ carries[r].file \in File /\ carries[r].file[1] \in Part
              /\ carries[r].size \in Content
  BY DEF TypeOK, Carries, Sent, PartRow, File

\* A part has a row of the right type.
LEMMA RowOf ==
  ASSUME TypeOK, NEW i \in Stored
  PROVE  parts[i] \in PartRow /\ parts[i].file \in File /\ parts[i].size \in Content
  BY DEF TypeOK, Stored, PartRow

\* The rows change only when a request commits, or are deleted all at once.
LEMMA RowsChange ==
  ASSUME TypeOK, [Next]_vars
  PROVE  \/ parts' = parts
         \/ parts' = Nothing /\ Stored' = {}
         \/ \E r \in Request : CommitPart(r)
  BY DEF Next, Purge, StoreSteps, CompleteSteps, AskToStore, LockToStore, NothingToLock, Write,
         Count, Claim, Assemble, Refuse, Import, ClearFile, CommitComplete, Die, Select, List,
         PurgeFile, PurgeRows, PurgeSession, PurgeDies, Age, vars, Cleared, Nothing, Stored

LEMMA PlacedKept == TypeOK /\ RowsPlaced /\ [Next]_vars => RowsPlaced'
<1> SUFFICES ASSUME TypeOK, RowsPlaced, [Next]_vars PROVE RowsPlaced'
  OBVIOUS
<1>1. CASE parts' = parts
  BY <1>1 DEF RowsPlaced, Stored
<1>2. CASE Stored' = {}
  BY <1>2 DEF RowsPlaced
<1>3. ASSUME NEW r \in Request, CommitPart(r) PROVE RowsPlaced'
  BY <1>3, Carried DEF CommitPart, RowsPlaced, Stored, TypeOK
<1> QED BY <1>1, <1>2, <1>3, RowsChange

-----------------------------------------------------------------------------
(* Files *)

\* One new file is written under the lock, for the part that is being stored.
LEMMA Writing ==
  ASSUME TypeOK, LockOwned, NEW r \in Request, Write(r)
  PROVE  LET i == carries[r][1]  c == carries[r][2]  f == FreeFile(i) IN
         /\ i \in Part /\ c \in Content /\ f \in File /\ f[1] = i
         /\ storage[f] = NoPart
         /\ storage' = [storage EXCEPT ![f] = c]
         /\ \A q \in Request : q # r => pc[q] # "stored" /\ pc'[q] # "stored"
         /\ \/ pc'[r] = "stored" /\ carries'[r] = [file |-> f, size |-> c]
            \/ pc'[r] = "idle" /\ pc[r] = "replacing" /\ i \notin Stored
<1> DEFINE i == carries[r][1]  c == carries[r][2]  f == FreeFile(i)
<1>1. /\ pc[r] \in {"replacing", "creating"} /\ Taken(i) # Name
      /\ storage' = [storage EXCEPT ![f] = c]
      /\ IF pc[r] = "replacing" /\ i \notin Stored
         THEN Ends(r)
         ELSE GoesWith(r, "stored", [file |-> f, size |-> c])
  BY DEF Write
<1>2. i \in Part /\ c \in Content
  BY <1>1, Carried
<1>3. f \in File /\ f[1] = i /\ storage[f] = NoPart
  BY <1>1, <1>2, NewFile
<1>4. \A q \in Request : q # r => pc[q] # "stored"
  BY <1>1 DEF LockOwned, Holds
<1> HIDE DEF i, c, f
<1>5. CASE Ends(r)
  BY <1>1, <1>2, <1>3, <1>4, <1>5, OneMoves DEF Ends, GoesWith, TypeOK, i, c, f
<1>6. CASE GoesWith(r, "stored", [file |-> f, size |-> c])
  BY <1>1, <1>2, <1>3, <1>4, <1>6, OneMoves DEF i, c, f
<1> QED BY <1>1, <1>5, <1>6

\* Steps that may remove files, and leave the rows and what is stored alone.
LEMMA MatchRemoved ==
  ASSUME FilesMatch, TypeOK, UNCHANGED <<parts, pc, carries, shifted>>,
         \A f \in File : storage'[f] \in {NoPart, storage[f]}
  PROVE  FilesMatch'
<1>1. \A i \in Part : i \in Stored => parts[i].file \in File
  BY RowOf
<1>2. \A r \in Request : pc[r] = "stored" => carries[r].file \in File
  BY Carried
<1> QED BY <1>1, <1>2 DEF FilesMatch, Replaced, Stored

\* What one request does without storing a part, to the files at most removing some.
LEMMA MatchMoved ==
  ASSUME FilesMatch, TypeOK, NEW r \in Request, NEW s \in Step \ {"stored"}, NEW x, GoesWith(r, s, x),
         parts' = parts \/ parts' = Nothing,
         shifted \/ (pc[r] = "stored" /\ carries[r].file[1] \in Stored) => shifted',
         \A f \in File : storage'[f] \in {NoPart, storage[f]}
  PROVE  FilesMatch'
<1>1. \A i \in Part : i \in Stored => parts[i].file \in File
  BY RowOf
<1>2. \A q \in Request : pc[q] = "stored" => carries[q].file \in File
  BY Carried
<1>3. \A q \in Request : pc'[q] = "stored" => pc[q] = "stored" /\ carries'[q] = carries[q]
  BY OneMoves
<1>4. ASSUME ~shifted', NEW i \in Part, i \in Stored'
      PROVE  storage'[parts'[i].file] \in {NoPart, parts'[i].size} \/ Replaced(i)'
  <2>1. parts' = parts /\ i \in Stored /\ ~shifted
    BY <1>4 DEF Stored, Nothing
  <2>2. CASE storage[parts[i].file] \in {NoPart, parts[i].size}
    BY <1>1, <2>1, <2>2
  <2>3. CASE Replaced(i)
    <3>1. PICK q \in Request : pc[q] = "stored" /\ carries[q].file[1] = i
      BY <2>3 DEF Replaced
    <3>2. q # r
      BY <1>4, <2>1, <3>1
    <3> QED BY <3>1, <3>2, OneMoves DEF Replaced
  <2> QED BY <2>1, <2>2, <2>3 DEF FilesMatch
<1> QED BY <1>2, <1>3, <1>4 DEF FilesMatch

\* Files have the sizes of their rows, or are missing, or are being replaced.
LEMMA MatchKept ==
  TypeOK /\ LockOwned /\ RowsPlaced /\ FilesMatch /\ [Next]_vars => FilesMatch'
<1> SUFFICES ASSUME TypeOK, LockOwned, RowsPlaced, FilesMatch, [Next]_vars PROVE FilesMatch'
  OBVIOUS
<1> USE DEF requestVars, purgeVars, importVars, Goes, Ends
<1>0. storage \in [File -> Content \cup {NoPart}]
  BY DEF TypeOK
<1>1. ASSUME NEW r \in Request, AskToStore(r) \/ NothingToLock(r) \/ Count(r) \/ Import(r) \/ Die(r)
      PROVE  FilesMatch'
  <2>1. \A f \in File : storage'[f] \in {NoPart, storage[f]}
    BY <1>1 DEF AskToStore, NothingToLock, Count, Import, Die
  <2>2. /\ parts' = parts
        /\ shifted \/ (pc[r] = "stored" /\ carries[r].file[1] \in Stored) => shifted'
    <3>1. CASE Die(r)
      BY <3>1, Zenon DEF Die
    <3>2. CASE ~Die(r)
      BY <1>1, <3>2 DEF AskToStore, NothingToLock, Count, Import
    <3> QED BY <3>1, <3>2
  <2>3. PICK s \in Step \ {"stored"} : \E x : GoesWith(r, s, x)
    <3>1. CASE AskToStore(r)
      BY <3>1 DEF AskToStore, Step
    <3>2. CASE ~AskToStore(r)
      BY <1>1, <3>2 DEF NothingToLock, Count, Import, Die, Step
    <3> QED BY <3>1, <3>2
  <2>4. PICK x : GoesWith(r, s, x)
    BY <2>3
  <2> QED BY <2>1, <2>2, <2>4, MatchMoved
<1>2. ASSUME NEW r \in Request,
             LockToStore(r) \/ Claim(r) \/ Assemble(r) \/ Refuse(r) \/ CommitComplete(r)
      PROVE  FilesMatch'
  <2>1. \A f \in File : storage'[f] \in {NoPart, storage[f]}
    BY <1>2 DEF LockToStore, Claim, Assemble, Refuse, CommitComplete
  <2>2. /\ parts' = parts \/ parts' = Nothing
        /\ pc[r] # "stored" /\ shifted' = shifted
    BY <1>2 DEF LockToStore, Claim, Assemble, Refuse, CommitComplete, Cleared
  <2>3. PICK s \in Step \ {"stored"} : \E x : GoesWith(r, s, x)
    BY <1>2 DEF LockToStore, Claim, Assemble, Refuse, CommitComplete, Step
  <2>4. PICK x : GoesWith(r, s, x)
    BY <2>3
  <2> QED BY <2>1, <2>2, <2>4, MatchMoved
<1>3. ASSUME NEW r \in Request, Write(r) PROVE FilesMatch'
  <2> DEFINE j == carries[r][1]  c == carries[r][2]  f == FreeFile(j)
  <2>1. /\ f \in File /\ f[1] = j /\ storage' = [storage EXCEPT ![f] = c]
        /\ \A q \in Request : q # r => pc[q] # "stored" /\ pc'[q] # "stored"
        /\ \/ pc'[r] = "stored" /\ carries'[r] = [file |-> f, size |-> c]
           \/ pc'[r] = "idle" /\ pc[r] = "replacing" /\ j \notin Stored
    BY <1>3, Writing
  <2>2. UNCHANGED <<parts, shifted>> /\ pc[r] # "stored"
    BY <1>3 DEF Write
  <2> HIDE DEF j, c, f
  <2>3. ASSUME ~shifted', NEW i \in Part, i \in Stored'
        PROVE  storage'[parts'[i].file] \in {NoPart, parts'[i].size} \/ Replaced(i)'
    <3>1. i \in Stored /\ parts[i].file \in File /\ parts[i].file[1] = i
      BY <2>2, <2>3, RowOf DEF Stored, RowsPlaced
    <3>2. CASE parts[i].file = f
      BY <2>1, <3>1, <3>2 DEF Replaced
    <3>3. CASE parts[i].file # f
      <4>1. storage[parts[i].file] \in {NoPart, parts[i].size}
        BY <2>1, <2>2, <2>3, <3>1 DEF FilesMatch, Replaced
      <4> QED BY <1>0, <2>1, <2>2, <3>1, <3>3, <4>1
    <3> QED BY <3>2, <3>3
  <2>4. \A q \in Request : pc'[q] = "stored" => storage'[carries'[q].file] = carries'[q].size
    BY <1>0, <2>1
  <2> QED BY <2>3, <2>4 DEF FilesMatch
<1>4. ASSUME NEW r \in Request, CommitPart(r) PROVE FilesMatch'
  <2> DEFINE j == carries[r].file[1]
  <2>1. /\ pc[r] = "stored" /\ j \in Part
        /\ parts' = [parts EXCEPT ![j] = carries[r]]
        /\ storage' = storage /\ (shifted => shifted')
        /\ GoesWith(r, "idle", NoPart)
    BY <1>4, Carried DEF CommitPart
  <2> HIDE DEF j
  <2>2. \A q \in Request : q # r => pc[q] # "stored"
    BY <2>1 DEF LockOwned, Holds
  <2>3. ASSUME ~shifted', NEW i \in Part, i \in Stored'
        PROVE  storage'[parts'[i].file] \in {NoPart, parts'[i].size}
    <3>1. CASE i = j
      BY <2>1, <3>1 DEF FilesMatch, TypeOK
    <3>2. CASE i # j
      <4>1. ~Replaced(i)
        BY <2>1, <2>2, <3>2 DEF Replaced, j
      <4>2. parts'[i] = parts[i] /\ i \in Stored /\ ~shifted
        BY <2>1, <2>3, <3>2 DEF Stored, TypeOK
      <4> QED BY <2>1, <4>1, <4>2 DEF FilesMatch
    <3> QED BY <3>1, <3>2
  <2>4. \A q \in Request : pc'[q] # "stored"
    BY <2>1, <2>2, OneMoves
  <2> QED BY <2>3, <2>4 DEF FilesMatch
<1>5. ASSUME NEW r \in Request, ClearFile(r) PROVE FilesMatch'
  <2>1. \A f \in File : storage'[f] \in {NoPart, storage[f]}
    BY <1>0, <1>5 DEF ClearFile
  <2> QED BY <1>5, <2>1, MatchRemoved DEF ClearFile
<1>6. CASE Purge \/ PurgeDies \/ Age
  <2>1. UNCHANGED <<pc, carries, shifted>>
    BY <1>6 DEF Purge, Select, List, PurgeFile, PurgeRows, PurgeSession, PurgeDies, Age
  <2>2. \A f \in File : storage'[f] \in {NoPart, storage[f]}
    <3>1. CASE PurgeFile
      BY <1>0, <3>1 DEF PurgeFile
    <3>2. CASE ~PurgeFile
      BY <1>6, <3>2 DEF Purge, Select, List, PurgeRows, PurgeSession, PurgeDies, Age
    <3> QED BY <3>1, <3>2
  <2>3. CASE parts' = parts
    BY <2>1, <2>2, <2>3, MatchRemoved
  <2>4. CASE Stored' = {}
    <3>1. \A r \in Request : pc[r] = "stored" => carries[r].file \in File
      BY Carried
    <3> QED BY <2>1, <2>2, <2>4, <3>1 DEF FilesMatch
  <2> QED BY <1>6, <2>3, <2>4 DEF Purge, Select, List, PurgeFile, PurgeRows, PurgeSession,
             PurgeDies, Age, Stored, Nothing
<1>7. CASE UNCHANGED vars
  BY <1>7, MatchRemoved DEF vars
<1> QED BY <1>1, <1>2, <1>3, <1>4, <1>5, <1>6, <1>7 DEF Next, StoreSteps, CompleteSteps

-----------------------------------------------------------------------------
(* What is assembled *)

\* The rows are all there or all gone.
Entire == Complete \/ Stored = {}

\* What one request goes on with is whole, when its rows are kept or all gone.
LEMMA WholeMoved ==
  ASSUME TypeOK, CountedWhole, NEW r \in Request, NEW s, NEW x, GoesWith(r, s, x),
         shifted => shifted',
         parts' = parts \/ Stored' = {},
         imports' = imports /\ imported' = imported,
         ~shifted /\ s \in {"counted", "claimed"} => Entire,
         ~shifted /\ s = "assembled" => x \in {Whole, Nothing},
         ~shifted /\ s = "clearing" => x = Whole
  PROVE  CountedWhole'
<1>1. Entire => Entire'
  BY DEF Entire, Complete, Stored
<1>2. \A q \in Request : q # r => pc'[q] = pc[q] /\ carries'[q] = carries[q]
  BY OneMoves
<1>3. pc'[r] = s /\ carries'[r] = x
  BY OneMoves
<1> QED BY <1>1, <1>2, <1>3 DEF CountedWhole, Entire

\* Steps that leave the requests alone.
LEMMA WholeLeft ==
  ASSUME CountedWhole, UNCHANGED <<pc, carries, shifted, imports, imported>>,
         parts' = parts \/ Stored' = {}
  PROVE  CountedWhole'
<1>1. Entire => Entire'
  BY DEF Entire, Complete, Stored
<1> QED BY <1>1 DEF CountedWhole, Entire

\* The files of whole rows have the bytes that were declared.
LEMMA AssembledWhole ==
  ASSUME TypeOK, LockOwned, FilesMatch, ~shifted, NEW r \in Request, pc[r] = "claimed",
         Complete, \A i \in Part : storage[parts[i].file] # NoPart
  PROVE  [i \in Part |-> IF i \in Stored THEN storage[parts[i].file] ELSE NoPart] = Whole
<1>1. \A q \in Request : pc[q] # "stored"
  BY DEF LockOwned, Holds
<1>2. \A i \in Part : i \in Stored /\ storage[parts[i].file] = "slice"
  BY <1>1 DEF FilesMatch, Replaced, Complete
<1> QED BY <1>2 DEF Whole

\* From the count to the import nothing is lost but everything at once.
LEMMA WholeKept ==
  TypeOK /\ LockOwned /\ FilesMatch /\ CountedWhole /\ [Next]_vars => CountedWhole'
<1> SUFFICES ASSUME TypeOK, LockOwned, FilesMatch, CountedWhole, [Next]_vars
             PROVE  CountedWhole'
  OBVIOUS
<1> USE DEF requestVars, purgeVars, importVars, Goes, Ends
<1>1. ASSUME NEW r \in Request, AskToStore(r) \/ LockToStore(r) \/ NothingToLock(r) \/ Write(r) \/ Refuse(r)
      PROVE  CountedWhole'
  <2>1. UNCHANGED <<parts, imports, imported, shifted>>
    BY <1>1 DEF AskToStore, LockToStore, NothingToLock, Write, Refuse
  <2>2. PICK s, x : GoesWith(r, s, x) /\ s \notin {"counted", "claimed", "assembled", "clearing"}
    <3>1. CASE AskToStore(r)
      BY <3>1 DEF AskToStore
    <3>2. CASE Write(r)
      BY <3>2 DEF Write
    <3>3. CASE LockToStore(r)
      BY <3>3 DEF LockToStore
    <3> QED BY <1>1, <3>1, <3>2, <3>3 DEF NothingToLock, Refuse
  <2> QED BY <2>1, <2>2, WholeMoved
<1>2. ASSUME NEW r \in Request, Die(r) PROVE CountedWhole'
  <2>1. shifted => shifted'
    BY <1>2, Zenon DEF Die
  <2> QED BY <1>2, <2>1, WholeMoved DEF Die
<1>3. ASSUME NEW r \in Request, CommitPart(r) PROVE CountedWhole'
  <2>1. pc[r] = "stored" /\ GoesWith(r, "idle", NoPart) /\ UNCHANGED <<imports, imported>>
    BY <1>3 DEF CommitPart
  <2>2. shifted \/ (\E q \in Request : pc[q] = "counted") => shifted'
    BY <1>3, Zenon DEF CommitPart
  <2>3. \A q \in Request : pc'[q] \notin {"claimed", "assembled", "clearing"}
    BY <2>1, OneMoves DEF LockOwned, Holds
  <2>4. ~shifted' => \A q \in Request : pc'[q] # "counted"
    BY <2>1, <2>2, OneMoves
  <2> QED BY <2>1, <2>2, <2>3, <2>4 DEF CountedWhole
<1>4. ASSUME NEW r \in Request, Count(r) PROVE CountedWhole'
  BY <1>4, WholeMoved DEF Count, Entire
<1>5. ASSUME NEW r \in Request, Claim(r) PROVE CountedWhole'
  <2>1. ~shifted => Entire
    BY <1>5 DEF Claim, CountedWhole, Entire
  <2>2. PICK s, x : GoesWith(r, s, x) /\ s \in {"claimed", "idle"}
    BY <1>5 DEF Claim
  <2> QED BY <1>5, <2>1, <2>2, WholeMoved DEF Claim
<1>6. ASSUME NEW r \in Request, Assemble(r) PROVE CountedWhole'
  <2> DEFINE bytes == [i \in Part |-> IF i \in Stored THEN storage[parts[i].file] ELSE NoPart]
  <2>1. UNCHANGED <<parts, imports, imported, shifted>> /\ pc[r] = "claimed"
    BY <1>6 DEF Assemble
  <2>2. CASE GoesWith(r, "idle", NoPart)
    BY <2>1, <2>2, WholeMoved
  <2>3. CASE GoesWith(r, "assembled", bytes) /\ \A i \in Stored : bytes[i] # NoPart
    <3>1. ASSUME ~shifted PROVE bytes \in {Whole, Nothing}
      <4>1. Complete \/ Stored = {}
        BY <2>1, <3>1 DEF CountedWhole
      <4>2. CASE Stored = {}
        BY <4>2 DEF Nothing
      <4>3. CASE Complete
        <5>1. \A i \in Part : storage[parts[i].file] # NoPart
          BY <2>3, <4>3 DEF Complete
        <5> QED BY <2>1, <3>1, <4>3, <5>1, AssembledWhole
      <4> QED BY <4>1, <4>2, <4>3
    <3> HIDE DEF bytes
    <3> QED BY <2>1, <2>3, <3>1, WholeMoved
  <2> QED BY <1>6, <2>2, <2>3 DEF Assemble
<1>7. ASSUME NEW r \in Request, Import(r) PROVE CountedWhole'
  <2>1. ~shifted => carries[r] = Whole
    BY <1>7 DEF Import, CountedWhole
  <2> QED BY <1>7, <2>1, WholeMoved DEF Import
<1>8. ASSUME NEW r \in Request, ClearFile(r) PROVE CountedWhole'
  BY <1>8, WholeLeft DEF ClearFile
<1>9. ASSUME NEW r \in Request, CommitComplete(r) PROVE CountedWhole'
  <2>1. /\ pc[r] = "clearing" /\ GoesWith(r, "idle", NoPart)
        /\ parts' = Nothing /\ imported' = carries[r] /\ shifted' = shifted
    BY <1>9 DEF CommitComplete, Cleared
  <2>2. Stored' = {}
    BY <2>1 DEF Stored, Nothing
  <2>3. \A q \in Request : pc'[q] \notin {"claimed", "assembled", "clearing"}
    BY <2>1, OneMoves DEF LockOwned, Holds
  <2> QED BY <2>1, <2>2, <2>3 DEF CountedWhole
<1>10. CASE Purge \/ PurgeDies \/ Age
  <2>1. UNCHANGED <<pc, carries, shifted, imports, imported>>
    BY <1>10 DEF Purge, Select, List, PurgeFile, PurgeRows, PurgeSession, PurgeDies, Age
  <2>2. parts' = parts \/ Stored' = {}
    BY <1>10 DEF Purge, Select, List, PurgeFile, PurgeRows, PurgeSession, PurgeDies, Age,
       Stored, Nothing
  <2> QED BY <2>1, <2>2, WholeLeft
<1>11. CASE UNCHANGED vars
  BY <1>11, WholeLeft DEF vars
<1> QED BY <1>1, <1>2, <1>3, <1>4, <1>5, <1>6, <1>7, <1>8, <1>9, <1>10, <1>11
        DEF Next, StoreSteps, CompleteSteps

-----------------------------------------------------------------------------
(* Rows and files *)

\* The purge at work, or something lost: nothing is promised.
LEMMA BackedLater ==
  ASSUME TypeOK, [Next]_vars, crashes # 0 \/ (purge # "idle" /\ ~PurgeSession /\ ~PurgeDies)
  PROVE  crashes' # 0 \/ purge' # "idle"
<1>1. crashes' = crashes \/ crashes' = crashes + 1
  BY DEF Next, Purge, StoreSteps, CompleteSteps, AskToStore, LockToStore, NothingToLock, Write,
         CommitPart, Count, Claim, Assemble, Refuse, Import, ClearFile, CommitComplete, Die,
         Select, List, PurgeFile, PurgeRows, PurgeSession, PurgeDies, Age, vars
<1>2. CASE crashes # 0
  BY <1>1, <1>2 DEF TypeOK
<1>3. CASE purge # "idle" /\ ~PurgeSession /\ ~PurgeDies
  BY <1>3 DEF Next, Purge, StoreSteps, CompleteSteps, AskToStore, LockToStore, NothingToLock, Write,
         CommitPart, Count, Claim, Assemble, Refuse, Import, ClearFile, CommitComplete, Die,
         Select, List, PurgeFile, PurgeRows, Age, vars, purgeVars
<1> QED BY <1>2, <1>3

\* A step that moves one request, which was not at work on a file and is not
\* going to be one that has stored a part, and leaves rows and files alone.
LEMMA BackedMoved ==
  ASSUME TypeOK, FilesBacked, crashes = 0, purge = "idle",
         NEW r \in Request, NEW s, NEW x, GoesWith(r, s, x), s # "stored",
         \A i \in Part : i \in Stored => ~Working(r, i),
         UNCHANGED <<parts, storage>>
  PROVE  FilesBacked'
<1>1. \A q \in Request : q # r => pc'[q] = pc[q] /\ carries'[q] = carries[q]
  BY OneMoves
<1>2. pc'[r] = s
  BY OneMoves
<1>3. ASSUME NEW i \in Part, i \in Stored'
      PROVE  storage'[parts'[i].file] = parts'[i].size \/ \E q \in Request : Working(q, i)'
  <2>1. i \in Stored
    BY <1>3 DEF Stored
  <2>2. ASSUME NEW q \in Request, Working(q, i) PROVE Working(q, i)'
    BY <1>1, <2>1, <2>2 DEF Working
  <2> QED BY <2>1, <2>2 DEF FilesBacked
<1> QED BY <1>1, <1>2, <1>3 DEF FilesBacked

\* A file is missing only while the request that deleted it has the lock.
LEMMA BackedKept ==
  TypeOK /\ LockOwned /\ RowsPlaced /\ FilesBacked /\ [Next]_vars => FilesBacked'
<1> SUFFICES ASSUME TypeOK, LockOwned, RowsPlaced, FilesBacked, [Next]_vars
             PROVE  FilesBacked'
  OBVIOUS
<1> USE DEF requestVars, purgeVars, importVars, Goes, Ends
<1>0. storage \in [File -> Content \cup {NoPart}]
  BY DEF TypeOK
<1>1. CASE crashes # 0 \/ (purge # "idle" /\ ~PurgeSession /\ ~PurgeDies)
  BY <1>1, BackedLater DEF FilesBacked
<1>2. CASE PurgeDies
  <2>1. crashes' # 0
    BY <1>2 DEF PurgeDies, TypeOK
  <2> QED BY <2>1 DEF FilesBacked
<1>3. CASE PurgeSession
  <2>1. Stored' = {} /\ \A r \in Request : pc'[r] # "stored"
    BY <1>3 DEF PurgeSession, Stored, Nothing, Unlocked, Holds
  <2> QED BY <2>1 DEF FilesBacked
<1>4. CASE crashes = 0 /\ purge = "idle"
  <2> USE <1>4
  <2>1. ASSUME NEW r \in Request,
               \/ AskToStore(r) \/ NothingToLock(r) \/ Count(r) \/ Claim(r)
               \/ Assemble(r) \/ Refuse(r) \/ Import(r)
        PROVE  FilesBacked'
    <3>1. UNCHANGED <<parts, storage>> /\ pc[r] \notin {"replacing", "stored", "clearing"}
      BY <2>1 DEF AskToStore, NothingToLock, Count, Claim, Assemble, Refuse, Import
    <3>2. PICK s, x : GoesWith(r, s, x) /\ s # "stored"
      <4>1. CASE AskToStore(r)
        BY <4>1 DEF AskToStore
      <4>2. CASE Claim(r) \/ Assemble(r)
        BY <4>2 DEF Claim, Assemble
      <4> QED BY <2>1, <4>1, <4>2 DEF NothingToLock, Count, Refuse, Import
    <3>3. \A i \in Part : ~Working(r, i)
      BY <3>1 DEF Working
    <3> QED BY <3>1, <3>2, <3>3, BackedMoved
  <2>2. ASSUME NEW r \in Request, Die(r) PROVE FilesBacked'
    <3>1. crashes' # 0
      BY <2>2 DEF Die
    <3> QED BY <3>1 DEF FilesBacked
  <2>3. ASSUME NEW r \in Request, LockToStore(r) PROVE FilesBacked'
    <3> DEFINE j == carries[r][1]
    <3>1. /\ j \in Part /\ parts' = parts /\ \A q \in Request : ~Holds(q)
          /\ GoesWith(r, IF j \in Stored THEN "replacing" ELSE "creating", carries[r])
          /\ storage' = [f \in File |->
                           IF j \in Stored /\ f = parts[j].file THEN NoPart ELSE storage[f]]
      BY <2>3, Carried DEF LockToStore, Unlocked
    <3>2. /\ pc'[r] = IF j \in Stored THEN "replacing" ELSE "creating"
          /\ carries'[r] = carries[r]
          /\ \A q \in Request : q # r => pc'[q] = pc[q]
      BY <3>1, OneMoves
    <3>3. ASSUME NEW i \in Part, i \in Stored'
          PROVE  storage'[parts'[i].file] = parts'[i].size \/ Working(r, i)'
      <4>1. i \in Stored /\ parts[i].file \in File /\ parts[i].file[1] = i
        BY <3>1, <3>3, RowOf DEF Stored, RowsPlaced
      <4>2. CASE i = j
        BY <3>2, <4>1, <4>2 DEF Working
      <4>3. CASE i # j
        <5>1. storage[parts[i].file] = parts[i].size
          BY <3>1, <4>1 DEF FilesBacked, Working, Holds
        <5>2. j \in Stored => parts[j].file # parts[i].file
          BY <3>1, <4>1, <4>3 DEF RowsPlaced
        <5> QED BY <3>1, <4>1, <5>1, <5>2
      <4> QED BY <4>2, <4>3
    <3>4. \A q \in Request : pc'[q] # "stored"
      BY <3>1, <3>2 DEF Holds
    <3> QED BY <3>3, <3>4 DEF FilesBacked
  <2>4. ASSUME NEW r \in Request, Write(r) PROVE FilesBacked'
    <3> DEFINE j == carries[r][1]  c == carries[r][2]  f == FreeFile(j)
    <3>1. /\ f \in File /\ f[1] = j /\ storage' = [storage EXCEPT ![f] = c]
          /\ \A q \in Request : q # r => pc[q] # "stored" /\ pc'[q] # "stored"
          /\ \/ pc'[r] = "stored" /\ carries'[r] = [file |-> f, size |-> c]
             \/ pc'[r] = "idle" /\ pc[r] = "replacing" /\ j \notin Stored
      BY <2>4, Writing
    <3>2. parts' = parts /\ pc[r] \in {"replacing", "creating"}
      BY <2>4 DEF Write
    <3> HIDE DEF c, f
    <3>3. ASSUME NEW i \in Part, i \in Stored'
          PROVE  storage'[parts'[i].file] = parts'[i].size \/ Working(r, i)'
      <4>1. i \in Stored /\ parts[i].file \in File /\ parts[i].file[1] = i
        BY <3>2, <3>3, RowOf DEF Stored, RowsPlaced
      <4>2. CASE i = j
        BY <3>1, <4>1, <4>2 DEF Working
      <4>3. CASE i # j
        <5>1. \A q \in Request : ~Working(q, i)
          <6>1. \A q \in Request : q # r => ~Holds(q)
            BY <3>2 DEF LockOwned, Holds
          <6> QED BY <3>2, <4>3, <6>1 DEF Working, Holds
        <5>2. storage[parts[i].file] = parts[i].size
          BY <4>1, <5>1 DEF FilesBacked
        <5> QED BY <1>0, <3>1, <3>2, <4>1, <4>3, <5>2
      <4> QED BY <4>2, <4>3
    <3>4. \A q \in Request : pc'[q] = "stored" => storage'[carries'[q].file] = carries'[q].size
      BY <1>0, <3>1
    <3> QED BY <3>3, <3>4 DEF FilesBacked
  <2>5. ASSUME NEW r \in Request, CommitPart(r) PROVE FilesBacked'
    <3> DEFINE j == carries[r].file[1]
    <3>1. /\ pc[r] = "stored" /\ j \in Part
          /\ parts' = [parts EXCEPT ![j] = carries[r]]
          /\ storage' = storage /\ GoesWith(r, "idle", NoPart)
      BY <2>5, Carried DEF CommitPart
    <3>2. \A q \in Request : q # r => ~Holds(q)
      BY <3>1 DEF LockOwned, Holds
    <3>3. ASSUME NEW i \in Part, i \in Stored' PROVE storage'[parts'[i].file] = parts'[i].size
      <4>1. CASE i = j
        <5>1. parts'[i] = carries[r]
          BY <3>1, <4>1 DEF TypeOK
        <5> QED BY <3>1, <5>1 DEF FilesBacked
      <4>2. CASE i # j
        <5>1. \A q \in Request : ~Working(q, i)
          BY <3>1, <3>2, <4>2 DEF Working, Holds
        <5>2. parts'[i] = parts[i] /\ i \in Stored
          BY <3>1, <3>3, <4>2 DEF Stored, TypeOK
        <5> QED BY <3>1, <5>1, <5>2 DEF FilesBacked
      <4> QED BY <4>1, <4>2
    <3>4. \A q \in Request : pc'[q] # "stored"
      BY <3>1, <3>2, OneMoves DEF Holds
    <3> QED BY <3>3, <3>4 DEF FilesBacked
  <2>6. ASSUME NEW r \in Request, ClearFile(r) PROVE FilesBacked'
    <3>1. pc[r] = "clearing" /\ UNCHANGED <<pc, carries, parts>>
      BY <2>6 DEF ClearFile
    <3>2. \A q \in Request : pc'[q] # "stored"
      BY <3>1 DEF LockOwned, Holds
    <3>3. \A i \in Part : Working(r, i)'
      BY <3>1 DEF Working
    <3> QED BY <3>2, <3>3 DEF FilesBacked
  <2>7. ASSUME NEW r \in Request, CommitComplete(r) PROVE FilesBacked'
    <3>1. pc[r] = "clearing" /\ GoesWith(r, "idle", NoPart) /\ parts' = Nothing
      BY <2>7 DEF CommitComplete, Cleared
    <3>2. Stored' = {}
      BY <3>1 DEF Stored, Nothing
    <3>3. \A q \in Request : pc'[q] # "stored"
      BY <3>1, OneMoves DEF LockOwned, Holds
    <3> QED BY <3>2, <3>3 DEF FilesBacked
  <2>8. CASE Purge \/ PurgeDies
    BY <1>2, <1>3, <2>8 DEF Purge, Select, List, PurgeFile, PurgeRows, FilesBacked
  <2>9. CASE Age \/ UNCHANGED vars
    BY <2>9 DEF Age, vars, FilesBacked, Working, Stored
  <2> QED BY <2>1, <2>2, <2>3, <2>4, <2>5, <2>6, <2>7, <2>8, <2>9 DEF Next, StoreSteps, CompleteSteps
<1> QED BY <1>1, <1>2, <1>3, <1>4

-----------------------------------------------------------------------------
(* Theorems *)

LEMMA SessionInit == Init => SessionInv
<1> SUFFICES ASSUME Init PROVE SessionInv
  OBVIOUS
<1> USE DEF Init, Nothing
<1>1. Stored = {} /\ \A r \in Request : pc[r] = "idle"
  BY DEF Stored
<1>2. TypeOK
  <2>1. \A r \in Request : Carries(r)
    BY DEF Carries
  <2>2. /\ session \in [status : {"PENDING", "COMPLETED", "FAILED", "gone"}, stale : BOOLEAN]
        /\ parts \in [Part -> PartRow \cup {NoPart}]
        /\ storage \in [File -> Content \cup {NoPart}]
    OBVIOUS
  <2>3. /\ pc \in [Request -> Step] /\ carries = [r \in Request |-> carries[r]]
        /\ imported \in Bytes
    BY DEF Step, Bytes
  <2>4. imports \in Nat /\ doomed \subseteq File /\ crashes \in 0..MaxCrashes
    OBVIOUS
  <2>5. shifted \in BOOLEAN /\ purge \in {"idle", "selected", "files", "rows"}
    OBVIOUS
  <2> HIDE DEF Init
  <2> QED BY <2>1, <2>2, <2>3, <2>4, <2>5 DEF TypeOK
<1>3. LockOwned /\ RowsPlaced
  BY <1>1 DEF LockOwned, RowsPlaced, Holds
<1>4. FilesMatch /\ CountedWhole /\ FilesBacked
  BY <1>1 DEF FilesMatch, CountedWhole, FilesBacked
<1> QED BY <1>2, <1>3, <1>4 DEF SessionInv

LEMMA SessionInvariant == Spec => []SessionInv
<1>1. SessionInv /\ [Next]_vars => SessionInv'
  BY TypesKept, LockKept, PlacedKept, MatchKept, WholeKept, BackedKept DEF SessionInv
<1> QED BY SessionInit, <1>1, PTL DEF Spec

\* The variables have their types at every step, and a request carries what
\* its step needs.
THEOREM SessionTypes == Spec => []TypeOK
<1>1. SessionInv => TypeOK
  BY DEF SessionInv
<1> QED BY <1>1, SessionInvariant, PTL

\* complete_chunked_upload imports a session at most once, however many clients
\* complete it and whatever is rolled back.
THEOREM OneImport == Spec => []ImportedOnce
<1>1. SessionInv => ImportedOnce
  BY DEF SessionInv, TypeOK, LockOwned, ImportedOnce
<1> QED BY <1>1, SessionInvariant, PTL

\* What complete_chunked_upload imports are the bytes start_chunked_upload was
\* told of, unless a part was stored between its count and its claim or a
\* replacement was rolled back.
THEOREM ImportsTheWhole == Spec => []ImportedWhole
<1>1. SessionInv => ImportedWhole
  BY DEF SessionInv, CountedWhole, ImportedWhole, Whole
<1> QED BY <1>1, SessionInvariant, PTL

\* Between requests the storage has the file of every committed part, with the
\* size of its row, as long as nothing is lost and no purge runs.
THEOREM RowsAndFiles == Spec => []PartsBacked
<1>1. ASSUME SessionInv PROVE PartsBacked
  <2>1. Unlocked => \A r \in Request, i \in Part : ~Working(r, i)
    BY DEF Unlocked, Working, Holds
  <2>2. \A i \in Stored : i \in Part
    BY DEF Stored
  <2> QED BY <1>1, <2>1, <2>2 DEF SessionInv, FilesBacked, PartsBacked
<1> QED BY <1>1, SessionInvariant, PTL
=============================================================================
