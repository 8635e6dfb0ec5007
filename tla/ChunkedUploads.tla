--------------------------- MODULE ChunkedUploads ---------------------------
(***************************************************************************)
(* One chunked upload (opencontractserver/document_imports/services.py):   *)
(* requests that store parts or complete the session, and the hourly purge *)
(* of stale sessions.  A request is one database transaction; the files of *)
(* its parts are in a storage that does not roll back.  ASSEMBLING is      *)
(* written and replaced within one transaction and seen by nobody, so it   *)
(* is a step of a request here.  The purge runs in no transaction.         *)
(***************************************************************************)
EXTENDS Naturals, FiniteSets

CONSTANTS
  Part,       \* indexes of the parts the session declares
  Name,       \* names the storage may give to the file of a part
  Request,    \* requests at once
  NoPart,     \* no row, or no file
  MaxCrashes  \* bound on requests and purges that die

ASSUME CrashesAssumption == MaxCrashes \in Nat

\* A slice has the bytes the session declares for its part; a client may also
\* send fewer.
Content == {"slice", "short"}
File == Part \X Name
PartRow == [file : File, size : Content]

ASSUME NoPartAssumption == NoPart \notin PartRow \cup Content

VARIABLES
  session,   \* status and age of the ChunkedUploadSession, as committed
  parts,     \* the ChunkedUploadPart of each index, as committed
  storage,   \* content of each file, or NoPart
  pc,        \* how far each request has come
  carries,   \* what a request works on: the part it was sent (its index and
             \* content), the row it will commit or the parts it has assembled
  purge,     \* how far the purge has come
  doomed,    \* files it has listed
  imports, imported, \* how often the session was imported, and what
  crashes,
  shifted    \* a part was stored between another request's count and claim, or
             \* a request died that had replaced the file of one

requestVars == <<pc, carries>>
purgeVars == <<purge, doomed>>
importVars == <<imports, imported>>
vars == <<session, parts, storage, requestVars, purgeVars, importVars, crashes, shifted>>

Sent == Part \X Content
Bytes == [Part -> Content \cup {NoPart}]

Step ==
  {"idle", "asked", "replacing", "creating", "stored", "counted", "claimed", "assembled", "clearing"}

\* What a request carries at each of its steps.
Carries(r) ==
  /\ pc[r] \in {"idle", "counted", "claimed"} => carries[r] = NoPart
  /\ pc[r] \in {"asked", "replacing", "creating"} => carries[r] \in Sent
  /\ pc[r] = "stored" => carries[r] \in PartRow
  /\ pc[r] \in {"assembled", "clearing"} => carries[r] \in Bytes

TypeOK ==
  /\ session \in [status : {"PENDING", "COMPLETED", "FAILED", "gone"}, stale : BOOLEAN]
  /\ parts \in [Part -> PartRow \cup {NoPart}]
  /\ storage \in [File -> Content \cup {NoPart}]
  /\ pc \in [Request -> Step]
  /\ carries = [r \in Request |-> carries[r]] /\ \A r \in Request : Carries(r)
  /\ purge \in {"idle", "selected", "files", "rows"}
  /\ doomed \subseteq File
  /\ imports \in Nat /\ imported \in Bytes
  /\ crashes \in 0..MaxCrashes /\ shifted \in BOOLEAN

Nothing == [i \in Part |-> NoPart]

\* start_chunked_upload has committed the session.
Init ==
  /\ session = [status |-> "PENDING", stale |-> FALSE]
  /\ parts = Nothing
  /\ storage = [f \in File |-> NoPart]
  /\ pc = [r \in Request |-> "idle"]
  /\ carries = [r \in Request |-> NoPart]
  /\ purge = "idle" /\ doomed = {}
  /\ imports = 0 /\ imported = Nothing
  /\ crashes = 0 /\ shifted = FALSE

GoesWith(r, step, with) ==
  /\ pc' = [pc EXCEPT ![r] = step]
  /\ carries' = [carries EXCEPT ![r] = with]

Goes(r, step) == GoesWith(r, step, carries[r])
Ends(r) == GoesWith(r, "idle", NoPart)

\* The lock of the session's row, held until the request commits.
Holds(r) == pc[r] \in {"replacing", "creating", "stored", "claimed", "assembled", "clearing"}

\* Mutant of Unlocked: store_chunk and the claim do not wait for the row.
UnlockedAlways == TRUE

Unlocked == \A r \in Request : ~Holds(r)

Stored == {i \in Part : parts[i] # NoPart}
FilesOf(is) == {parts[i].file : i \in is}

-----------------------------------------------------------------------------
(* store_chunk *)

\* The status is looked at before the lock is waited for, and not again.
AskToStore(r) ==
  /\ pc[r] = "idle" /\ session.status = "PENDING"
  /\ \E sent \in Sent : GoesWith(r, "asked", sent)
  /\ UNCHANGED <<session, parts, storage, purgeVars, importVars, crashes, shifted>>

\* An existing part loses its file at once.
LockToStore(r) ==
  LET i == carries[r][1] IN
  /\ pc[r] = "asked" /\ Unlocked /\ session.status # "gone"
  /\ Goes(r, IF i \in Stored THEN "replacing" ELSE "creating")
  /\ storage' = [f \in File |-> IF i \in Stored /\ f = parts[i].file THEN NoPart ELSE storage[f]]
  /\ UNCHANGED <<session, parts, purgeVars, importVars, crashes, shifted>>

\* The session was purged meanwhile.
NothingToLock(r) ==
  /\ pc[r] = "asked" /\ session.status = "gone"
  /\ Ends(r)
  /\ UNCHANGED <<session, parts, storage, purgeVars, importVars, crashes, shifted>>

\* The name the storage gives to a new file; no other file has it.
Taken(i) == {n \in Name : storage[<<i, n>>] # NoPart}
FreeFile(i) == <<i, CHOOSE n \in Name : n \notin Taken(i)>>

\* An update that finds no row (the purge has deleted it) raises and leaves the
\* file behind.
Write(r) ==
  LET i == carries[r][1]  c == carries[r][2]  f == FreeFile(i) IN
  /\ pc[r] \in {"replacing", "creating"}
  /\ Taken(i) # Name
  /\ storage' = [storage EXCEPT ![f] = c]
  /\ IF pc[r] = "replacing" /\ i \notin Stored
     THEN Ends(r)
     ELSE GoesWith(r, "stored", [file |-> f, size |-> c])
  /\ UNCHANGED <<session, parts, purgeVars, importVars, crashes, shifted>>

CommitPart(r) ==
  /\ pc[r] = "stored"
  /\ parts' = [parts EXCEPT ![carries[r].file[1]] = carries[r]]
  /\ session' = [session EXCEPT !.stale = FALSE]
  /\ shifted' = (shifted \/ \E q \in Request : pc[q] = "counted")
  /\ Ends(r)
  /\ UNCHANGED <<storage, purgeVars, importVars, crashes>>

-----------------------------------------------------------------------------
(* complete_chunked_upload *)

Complete == Stored = Part /\ \A i \in Part : parts[i].size = "slice"

Count(r) ==
  /\ pc[r] = "idle" /\ session.status = "PENDING" /\ Complete
  /\ Goes(r, "counted")
  /\ UNCHANGED <<session, parts, storage, purgeVars, importVars, crashes, shifted>>

Claimable == session.status = "PENDING"

\* A conditional update: it waits for the row, then looks at it again.
Claim(r) ==
  /\ pc[r] = "counted" /\ Unlocked
  /\ IF Claimable THEN Goes(r, "claimed") ELSE Ends(r)
  /\ UNCHANGED <<session, parts, storage, purgeVars, importVars, crashes, shifted>>

\* The rows are read again.  A file that is missing raises outside of the try:
\* the claim is rolled back with the request.
Assemble(r) ==
  LET bytes == [i \in Part |-> IF i \in Stored THEN storage[parts[i].file] ELSE NoPart]
  IN
  /\ pc[r] = "claimed"
  /\ IF \A i \in Stored : bytes[i] # NoPart
     THEN GoesWith(r, "assembled", bytes)
     ELSE Ends(r)
  /\ UNCHANGED <<session, parts, storage, purgeVars, importVars, crashes, shifted>>

\* The token does not fit, or the import refuses the content or raises.
Refuse(r) ==
  /\ pc[r] \in {"claimed", "assembled"}
  /\ session' = [status |-> "FAILED", stale |-> FALSE]
  /\ Ends(r)
  /\ UNCHANGED <<parts, storage, purgeVars, importVars, crashes, shifted>>

\* Nothing is imported from an empty file.  What the import creates is
\* committed with the request.
Import(r) ==
  /\ pc[r] = "assembled" /\ carries[r] # Nothing
  /\ Goes(r, "clearing")
  /\ UNCHANGED <<session, parts, storage, purgeVars, importVars, crashes, shifted>>

\* _delete_session_parts, one file at a time.
ClearFile(r) ==
  /\ pc[r] = "clearing"
  /\ \E f \in FilesOf(Stored) :
       /\ storage[f] # NoPart
       /\ storage' = [storage EXCEPT ![f] = NoPart]
  /\ UNCHANGED <<session, parts, requestVars, purgeVars, importVars, crashes, shifted>>

\* Mutant of Cleared: the rows of the parts are left for the purge.
ClearedFilesOnly == parts

Cleared == Nothing

\* Files whose deletion has failed are left; the rows go with the commit.
CommitComplete(r) ==
  /\ pc[r] = "clearing"
  /\ session' = [status |-> "COMPLETED", stale |-> FALSE]
  /\ parts' = Cleared
  /\ imports' = imports + 1 /\ imported' = carries[r]
  /\ Ends(r)
  /\ UNCHANGED <<storage, purgeVars, crashes, shifted>>

\* A request dies, or raises: its transaction is rolled back.
Die(r) ==
  /\ crashes < MaxCrashes /\ pc[r] # "idle"
  /\ crashes' = crashes + 1
  /\ shifted' = (shifted \/ (pc[r] = "stored" /\ carries[r].file[1] \in Stored))
  /\ Ends(r)
  /\ UNCHANGED <<session, parts, storage, purgeVars, importVars>>

-----------------------------------------------------------------------------
(* purge_stale_chunked_uploads *)

\* PENDING and FAILED sessions after a day, COMPLETED ones after a month.
Select ==
  /\ purge = "idle" /\ session.stale /\ session.status # "gone"
  /\ purge' = "selected"
  /\ UNCHANGED <<session, parts, storage, requestVars, doomed, importVars, crashes, shifted>>

List ==
  /\ purge = "selected"
  /\ purge' = "files" /\ doomed' = FilesOf(Stored)
  /\ UNCHANGED <<session, parts, storage, requestVars, importVars, crashes, shifted>>

\* The file is deleted, or the error is logged.
PurgeFile ==
  /\ purge = "files"
  /\ \E f \in doomed :
       /\ doomed' = doomed \ {f}
       /\ storage' \in {storage, [storage EXCEPT ![f] = NoPart]}
  /\ UNCHANGED <<session, parts, requestVars, purge, importVars, crashes, shifted>>

\* A row that a request has updated is waited for; one it has inserted is not
\* seen.
PurgeRows ==
  /\ purge = "files" /\ doomed = {}
  /\ \A r \in Request : ~(pc[r] = "stored" /\ carries[r].file[1] \in Stored)
  /\ purge' = "rows"
  /\ parts' = Nothing
  /\ UNCHANGED <<session, storage, requestVars, doomed, importVars, crashes, shifted>>

\* The session's row is waited for; the rows of new parts go with it.
PurgeSession ==
  /\ purge = "rows" /\ Unlocked
  /\ purge' = "idle"
  /\ session' = [status |-> "gone", stale |-> FALSE]
  /\ parts' = Nothing
  /\ UNCHANGED <<storage, requestVars, doomed, importVars, crashes, shifted>>

PurgeDies ==
  /\ crashes < MaxCrashes /\ purge # "idle"
  /\ crashes' = crashes + 1
  /\ purge' = "idle" /\ doomed' = {}
  /\ UNCHANGED <<session, parts, storage, requestVars, importVars, shifted>>

\* Nobody has touched the session for as long as it takes.
Age ==
  /\ session.status # "gone" /\ ~session.stale
  /\ session' = [session EXCEPT !.stale = TRUE]
  /\ UNCHANGED <<parts, storage, requestVars, purgeVars, importVars, crashes, shifted>>

-----------------------------------------------------------------------------

StoreSteps(r) == LockToStore(r) \/ NothingToLock(r) \/ Write(r) \/ CommitPart(r)

CompleteSteps(r) ==
  Claim(r) \/ Assemble(r) \/ Refuse(r) \/ Import(r) \/ ClearFile(r) \/ CommitComplete(r)

Purge == Select \/ List \/ PurgeFile \/ PurgeRows \/ PurgeSession

Next ==
  \/ \E r \in Request : AskToStore(r) \/ StoreSteps(r) \/ Count(r) \/ CompleteSteps(r) \/ Die(r)
  \/ Purge \/ PurgeDies
  \/ Age

Spec == Init /\ [][Next]_vars

-----------------------------------------------------------------------------
(* Properties *)

\* However many clients complete a session, and whatever is rolled back, the
\* upload is imported once: the claim of PENDING is kept until the commit.
ImportedOnce == imports <= 1

\* What was imported are all the bytes that were declared, in spite of parts
\* that are stored, replaced and purged meanwhile; the exceptions are a part
\* stored between the count and the claim and a rolled-back replacement.
ImportedWhole ==
  imports > 0 /\ ~shifted => imported = [i \in Part |-> "slice"]

\* The storage has what the rows say: between requests, with nothing lost and
\* no purge at work, the file of every part is there and has the row's size.
PartsBacked ==
  Unlocked /\ purge = "idle" /\ crashes = 0 =>
    \A i \in Stored : storage[parts[i].file] = parts[i].size

\* ASSEMBLING sessions are spared "so the GC never races a live complete
\* reassembly": what a request has claimed stays until it is assembled.
\* (The run chunked_purge violates it.)
ClaimedPartsKept ==
  \A r \in Request : pc[r] = "claimed" =>
    Stored = Part /\ \A f \in FilesOf(Part) : storage[f] # NoPart
=============================================================================
