---------------------------- MODULE CorpusPaths ----------------------------
(* The documents of one corpus (documents/versioning.py,                   *)
(* corpuses/services/lifecycle.py): the content tree, one Document for each *)
(* version of a file, and the path tree, one DocumentPath row for each      *)
(* event of its life.  A request is one transaction (ATOMIC_REQUESTS): what *)
(* it reads without a lock may be out of date when it writes.  A full       *)
(* Model.save() of a row that is gone inserts it again; the foreign keys    *)
(* are checked when the transaction commits.                                *)
EXTENDS Naturals, Sequences, FiniteSets, SequencesExt

CONSTANTS
    Paths,      \* the paths of the corpus
    Requests,   \* the requests that may be under way together
    MaxRows,    \* bound: rows of the path tree ever created
    MaxDocs     \* bound: documents ever created

ASSUME BoundsAssumption == MaxRows \in Nat /\ MaxDocs \in Nat
ASSUME PathsAssumption == Paths \cap {"nowhere", "gone", "trash"} = {}

VARIABLES
    rows,       \* the path tree, in the order the rows were created
    docs,       \* the content tree, in the order the documents were created
    erased,     \* the rows that were deleted from the table
    lost,       \* the documents that were deleted from the table
    req,        \* what each request has read
    raced       \* ghost: a request wrote over a row it did not know to be superseded

vars == <<rows, docs, erased, lost, req, raced>>

Idle == [op |-> "idle"]

LiveRows == DOMAIN rows \ erased

LiveDocs == DOMAIN docs \ lost

CurrentRows(t) == {r \in LiveRows : rows[r].current /\ docs[rows[r].doc].tree = t}

Active(r) == r \in LiveRows /\ rows[r].current /\ ~rows[r].deleted

Trashed(r) == r \in LiveRows /\ rows[r].current /\ rows[r].deleted

\* Mutant: the index on the active path is missing.
FreeAnyway(p) == p \in Paths

\* The partial unique index unique_active_path_per_corpus.
Free(p) == \A r \in LiveRows : Active(r) => rows[r].path # p

\* Every event is a row of its own, the child of the row it supersedes.
Successor(r, d, p, bump, deleted) ==
    [doc |-> d, path |-> p, version |-> rows[r].version + bump, parent |-> r,
     current |-> TRUE, deleted |-> deleted]

Superseded(r) == [rows EXCEPT ![r].current = FALSE]

\* The version and its row that a content change adds to a tree.
NewVersion(tree, parent) == [tree |-> tree, parent |-> parent, current |-> TRUE]

ForeignKeys ==
    /\ \A r \in LiveRows : rows[r].doc \in LiveDocs /\ rows[r].parent \in LiveRows \cup {0}
    /\ \A d \in LiveDocs : docs[d].parent \in LiveDocs \cup {0}

\* The children of a node go with it.
Closed(nodes, C) == \A n \in DOMAIN nodes : nodes[n].parent \in C => n \in C

\* The nodes of a tree that ON DELETE CASCADE takes along with the set S.
Cascade(nodes, S) ==
    {n \in DOMAIN nodes : \A C \in SUBSET DOMAIN nodes : S \subseteq C /\ Closed(nodes, C) => n \in C}

Reads(q, what) ==
    /\ req[q] = Idle
    /\ req' = [req EXCEPT ![q] = what]
    /\ UNCHANGED <<rows, docs, erased, lost, raced>>

Ends(q) == req' = [req EXCEPT ![q] = Idle]

Race(stale) == raced' = (raced \/ stale)

Init ==
    /\ rows = <<>>
    /\ docs = <<>>
    /\ erased = {}
    /\ lost = {}
    /\ req = [q \in Requests |-> Idle]
    /\ raced = FALSE

-----------------------------------------------------------------------------
(* Writing under a lock.  SELECT ... FOR UPDATE waits for the row and looks *)
(* at it again: when the row was superseded, nothing is found.              *)

NewTree(p) ==
    /\ Len(rows) < MaxRows
    /\ Len(docs) < MaxDocs
    /\ Free(p)
    /\ LET d == Len(docs) + 1 IN
        /\ docs' = Append(docs, NewVersion(d, 0))
        /\ rows' = Append(rows, [doc |-> d, path |-> p, version |-> 1, parent |-> 0,
                                 current |-> TRUE, deleted |-> FALSE])
    /\ UNCHANGED <<erased, lost, raced>>

\* Corpus.add_document: a copy of a document, at a path that was free.
AddDocument(p) == NewTree(p) /\ UNCHANGED req

\* The statement's snapshot: the active row at the path, if there is one.
ImportLooks(q, p) ==
    Reads(q, [op |-> "import", path |-> p, found |-> {r \in LiveRows : Active(r) /\ rows[r].path = p}])

\* Mutant: the row is read without FOR UPDATE.
Unlocked(q) == req[q].found

Locked(q) == {r \in req[q].found : Active(r)}

ImportCreates(q) ==
    /\ req[q].op = "import"
    /\ Locked(q) = {}
    /\ NewTree(req[q].path)
    /\ Ends(q)

ImportUpdates(q) ==
    /\ req[q].op = "import"
    /\ Len(rows) < MaxRows
    /\ Len(docs) < MaxDocs
    /\ \E r \in Locked(q) :
        LET old == rows[r].doc
            tree == docs[old].tree
            aside == [d \in DOMAIN docs |->
                        IF docs[d].tree = tree THEN [docs[d] EXCEPT !.current = FALSE] ELSE docs[d]]
        IN  /\ docs' = Append(aside, NewVersion(tree, old))
            /\ rows' = Append(Superseded(r), Successor(r, Len(docs) + 1, rows[r].path, 1, FALSE))
    /\ Ends(q)
    /\ UNCHANGED <<erased, lost, raced>>

\* The same bytes with other metadata: an event of the same version.
ImportRecords(q) ==
    /\ req[q].op = "import"
    /\ Len(rows) < MaxRows
    /\ \E r \in Locked(q) :
        rows' = Append(Superseded(r), Successor(r, rows[r].doc, rows[r].path, 0, FALSE))
    /\ Ends(q)
    /\ UNCHANGED <<docs, erased, lost, raced>>

Move(r, p) ==
    /\ Active(r)
    /\ Free(p)
    /\ Len(rows) < MaxRows
    /\ rows' = Append(Superseded(r), Successor(r, rows[r].doc, p, 0, FALSE))
    /\ UNCHANGED <<docs, erased, lost, req, raced>>

\* bulk_soft_delete_documents: every active row of the documents, locked in order.
BulkTrash(D) ==
    LET heads == {r \in LiveRows : Active(r) /\ rows[r].doc \in D}
        order == SetToSeq(heads)
    IN  /\ heads # {}
        /\ Len(rows) + Cardinality(heads) <= MaxRows
        /\ rows' = [r \in DOMAIN rows |->
                        IF r \in heads THEN [rows[r] EXCEPT !.current = FALSE] ELSE rows[r]]
                   \o [i \in DOMAIN order |->
                        Successor(order[i], rows[order[i]].doc, rows[order[i]].path, 0, TRUE)]
        /\ UNCHANGED <<docs, erased, lost, req, raced>>

-----------------------------------------------------------------------------
(* Writing without a lock: a read, and later the writes and the commit.    *)

\* lifecycle.soft_delete_document and Corpus.remove_document.
SoftDeleteLooks(q, r) == Active(r) /\ Reads(q, [op |-> "trash", row |-> r])

\* A full save: the row is inserted again if it was erased.
Saved(r) ==
    /\ erased' = erased \ {r}
    /\ lost' = lost
    /\ ForeignKeys'

SoftDelete(q) ==
    /\ req[q].op = "trash"
    /\ Len(rows) < MaxRows
    /\ LET r == req[q].row IN
        /\ rows' = Append(Superseded(r), Successor(r, rows[r].doc, rows[r].path, 0, TRUE))
        /\ Race(~rows[r].current)
        /\ docs' = docs
        /\ Saved(r)
    /\ Ends(q)

RestoreLooks(q, r) == Trashed(r) /\ Reads(q, [op |-> "restore", row |-> r])

\* Mutant: a restored document counts as a new version.
RestoreAsVersion(q, p) ==
    /\ req[q].op = "restore"
    /\ Len(rows) < MaxRows
    /\ Free(p)
    /\ LET r == req[q].row IN
        /\ rows' = Append(Superseded(r), Successor(r, rows[r].doc, p, 1, FALSE))
        /\ Race(~rows[r].current)
        /\ docs' = docs
        /\ Saved(r)
    /\ Ends(q)

\* disambiguate_path takes the row's path or a fresh one beside it.
Restore(q, p) ==
    /\ req[q].op = "restore"
    /\ Len(rows) < MaxRows
    /\ Free(p)
    /\ LET r == req[q].row IN
        /\ rows' = Append(Superseded(r), Successor(r, rows[r].doc, p, 0, FALSE))
        /\ Race(~rows[r].current)
        /\ docs' = docs
        /\ Saved(r)
    /\ Ends(q)

\* RestoreDocumentToVersion: the tree's current document, then its active row.
RestoreVersionLooks(q, old, d) ==
    /\ {old, d} \subseteq LiveDocs
    /\ old # d
    /\ docs[old].tree = docs[d].tree
    /\ docs[d].current
    /\ Reads(q, [op |-> "find", doc |-> d])

RestoreVersionFinds(q, r) ==
    /\ req[q].op = "find"
    /\ Active(r)
    /\ docs[rows[r].doc].tree = docs[req[q].doc].tree
    /\ req' = [req EXCEPT ![q] = [op |-> "version", doc |-> @.doc, row |-> r]]
    /\ UNCHANGED <<rows, docs, erased, lost, raced>>

\* Both indexes are checked: one current document in a tree, one active row
\* at a path.  Both full saves insert what was erased.
RestoreVersion(q) ==
    /\ req[q].op = "version"
    /\ Len(rows) < MaxRows
    /\ Len(docs) < MaxDocs
    /\ LET d == req[q].doc
           r == req[q].row
           tree == docs[d].tree
       IN
        /\ \A e \in LiveDocs \ {d} : docs[e].tree = tree => ~docs[e].current
        /\ \A s \in LiveRows \ {r} : Active(s) => rows[s].path # rows[r].path
        /\ docs' = Append([docs EXCEPT ![d].current = FALSE], NewVersion(tree, d))
        /\ rows' = Append(Superseded(r), Successor(r, Len(docs) + 1, rows[r].path, 1, FALSE))
        /\ Race(~rows[r].current)
        /\ erased' = erased \ {r}
        /\ lost' = lost \ {d}
        /\ ForeignKeys'
    /\ Ends(q)

\* The check that the document is in the trash, and the ids of its rows.
EraseLooks(q, r) ==
    /\ Trashed(r)
    /\ Reads(q, [op |-> "erase", doc |-> rows[r].doc,
                 found |-> {s \in LiveRows : rows[s].doc = rows[r].doc}])

Erase(q) ==
    /\ req[q].op = "erase"
    /\ erased' = erased \cup Cascade(rows, req[q].found)
    /\ lost' = lost \cup Cascade(docs, {req[q].doc})
    /\ UNCHANGED <<rows, docs>>
    /\ ForeignKeys'
    /\ Race(\A r \in LiveRows : Trashed(r) => rows[r].doc # req[q].doc)
    /\ Ends(q)

\* A request that finds nothing to do, is refused by an index or a foreign
\* key, or dies: its transaction leaves nothing behind.
Leaves(q) ==
    /\ req[q] # Idle
    /\ Ends(q)
    /\ UNCHANGED <<rows, docs, erased, lost, raced>>

Next ==
    \/ \E p \in Paths : AddDocument(p)
    \/ \E r \in DOMAIN rows, p \in Paths : Move(r, p)
    \/ \E D \in SUBSET LiveDocs : BulkTrash(D)
    \/ \E q \in Requests :
        \/ \E p \in Paths : ImportLooks(q, p) \/ Restore(q, p)
        \/ ImportCreates(q) \/ ImportUpdates(q) \/ ImportRecords(q)
        \/ \E r \in DOMAIN rows :
            SoftDeleteLooks(q, r) \/ RestoreLooks(q, r) \/ RestoreVersionFinds(q, r) \/ EraseLooks(q, r)
        \/ \E old, d \in DOMAIN docs : RestoreVersionLooks(q, old, d)
        \/ SoftDelete(q) \/ RestoreVersion(q) \/ Erase(q) \/ Leaves(q)

Spec == Init /\ [][Next]_vars

-----------------------------------------------------------------------------
(* Properties *)

Row == [doc : Nat \ {0}, path : Paths, version : Nat \ {0}, parent : Nat,
        current : BOOLEAN, deleted : BOOLEAN]

Doc == [tree : Nat \ {0}, parent : Nat, current : BOOLEAN]

\* The type invariant: rows and documents of the tables, and what a request holds.
TypeOK ==
    /\ rows \in Seq(Row)
    /\ docs \in Seq(Doc)
    /\ erased \subseteq DOMAIN rows
    /\ lost \subseteq DOMAIN docs
    /\ \A q \in Requests : req[q].op \in {"idle", "import", "trash", "restore", "find", "version", "erase"}
    /\ raced \in BOOLEAN

\* P5 of the path tree: a row's version is its predecessor's unless the row
\* points to other content, and then one more; a history never leaves its
\* version tree and begins with version 1.  Every handler copies the version
\* from the row it read, which another request may have superseded.
VersionsFollowContent ==
    \A r \in DOMAIN rows :
        LET before == rows[r].parent IN
        IF before = 0 THEN rows[r].version = 1
        ELSE /\ before \in 1..(r - 1)
             /\ docs[rows[r].doc].tree = docs[rows[before].doc].tree
             /\ rows[r].version =
                    rows[before].version + (IF rows[r].doc = rows[before].doc THEN 0 ELSE 1)

\* P3: a document is at one place of the corpus, in a folder or in the trash,
\* and its current row points to its current content.  It holds as long as no
\* unlocked request wrote over a superseded row: imports, moves and bulk
\* deletions may overlap anything.
OnePlace ==
    ~raced => \A t \in DOMAIN docs :
        /\ Cardinality(CurrentRows(t)) <= 1
        /\ {rows[r].doc : r \in CurrentRows(t)} = {d \in LiveDocs : docs[d].tree = t /\ docs[d].current}

\* The file the rows of a version tree amount to.
FileOf(t) ==
    IF t \notin DOMAIN docs \/ docs[t].tree # t THEN [place |-> "nowhere", version |-> 0]
    ELSE IF CurrentRows(t) = {} THEN [place |-> "gone", version |-> 0]
    ELSE LET r == CHOOSE r \in CurrentRows(t) : TRUE
         IN  [place |-> IF rows[r].deleted THEN "trash" ELSE rows[r].path,
              version |-> rows[r].version]

Trees == 1..MaxDocs

Files == INSTANCE CorpusFiles WITH file <- [t \in Trees |-> FileOf(t)]

\* The rows implement the file system a corpus promises: until a race, every
\* step is one of its operations, or changes no file.
ActsAsFiles == Files!Init /\ [][raced' \/ Files!Next]_<<raced, [t \in Trees |-> FileOf(t)]>>

\* P3 as the model states it, races included: "Only current filesystem state
\* has is_current=True" (documents/models.py).
\* (The code does not keep it: see "What the code does not keep" in the README.)
OneCurrentRow == \A t \in DOMAIN docs : Cardinality(CurrentRows(t)) <= 1

\* "Permanently delete a soft-deleted document", verified as the first step
\* (versioning.permanently_delete_document): what a permanent deletion takes
\* out of the tables is not in use at a path of the corpus.
\* (The code does not keep it: see "What the code does not keep" in the README.)
ErasesTrashOnly == [][\A r \in erased' \ erased : ~Active(r)]_vars
=============================================================================
