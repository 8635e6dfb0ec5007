------------------------- MODULE CorpusPathsProofs -------------------------
(***************************************************************************)
(* Proofs about CorpusPaths for every set of paths and of requests and     *)
(* every bound: versions follow the content whatever requests race, and    *)
(* until one writes over a superseded row the two trees implement          *)
(* CorpusFiles.                                                            *)
(***************************************************************************)
EXTENDS CorpusPaths, FiniteSetTheorems, TLAPS

USE BoundsAssumption

(***************************************************************************)
(* What holds whatever races: the trees are well formed, requests remember *)
(* rows and documents that existed, and the indexes and foreign keys that  *)
(* the database checks hold of every committed state.                      *)
(***************************************************************************)
TreeOf(r) == docs[rows[r].doc].tree

Linked ==
  /\ \A r \in DOMAIN rows : rows[r].doc \in DOMAIN docs
  /\ \A d \in DOMAIN docs :
       /\ docs[d].tree \in DOMAIN docs /\ docs[docs[d].tree].tree = docs[d].tree
       /\ docs[d].parent \in DOMAIN docs \cup {0}
       /\ docs[d].parent # 0 => docs[docs[d].parent].tree = docs[d].tree

\* What a request remembers; the deleted flag and the content of a row never
\* change.
Remembers(w) ==
  /\ w.op = "import" => w.path \in Paths /\ w.found \subseteq DOMAIN rows
  /\ w.op = "trash" => w.row \in DOMAIN rows /\ ~rows[w.row].deleted
  /\ w.op = "restore" => w.row \in DOMAIN rows /\ rows[w.row].deleted
  /\ w.op = "find" => w.doc \in DOMAIN docs
  /\ w.op = "version" =>
       /\ w.doc \in DOMAIN docs /\ w.row \in DOMAIN rows /\ ~rows[w.row].deleted
       /\ TreeOf(w.row) = docs[w.doc].tree
  /\ w.op = "erase" =>
       w.doc \in DOMAIN docs /\ w.found \subseteq DOMAIN rows /\ \A s \in w.found : rows[s].doc = w.doc

Requested ==
  req = [q \in Requests |-> req[q]] /\ \A q \in Requests : Remembers(req[q])

\* unique_active_path_per_corpus.
PathsApart ==
  \A r, s \in DOMAIN rows : Active(r) /\ Active(s) /\ rows[r].path = rows[s].path => r = s

(***************************************************************************)
(* What holds until a race.  OnePlace relates current rows to current      *)
(* documents; that it survives an unlocked write rests on what was erased: *)
(* it is never written again, because a row that a request found active    *)
(* was superseded by the row in the trash that allowed the erasure, and    *)
(* because the document of a row found in the trash is gone with it.       *)
(***************************************************************************)
Placed ==
  \A r, s \in LiveRows : rows[r].current /\ rows[s].current /\ TreeOf(r) = TreeOf(s) => r = s

HeadsCurrent == \A r \in LiveRows : rows[r].current => docs[rows[r].doc].current

CurrentPlaced ==
  \A d \in LiveDocs : docs[d].current => \E r \in LiveRows : rows[r].current /\ rows[r].doc = d

ErasedGone ==
  \A r \in erased : rows[r].doc \in lost /\ (rows[r].current => rows[r].deleted)

\* A row with other content than its predecessor has the next version of it.
ContentDescends ==
  \A r \in DOMAIN rows :
    LET before == rows[r].parent IN
    before # 0 /\ rows[r].doc # rows[before].doc =>
      before \in DOMAIN rows /\ docs[rows[r].doc].parent = rows[before].doc

Orderly == Placed /\ HeadsCurrent /\ CurrentPlaced /\ ErasedGone /\ ContentDescends

PathsInv ==
  /\ TypeOK /\ Linked /\ Requested /\ VersionsFollowContent /\ ForeignKeys /\ PathsApart
  /\ ~raced => Orderly

-----------------------------------------------------------------------------
(* What a step may do to the trees *)

\* Rows and documents are only added; of those that exist only the current
\* flag changes, and a row never becomes current again.
RowsKept ==
  \A s \in DOMAIN rows :
    /\ s \in DOMAIN rows'
    /\ rows'[s].doc = rows[s].doc /\ rows'[s].path = rows[s].path
    /\ rows'[s].version = rows[s].version /\ rows'[s].parent = rows[s].parent
    /\ rows'[s].deleted = rows[s].deleted /\ (rows'[s].current => rows[s].current)

DocsKept ==
  \A d \in DOMAIN docs :
    d \in DOMAIN docs' /\ docs'[d].tree = docs[d].tree /\ docs'[d].parent = docs[d].parent

\* A document and a row that are added fit the trees.
DocFits(e) ==
  \/ docs'[e].parent = 0 /\ docs'[e].tree = e
  \/ docs'[e].parent \in DOMAIN docs /\ docs'[e].tree = docs[docs'[e].parent].tree

RowFits(n) ==
  /\ rows'[n].doc \in DOMAIN docs'
  /\ \/ rows'[n].parent = 0 /\ rows'[n].version = 1
     \/ \E r \in DOMAIN rows :
          /\ rows'[n].parent = r /\ r \in 1..(n - 1)
          /\ docs'[rows'[n].doc].tree = TreeOf(r)
          /\ rows'[n].version = rows[r].version + (IF rows'[n].doc = rows[r].doc THEN 0 ELSE 1)

\* Sequences of rows and documents, as functions.
LEMMA Domains ==
  ASSUME TypeOK
  PROVE  /\ DOMAIN rows = 1..Len(rows) /\ Len(rows) \in Nat
         /\ DOMAIN docs = 1..Len(docs) /\ Len(docs) \in Nat
         /\ \A r \in DOMAIN rows : rows[r] \in Row
         /\ \A d \in DOMAIN docs : docs[d] \in Doc
<1>1. /\ DOMAIN rows = 1..Len(rows) /\ Len(rows) \in Nat
      /\ DOMAIN docs = 1..Len(docs) /\ Len(docs) \in Nat
  BY DEF TypeOK
<1>2. ASSUME NEW T, NEW s \in Seq(T), NEW i \in DOMAIN s PROVE s[i] \in T
  OBVIOUS
<1>3. QED
  BY <1>1, <1>2 DEF TypeOK

LEMMA HistoryGrows ==
  ASSUME TypeOK, Linked, VersionsFollowContent, RowsKept, DocsKept,
         \A n \in DOMAIN rows' \ DOMAIN rows : RowFits(n),
         \A e \in DOMAIN docs' \ DOMAIN docs : DocFits(e)
  PROVE  Linked' /\ VersionsFollowContent'
<1>1. 0 \notin DOMAIN docs /\ 0 \notin DOMAIN rows
  BY Domains
<1>2. \A r \in DOMAIN rows' : rows'[r].doc \in DOMAIN docs'
  BY DEF RowsKept, DocsKept, Linked, RowFits
<1>3. ASSUME NEW d \in DOMAIN docs'
      PROVE  /\ docs'[d].tree \in DOMAIN docs' /\ docs'[docs'[d].tree].tree = docs'[d].tree
             /\ docs'[d].parent \in DOMAIN docs' \cup {0}
             /\ docs'[d].parent # 0 => docs'[docs'[d].parent].tree = docs'[d].tree
  <2>1. CASE d \in DOMAIN docs
    BY <1>1, <2>1 DEF DocsKept, Linked
  <2>2. CASE d \notin DOMAIN docs
    BY <1>1, <1>3, <2>2 DEF DocsKept, Linked, DocFits
  <2>3. QED
    BY <2>1, <2>2
<1>4. ASSUME NEW n \in DOMAIN rows'
      PROVE  IF rows'[n].parent = 0 THEN rows'[n].version = 1
             ELSE /\ rows'[n].parent \in 1..(n - 1)
                  /\ docs'[rows'[n].doc].tree = docs'[rows'[rows'[n].parent].doc].tree
                  /\ rows'[n].version = rows'[rows'[n].parent].version
                       + (IF rows'[n].doc = rows'[rows'[n].parent].doc THEN 0 ELSE 1)
  <2>1. CASE n \in DOMAIN rows
    <3>1. CASE rows[n].parent = 0
      BY <2>1, <3>1 DEF RowsKept, VersionsFollowContent
    <3>2. CASE rows[n].parent # 0
      <4>1. PICK r \in DOMAIN rows :
              /\ rows[n].parent = r /\ r \in 1..(n - 1) /\ TreeOf(n) = TreeOf(r)
              /\ rows[n].version = rows[r].version + (IF rows[n].doc = rows[r].doc THEN 0 ELSE 1)
        BY <2>1, <3>2, Domains DEF VersionsFollowContent, TreeOf
      <4>2. /\ docs'[rows[n].doc].tree = docs[rows[n].doc].tree
            /\ docs'[rows[r].doc].tree = docs[rows[r].doc].tree
        BY <2>1 DEF DocsKept, Linked
      <4>3. QED
        BY <2>1, <3>2, <4>1, <4>2 DEF RowsKept, TreeOf
    <3>3. QED
      BY <3>1, <3>2
  <2>2. CASE n \notin DOMAIN rows
    <3>1. CASE rows'[n].parent = 0
      BY <1>1, <1>4, <2>2, <3>1 DEF RowFits
    <3>2. CASE rows'[n].parent # 0
      <4>1. PICK r \in DOMAIN rows :
              /\ rows'[n].parent = r /\ r \in 1..(n - 1) /\ docs'[rows'[n].doc].tree = TreeOf(r)
              /\ rows'[n].version = rows[r].version + (IF rows'[n].doc = rows[r].doc THEN 0 ELSE 1)
        BY <1>4, <2>2, <3>2 DEF RowFits
      <4>2. docs'[rows[r].doc].tree = TreeOf(r)
        BY DEF DocsKept, Linked, TreeOf
      <4>3. QED
        BY <3>2, <4>1, <4>2 DEF RowsKept
    <3>3. QED
      BY <3>1, <3>2
  <2>3. QED
    BY <2>1, <2>2
<1>5. QED
  BY <1>2, <1>3, <1>4 DEF Linked, VersionsFollowContent

\* What a request remembers stays true, and what it does next is remembered.
LEMMA RequestsRemember ==
  ASSUME Requested, Linked, RowsKept, DocsKept,
         \/ req' = req
         \/ \E q \in Requests : \E w : Remembers(w) /\ req' = [req EXCEPT ![q] = w]
  PROVE  Requested'
<1>1. ASSUME NEW q \in Requests PROVE Remembers(req'[q])
  BY DEF Requested
<1>2. req' = [q \in Requests |-> req'[q]]
  BY DEF Requested
<1>3. ASSUME NEW q \in Requests, NEW w, w = req'[q] PROVE Remembers(w)'
  <2>1. Remembers(w)
    BY <1>1, <1>3
  <2>2. w.op = "version" => docs'[rows'[w.row].doc].tree = docs'[w.doc].tree
    BY <2>1 DEF Remembers, RowsKept, DocsKept, Linked, TreeOf
  <2>3. (w.op = "import" => w.path \in Paths /\ w.found \subseteq DOMAIN rows')
        /\ (w.op = "trash" => w.row \in DOMAIN rows' /\ ~rows'[w.row].deleted)
        /\ (w.op = "restore" => w.row \in DOMAIN rows' /\ rows'[w.row].deleted)
        /\ (w.op = "find" => w.doc \in DOMAIN docs')
    BY <2>1 DEF Remembers, RowsKept, DocsKept
  <2>4. w.op = "version" =>
          w.doc \in DOMAIN docs' /\ w.row \in DOMAIN rows' /\ ~rows'[w.row].deleted
    BY <2>1 DEF Remembers, RowsKept, DocsKept
  <2>5. w.op = "erase" =>
          w.doc \in DOMAIN docs' /\ w.found \subseteq DOMAIN rows' /\ \A s \in w.found : rows'[s].doc = w.doc
    BY <2>1 DEF Remembers, RowsKept, DocsKept
  <2>6. QED
    BY <2>2, <2>3, <2>4, <2>5 DEF Remembers, TreeOf
<1>4. QED
  BY <1>2, <1>3 DEF Requested, Remembers, TreeOf

LEMMA KeysHold ==
  ASSUME TypeOK, Linked, ForeignKeys, RowsKept, DocsKept, erased' = erased, lost' = lost,
         \A n \in DOMAIN rows' \ DOMAIN rows :
           rows'[n].doc \in LiveDocs' /\ rows'[n].parent \in LiveRows \cup {0},
         \A e \in DOMAIN docs' \ DOMAIN docs : docs'[e].parent \in LiveDocs \cup {0}
  PROVE  ForeignKeys'
<1>1. LiveRows \subseteq LiveRows' /\ LiveDocs \subseteq LiveDocs'
  BY DEF RowsKept, DocsKept, LiveRows, LiveDocs
<1>2. ASSUME NEW r \in LiveRows'
      PROVE  rows'[r].doc \in LiveDocs' /\ rows'[r].parent \in LiveRows' \cup {0}
  <2>1. CASE r \in DOMAIN rows
    BY <1>1, <1>2, <2>1 DEF ForeignKeys, RowsKept, LiveRows
  <2>2. CASE r \notin DOMAIN rows
    BY <1>1, <1>2, <2>2 DEF LiveRows
  <2>3. QED
    BY <2>1, <2>2
<1>3. ASSUME NEW d \in LiveDocs'
      PROVE  docs'[d].parent \in LiveDocs' \cup {0}
  <2>1. CASE d \in DOMAIN docs
    BY <1>1, <1>3, <2>1 DEF ForeignKeys, DocsKept, LiveDocs
  <2>2. CASE d \notin DOMAIN docs
    BY <1>1, <1>3, <2>2 DEF LiveDocs
  <2>3. QED
    BY <2>1, <2>2
<1>4. QED
  BY <1>2, <1>3 DEF ForeignKeys

\* A row that is inserted again is not current, so only added rows can clash.
LEMMA PathsStayApart ==
  ASSUME PathsApart, RowsKept,
         \A s \in erased \ erased' : s \in DOMAIN rows' => ~rows'[s].current,
         \A n \in DOMAIN rows' \ DOMAIN rows, s \in DOMAIN rows' :
           Active(n)' /\ Active(s)' /\ n # s => rows'[n].path # rows'[s].path
  PROVE  PathsApart'
<1>1. SUFFICES ASSUME NEW r \in DOMAIN rows', NEW s \in DOMAIN rows', Active(r)', Active(s)',
                      rows'[r].path = rows'[s].path, r # s
               PROVE  FALSE
  BY DEF PathsApart
<1>2. r \in DOMAIN rows /\ s \in DOMAIN rows
  BY <1>1
<1>3. Active(r) /\ Active(s)
  BY <1>1, <1>2 DEF Active, LiveRows, RowsKept
<1>4. QED
  BY <1>1, <1>2, <1>3 DEF PathsApart, RowsKept

-----------------------------------------------------------------------------
(* An event: one row superseded by its successor *)

\* The row n is added for the document d, and is the only one to follow r.
EventAt(n, r, d, p, del) ==
  /\ n \notin DOMAIN rows /\ DOMAIN rows' = DOMAIN rows \cup {n}
  /\ RowsKept /\ ~rows'[r].current
  /\ \A s \in DOMAIN rows : s # r => rows'[s].current = rows[s].current
  /\ rows'[n].doc = d /\ rows'[n].path = p /\ rows'[n].parent = r
  /\ rows'[n].current = TRUE /\ rows'[n].deleted = del

LEMMA Appending ==
  ASSUME NEW T, NEW s \in Seq(T), NEW e \in T
  PROVE  /\ Append(s, e) \in Seq(T) /\ Len(Append(s, e)) = Len(s) + 1
         /\ DOMAIN Append(s, e) = 1..(Len(s) + 1) /\ Len(s) \in Nat
         /\ Append(s, e)[Len(s) + 1] = e
         /\ \A i \in 1..Len(s) : Append(s, e)[i] = s[i]
OBVIOUS

LEMMA EventRows ==
  ASSUME TypeOK, NEW r \in DOMAIN rows, NEW d \in Nat \ {0}, NEW p \in Paths, NEW bump \in {0, 1},
         NEW del \in BOOLEAN, rows' = Append(Superseded(r), Successor(r, d, p, bump, del))
  PROVE  /\ rows' \in Seq(Row) /\ EventAt(Len(rows) + 1, r, d, p, del)
         /\ r \in 1..Len(rows) /\ rows'[Len(rows) + 1].version = rows[r].version + bump
<1> DEFINE n == Len(rows) + 1
           head == [rows[r] EXCEPT !.current = FALSE]
<1>1. /\ DOMAIN rows = 1..Len(rows) /\ Len(rows) \in Nat /\ rows \in Seq(Row)
      /\ \A s \in DOMAIN rows : rows[s] \in Row
  BY Domains DEF TypeOK
<1>2. /\ head \in Row /\ head.doc = rows[r].doc /\ head.path = rows[r].path
      /\ head.version = rows[r].version /\ head.parent = rows[r].parent
      /\ head.deleted = rows[r].deleted /\ head.current = FALSE
  BY <1>1 DEF Row
<1>3. Successor(r, d, p, bump, del) \in Row
  BY <1>1 DEF Successor, Row
<1>4. Superseded(r) = [rows EXCEPT ![r] = head]
  BY DEF Superseded
<1> HIDE DEF head
<1>5. /\ Superseded(r) \in Seq(Row) /\ Len(Superseded(r)) = Len(rows)
      /\ \A s \in DOMAIN rows : Superseded(r)[s] = IF s = r THEN head ELSE rows[s]
  BY <1>1, <1>2, <1>4
<1>6. /\ rows' \in Seq(Row) /\ Len(rows') = n /\ rows'[n] = Successor(r, d, p, bump, del)
      /\ \A s \in DOMAIN rows : rows'[s] = IF s = r THEN head ELSE rows[s]
      /\ DOMAIN rows' = 1..(Len(rows) + 1)
  <2>1. rows' = Append(Superseded(r), Successor(r, d, p, bump, del))
    OBVIOUS
  <2>2. /\ rows' \in Seq(Row) /\ Len(rows') = Len(Superseded(r)) + 1
        /\ DOMAIN rows' = 1..(Len(Superseded(r)) + 1)
        /\ rows'[Len(Superseded(r)) + 1] = Successor(r, d, p, bump, del)
        /\ \A i \in 1..Len(Superseded(r)) : rows'[i] = Superseded(r)[i]
    BY <1>3, <1>5, <2>1, Appending
  <2>3. QED
    BY <1>1, <1>5, <2>2
<1>7. DOMAIN rows' = DOMAIN rows \cup {n} /\ n \notin DOMAIN rows
  <2>1. DOMAIN rows' = 1..(Len(rows) + 1) /\ DOMAIN rows = 1..Len(rows) /\ Len(rows) \in Nat
    BY <1>1, <1>6
  <2>2. QED
    BY <2>1
<1>8. RowsKept
  BY <1>2, <1>6, <1>7 DEF RowsKept
<1>9. ~rows'[r].current /\ \A s \in DOMAIN rows : s # r => rows'[s].current = rows[s].current
  BY <1>2, <1>6
<1>10. /\ rows'[n].doc = d /\ rows'[n].path = p /\ rows'[n].parent = r
       /\ rows'[n].current = TRUE /\ rows'[n].deleted = del
       /\ rows'[n].version = rows[r].version + bump
  BY <1>6 DEF Successor
<1>11. QED
  BY <1>1, <1>6, <1>7, <1>8, <1>9, <1>10 DEF EventAt

\* The document e is added to a tree, in place of its current one or as a root.
VersionAt(e, tree, parent) ==
  /\ e \notin DOMAIN docs /\ DOMAIN docs' = DOMAIN docs \cup {e}
  /\ DocsKept
  /\ docs'[e].tree = tree /\ docs'[e].parent = parent /\ docs'[e].current = TRUE

LEMMA VersionDocs ==
  ASSUME TypeOK, NEW f, f \in [DOMAIN docs -> Doc],
         \A d \in DOMAIN docs : f[d].tree = docs[d].tree /\ f[d].parent = docs[d].parent,
         NEW tree \in Nat \ {0}, NEW parent \in Nat, docs' = Append(f, NewVersion(tree, parent))
  PROVE  /\ docs' \in Seq(Doc) /\ VersionAt(Len(docs) + 1, tree, parent)
         /\ \A d \in DOMAIN docs : docs'[d] = f[d]
<1> DEFINE e == Len(docs) + 1
<1>1. DOMAIN docs = 1..Len(docs) /\ Len(docs) \in Nat
  BY Domains
<1>2. NewVersion(tree, parent) \in Doc
  BY DEF NewVersion, Doc
<1>3. f \in Seq(Doc) /\ Len(f) = Len(docs)
  <2>1. \A T : \A n \in Nat : \A g \in [1..n -> T] : g \in Seq(T) /\ Len(g) = n
    OBVIOUS
  <2>2. f \in [1..Len(docs) -> Doc]
    BY <1>1
  <2>3. QED
    BY <1>1, <2>1, <2>2
<1>4. /\ docs' \in Seq(Doc) /\ Len(docs') = e /\ docs'[e] = NewVersion(tree, parent)
      /\ \A d \in DOMAIN docs : docs'[d] = f[d]
      /\ DOMAIN docs' = 1..(Len(docs) + 1)
  BY <1>1, <1>2, <1>3, Appending
<1>5. DOMAIN docs' = DOMAIN docs \cup {e} /\ e \notin DOMAIN docs
  BY <1>1, <1>4
<1>6. QED
  BY <1>4, <1>5 DEF VersionAt, DocsKept, NewVersion

\* An event whose row has the right version for its content fits the tree.
LEMMA EventFits ==
  ASSUME TypeOK, NEW r \in DOMAIN rows, NEW d \in DOMAIN docs', NEW p \in Paths, NEW del \in BOOLEAN,
         docs'[d].tree = TreeOf(r), NEW bump \in {0, 1}, bump = 0 <=> d = rows[r].doc,
         docs' \in Seq(Doc), rows' = Append(Superseded(r), Successor(r, d, p, bump, del))
  PROVE  /\ rows' \in Seq(Row) /\ EventAt(Len(rows) + 1, r, d, p, del)
         /\ rows'[Len(rows) + 1].version = rows[r].version + bump
         /\ \A n \in DOMAIN rows' \ DOMAIN rows : RowFits(n)
<1>1. d \in Nat \ {0}
  OBVIOUS
<1>2. /\ rows' \in Seq(Row) /\ EventAt(Len(rows) + 1, r, d, p, del) /\ r \in 1..Len(rows)
      /\ rows'[Len(rows) + 1].version = rows[r].version + bump
  BY <1>1, EventRows
<1>3. r \in 1..((Len(rows) + 1) - 1)
  BY <1>2, Domains
<1>4. bump = IF d = rows[r].doc THEN 0 ELSE 1
  OBVIOUS
<1>5. RowFits(Len(rows) + 1)
  BY <1>2, <1>3, <1>4 DEF EventAt, RowFits
<1>6. QED
  BY <1>2, <1>5 DEF EventAt

-----------------------------------------------------------------------------
(* Whatever races: writing requests keep the trees and indexes *)

Base ==
  TypeOK /\ Linked /\ Requested /\ VersionsFollowContent /\ ForeignKeys /\ PathsApart

\* A writing request ends with its transaction.
Ending == req' = req \/ \E q \in Requests : Ends(q)

LEMMA EndingKeeps ==
  ASSUME Base, RowsKept, DocsKept, Ending
  PROVE  Requested' /\ \A q \in Requests : req'[q].op \in
                         {"idle", "import", "trash", "restore", "find", "version", "erase"}
<1>1. Remembers(Idle) /\ Idle.op = "idle"
  BY DEF Remembers, Idle
<1>2. req' = req \/ \E q \in Requests : req' = [req EXCEPT ![q] = Idle]
  BY DEF Ending, Ends
<1>3. Requested'
  BY <1>1, <1>2, RequestsRemember DEF Base
<1>4. QED
  BY <1>1, <1>2, <1>3 DEF Base, TypeOK, Requested

LEMMA EventBase ==
  ASSUME Base, Ending, raced' \in BOOLEAN, DocsKept, docs' \in Seq(Doc),
         \A e \in DOMAIN docs' \ DOMAIN docs : DocFits(e),
         NEW r \in DOMAIN rows, NEW d \in DOMAIN docs', NEW p \in Paths, NEW del \in BOOLEAN,
         docs'[d].tree = TreeOf(r), NEW bump \in {0, 1}, bump = 0 <=> d = rows[r].doc,
         rows' = Append(Superseded(r), Successor(r, d, p, bump, del)),
         erased' \subseteq erased, erased \ erased' \subseteq {r}, lost' \subseteq lost,
         ForeignKeys',
         ~del => \A s \in DOMAIN rows : s # r /\ Active(s) => rows[s].path # p
  PROVE  /\ Base' /\ EventAt(Len(rows) + 1, r, d, p, del)
         /\ rows'[Len(rows) + 1].version = rows[r].version + bump
<1>0. PICK n : n = Len(rows) + 1
  OBVIOUS
<1>1. /\ rows' \in Seq(Row) /\ EventAt(n, r, d, p, del) /\ rows'[n].version = rows[r].version + bump
      /\ \A m \in DOMAIN rows' \ DOMAIN rows : RowFits(m)
  BY <1>0, EventFits DEF Base
<1>2. RowsKept /\ ~rows'[r].current /\ DOMAIN rows' = DOMAIN rows \cup {n} /\ n \notin DOMAIN rows
      /\ rows'[n].path = p /\ rows'[n].deleted = del
  BY <1>1 DEF EventAt
<1>3. Linked' /\ VersionsFollowContent'
  BY <1>1, <1>2, HistoryGrows DEF Base
<1>4. PathsApart'
  <2>1. ASSUME NEW s \in DOMAIN rows', Active(n)', Active(s)', n # s
        PROVE  rows'[n].path # rows'[s].path
    <3>1. s \in DOMAIN rows /\ s # r
      BY <1>2, <2>1 DEF Active
    <3>2. Active(s)
      BY <1>2, <2>1, <3>1 DEF Active, LiveRows, RowsKept
    <3>3. ~del
      BY <1>2, <2>1 DEF Active
    <3>4. QED
      BY <1>2, <3>1, <3>2, <3>3 DEF RowsKept
  <2>2. QED
    BY <1>2, <2>1, PathsStayApart DEF Base
<1>5. TypeOK'
  <2>1. erased' \subseteq DOMAIN rows' /\ lost' \subseteq DOMAIN docs'
    BY <1>2 DEF Base, TypeOK, DocsKept
  <2>2. QED
    BY <1>1, <1>2, <2>1, EndingKeeps DEF TypeOK
<1>6. QED
  BY <1>1, <1>2, <1>3, <1>4, <1>5, <1>0, EndingKeeps DEF Base

\* A row that was active under its lock: its document, and what refers to it,
\* are in the tables.
LEMMA LiveKeys ==
  ASSUME Base, NEW r, Active(r), NEW n, NEW d, NEW p, NEW del, EventAt(n, r, d, p, del),
         erased' = erased, lost' = lost, DocsKept,
         \/ docs' = docs /\ d = rows[r].doc
         \/ VersionAt(d, TreeOf(r), rows[r].doc)
  PROVE  ForeignKeys'
<1>1. r \in LiveRows /\ rows[r].doc \in LiveDocs
  BY DEF Base, ForeignKeys, Active
<1>2. d \in LiveDocs'
  BY <1>1 DEF Base, TypeOK, VersionAt, LiveDocs
<1>3. \A e \in DOMAIN docs' \ DOMAIN docs : docs'[e].parent \in LiveDocs \cup {0}
  BY <1>1 DEF VersionAt
<1>4. \A m \in DOMAIN rows' \ DOMAIN rows :
        rows'[m].doc \in LiveDocs' /\ rows'[m].parent \in LiveRows \cup {0}
  BY <1>1, <1>2 DEF EventAt
<1>5. QED
  BY <1>3, <1>4, KeysHold DEF Base, EventAt

\* A new tree: its document and its row are roots.
LEMMA NewTreeBase ==
  ASSUME Base, Ending, NEW p \in Paths, NewTree(p)
  PROVE  /\ Base'
         /\ DOMAIN rows' = DOMAIN rows \cup {Len(rows) + 1} /\ Len(rows) + 1 \notin DOMAIN rows
         /\ DOMAIN docs' = DOMAIN docs \cup {Len(docs) + 1} /\ Len(docs) + 1 \notin DOMAIN docs
         /\ \A s \in DOMAIN rows : rows'[s] = rows[s]
         /\ \A e \in DOMAIN docs : docs'[e] = docs[e]
         /\ rows'[Len(rows) + 1] = [doc |-> Len(docs) + 1, path |-> p, version |-> 1, parent |-> 0,
                                    current |-> TRUE, deleted |-> FALSE]
         /\ docs'[Len(docs) + 1] = NewVersion(Len(docs) + 1, 0)
         /\ erased' = erased /\ lost' = lost /\ raced' = raced
<1> DEFINE n == Len(rows) + 1
           e == Len(docs) + 1
           row == [doc |-> e, path |-> p, version |-> 1, parent |-> 0,
                   current |-> TRUE, deleted |-> FALSE]
<1>1. /\ DOMAIN rows = 1..Len(rows) /\ Len(rows) \in Nat
      /\ DOMAIN docs = 1..Len(docs) /\ Len(docs) \in Nat
      /\ rows \in Seq(Row) /\ docs \in Seq(Doc) /\ e \in Nat \ {0}
  BY Domains DEF Base, TypeOK
<1>2. /\ docs' = Append(docs, NewVersion(e, 0)) /\ rows' = Append(rows, row)
      /\ Free(p) /\ erased' = erased /\ lost' = lost /\ raced' = raced
  BY DEF NewTree
<1>3. row \in Row /\ NewVersion(e, 0) \in Doc
  BY <1>1 DEF Row, Doc, NewVersion
<1> HIDE DEF n, e, row
<1>4. /\ rows' \in Seq(Row) /\ DOMAIN rows' = 1..(Len(rows) + 1)
      /\ rows'[Len(rows) + 1] = row /\ \A i \in 1..Len(rows) : rows'[i] = rows[i]
  BY <1>1, <1>2, <1>3, Appending
<1>5. /\ docs' \in Seq(Doc) /\ DOMAIN docs' = 1..(Len(docs) + 1)
      /\ docs'[Len(docs) + 1] = NewVersion(e, 0) /\ \A i \in 1..Len(docs) : docs'[i] = docs[i]
  BY <1>1, <1>2, <1>3, Appending
<1>6. DOMAIN rows' = DOMAIN rows \cup {n} /\ n \notin DOMAIN rows
  BY <1>1, <1>4 DEF n
<1>7. DOMAIN docs' = DOMAIN docs \cup {e} /\ e \notin DOMAIN docs
  BY <1>1, <1>5 DEF e
<1>8. /\ rows'[n] = row /\ docs'[e] = NewVersion(e, 0)
      /\ \A s \in DOMAIN rows : rows'[s] = rows[s] /\ \A d \in DOMAIN docs : docs'[d] = docs[d]
  BY <1>1, <1>4, <1>5 DEF n, e
<1>9. RowsKept /\ DocsKept
  BY <1>4, <1>5, <1>6, <1>7, <1>1 DEF RowsKept, DocsKept
<1>10. /\ docs'[e].tree = e /\ docs'[e].parent = 0
       /\ rows'[n].doc = e /\ rows'[n].parent = 0 /\ rows'[n].version = 1 /\ rows'[n].path = p
  BY <1>8 DEF NewVersion, row
<1>11. Linked' /\ VersionsFollowContent'
  <2>1. RowFits(n) /\ DocFits(e)
    BY <1>7, <1>10 DEF RowFits, DocFits
  <2>2. QED
    BY <1>6, <1>7, <1>9, <2>1, HistoryGrows DEF Base
<1>12. ForeignKeys'
  <2>1. e \in LiveDocs'
    BY <1>2, <1>7 DEF Base, TypeOK, LiveDocs
  <2>2. QED
    BY <1>2, <1>6, <1>7, <1>9, <1>10, <2>1, KeysHold DEF Base
<1>13. PathsApart'
  <2>1. ASSUME NEW s \in DOMAIN rows', Active(s)', s # n PROVE rows'[s].path # p
    BY <1>2, <1>6, <1>8, <2>1 DEF Active, LiveRows, Free
  <2>2. QED
    BY <1>2, <1>6, <1>9, <1>10, <2>1, PathsStayApart DEF Base
<1>14. TypeOK'
  <2>1. erased' \subseteq DOMAIN rows' /\ lost' \subseteq DOMAIN docs' /\ raced' \in BOOLEAN
    BY <1>2, <1>6, <1>7 DEF Base, TypeOK
  <2>2. QED
    BY <1>4, <1>5, <1>9, <2>1, EndingKeeps DEF TypeOK
<1>15. Base'
  BY <1>9, <1>11, <1>12, <1>13, <1>14, EndingKeeps DEF Base
<1>16. QED
  BY <1>2, <1>6, <1>7, <1>8, <1>15 DEF n, e, row

-----------------------------------------------------------------------------
(* The handlers that supersede one row *)

(***************************************************************************)
(* What a handler does when no race spoils it: the current row r of a tree *)
(* gives way to n, and its content stays or gets one new version.          *)
(***************************************************************************)
Moves(r, n, d, p, del) ==
  /\ r \in LiveRows /\ rows[r].current
  /\ EventAt(n, r, d, p, del) /\ DocsKept
  /\ rows'[n].version = rows[r].version + (IF d = rows[r].doc THEN 0 ELSE 1)
  /\ d \in LiveDocs' /\ docs'[d].tree = TreeOf(r)
  /\ erased' = erased /\ lost' = lost
  /\ \/ docs' = docs /\ d = rows[r].doc
     \/ /\ VersionAt(d, TreeOf(r), rows[r].doc)
        /\ \A e \in LiveDocs : docs'[e].current <=> docs[e].current /\ docs[e].tree # TreeOf(r)

LEMMA SameDocs ==
  ASSUME Base, docs' = docs
  PROVE  DocsKept /\ docs' \in Seq(Doc) /\ \A e \in DOMAIN docs' \ DOMAIN docs : DocFits(e)
BY DEF Base, TypeOK, DocsKept

LEMMA RowFacts ==
  ASSUME Base, NEW r \in DOMAIN rows
  PROVE  /\ rows[r].doc \in DOMAIN docs /\ rows[r].path \in Paths
         /\ rows[r].deleted \in BOOLEAN /\ rows[r].current \in BOOLEAN
         /\ TreeOf(r) \in DOMAIN docs /\ TreeOf(r) \in Nat \ {0} /\ rows[r].doc \in Nat \ {0}
         /\ r \in LiveRows => rows[r].doc \in LiveDocs
BY Domains DEF Base, Linked, Row, TreeOf, ForeignKeys

\* An event of the same version, under the row's lock.
LEMMA LockedEvent ==
  ASSUME Base, Ending, UNCHANGED <<docs, erased, lost, raced>>, NEW r, Active(r), NEW p \in Paths,
         \A s \in DOMAIN rows : s # r /\ Active(s) => rows[s].path # p,
         rows' = Append(Superseded(r), Successor(r, rows[r].doc, p, 0, FALSE))
  PROVE  Base' /\ Moves(r, Len(rows) + 1, rows[r].doc, p, FALSE)
<1>1. r \in DOMAIN rows /\ r \in LiveRows /\ rows[r].current
  BY DEF Active, LiveRows
<1>2. /\ rows[r].doc \in DOMAIN docs /\ docs[rows[r].doc].tree = TreeOf(r)
      /\ rows[r].doc \in Nat \ {0} /\ rows[r].doc \in LiveDocs
  BY <1>1, RowFacts DEF TreeOf
<1>3. EventAt(Len(rows) + 1, r, rows[r].doc, p, FALSE)
  BY <1>1, <1>2, EventRows DEF Base
<1>4. ForeignKeys'
  BY <1>3, SameDocs, LiveKeys
<1>5. raced' \in BOOLEAN
  BY DEF Base, TypeOK
<1>6. Base' /\ rows'[Len(rows) + 1].version = rows[r].version + 0
  <2>1. /\ FALSE \in BOOLEAN /\ 0 \in {0, 1} /\ (0 = 0 <=> rows[r].doc = rows[r].doc)
        /\ erased' \subseteq erased /\ erased \ erased' \subseteq {r} /\ lost' \subseteq lost
        /\ docs'[rows[r].doc].tree = TreeOf(r) /\ rows[r].doc \in DOMAIN docs'
    BY <1>2
  <2>2. DocsKept /\ docs' \in Seq(Doc) /\ \A e \in DOMAIN docs' \ DOMAIN docs : DocFits(e)
    BY SameDocs
  <2> DEFINE d == rows[r].doc
  <2>3. /\ d \in DOMAIN docs' /\ docs'[d].tree = TreeOf(r) /\ (0 = 0 <=> d = rows[r].doc)
        /\ rows' = Append(Superseded(r), Successor(r, d, p, 0, FALSE))
    BY <2>1
  <2> HIDE DEF d
  <2>4. QED
    BY <1>1, <1>4, <1>5, <2>1, <2>2, <2>3, EventBase
<1>7. QED
  BY <1>1, <1>2, <1>3, <1>6, SameDocs DEF Moves, LiveDocs

\* The same bytes with other metadata.
LEMMA RecordStep ==
  ASSUME Base, NEW q \in Requests, ImportRecords(q)
  PROVE  Base' /\ \E r \in DOMAIN rows :
           Active(r) /\ Moves(r, Len(rows) + 1, rows[r].doc, rows[r].path, FALSE)
<1>1. PICK r \in Locked(q) :
        rows' = Append(Superseded(r), Successor(r, rows[r].doc, rows[r].path, 0, FALSE))
  BY DEF ImportRecords
<1>2. Active(r) /\ r \in DOMAIN rows /\ Ending /\ UNCHANGED <<docs, erased, lost, raced>>
  BY DEF Locked, ImportRecords, Ending, Active, LiveRows
<1>3. rows[r].path \in Paths /\ \A s \in DOMAIN rows : s # r /\ Active(s) => rows[s].path # rows[r].path
  BY <1>2, RowFacts DEF Base, PathsApart
<1>4. QED
  BY <1>1, <1>2, <1>3, LockedEvent

LEMMA MoveStep ==
  ASSUME Base, NEW r \in DOMAIN rows, NEW p \in Paths, Move(r, p)
  PROVE  Base' /\ Active(r) /\ Moves(r, Len(rows) + 1, rows[r].doc, p, FALSE)
<1>1. \A s \in DOMAIN rows : s # r /\ Active(s) => rows[s].path # p
  BY DEF Move, Free, Active
<1>2. Ending /\ Active(r) /\ UNCHANGED <<docs, erased, lost, raced>>
      /\ rows' = Append(Superseded(r), Successor(r, rows[r].doc, p, 0, FALSE))
  BY DEF Move, Ending
<1>3. QED
  BY <1>1, <1>2, LockedEvent

\* New bytes: the tree's documents are set aside for the next version.
LEMMA UpdateStep ==
  ASSUME Base, NEW q \in Requests, ImportUpdates(q)
  PROVE  Base' /\ raced' = raced /\ \E r \in DOMAIN rows :
           Active(r) /\ Moves(r, Len(rows) + 1, Len(docs) + 1, rows[r].path, FALSE)
<1>1. PICK r \in Locked(q) :
        /\ docs' = Append([d \in DOMAIN docs |-> IF docs[d].tree = TreeOf(r)
                                                 THEN [docs[d] EXCEPT !.current = FALSE]
                                                 ELSE docs[d]],
                          NewVersion(TreeOf(r), rows[r].doc))
        /\ rows' = Append(Superseded(r), Successor(r, Len(docs) + 1, rows[r].path, 1, FALSE))
  BY DEF ImportUpdates, TreeOf
<1> DEFINE aside == [d \in DOMAIN docs |-> IF docs[d].tree = TreeOf(r)
                                           THEN [docs[d] EXCEPT !.current = FALSE] ELSE docs[d]]
<1>2. PICK e : e = Len(docs) + 1
  OBVIOUS
<1>3. /\ Active(r) /\ r \in DOMAIN rows /\ r \in LiveRows /\ rows[r].current
      /\ Ending /\ erased' = erased /\ lost' = lost /\ raced' = raced
  BY DEF Locked, ImportUpdates, Ending, Active, LiveRows
<1>4. /\ rows[r].doc \in DOMAIN docs /\ rows[r].path \in Paths /\ TreeOf(r) \in Nat \ {0}
      /\ rows[r].doc \in LiveDocs /\ rows[r].doc \in Nat
      /\ docs[rows[r].doc].tree = TreeOf(r)
  BY <1>3, RowFacts DEF TreeOf
<1>5. \A d \in DOMAIN docs : docs[d] \in Doc
  BY Domains DEF Base
<1>6. \A d \in DOMAIN docs :
        /\ aside[d] \in Doc /\ aside[d].tree = docs[d].tree /\ aside[d].parent = docs[d].parent
        /\ aside[d].current <=> docs[d].current /\ docs[d].tree # TreeOf(r)
  BY <1>5 DEF Doc
<1>7. aside \in [DOMAIN docs -> Doc]
  BY <1>6
<1>8. docs' = Append(aside, NewVersion(TreeOf(r), rows[r].doc))
  BY <1>1
<1> HIDE DEF aside
<1>9. /\ docs' \in Seq(Doc) /\ VersionAt(e, TreeOf(r), rows[r].doc)
      /\ \A d \in DOMAIN docs : docs'[d] = aside[d]
  BY <1>2, <1>4, <1>6, <1>7, <1>8, VersionDocs DEF Base
<1>10. /\ DocsKept /\ e \in DOMAIN docs' /\ e # rows[r].doc /\ docs'[e].tree = TreeOf(r)
       /\ \A d \in DOMAIN docs' \ DOMAIN docs : DocFits(d)
  BY <1>4, <1>9 DEF VersionAt, DocFits
<1>11. e \in Nat \ {0}
  BY <1>2, Domains DEF Base
<1>12. EventAt(Len(rows) + 1, r, e, rows[r].path, FALSE)
  BY <1>1, <1>2, <1>3, <1>4, <1>11, EventRows DEF Base
<1>13. ForeignKeys'
  BY <1>3, <1>9, <1>10, <1>12, LiveKeys
<1>14. \A s \in DOMAIN rows : s # r /\ Active(s) => rows[s].path # rows[r].path
  BY <1>3 DEF Base, PathsApart
<1>15. Base' /\ rows'[Len(rows) + 1].version = rows[r].version + 1
  <2>1. FALSE \in BOOLEAN /\ 1 \in {0, 1} /\ raced' \in BOOLEAN
    BY <1>3 DEF Base, TypeOK
  <2>2. erased' \subseteq erased /\ erased \ erased' \subseteq {r} /\ lost' \subseteq lost
    BY <1>3
  <2>3. rows' = Append(Superseded(r), Successor(r, e, rows[r].path, 1, FALSE))
    BY <1>1, <1>2
  <2>4. 1 = 0 <=> e = rows[r].doc
    BY <1>10
  <2>5. QED
    BY <1>3, <1>4, <1>9, <1>10, <1>13, <1>14, <2>1, <2>2, <2>3, <2>4, EventBase
<1>16. e \in LiveDocs'
  BY <1>3, <1>9, <1>10 DEF VersionAt, LiveDocs, Base, TypeOK
<1>17. \A d \in LiveDocs : docs'[d].current <=> docs[d].current /\ docs[d].tree # TreeOf(r)
  BY <1>6, <1>9 DEF LiveDocs
<1>18. Moves(r, Len(rows) + 1, e, rows[r].path, FALSE)
  BY <1>3, <1>9, <1>10, <1>12, <1>15, <1>16, <1>17 DEF Moves
<1>19. QED
  BY <1>2, <1>3, <1>15, <1>18

-----------------------------------------------------------------------------
(* The handlers that write without a lock *)

\* An event of the same version on a row that may have been superseded, or even
\* erased, since it was read.
LEMMA SavedEvent ==
  ASSUME Base, NEW q \in Requests, NEW r \in DOMAIN rows, NEW p \in Paths, NEW del \in BOOLEAN,
         Ends(q), docs' = docs, Saved(r), Race(~rows[r].current),
         ~del => \A s \in DOMAIN rows : s # r /\ Active(s) => rows[s].path # p,
         rows' = Append(Superseded(r), Successor(r, rows[r].doc, p, 0, del))
  PROVE  /\ Base'
         /\ ~raced' /\ r \notin erased => ~raced /\ Moves(r, Len(rows) + 1, rows[r].doc, p, del)
         /\ ~raced' => ~raced /\ rows[r].current
         /\ rows[r].doc \in lost => FALSE
<1> DEFINE d == rows[r].doc
<1>1. /\ erased' = erased \ {r} /\ lost' = lost /\ ForeignKeys'
      /\ raced' = (raced \/ ~rows[r].current)
  BY DEF Saved, Race
<1>2. /\ d \in DOMAIN docs /\ docs[d].tree = TreeOf(r) /\ d \in Nat \ {0}
  BY RowFacts DEF TreeOf
<1>3. /\ d \in DOMAIN docs' /\ docs'[d].tree = TreeOf(r) /\ (0 = 0 <=> d = rows[r].doc)
      /\ rows' = Append(Superseded(r), Successor(r, d, p, 0, del))
  BY <1>2
<1>4. /\ 0 \in {0, 1} /\ raced' \in BOOLEAN /\ Ending
      /\ erased' \subseteq erased /\ erased \ erased' \subseteq {r} /\ lost' \subseteq lost
  BY <1>1 DEF Base, TypeOK, Ending
<1>5. DocsKept /\ docs' \in Seq(Doc) /\ \A e \in DOMAIN docs' \ DOMAIN docs : DocFits(e)
  BY SameDocs
<1> HIDE DEF d
<1>6. /\ Base' /\ EventAt(Len(rows) + 1, r, d, p, del)
      /\ rows'[Len(rows) + 1].version = rows[r].version + 0
  <2>1. ForeignKeys'
    BY <1>1
  <2>2. QED
    BY <1>3, <1>4, <1>5, <2>1, EventBase
<1>7. d \in LiveDocs'
  BY <1>1, <1>6, <1>3 DEF d, EventAt, RowsKept, ForeignKeys, LiveRows
<1>8. rows[r].current \in BOOLEAN
  BY RowFacts
<1>9. rows[r].version \in Nat
  BY Domains DEF Base, Row
<1>10. ASSUME ~raced', r \notin erased
       PROVE  Moves(r, Len(rows) + 1, d, p, del)
  BY <1>1, <1>3, <1>5, <1>6, <1>7, <1>8, <1>9, <1>10 DEF Moves, LiveRows, d
<1>11. d \notin lost
  BY <1>1, <1>7 DEF LiveDocs
<1>12. QED
  BY <1>1, <1>6, <1>8, <1>10, <1>11 DEF d

\* A soft deletion found its row active, so if it was erased since, it was
\* superseded before.
LEMMA SoftDeleteStep ==
  ASSUME Base, NEW q \in Requests, SoftDelete(q)
  PROVE  /\ Base'
         /\ ~raced' /\ (~raced => Orderly) => ~raced /\ \E r \in DOMAIN rows :
              Active(r) /\ Moves(r, Len(rows) + 1, rows[r].doc, rows[r].path, TRUE)
<1>1. PICK r : r = req[q].row
  OBVIOUS
<1>2. /\ r \in DOMAIN rows /\ ~rows[r].deleted /\ rows[r].path \in Paths
  BY <1>1, RowFacts DEF SoftDelete, Base, Requested, Remembers
<1>3. /\ rows' = Append(Superseded(r), Successor(r, rows[r].doc, rows[r].path, 0, TRUE))
      /\ Race(~rows[r].current) /\ docs' = docs /\ Saved(r) /\ Ends(q)
  BY <1>1 DEF SoftDelete
<1>4. /\ Base'
      /\ ~raced' /\ r \notin erased =>
           ~raced /\ Moves(r, Len(rows) + 1, rows[r].doc, rows[r].path, TRUE)
      /\ ~raced' => ~raced /\ rows[r].current
  <2>1. TRUE \in BOOLEAN
    OBVIOUS
  <2>2. QED
    BY <1>2, <1>3, <2>1, SavedEvent
<1>5. ASSUME ~raced', ~raced => Orderly PROVE r \notin erased
  BY <1>2, <1>4, <1>5 DEF Orderly, ErasedGone
<1>6. QED
  BY <1>2, <1>4, <1>5 DEF Active, Moves

\* A restoration found its row in the trash; were it erased, its document would
\* be gone and the foreign key would refuse it.
LEMMA RestoreStep ==
  ASSUME Base, NEW q \in Requests, NEW p \in Paths, Restore(q, p)
  PROVE  /\ Base'
         /\ ~raced' /\ (~raced => Orderly) => ~raced /\ \E r \in DOMAIN rows :
              Trashed(r) /\ Moves(r, Len(rows) + 1, rows[r].doc, p, FALSE)
<1>1. PICK r : r = req[q].row
  OBVIOUS
<1>2. r \in DOMAIN rows /\ rows[r].deleted
  BY <1>1 DEF Restore, Base, Requested, Remembers
<1>3. /\ rows' = Append(Superseded(r), Successor(r, rows[r].doc, p, 0, FALSE))
      /\ Race(~rows[r].current) /\ docs' = docs /\ Saved(r) /\ Ends(q)
      /\ \A s \in DOMAIN rows : s # r /\ Active(s) => rows[s].path # p
  BY <1>1 DEF Restore, Free, Active
<1>4. /\ Base' /\ rows[r].doc \notin lost
      /\ ~raced' /\ r \notin erased => ~raced /\ Moves(r, Len(rows) + 1, rows[r].doc, p, FALSE)
      /\ ~raced' => ~raced /\ rows[r].current
  <2>1. FALSE \in BOOLEAN
    OBVIOUS
  <2>2. QED
    BY <1>2, <1>3, <2>1, SavedEvent
<1>5. ASSUME ~raced', ~raced => Orderly PROVE r \notin erased
  BY <1>4, <1>5 DEF Orderly, ErasedGone
<1>6. QED
  BY <1>2, <1>4, <1>5 DEF Trashed, Moves

\* Restoring a version: both instances may be stale, and both are saved whole.
LEMMA RestoreVersionStep ==
  ASSUME Base, NEW q \in Requests, RestoreVersion(q)
  PROVE  /\ Base'
         /\ ~raced' /\ (~raced => Orderly) => ~raced /\ \E r \in DOMAIN rows :
              Active(r) /\ Moves(r, Len(rows) + 1, Len(docs) + 1, rows[r].path, FALSE)
<1>1. PICK r, d : r = req[q].row /\ d = req[q].doc
  OBVIOUS
<1>2. PICK e : e = Len(docs) + 1
  OBVIOUS
<1>3. /\ r \in DOMAIN rows /\ ~rows[r].deleted /\ d \in DOMAIN docs /\ TreeOf(r) = docs[d].tree
  BY <1>1 DEF RestoreVersion, Base, Requested, Remembers
<1>4. /\ \A c \in LiveDocs \ {d} : docs[c].tree = TreeOf(r) => ~docs[c].current
      /\ \A s \in LiveRows \ {r} : Active(s) => rows[s].path # rows[r].path
      /\ docs' = Append([docs EXCEPT ![d].current = FALSE], NewVersion(TreeOf(r), d))
      /\ rows' = Append(Superseded(r), Successor(r, e, rows[r].path, 1, FALSE))
      /\ raced' = (raced \/ ~rows[r].current)
      /\ erased' = erased \ {r} /\ lost' = lost \ {d} /\ ForeignKeys' /\ Ends(q)
  BY <1>1, <1>2, <1>3 DEF RestoreVersion, Race
<1>5. /\ rows[r].path \in Paths /\ TreeOf(r) \in Nat \ {0} /\ d \in Nat /\ e \in Nat \ {0}
      /\ rows[r].doc \in DOMAIN docs /\ rows[r].current \in BOOLEAN /\ d # 0
      /\ docs[rows[r].doc].tree = TreeOf(r)
  BY <1>2, <1>3, RowFacts, Domains DEF Base, TreeOf
<1> DEFINE aside == [docs EXCEPT ![d].current = FALSE]
<1>6. /\ aside \in [DOMAIN docs -> Doc]
      /\ \A c \in DOMAIN docs :
           /\ aside[c].tree = docs[c].tree /\ aside[c].parent = docs[c].parent
           /\ aside[c].current = (docs[c].current /\ c # d)
  <2>1. \A c \in DOMAIN docs : docs[c] \in Doc
    BY Domains DEF Base
  <2>2. \A c \in DOMAIN docs :
          aside[c] = IF c = d THEN [docs[c] EXCEPT !.current = FALSE] ELSE docs[c]
    BY <1>3
  <2>3. DOMAIN aside = DOMAIN docs /\ aside = [c \in DOMAIN docs |-> aside[c]]
    OBVIOUS
  <2> HIDE DEF aside
  <2>4. ASSUME NEW c \in DOMAIN docs
        PROVE  /\ aside[c] \in Doc /\ aside[c].tree = docs[c].tree
               /\ aside[c].parent = docs[c].parent
               /\ aside[c].current = (docs[c].current /\ c # d)
    <3>1. CASE c = d
      BY <2>1, <2>2, <3>1 DEF Doc
    <3>2. CASE c # d
      BY <2>1, <2>2, <3>2 DEF Doc
    <3>3. QED
      BY <3>1, <3>2
  <2>5. QED
    BY <2>3, <2>4
<1>7. docs' = Append(aside, NewVersion(TreeOf(r), d))
  BY <1>4
<1> HIDE DEF aside
<1>8. /\ docs' \in Seq(Doc) /\ VersionAt(e, TreeOf(r), d)
      /\ \A c \in DOMAIN docs : docs'[c] = aside[c]
  BY <1>2, <1>5, <1>6, <1>7, VersionDocs DEF Base
<1>9. /\ DocsKept /\ e \in DOMAIN docs' /\ e # rows[r].doc /\ docs'[e].tree = TreeOf(r)
      /\ \A c \in DOMAIN docs' \ DOMAIN docs : DocFits(c)
  BY <1>3, <1>5, <1>8 DEF VersionAt, DocFits
<1>10. \A s \in DOMAIN rows : s # r /\ Active(s) => rows[s].path # rows[r].path
  BY <1>4 DEF Active
<1>11. /\ FALSE \in BOOLEAN /\ 1 \in {0, 1} /\ raced' \in BOOLEAN /\ Ending
       /\ erased' \subseteq erased /\ erased \ erased' \subseteq {r} /\ lost' \subseteq lost
  BY <1>4 DEF Base, TypeOK, Ending
<1>12. 1 = 0 <=> e = rows[r].doc
  BY <1>9
<1>13. /\ Base' /\ EventAt(Len(rows) + 1, r, e, rows[r].path, FALSE)
       /\ rows'[Len(rows) + 1].version = rows[r].version + 1
  BY <1>3, <1>4, <1>5, <1>8, <1>9, <1>10, <1>11, <1>12, EventBase
<1>14. ASSUME ~raced', ~raced => Orderly
       PROVE  /\ ~raced /\ Active(r)
              /\ Moves(r, Len(rows) + 1, e, rows[r].path, FALSE)
  <2>1. ~raced /\ rows[r].current
    BY <1>4, <1>5, <1>14
  <2>2. r \notin erased
    BY <1>3, <1>14, <2>1 DEF Orderly, ErasedGone
  <2>3. r \in LiveRows /\ Active(r) /\ erased' = erased
    BY <1>3, <1>4, <2>1, <2>2 DEF LiveRows, Active
  <2>4. rows[r].doc = d /\ d \in LiveDocs
    BY <1>4, <1>5, <1>14, <2>1, <2>3 DEF Orderly, HeadsCurrent, Base, ForeignKeys
  <2>5. lost' = lost /\ e \in LiveDocs'
    BY <1>4, <1>8, <1>9, <2>4 DEF LiveDocs, VersionAt, Base, TypeOK
  <2>6. \A c \in LiveDocs : docs'[c].current <=> docs[c].current /\ docs[c].tree # TreeOf(r)
    BY <1>3, <1>4, <1>6, <1>8 DEF LiveDocs
  <2>7. QED
    BY <1>8, <1>9, <1>13, <2>1, <2>3, <2>4, <2>5, <2>6 DEF Moves
<1>15. QED
  BY <1>2, <1>3, <1>13, <1>14

-----------------------------------------------------------------------------
(* Until a race: one place for every tree *)

LEMMA Parents ==
  ASSUME Base, NEW s \in DOMAIN rows, rows[s].parent # 0
  PROVE  rows[s].parent \in DOMAIN rows
<1>1. rows[s].parent \in 1..(s - 1)
  BY DEF Base, VersionsFollowContent
<1>2. s \in 1..Len(rows) /\ Len(rows) \in Nat /\ DOMAIN rows = 1..Len(rows)
  BY Domains DEF Base
<1>3. QED
  BY <1>1, <1>2

\* Moving a tree's current row keeps the order, and changes no other tree.
LEMMA MovesOrderly ==
  ASSUME Base, Orderly, NEW r, NEW n, NEW d, NEW p, NEW del, Moves(r, n, d, p, del)
  PROVE  /\ Orderly'
         /\ \A t : CurrentRows(t)' = IF t = TreeOf(r) THEN {n} ELSE CurrentRows(t)
<1>1. /\ r \in LiveRows /\ r \in DOMAIN rows /\ rows[r].current /\ RowsKept /\ DocsKept
      /\ n \notin DOMAIN rows /\ DOMAIN rows' = DOMAIN rows \cup {n} /\ ~rows'[r].current
      /\ \A s \in DOMAIN rows : s # r => rows'[s].current = rows[s].current
      /\ rows'[n].doc = d /\ rows'[n].parent = r /\ rows'[n].current = TRUE
      /\ d \in LiveDocs' /\ docs'[d].tree = TreeOf(r) /\ erased' = erased /\ lost' = lost
  BY DEF Moves, EventAt, LiveRows
<1>2. erased \subseteq DOMAIN rows /\ lost \subseteq DOMAIN docs
  BY DEF Base, TypeOK
<1>3. LiveRows' = LiveRows \cup {n} /\ n \notin LiveRows
  BY <1>1, <1>2 DEF LiveRows
<1>4. \A s \in LiveRows' : rows'[s].current <=> s = n \/ (s \in LiveRows /\ s # r /\ rows[s].current)
  BY <1>1, <1>3 DEF LiveRows
<1>5. \A s \in DOMAIN rows : docs'[rows'[s].doc].tree = TreeOf(s) /\ rows[s].doc \in DOMAIN docs
  BY <1>1 DEF RowsKept, DocsKept, Base, Linked, TreeOf
<1>6. docs'[rows'[n].doc].tree = TreeOf(r)
  BY <1>1
<1>7. \A s \in LiveRows : rows[s].current /\ TreeOf(s) = TreeOf(r) => s = r
  BY <1>1 DEF Orderly, Placed
<1>8. Placed'
  <2>1. SUFFICES ASSUME NEW x \in LiveRows', NEW y \in LiveRows', rows'[x].current, rows'[y].current,
                        docs'[rows'[x].doc].tree = docs'[rows'[y].doc].tree, x # y
                 PROVE  FALSE
    BY DEF Placed, TreeOf
  <2>2. CASE x = n
    BY <1>4, <1>5, <1>6, <1>7, <2>1, <2>2 DEF LiveRows
  <2>3. CASE y = n
    BY <1>4, <1>5, <1>6, <1>7, <2>1, <2>3 DEF LiveRows
  <2>4. CASE x # n /\ y # n
    <3>1. x \in LiveRows /\ y \in LiveRows /\ rows[x].current /\ rows[y].current
      BY <1>4, <2>1, <2>4
    <3>2. TreeOf(x) = TreeOf(y)
      BY <1>5, <2>1, <3>1 DEF LiveRows
    <3>3. QED
      BY <2>1, <3>1, <3>2 DEF Orderly, Placed
  <2>5. QED
    BY <2>2, <2>3, <2>4
<1>9. ASSUME NEW s \in LiveRows, s # r, rows[s].current
      PROVE  rows'[s].doc = rows[s].doc /\ docs'[rows[s].doc].current
  <2>1. /\ docs[rows[s].doc].current /\ rows[s].doc \in LiveDocs /\ s \in DOMAIN rows
        /\ docs[rows[s].doc].tree # TreeOf(r)
    BY <1>7, <1>9 DEF Orderly, HeadsCurrent, Base, ForeignKeys, LiveRows, TreeOf
  <2>2. QED
    BY <1>1, <2>1 DEF Moves, RowsKept
<1>10. docs'[d].current
  BY <1>1 DEF Moves, VersionAt, Orderly, HeadsCurrent
<1>11. HeadsCurrent'
  BY <1>1, <1>4, <1>9, <1>10 DEF HeadsCurrent
<1>12. CurrentPlaced'
  <2>1. SUFFICES ASSUME NEW e \in LiveDocs', docs'[e].current
                 PROVE  \E s \in LiveRows' : rows'[s].current /\ rows'[s].doc = e
    BY DEF CurrentPlaced
  <2>2. CASE e = d
    BY <1>1, <1>3, <2>2
  <2>3. CASE e # d
    <3>1. e \in LiveDocs /\ docs[e].current
      BY <1>1, <2>1, <2>3 DEF Moves, VersionAt, LiveDocs
    <3>2. PICK s \in LiveRows : rows[s].current /\ rows[s].doc = e
      BY <3>1 DEF Orderly, CurrentPlaced
    <3>3. s # r
      BY <2>1, <2>3, <3>1, <3>2 DEF Moves, TreeOf
    <3>4. s \in LiveRows' /\ rows'[s].current /\ rows'[s].doc = e
      BY <1>1, <1>3, <3>2, <3>3 DEF LiveRows, RowsKept
    <3>5. QED
      BY <3>4
  <2>4. QED
    BY <2>2, <2>3
<1>13. ErasedGone'
  BY <1>1, <1>2 DEF Orderly, ErasedGone, RowsKept
<1>14. ContentDescends'
  <2>1. SUFFICES ASSUME NEW s \in DOMAIN rows', rows'[s].parent # 0,
                        rows'[s].doc # rows'[rows'[s].parent].doc
                 PROVE  /\ rows'[s].parent \in DOMAIN rows'
                        /\ docs'[rows'[s].doc].parent = rows'[rows'[s].parent].doc
    BY DEF ContentDescends
  <2>2. CASE s = n
    BY <1>1, <2>1, <2>2 DEF Moves, VersionAt, RowsKept
  <2>3. CASE s \in DOMAIN rows
    <3>1. PICK b : b = rows[s].parent /\ b # 0 /\ b = rows'[s].parent
      BY <1>1, <2>1, <2>3 DEF RowsKept
    <3>2. b \in DOMAIN rows
      BY <2>3, <3>1, Parents
    <3>3. docs[rows[s].doc].parent = rows[b].doc /\ rows'[b].doc = rows[b].doc
          /\ rows'[s].doc = rows[s].doc
      BY <1>1, <2>1, <2>3, <3>1, <3>2 DEF RowsKept, Orderly, ContentDescends
    <3>4. QED
      BY <1>1, <1>5, <2>3, <3>1, <3>2, <3>3 DEF DocsKept
  <2>4. QED
    BY <1>1, <2>2, <2>3
<1>15. ASSUME NEW t
       PROVE  {s \in LiveRows' : rows'[s].current /\ docs'[rows'[s].doc].tree = t}
                = IF t = TreeOf(r) THEN {n} ELSE CurrentRows(t)
  <2>1. \A s \in LiveRows' : rows'[s].current /\ docs'[rows'[s].doc].tree = t
          <=> (s = n /\ t = TreeOf(r)) \/ (s \in CurrentRows(t) /\ t # TreeOf(r))
    <3>1. SUFFICES ASSUME NEW s \in LiveRows'
                   PROVE  rows'[s].current /\ docs'[rows'[s].doc].tree = t
                            <=> (s = n /\ t = TreeOf(r)) \/ (s \in CurrentRows(t) /\ t # TreeOf(r))
      OBVIOUS
    <3>2. CASE s = n
      BY <1>1, <1>3, <1>6, <3>2 DEF CurrentRows
    <3>3. CASE s # n
      BY <1>3, <1>4, <1>5, <1>7, <3>1, <3>3 DEF CurrentRows, LiveRows, TreeOf
    <3>4. QED
      BY <3>2, <3>3
  <2>2. CurrentRows(t) \subseteq LiveRows'
    BY <1>3 DEF CurrentRows
  <2>3. n \in LiveRows'
    BY <1>3
  <2>4. QED
    BY <2>1, <2>2, <2>3
<1>16. QED
  BY <1>8, <1>11, <1>12, <1>13, <1>14, <1>15 DEF Orderly, CurrentRows

\* A new tree has one current row and one current document; so it was nowhere.
LEMMA NewTreeOrderly ==
  ASSUME Base, Orderly, Ending, NEW p \in Paths, NewTree(p)
  PROVE  /\ Orderly'
         /\ \A t : CurrentRows(t)' = IF t = Len(docs) + 1 THEN {Len(rows) + 1} ELSE CurrentRows(t)
<1>1. PICK n, e : n = Len(rows) + 1 /\ e = Len(docs) + 1
  OBVIOUS
<1>2. /\ Base'
      /\ DOMAIN rows' = DOMAIN rows \cup {n} /\ n \notin DOMAIN rows
      /\ DOMAIN docs' = DOMAIN docs \cup {e} /\ e \notin DOMAIN docs
      /\ \A s \in DOMAIN rows : rows'[s] = rows[s]
      /\ \A c \in DOMAIN docs : docs'[c] = docs[c]
      /\ erased' = erased /\ lost' = lost
  BY <1>1, NewTreeBase
<1>3. /\ rows'[n].doc = e /\ rows'[n].current = TRUE /\ rows'[n].parent = 0
      /\ docs'[e].tree = e /\ docs'[e].current = TRUE
  <2>1. rows'[n] = [doc |-> e, path |-> p, version |-> 1, parent |-> 0,
                    current |-> TRUE, deleted |-> FALSE]
        /\ docs'[e] = NewVersion(e, 0)
    BY <1>1, NewTreeBase
  <2>2. QED
    BY <2>1 DEF NewVersion
<1>4. erased \subseteq DOMAIN rows /\ lost \subseteq DOMAIN docs
  BY DEF Base, TypeOK
<1>5. /\ LiveRows' = LiveRows \cup {n} /\ n \notin LiveRows
      /\ LiveDocs' = LiveDocs \cup {e} /\ e \notin LiveDocs
  BY <1>2, <1>4 DEF LiveRows, LiveDocs
<1>6. \A s \in DOMAIN rows :
        /\ rows'[s] = rows[s] /\ rows[s].doc \in DOMAIN docs
        /\ docs'[rows[s].doc] = docs[rows[s].doc] /\ docs[rows[s].doc].tree # e
  BY <1>2 DEF Base, Linked
<1>7. Placed'
  BY <1>3, <1>5, <1>6 DEF Orderly, Placed, TreeOf, LiveRows
<1>8. HeadsCurrent'
  BY <1>3, <1>5, <1>6 DEF Orderly, HeadsCurrent, LiveRows
<1>9. CurrentPlaced'
  <2>1. SUFFICES ASSUME NEW c \in LiveDocs', docs'[c].current
                 PROVE  \E s \in LiveRows' : rows'[s].current /\ rows'[s].doc = c
    BY DEF CurrentPlaced
  <2>2. CASE c = e
    BY <1>3, <1>5, <2>2
  <2>3. CASE c # e
    <3>1. PICK s \in LiveRows : rows[s].current /\ rows[s].doc = c
      BY <1>2, <1>5, <2>1, <2>3 DEF Orderly, CurrentPlaced, LiveDocs
    <3>2. QED
      BY <1>5, <1>6, <3>1 DEF LiveRows
  <2>4. QED
    BY <2>2, <2>3
<1>10. ErasedGone'
  BY <1>2, <1>4 DEF Orderly, ErasedGone
<1>11. ContentDescends'
  <2>1. SUFFICES ASSUME NEW s \in DOMAIN rows', rows'[s].parent # 0,
                        rows'[s].doc # rows'[rows'[s].parent].doc
                 PROVE  /\ rows'[s].parent \in DOMAIN rows'
                        /\ docs'[rows'[s].doc].parent = rows'[rows'[s].parent].doc
    BY DEF ContentDescends
  <2>2. s \in DOMAIN rows
    BY <1>2, <1>3, <2>1
  <2>3. PICK b \in DOMAIN rows : b = rows[s].parent
    BY <1>6, <2>1, <2>2, Parents
  <2>4. QED
    BY <1>2, <1>6, <2>1, <2>2, <2>3 DEF Orderly, ContentDescends
<1>12. ASSUME NEW t
       PROVE  {s \in LiveRows' : rows'[s].current /\ docs'[rows'[s].doc].tree = t}
                = IF t = e THEN {n} ELSE CurrentRows(t)
  <2>1. ASSUME NEW s \in LiveRows'
        PROVE  rows'[s].current /\ docs'[rows'[s].doc].tree = t
                 <=> (s = n /\ t = e) \/ (s \in CurrentRows(t) /\ t # e)
    <3>1. CASE s = n
      BY <1>3, <1>5, <3>1 DEF CurrentRows
    <3>2. CASE s # n
      BY <1>5, <1>6, <2>1, <3>2 DEF CurrentRows, LiveRows
    <3>3. QED
      BY <3>1, <3>2
  <2>2. CurrentRows(t) \subseteq LiveRows' /\ n \in LiveRows'
    BY <1>5 DEF CurrentRows
  <2>3. QED
    BY <2>1, <2>2
<1>13. QED
  BY <1>1, <1>7, <1>8, <1>9, <1>10, <1>11, <1>12 DEF Orderly, CurrentRows

-----------------------------------------------------------------------------
(* Erasing *)

\* A cascade takes what it starts from and the children of what it takes, and
\* stays in every set that holds both.
LEMMA CascadeTakes ==
  ASSUME NEW nodes, NEW S \in SUBSET DOMAIN nodes
  PROVE  /\ S \subseteq Cascade(nodes, S) /\ Cascade(nodes, S) \subseteq DOMAIN nodes
         /\ Closed(nodes, Cascade(nodes, S))
         /\ \A C \in SUBSET DOMAIN nodes :
              S \subseteq C /\ Closed(nodes, C) => Cascade(nodes, S) \subseteq C
BY DEF Cascade, Closed

\* Rows and documents stay what they are; only the tables lose some.
LEMMA EraseBase ==
  ASSUME Base, NEW q \in Requests, Erase(q)
  PROVE  Base'
<1>1. PICK d, found : d = req[q].doc /\ found = req[q].found
  OBVIOUS
<1>2. d \in DOMAIN docs /\ found \subseteq DOMAIN rows
  BY <1>1 DEF Erase, Base, Requested, Remembers
<1>3. /\ erased' = erased \cup Cascade(rows, found) /\ lost' = lost \cup Cascade(docs, {d})
      /\ rows' = rows /\ docs' = docs /\ ForeignKeys' /\ Ending
  BY <1>1 DEF Erase, Ending
<1>4. raced' \in BOOLEAN
  BY DEF Base, TypeOK, Erase, Race
<1>5. RowsKept /\ DocsKept
  BY <1>3 DEF RowsKept, DocsKept
<1>6. Linked' /\ VersionsFollowContent'
  BY <1>3 DEF Base, Linked, VersionsFollowContent
<1>7. PathsApart'
  BY <1>3 DEF Base, PathsApart, Active, LiveRows
<1>8. erased' \subseteq DOMAIN rows' /\ lost' \subseteq DOMAIN docs'
  BY <1>3 DEF Base, TypeOK, Cascade
<1>9. TypeOK'
  BY <1>3, <1>4, <1>5, <1>8, EndingKeeps DEF Base, TypeOK
<1>10. QED
  BY <1>3, <1>5, <1>6, <1>7, <1>9, EndingKeeps DEF Base

\* Until a race, what is erased is one tree's row in the trash, with its
\* history and its current document: the tree has nothing current any more, and
\* the other trees keep everything.
LEMMA EraseOrderly ==
  ASSUME Base, Orderly, NEW q \in Requests, Erase(q), ~raced'
  PROVE  /\ Orderly' /\ ~raced
         /\ \E r \in DOMAIN rows :
              /\ Trashed(r)
              /\ \A t : CurrentRows(t)' = IF t = TreeOf(r) THEN {} ELSE CurrentRows(t)
<1>1. PICK d, found : d = req[q].doc /\ found = req[q].found
  OBVIOUS
<1>2. /\ d \in DOMAIN docs /\ found \subseteq DOMAIN rows
      /\ \A s \in found : rows[s].doc = d
  BY <1>1 DEF Erase, Base, Requested, Remembers
<1>3. /\ erased' = erased \cup Cascade(rows, found) /\ lost' = lost \cup Cascade(docs, {d})
      /\ rows' = rows /\ docs' = docs /\ ForeignKeys'
  BY <1>1 DEF Erase
<1>4. ~raced /\ \E r \in LiveRows : Trashed(r) /\ rows[r].doc = d
  BY <1>1 DEF Erase, Race
<1>5. PICK r \in LiveRows : Trashed(r) /\ rows[r].doc = d
  BY <1>4
<1>6. r \in DOMAIN rows /\ rows[r].current /\ rows[r].deleted /\ TreeOf(r) = docs[d].tree
  BY <1>5 DEF Trashed, LiveRows, TreeOf
<1> DEFINE goneDocs == Cascade(docs, {d})
           goneRows == Cascade(rows, found)
<1>7. /\ d \in goneDocs /\ Closed(docs, goneDocs) /\ goneDocs \subseteq DOMAIN docs
      /\ \A C \in SUBSET DOMAIN docs : {d} \subseteq C /\ Closed(docs, C) => goneDocs \subseteq C
  BY <1>2, CascadeTakes
<1>8. /\ found \subseteq goneRows /\ goneRows \subseteq DOMAIN rows
      /\ \A C \in SUBSET DOMAIN rows : found \subseteq C /\ Closed(rows, C) => goneRows \subseteq C
  BY <1>2, CascadeTakes
<1> HIDE DEF goneDocs, goneRows
<1>9. 0 \notin DOMAIN rows /\ 0 \notin DOMAIN docs
  BY Domains DEF Base
\* Documents are taken in one tree, and rows with them.
<1>10. \A c \in goneDocs : docs[c].tree = TreeOf(r)
  <2> DEFINE C == {c \in DOMAIN docs : docs[c].tree = TreeOf(r)}
  <2>1. Closed(docs, C)
    BY <1>9 DEF Closed, Base, Linked
  <2>2. {d} \subseteq C /\ C \in SUBSET DOMAIN docs
    BY <1>2, <1>6
  <2>3. QED
    BY <1>7, <2>1, <2>2
<1>11. \A s \in goneRows : rows[s].doc \in goneDocs
  <2> DEFINE C == {s \in DOMAIN rows : rows[s].doc \in goneDocs}
  <2>1. ASSUME NEW s \in DOMAIN rows, rows[s].parent \in C PROVE s \in C
    <3>1. rows[s].parent \in DOMAIN rows /\ rows[s].parent # 0 /\ rows[rows[s].parent].doc \in goneDocs
      BY <1>9, <2>1
    <3>2. CASE rows[s].doc = rows[rows[s].parent].doc
      BY <3>1, <3>2
    <3>3. CASE rows[s].doc # rows[rows[s].parent].doc
      <4>1. docs[rows[s].doc].parent = rows[rows[s].parent].doc
        BY <3>1, <3>3 DEF Orderly, ContentDescends
      <4>2. rows[s].doc \in DOMAIN docs
        BY DEF Base, Linked
      <4>3. QED
        BY <1>7, <3>1, <4>1, <4>2 DEF Closed
    <3>4. QED
      BY <3>2, <3>3
  <2>2. Closed(rows, C)
    BY <2>1 DEF Closed
  <2>3. found \subseteq C /\ C \in SUBSET DOMAIN rows
    BY <1>2, <1>7
  <2>4. QED
    BY <1>8, <2>2, <2>3
<1>12. \A s \in LiveRows : rows[s].current /\ TreeOf(s) = TreeOf(r) => s = r
  BY <1>6 DEF Orderly, Placed
<1>13. /\ LiveRows' = LiveRows \ goneRows /\ LiveDocs' = LiveDocs \ goneDocs
  BY <1>3 DEF LiveRows, LiveDocs, goneRows, goneDocs
<1>14. r \notin LiveRows'
  BY <1>3, <1>5, <1>7, <1>13 DEF ForeignKeys
<1>15. ErasedGone'
  <2>1. ASSUME NEW s \in goneRows, s \notin erased, rows[s].current PROVE rows[s].deleted
    <3>1. s \in LiveRows /\ TreeOf(s) = TreeOf(r)
      BY <1>8, <1>10, <1>11, <2>1 DEF LiveRows, TreeOf
    <3>2. QED
      BY <1>6, <1>12, <2>1, <3>1
  <2>2. QED
    BY <1>3, <1>11, <2>1 DEF Orderly, ErasedGone, goneRows, goneDocs
<1>16. Placed' /\ HeadsCurrent'
  BY <1>3, <1>13 DEF Orderly, Placed, HeadsCurrent, TreeOf
<1>17. CurrentPlaced'
  <2>1. SUFFICES ASSUME NEW c \in LiveDocs', docs[c].current
                 PROVE  \E s \in LiveRows' : rows[s].current /\ rows[s].doc = c
    BY <1>3 DEF CurrentPlaced
  <2>2. PICK s \in LiveRows : rows[s].current /\ rows[s].doc = c
    BY <1>13, <2>1 DEF Orderly, CurrentPlaced
  <2>3. s \notin goneRows
    BY <1>11, <1>13, <2>1, <2>2
  <2>4. QED
    BY <1>13, <2>2, <2>3
<1>18. ContentDescends'
  BY <1>3 DEF Orderly, ContentDescends
<1>19. ASSUME NEW t
       PROVE  {s \in LiveRows' : rows'[s].current /\ docs'[rows'[s].doc].tree = t}
                = IF t = TreeOf(r) THEN {} ELSE CurrentRows(t)
  <2>1. CASE t = TreeOf(r)
    BY <1>3, <1>12, <1>13, <1>14, <2>1 DEF TreeOf
  <2>2. CASE t # TreeOf(r)
    <3>1. \A s \in LiveRows : TreeOf(s) = t => s \in LiveRows'
      BY <1>10, <1>11, <1>13, <2>2 DEF TreeOf
    <3>2. QED
      BY <1>3, <1>13, <2>2, <3>1 DEF CurrentRows, TreeOf
  <2>3. QED
    BY <2>1, <2>2
<1>20. QED
  BY <1>4, <1>5, <1>6, <1>15, <1>16, <1>17, <1>18, <1>19 DEF Orderly, CurrentRows

-----------------------------------------------------------------------------
(* Bulk deletion *)

\* A set's sequence holds each of its elements once.
LEMMA SequenceOfSet ==
  ASSUME NEW S, IsFiniteSet(S)
  PROVE  /\ SetToSeq(S) \in [1..Cardinality(S) -> S] /\ Cardinality(S) \in Nat
         /\ \A i, j \in 1..Cardinality(S) : SetToSeq(S)[i] = SetToSeq(S)[j] => i = j
         /\ \A x \in S : \E i \in 1..Cardinality(S) : SetToSeq(S)[i] = x
<1> DEFINE k == Cardinality(S)
           f == SetToSeq(S)
<1>1. k \in Nat /\ \E g \in [1..k -> S] : IsInjective(g)
  BY FS_CardinalityType DEF ExistsBijection, Bijection, Injection
<1>2. f \in [1..k -> S] /\ IsInjective(f)
  BY <1>1 DEF SetToSeq
<1> HIDE DEF k, f
<1>3. f \in Injection(1..k, S)
  BY <1>2 DEF Injection
<1>4. Cardinality(1..k) = k /\ IsFiniteSet(1..k)
  BY <1>1, FS_Interval
<1>5. f \in Surjection(1..k, S)
  BY <1>3, <1>4, FS_Injection DEF k
<1>6. \A x \in S : \E i \in 1..k : f[i] = x
  BY <1>5 DEF Surjection
<1>7. \A i, j \in 1..k : f[i] = f[j] => i = j
  BY <1>2 DEF IsInjective
<1>8. QED
  BY <1>1, <1>2, <1>6, <1>7 DEF k, f

LEMMA Concatenating ==
  ASSUME NEW T, NEW s \in Seq(T), NEW u \in Seq(T)
  PROVE  /\ s \o u \in Seq(T) /\ DOMAIN (s \o u) = 1..(Len(s) + Len(u))
         /\ \A i \in 1..(Len(s) + Len(u)) :
              (s \o u)[i] = IF i <= Len(s) THEN s[i] ELSE u[i - Len(s)]
OBVIOUS

\* The rows that a bulk deletion supersedes, and those it adds for them.
Heads(D) == {r \in LiveRows : Active(r) /\ rows[r].doc \in D}

Fresh == DOMAIN rows' \ DOMAIN rows

BulkRows(D) ==
  /\ \A s \in DOMAIN rows : rows'[s].current = (rows[s].current /\ s \notin Heads(D))
  /\ \A n \in Fresh :
       LET h == rows'[n].parent IN
       /\ h \in Heads(D) /\ h \in 1..(n - 1)
       /\ rows'[n].doc = rows[h].doc /\ rows'[n].path = rows[h].path
       /\ rows'[n].version = rows[h].version /\ rows'[n].current = TRUE /\ rows'[n].deleted = TRUE
  /\ \A m, n \in Fresh : rows'[m].parent = rows'[n].parent => m = n
  /\ \A h \in Heads(D) : \E n \in Fresh : rows'[n].parent = h

LEMMA BulkAdds ==
  ASSUME Base, NEW D, BulkTrash(D)
  PROVE  rows' \in Seq(Row) /\ RowsKept /\ BulkRows(D)
<1> DEFINE heads == Heads(D)
           order == SetToSeq(heads)
           first == [r \in DOMAIN rows |->
                       IF r \in heads THEN [rows[r] EXCEPT !.current = FALSE] ELSE rows[r]]
           successor(h) == Successor(h, rows[h].doc, rows[h].path, 0, TRUE)
           added == [i \in DOMAIN order |-> successor(order[i])]
           N == Len(rows)
           k == Cardinality(heads)
<1>1. rows' = first \o added
  BY DEF BulkTrash, Heads
<1>2. DOMAIN rows = 1..N /\ N \in Nat /\ \A r \in DOMAIN rows : rows[r] \in Row
  BY Domains DEF Base
<1>3. heads \subseteq DOMAIN rows
  BY DEF Heads, LiveRows
<1>4. IsFiniteSet(heads)
  <2>1. IsFiniteSet(1..N)
    BY <1>2, FS_Interval
  <2> HIDE DEF heads, N
  <2>2. heads \in SUBSET (1..N)
    BY <1>2, <1>3
  <2>3. QED
    BY <2>1, <2>2, FS_Subset
<1>5. /\ order \in [1..k -> heads] /\ k \in Nat /\ DOMAIN order = 1..k
      /\ \A i, j \in 1..k : order[i] = order[j] => i = j
      /\ \A h \in heads : \E i \in 1..k : order[i] = h
  BY <1>4, SequenceOfSet
<1> HIDE DEF heads, order, k
<1>6. \A r \in DOMAIN rows :
        /\ first[r] \in Row /\ first[r].doc = rows[r].doc /\ first[r].path = rows[r].path
        /\ first[r].version = rows[r].version /\ first[r].parent = rows[r].parent
        /\ first[r].deleted = rows[r].deleted
        /\ first[r].current = (rows[r].current /\ r \notin heads)
  <2>1. SUFFICES ASSUME NEW r \in DOMAIN rows
                 PROVE  /\ first[r] \in Row /\ first[r].doc = rows[r].doc /\ first[r].path = rows[r].path
                        /\ first[r].version = rows[r].version /\ first[r].parent = rows[r].parent
                        /\ first[r].deleted = rows[r].deleted
                        /\ first[r].current = (rows[r].current /\ r \notin heads)
    OBVIOUS
  <2>2. CASE r \in heads
    BY <1>2, <2>2 DEF Row
  <2>3. CASE r \notin heads
    BY <1>2, <2>3 DEF Row
  <2>4. QED
    BY <2>2, <2>3
<1>7. \A h \in heads :
        /\ successor(h) \in Row /\ successor(h).doc = rows[h].doc /\ successor(h).path = rows[h].path
        /\ successor(h).version = rows[h].version /\ successor(h).parent = h
        /\ successor(h).current = TRUE /\ successor(h).deleted = TRUE
  <2>1. SUFFICES ASSUME NEW h \in heads
                 PROVE  /\ successor(h) \in Row /\ successor(h).doc = rows[h].doc
                        /\ successor(h).path = rows[h].path
                        /\ successor(h).version = rows[h].version /\ successor(h).parent = h
                        /\ successor(h).current = TRUE /\ successor(h).deleted = TRUE
    OBVIOUS
  <2>2. h \in 1..N /\ rows[h] \in Row
    BY <1>2, <1>3
  <2>3. QED
    BY <1>2, <2>2 DEF Successor, Row
<1> HIDE DEF successor
<1>8. \A T : \A n \in Nat : \A g \in [1..n -> T] : g \in Seq(T) /\ Len(g) = n
  OBVIOUS
<1>9. first \in Seq(Row) /\ Len(first) = N
  <2>1. first \in [1..N -> Row]
    BY <1>2, <1>6
  <2> HIDE DEF first
  <2>2. QED
    BY <1>2, <1>8, <2>1
<1>10. added \in Seq(Row) /\ Len(added) = k
  <2>1. added \in [1..k -> Row]
    BY <1>5, <1>7
  <2> HIDE DEF added
  <2>2. QED
    BY <1>5, <1>8, <2>1
<1>11. \A i \in 1..k : added[i] = successor(order[i]) /\ order[i] \in heads
  BY <1>5
<1> HIDE DEF first, added
<1>12. /\ rows' \in Seq(Row) /\ DOMAIN rows' = 1..(N + k)
       /\ \A i \in 1..(N + k) : rows'[i] = IF i <= N THEN first[i] ELSE added[i - N]
  <2> HIDE DEF N
  <2>1. /\ first \o added \in Seq(Row) /\ DOMAIN (first \o added) = 1..(Len(first) + Len(added))
        /\ \A i \in 1..(Len(first) + Len(added)) :
             (first \o added)[i] = IF i <= Len(first) THEN first[i] ELSE added[i - Len(first)]
    BY <1>9, <1>10, Concatenating
  <2>2. QED
    BY <1>1, <1>9, <1>10, <2>1
<1>13. \A s \in DOMAIN rows : s \in DOMAIN rows' /\ rows'[s] = first[s]
  BY <1>2, <1>5, <1>12
<1>14. RowsKept
  BY <1>6, <1>13 DEF RowsKept
<1>15. \A s \in DOMAIN rows : rows'[s].current = (rows[s].current /\ s \notin heads)
  BY <1>6, <1>13
<1>16. \A n \in Fresh : n \in Nat /\ n > N /\ n - N \in 1..k /\ rows'[n] = added[n - N]
  <2> HIDE DEF N
  <2>1. QED
    BY <1>2, <1>5, <1>12 DEF Fresh
<1>17. \A i \in 1..k : N + i \in Fresh /\ rows'[N + i] = added[i]
  <2> HIDE DEF N
  <2>1. SUFFICES ASSUME NEW i \in 1..k PROVE N + i \in Fresh /\ rows'[N + i] = added[i]
    OBVIOUS
  <2>2. N + i \in 1..(N + k) /\ ~(N + i <= N) /\ (N + i) - N = i /\ N + i \notin 1..N
    BY <1>2, <1>5
  <2>3. QED
    BY <1>2, <1>12, <2>2 DEF Fresh
<1>18. ASSUME NEW n \in Fresh
       PROVE  LET h == rows'[n].parent IN
              /\ h \in heads /\ h \in 1..(n - 1)
              /\ rows'[n].doc = rows[h].doc /\ rows'[n].path = rows[h].path
              /\ rows'[n].version = rows[h].version
              /\ rows'[n].current = TRUE /\ rows'[n].deleted = TRUE
  <2>1. PICK h \in heads : rows'[n] = successor(h)
    BY <1>11, <1>16
  <2>2. h \in 1..(n - 1)
    BY <1>2, <1>3, <1>16
  <2>3. QED
    BY <1>7, <2>1, <2>2
<1>19. ASSUME NEW m \in Fresh, NEW n \in Fresh, rows'[m].parent = rows'[n].parent PROVE m = n
  <2>1. order[m - N] = order[n - N] /\ m - N \in 1..k /\ n - N \in 1..k
    BY <1>7, <1>11, <1>16, <1>19
  <2>2. m - N = n - N /\ m \in Nat /\ n \in Nat
    BY <1>5, <1>16, <2>1
  <2>3. QED
    BY <1>2, <2>2
<1>20. ASSUME NEW h \in heads PROVE \E n \in Fresh : rows'[n].parent = h
  <2>1. PICK i \in 1..k : order[i] = h
    BY <1>5
  <2>2. N + i \in Fresh /\ rows'[N + i].parent = h
    BY <1>7, <1>11, <1>17, <2>1
  <2>3. QED
    BY <2>2
<1>21. BulkRows(D)
  BY <1>15, <1>18, <1>19, <1>20 DEF BulkRows, heads
<1>22. QED
  BY <1>12, <1>14, <1>21

LEMMA BulkBase ==
  ASSUME Base, NEW D, BulkTrash(D)
  PROVE  Base'
<1>1. rows' \in Seq(Row) /\ RowsKept /\ BulkRows(D)
  BY BulkAdds
<1>2. UNCHANGED <<docs, erased, lost, req, raced>>
  BY DEF BulkTrash
<1>3. DocsKept /\ docs' \in Seq(Doc) /\ DOMAIN docs' = DOMAIN docs
  BY <1>2, SameDocs
<1>4. ASSUME NEW n \in DOMAIN rows' \ DOMAIN rows
      PROVE  /\ RowFits(n) /\ rows'[n].deleted = TRUE
             /\ rows'[n].doc \in LiveDocs' /\ rows'[n].parent \in LiveRows \cup {0}
  <2>1. PICK h \in Heads(D) :
          /\ rows'[n].parent = h /\ h \in 1..(n - 1) /\ rows'[n].doc = rows[h].doc
          /\ rows'[n].version = rows[h].version /\ rows'[n].deleted = TRUE
    BY <1>1, <1>4 DEF BulkRows, Fresh
  <2>2. h \in LiveRows /\ h \in DOMAIN rows
    BY DEF Heads, LiveRows
  <2>3. /\ rows[h].doc \in DOMAIN docs /\ rows[h].doc \in LiveDocs
        /\ docs[rows[h].doc].tree = TreeOf(h) /\ rows[h].version \in Nat
    BY <2>2, RowFacts, Domains DEF TreeOf, Base, Row
  <2>4. QED
    BY <1>2, <2>1, <2>2, <2>3 DEF RowFits, LiveDocs
<1>5. Linked' /\ VersionsFollowContent'
  BY <1>1, <1>3, <1>4, HistoryGrows DEF Base
<1>6. ForeignKeys'
  BY <1>1, <1>2, <1>3, <1>4, KeysHold DEF Base
<1>7. PathsApart'
  BY <1>1, <1>2, <1>4, PathsStayApart DEF Base, Active
<1>8. TypeOK'
  BY <1>1, <1>2, <1>3 DEF Base, TypeOK, RowsKept
<1>9. Requested'
  BY <1>1, <1>2, <1>3, RequestsRemember DEF Base
<1>10. QED
  BY <1>5, <1>6, <1>7, <1>8, <1>9 DEF Base

\* Until a race the deleted rows are in different trees, and each tree's new
\* row is the one that follows its own.
LEMMA BulkOrderly ==
  ASSUME Base, Orderly, NEW D, BulkTrash(D)
  PROVE  /\ Orderly'
         /\ \A t : IF \E h \in Heads(D) : TreeOf(h) = t
                   THEN \E h \in Heads(D), n \in DOMAIN rows' :
                          /\ TreeOf(h) = t /\ CurrentRows(t)' = {n}
                          /\ rows'[n].version = rows[h].version /\ rows'[n].deleted = TRUE
                   ELSE CurrentRows(t)' = CurrentRows(t)
<1>1. RowsKept /\ BulkRows(D)
  BY BulkAdds
<1>2. UNCHANGED <<docs, erased, lost>> /\ erased \subseteq DOMAIN rows
  BY DEF BulkTrash, Base, TypeOK
<1>3. /\ LiveRows' = LiveRows \cup Fresh /\ Fresh \cap DOMAIN rows = {} /\ LiveDocs' = LiveDocs
      /\ DOMAIN rows' = DOMAIN rows \cup Fresh
  BY <1>1, <1>2 DEF LiveRows, LiveDocs, Fresh, RowsKept
<1>4. \A s \in DOMAIN rows :
        /\ rows'[s].current = (rows[s].current /\ s \notin Heads(D))
        /\ rows'[s].doc = rows[s].doc /\ rows'[s].parent = rows[s].parent
        /\ rows'[s].deleted = rows[s].deleted /\ docs'[rows'[s].doc].tree = TreeOf(s)
  BY <1>1, <1>2 DEF RowsKept, BulkRows, TreeOf
<1>5. \A h \in Heads(D) : h \in LiveRows /\ h \in DOMAIN rows /\ rows[h].current
  BY DEF Heads, Active, LiveRows
<1>6. ASSUME NEW n \in Fresh
      PROVE  \E h \in Heads(D) :
               /\ rows'[n].parent = h /\ rows'[n].doc = rows[h].doc
               /\ rows'[n].version = rows[h].version /\ rows'[n].deleted = TRUE
               /\ rows'[n].current = TRUE /\ docs'[rows'[n].doc].tree = TreeOf(h)
  BY <1>1, <1>2, <1>6 DEF BulkRows, TreeOf
<1>7. \A h \in Heads(D) : \A s \in LiveRows : rows[s].current /\ TreeOf(s) = TreeOf(h) => s = h
  BY <1>5 DEF Orderly, Placed
<1>8. ASSUME NEW h \in Heads(D), NEW n \in Fresh, rows'[n].parent = h,
             NEW s \in LiveRows', rows'[s].current, docs'[rows'[s].doc].tree = TreeOf(h)
      PROVE  s = n
  <2>1. CASE s \in Fresh
    <3>1. PICK g \in Heads(D) : rows'[s].parent = g /\ TreeOf(g) = TreeOf(h)
      BY <1>6, <1>8, <2>1
    <3>2. g = h
      BY <1>5, <1>7, <3>1
    <3>3. QED
      BY <1>1, <1>8, <2>1, <3>1, <3>2 DEF BulkRows
  <2>2. CASE s \notin Fresh
    <3>1. s \in LiveRows /\ s \in DOMAIN rows
      BY <1>3, <1>8, <2>2 DEF LiveRows
    <3>2. rows[s].current /\ s \notin Heads(D) /\ TreeOf(s) = TreeOf(h)
      BY <1>4, <1>8, <3>1
    <3>3. QED
      BY <1>7, <3>1, <3>2
  <2>3. QED
    BY <2>1, <2>2
<1>9. Placed'
  <2>1. SUFFICES ASSUME NEW x \in LiveRows', NEW y \in LiveRows', rows'[x].current, rows'[y].current,
                        docs'[rows'[x].doc].tree = docs'[rows'[y].doc].tree
                 PROVE  x = y
    BY DEF Placed, TreeOf
  <2>2. CASE x \in Fresh
    <3>1. PICK h \in Heads(D) : rows'[x].parent = h /\ docs'[rows'[x].doc].tree = TreeOf(h)
      BY <1>6, <2>2
    <3>2. QED
      BY <1>8, <2>1, <2>2, <3>1
  <2>3. CASE y \in Fresh
    <3>1. PICK h \in Heads(D) : rows'[y].parent = h /\ docs'[rows'[y].doc].tree = TreeOf(h)
      BY <1>6, <2>3
    <3>2. QED
      BY <1>8, <2>1, <2>3, <3>1
  <2>4. CASE x \notin Fresh /\ y \notin Fresh
    <3>1. x \in LiveRows /\ y \in LiveRows /\ x \in DOMAIN rows /\ y \in DOMAIN rows
      BY <1>3, <2>1, <2>4 DEF LiveRows
    <3>2. rows[x].current /\ rows[y].current /\ TreeOf(x) = TreeOf(y)
      BY <1>4, <2>1, <3>1
    <3>3. QED
      BY <3>1, <3>2 DEF Orderly, Placed
  <2>5. QED
    BY <2>2, <2>3, <2>4
<1>10. HeadsCurrent'
  <2>1. SUFFICES ASSUME NEW s \in LiveRows', rows'[s].current PROVE docs[rows'[s].doc].current
    BY <1>2 DEF HeadsCurrent
  <2>2. CASE s \in Fresh
    BY <1>5, <1>6, <2>2 DEF Orderly, HeadsCurrent
  <2>3. CASE s \notin Fresh
    BY <1>3, <1>4, <2>1, <2>3 DEF Orderly, HeadsCurrent, LiveRows
  <2>4. QED
    BY <2>2, <2>3
<1>11. CurrentPlaced'
  <2>1. SUFFICES ASSUME NEW e \in LiveDocs, docs[e].current
                 PROVE  \E s \in LiveRows' : rows'[s].current /\ rows'[s].doc = e
    BY <1>2, <1>3 DEF CurrentPlaced
  <2>2. PICK s \in LiveRows : rows[s].current /\ rows[s].doc = e
    BY <2>1 DEF Orderly, CurrentPlaced
  <2>3. CASE s \in Heads(D)
    <3>1. PICK n \in Fresh : rows'[n].parent = s
      BY <1>1, <2>3 DEF BulkRows
    <3>2. rows'[n].doc = e /\ rows'[n].current
      BY <1>6, <2>2, <3>1
    <3>3. QED
      BY <1>3, <3>2
  <2>4. CASE s \notin Heads(D)
    BY <1>3, <1>4, <2>2, <2>4 DEF LiveRows
  <2>5. QED
    BY <2>3, <2>4
<1>12. ErasedGone'
  BY <1>2, <1>4 DEF Orderly, ErasedGone
<1>13. ContentDescends'
  <2>1. SUFFICES ASSUME NEW s \in DOMAIN rows', rows'[s].parent # 0,
                        rows'[s].doc # rows'[rows'[s].parent].doc
                 PROVE  /\ rows'[s].parent \in DOMAIN rows'
                        /\ docs[rows'[s].doc].parent = rows'[rows'[s].parent].doc
    BY <1>2 DEF ContentDescends
  <2>2. ASSUME s \in Fresh PROVE FALSE
    <3>1. PICK h \in Heads(D) : rows'[s].parent = h /\ rows'[s].doc = rows[h].doc
      BY <1>6, <2>2
    <3>2. rows'[h].doc = rows[h].doc
      BY <1>4, <1>5
    <3>3. QED
      BY <2>1, <3>1, <3>2
  <2>3. s \in DOMAIN rows
    BY <1>3, <2>2
  <2>4. PICK b \in DOMAIN rows : b = rows[s].parent
    BY <1>4, <2>1, <2>3, Parents
  <2>5. QED
    BY <1>3, <1>4, <2>1, <2>3, <2>4 DEF Orderly, ContentDescends
<1>14. ASSUME NEW h \in Heads(D)
       PROVE  \E n \in DOMAIN rows' :
                /\ {s \in LiveRows' : rows'[s].current /\ docs'[rows'[s].doc].tree = TreeOf(h)} = {n}
                /\ rows'[n].version = rows[h].version /\ rows'[n].deleted = TRUE
  <2>1. PICK n \in Fresh : rows'[n].parent = h
    BY <1>1 DEF BulkRows
  <2>2. /\ n \in LiveRows' /\ n \in DOMAIN rows' /\ rows'[n].current
        /\ docs'[rows'[n].doc].tree = TreeOf(h)
        /\ rows'[n].version = rows[h].version /\ rows'[n].deleted = TRUE
    BY <1>3, <1>6, <2>1
  <2>3. QED
    BY <1>8, <2>1, <2>2
<1>15. ASSUME NEW t, \A h \in Heads(D) : TreeOf(h) # t
       PROVE  {s \in LiveRows' : rows'[s].current /\ docs'[rows'[s].doc].tree = t} = CurrentRows(t)
  <2>1. ASSUME NEW s \in LiveRows', rows'[s].current, docs'[rows'[s].doc].tree = t
        PROVE  s \in CurrentRows(t)
    <3>1. s \notin Fresh
      BY <1>6, <1>15, <2>1
    <3>2. s \in LiveRows /\ s \in DOMAIN rows
      BY <1>3, <2>1, <3>1 DEF LiveRows
    <3>3. QED
      BY <1>4, <2>1, <3>2 DEF CurrentRows, TreeOf
  <2>2. ASSUME NEW s \in CurrentRows(t)
        PROVE  s \in LiveRows' /\ rows'[s].current /\ docs'[rows'[s].doc].tree = t
    BY <1>3, <1>4, <1>15, <2>2 DEF CurrentRows, LiveRows, TreeOf
  <2>3. QED
    BY <2>1, <2>2
<1>16. Orderly'
  BY <1>9, <1>10, <1>11, <1>12, <1>13 DEF Orderly
<1>17. \A t : CurrentRows(t)' = {s \in LiveRows' : rows'[s].current /\ docs'[rows'[s].doc].tree = t}
  BY DEF CurrentRows
<1>18. ASSUME NEW t, \E h \in Heads(D) : TreeOf(h) = t
       PROVE  \E h \in Heads(D), n \in DOMAIN rows' :
                /\ TreeOf(h) = t /\ CurrentRows(t)' = {n}
                /\ rows'[n].version = rows[h].version /\ rows'[n].deleted = TRUE
  BY <1>14, <1>17, <1>18
<1>19. ASSUME NEW t, ~ \E h \in Heads(D) : TreeOf(h) = t
       PROVE  CurrentRows(t)' = CurrentRows(t)
  BY <1>15, <1>17, <1>19
<1>20. QED
  BY <1>16, <1>18, <1>19

-----------------------------------------------------------------------------
(* The invariant *)

\* A request that reads remembers what is there, and writes nothing.
Looks(q) ==
  \/ \E p \in Paths : ImportLooks(q, p)
  \/ \E r \in DOMAIN rows :
       SoftDeleteLooks(q, r) \/ RestoreLooks(q, r) \/ RestoreVersionFinds(q, r) \/ EraseLooks(q, r)
  \/ \E old, d \in DOMAIN docs : RestoreVersionLooks(q, old, d)

LEMMA LooksStep ==
  ASSUME PathsInv, NEW q \in Requests, Looks(q) \/ Leaves(q)
  PROVE  PathsInv' /\ UNCHANGED <<rows, docs, erased, lost, raced>>
<1>1. UNCHANGED <<rows, docs, erased, lost, raced>>
  BY DEF Looks, Leaves, ImportLooks, SoftDeleteLooks, RestoreLooks, RestoreVersionFinds, EraseLooks,
         RestoreVersionLooks, Reads
<1>2. \E w : /\ Remembers(w) /\ req' = [req EXCEPT ![q] = w]
             /\ w.op \in {"idle", "import", "trash", "restore", "find", "version", "erase"}
  <2>1. CASE \E p \in Paths : ImportLooks(q, p)
    <3>1. PICK p \in Paths : ImportLooks(q, p)
      BY <2>1
    <3> DEFINE w == [op |-> "import", path |-> p,
                     found |-> {r \in LiveRows : Active(r) /\ rows[r].path = p}]
    <3>2. Remembers(w) /\ w.op = "import"
      BY DEF Remembers, LiveRows
    <3>3. QED
      BY <3>1, <3>2 DEF ImportLooks, Reads
  <2>2. CASE \E r \in DOMAIN rows : SoftDeleteLooks(q, r)
    <3>1. PICK r \in DOMAIN rows : SoftDeleteLooks(q, r)
      BY <2>2
    <3> DEFINE w == [op |-> "trash", row |-> r]
    <3>2. Remembers(w) /\ w.op = "trash"
      BY <3>1 DEF Remembers, SoftDeleteLooks, Active
    <3>3. req' = [req EXCEPT ![q] = w]
      BY <3>1 DEF SoftDeleteLooks, Reads
    <3> HIDE DEF w
    <3>4. QED
      BY <3>2, <3>3
  <2>3. CASE \E r \in DOMAIN rows : RestoreLooks(q, r)
    <3>1. PICK r \in DOMAIN rows : RestoreLooks(q, r)
      BY <2>3
    <3> DEFINE w == [op |-> "restore", row |-> r]
    <3>2. Remembers(w) /\ w.op = "restore"
      BY <3>1 DEF Remembers, RestoreLooks, Trashed
    <3>3. req' = [req EXCEPT ![q] = w]
      BY <3>1 DEF RestoreLooks, Reads
    <3> HIDE DEF w
    <3>4. QED
      BY <3>2, <3>3
  <2>4. CASE \E r \in DOMAIN rows : RestoreVersionFinds(q, r)
    <3>1. PICK r \in DOMAIN rows : RestoreVersionFinds(q, r)
      BY <2>4
    <3> DEFINE w == [op |-> "version", doc |-> req[q].doc, row |-> r]
    <3>2. Remembers(w) /\ w.op = "version"
      BY <3>1 DEF PathsInv, Requested, Remembers, RestoreVersionFinds, Active, TreeOf
    <3>3. req' = [req EXCEPT ![q] = w]
      BY <3>1 DEF RestoreVersionFinds
    <3>4. QED
      BY <3>2, <3>3
  <2>5. CASE \E r \in DOMAIN rows : EraseLooks(q, r)
    <3>1. PICK r \in DOMAIN rows : EraseLooks(q, r)
      BY <2>5
    <3> DEFINE w == [op |-> "erase", doc |-> rows[r].doc,
                     found |-> {s \in LiveRows : rows[s].doc = rows[r].doc}]
    <3>2. Remembers(w) /\ w.op = "erase"
      BY DEF PathsInv, Linked, Remembers, LiveRows
    <3>3. QED
      BY <3>1, <3>2 DEF EraseLooks, Reads
  <2>6. CASE \E old, d \in DOMAIN docs : RestoreVersionLooks(q, old, d)
    <3>1. PICK old \in DOMAIN docs, d \in DOMAIN docs : RestoreVersionLooks(q, old, d)
      BY <2>6
    <3> DEFINE w == [op |-> "find", doc |-> d]
    <3>2. Remembers(w) /\ w.op = "find"
      BY DEF Remembers
    <3>3. req' = [req EXCEPT ![q] = w]
      BY <3>1 DEF RestoreVersionLooks, Reads
    <3> HIDE DEF w
    <3>4. QED
      BY <3>2, <3>3
  <2>7. CASE Leaves(q)
    <3>1. Remembers(Idle) /\ Idle.op = "idle"
      BY DEF Remembers, Idle
    <3>2. QED
      BY <2>7, <3>1 DEF Leaves, Ends
  <2>8. QED
    BY <2>1, <2>2, <2>3, <2>4, <2>5, <2>6, <2>7 DEF Looks
<1>3. RowsKept /\ DocsKept
  BY <1>1 DEF RowsKept, DocsKept
<1>4. Requested'
  BY <1>2, <1>3, RequestsRemember DEF PathsInv
<1>5. TypeOK'
  BY <1>1, <1>2 DEF PathsInv, TypeOK, Requested
<1>6. (Linked /\ VersionsFollowContent /\ ForeignKeys /\ PathsApart)'
  BY <1>1 DEF PathsInv, Linked, VersionsFollowContent, ForeignKeys, PathsApart, Active, LiveRows,
              LiveDocs
<1>7. Orderly => Orderly'
  BY <1>1 DEF Orderly, Placed, HeadsCurrent, CurrentPlaced, ErasedGone, ContentDescends, LiveRows,
              LiveDocs, TreeOf
<1>8. QED
  BY <1>1, <1>4, <1>5, <1>6, <1>7 DEF PathsInv

\* The steps that create a tree.
LEMMA CreateStep ==
  ASSUME PathsInv, (\E p \in Paths : AddDocument(p)) \/ \E q \in Requests : ImportCreates(q)
  PROVE  PathsInv' /\ \E p \in Paths : NewTree(p) /\ Ending
<1>1. PICK p \in Paths : NewTree(p) /\ Ending
  BY DEF AddDocument, ImportCreates, Ending, PathsInv, Requested, Remembers
<1>2. raced' = raced /\ Base'
  BY <1>1, NewTreeBase DEF PathsInv, Base
<1>3. Orderly => Orderly'
  BY <1>1, NewTreeOrderly DEF PathsInv, Base
<1>4. QED
  BY <1>1, <1>2, <1>3 DEF PathsInv, Base

\* The steps that supersede one row, by what they do until a race.
MovingStep ==
  \/ \E r \in DOMAIN rows, p \in Paths : Move(r, p)
  \/ \E q \in Requests :
       \/ ImportUpdates(q) \/ ImportRecords(q) \/ SoftDelete(q) \/ RestoreVersion(q)
       \/ \E p \in Paths : Restore(q, p)

\* What such a step does to the file of its tree.
Changed(r, n, d, p, del) ==
  \/ Active(r) /\ ~del /\ p = rows[r].path
  \/ Active(r) /\ ~del /\ d = rows[r].doc /\ p \in Paths /\ Free(p)
  \/ Active(r) /\ del /\ d = rows[r].doc
  \/ Trashed(r) /\ ~del /\ d = rows[r].doc /\ p \in Paths /\ Free(p)

LEMMA MovingMoves ==
  ASSUME PathsInv, MovingStep
  PROVE  /\ Base'
         /\ ~raced' => ~raced /\ \E r \in DOMAIN rows : \E n, d, p : \E del \in BOOLEAN :
                         Moves(r, n, d, p, del) /\ Changed(r, n, d, p, del)
<1>1. Base /\ (~raced => Orderly)
  BY DEF PathsInv, Base
<1>2. CASE \E r \in DOMAIN rows, p \in Paths : Move(r, p)
  <2>1. PICK r \in DOMAIN rows, p \in Paths : Move(r, p)
    BY <1>2
  <2>2. Base' /\ Active(r) /\ Moves(r, Len(rows) + 1, rows[r].doc, p, FALSE)
    BY <1>1, <2>1, MoveStep
  <2>3. Changed(r, Len(rows) + 1, rows[r].doc, p, FALSE) /\ raced' = raced
    BY <2>1, <2>2 DEF Changed, Move
  <2>4. QED
    BY <2>2, <2>3
<1>3. CASE \E q \in Requests : ImportUpdates(q)
  <2>1. PICK q \in Requests : ImportUpdates(q)
    BY <1>3
  <2>2. Base' /\ raced' = raced
    BY <1>1, <2>1, UpdateStep
  <2>3. PICK r \in DOMAIN rows :
          Active(r) /\ Moves(r, Len(rows) + 1, Len(docs) + 1, rows[r].path, FALSE)
    BY <1>1, <2>1, UpdateStep
  <2>4. Changed(r, Len(rows) + 1, Len(docs) + 1, rows[r].path, FALSE)
    BY <2>3 DEF Changed
  <2>5. QED
    BY <2>2, <2>3, <2>4
<1>4. CASE \E q \in Requests : ImportRecords(q)
  <2>1. PICK q \in Requests : ImportRecords(q)
    BY <1>4
  <2>2. Base' /\ raced' = raced
    BY <1>1, <2>1, RecordStep DEF ImportRecords
  <2>3. PICK r \in DOMAIN rows :
          Active(r) /\ Moves(r, Len(rows) + 1, rows[r].doc, rows[r].path, FALSE)
    BY <1>1, <2>1, RecordStep
  <2>4. Changed(r, Len(rows) + 1, rows[r].doc, rows[r].path, FALSE)
    BY <2>3 DEF Changed
  <2>5. QED
    BY <2>2, <2>3, <2>4
<1>5. CASE \E q \in Requests : SoftDelete(q)
  <2>1. PICK q \in Requests : SoftDelete(q)
    BY <1>5
  <2>2. Base'
    BY <1>1, <2>1, SoftDeleteStep
  <2>3. ASSUME ~raced'
        PROVE  ~raced /\ \E r \in DOMAIN rows :
                 Active(r) /\ Moves(r, Len(rows) + 1, rows[r].doc, rows[r].path, TRUE)
    BY <1>1, <2>1, <2>3, SoftDeleteStep
  <2>4. \A r \in DOMAIN rows : Active(r) => Changed(r, Len(rows) + 1, rows[r].doc, rows[r].path, TRUE)
    BY DEF Changed
  <2>5. QED
    BY <2>2, <2>3, <2>4
<1>6. CASE \E q \in Requests : RestoreVersion(q)
  <2>1. PICK q \in Requests : RestoreVersion(q)
    BY <1>6
  <2>2. Base'
    BY <1>1, <2>1, RestoreVersionStep
  <2>3. ASSUME ~raced'
        PROVE  ~raced /\ \E r \in DOMAIN rows :
                 Active(r) /\ Moves(r, Len(rows) + 1, Len(docs) + 1, rows[r].path, FALSE)
    BY <1>1, <2>1, <2>3, RestoreVersionStep
  <2>4. \A r \in DOMAIN rows :
          Active(r) => Changed(r, Len(rows) + 1, Len(docs) + 1, rows[r].path, FALSE)
    BY DEF Changed
  <2>5. QED
    BY <2>2, <2>3, <2>4
<1>7. CASE \E q \in Requests : \E p \in Paths : Restore(q, p)
  <2>1. PICK q \in Requests : \E p \in Paths : Restore(q, p)
    BY <1>7
  <2>2. PICK p \in Paths : Restore(q, p)
    BY <2>1
  <2>3. Base'
    BY <1>1, <2>2, RestoreStep
  <2>4. ASSUME ~raced'
        PROVE  ~raced /\ \E r \in DOMAIN rows :
                 Trashed(r) /\ Moves(r, Len(rows) + 1, rows[r].doc, p, FALSE)
    BY <1>1, <2>2, <2>4, RestoreStep
  <2>5. \A r \in DOMAIN rows : Trashed(r) => Changed(r, Len(rows) + 1, rows[r].doc, p, FALSE)
    BY <2>2 DEF Changed, Restore
  <2>6. QED
    BY <2>3, <2>4, <2>5
<1>8. QED
  BY <1>2, <1>3, <1>4, <1>5, <1>6, <1>7 DEF MovingStep

LEMMA InitInv == Init => PathsInv
<1>1. SUFFICES ASSUME Init PROVE PathsInv
  OBVIOUS
<1>2. DOMAIN rows = {} /\ DOMAIN docs = {} /\ LiveRows = {} /\ LiveDocs = {} /\ erased = {}
  BY <1>1 DEF Init, LiveRows, LiveDocs
<1>3. TypeOK
  <2>1. rows \in Seq(Row) /\ docs \in Seq(Doc)
    BY <1>1 DEF Init
  <2>2. \A q \in Requests : req[q].op = "idle"
    BY <1>1 DEF Init, Idle
  <2>3. erased = {} /\ lost = {} /\ raced \in BOOLEAN
    BY <1>1 DEF Init
  <2>4. QED
    BY <2>1, <2>2, <2>3 DEF TypeOK
<1>4. Requested
  BY <1>1 DEF Init, Requested, Remembers, Idle
<1>5. Linked /\ VersionsFollowContent /\ ForeignKeys /\ PathsApart
  BY <1>2 DEF Linked, VersionsFollowContent, ForeignKeys, PathsApart
<1>6. Orderly
  BY <1>2 DEF Orderly, Placed, HeadsCurrent, CurrentPlaced, ErasedGone, ContentDescends
<1>7. QED
  BY <1>3, <1>4, <1>5, <1>6 DEF PathsInv

LEMMA StepInv == PathsInv /\ [Next]_vars => PathsInv'
<1>1. SUFFICES ASSUME PathsInv, [Next]_vars PROVE PathsInv'
  OBVIOUS
<1>2. Base /\ (~raced => Orderly)
  BY <1>1 DEF PathsInv, Base
<1>3. CASE UNCHANGED vars
  BY <1>1, <1>3 DEF vars, PathsInv, TypeOK, Linked, Requested, Remembers, VersionsFollowContent,
    ForeignKeys, PathsApart, Active, Orderly, Placed, HeadsCurrent, CurrentPlaced, ErasedGone,
    ContentDescends, LiveRows, LiveDocs, TreeOf
<1>4. CASE MovingStep
  <2>1. Base' /\ (~raced' => Orderly')
    BY <1>1, <1>2, <1>4, MovingMoves, MovesOrderly
  <2>2. QED
    BY <2>1 DEF Base, PathsInv
<1>5. CASE \E D \in SUBSET LiveDocs : BulkTrash(D)
  <2>1. PICK D \in SUBSET LiveDocs : BulkTrash(D)
    BY <1>5
  <2>2. raced' = raced
    BY <2>1 DEF BulkTrash
  <2>3. Base'
    BY <1>2, <2>1, BulkBase
  <2>4. Orderly => Orderly'
    BY <1>2, <2>1, BulkOrderly
  <2>5. QED
    BY <1>2, <2>2, <2>3, <2>4 DEF Base, PathsInv
<1>6. CASE \E q \in Requests : Erase(q)
  <2>1. PICK q \in Requests : Erase(q)
    BY <1>6
  <2>2. ~raced' => ~raced
    BY <1>2, <2>1 DEF Erase, Race, Base, TypeOK
  <2>3. Base' /\ (~raced' => Orderly')
    BY <1>2, <2>1, <2>2, EraseBase, EraseOrderly
  <2>4. QED
    BY <2>3 DEF Base, PathsInv
<1>7. CASE (\E p \in Paths : AddDocument(p)) \/ \E q \in Requests : ImportCreates(q)
  BY <1>1, <1>7, CreateStep
<1>8. CASE \E q \in Requests : Looks(q) \/ Leaves(q)
  BY <1>1, <1>8, LooksStep
<1>9. QED
  BY <1>1, <1>3, <1>4, <1>5, <1>6, <1>7, <1>8 DEF Next, MovingStep, Looks

LEMMA PathsInvariant == Spec => []PathsInv
BY InitInv, StepInv, PTL DEF Spec

\* The model's type invariant, for every number of rows, documents and requests.
THEOREM PathTypes == Spec => []TypeOK
BY PathsInvariant, PTL DEF PathsInv

\* Whatever requests race, and whatever row an unlocked handler copies its
\* version from: versions count the content changes of a row's history.
THEOREM VersionsCount == Spec => []VersionsFollowContent
BY PathsInvariant, PTL DEF PathsInv

LEMMA InvOnePlace == PathsInv => OnePlace
<1>1. SUFFICES ASSUME PathsInv, ~raced, NEW t \in DOMAIN docs
               PROVE  /\ Cardinality(CurrentRows(t)) <= 1
                      /\ {rows[r].doc : r \in CurrentRows(t)}
                           = {d \in LiveDocs : docs[d].tree = t /\ docs[d].current}
  BY DEF OnePlace
<1>2. Base /\ Orderly
  BY <1>1 DEF PathsInv, Base
<1>3. \A r, s \in CurrentRows(t) : r = s
  BY <1>2 DEF Orderly, Placed, CurrentRows, TreeOf
<1>4. Cardinality(CurrentRows(t)) <= 1
  <2>1. CASE CurrentRows(t) = {}
    BY <2>1, FS_EmptySet
  <2>2. CASE CurrentRows(t) # {}
    <3>1. PICK r : CurrentRows(t) = {r}
      BY <1>3, <2>2
    <3>2. Cardinality({r}) = 1
      BY FS_Singleton
    <3>3. QED
      BY <3>1, <3>2
  <2>3. QED
    BY <2>1, <2>2
<1>5. ASSUME NEW r \in CurrentRows(t)
      PROVE  rows[r].doc \in LiveDocs /\ docs[rows[r].doc].tree = t /\ docs[rows[r].doc].current
  BY <1>2 DEF CurrentRows, Base, ForeignKeys, Orderly, HeadsCurrent
<1>6. ASSUME NEW d \in LiveDocs, docs[d].tree = t, docs[d].current
      PROVE  \E r \in CurrentRows(t) : rows[r].doc = d
  BY <1>2, <1>6 DEF CurrentRows, Orderly, CurrentPlaced
<1>7. QED
  BY <1>4, <1>5, <1>6

\* Until an unlocked request writes over a superseded row, every document has
\* one place and points to its current content, whatever else overlaps.
THEOREM OneFileOneRow == Spec => []OnePlace
BY PathsInvariant, InvOnePlace, PTL

-----------------------------------------------------------------------------
(* The refinement of CorpusFiles *)

files == [t \in Trees |-> FileOf(t)]

Root(t) == t \in DOMAIN docs /\ docs[t].tree = t

FileAt(r) == [place |-> IF rows[r].deleted THEN "trash" ELSE rows[r].path, version |-> rows[r].version]

\* The file of a tree with one current row is what that row says.
FilesShow ==
  \A t : /\ ~Root(t) => FileOf(t) = [place |-> "nowhere", version |-> 0]
         /\ Root(t) /\ CurrentRows(t) = {} => FileOf(t) = [place |-> "gone", version |-> 0]
         /\ \A r : Root(t) /\ CurrentRows(t) = {r} => FileOf(t) = FileAt(r)

LEMMA Showing == FilesShow /\ FilesShow'
<1>1. \A r : (CHOOSE x \in {r} : TRUE) = r
  OBVIOUS
<1>2. FilesShow
  BY <1>1 DEF FilesShow, FileOf, Root, FileAt
<1>3. FilesShow'
  BY <1>1 DEF FilesShow, FileOf, Root, FileAt
<1>4. QED
  BY <1>2, <1>3

\* The bound on documents bounds the trees.
LEMMA OneMoreDoc ==
  ASSUME Base, Len(docs) < MaxDocs, NEW f \in [DOMAIN docs -> Doc], NEW x \in Doc,
         docs' = Append(f, x)
  PROVE  Len(docs') <= MaxDocs
<1>1. DOMAIN docs = 1..Len(docs) /\ Len(docs) \in Nat
  BY Domains DEF Base
<1>2. f \in Seq(Doc) /\ Len(f) = Len(docs)
  <2>1. \A T : \A n \in Nat : \A g \in [1..n -> T] : g \in Seq(T) /\ Len(g) = n
    OBVIOUS
  <2>2. f \in [1..Len(docs) -> Doc]
    BY <1>1
  <2>3. QED
    BY <1>1, <2>1, <2>2
<1>3. Len(docs') = Len(f) + 1
  BY <1>2, Appending
<1>4. QED
  BY <1>1, <1>2, <1>3

LEMMA DocsBounded ==
  ASSUME PathsInv, Len(docs) <= MaxDocs, [Next]_vars
  PROVE  Len(docs') <= MaxDocs
<1>1. Base
  BY DEF PathsInv, Base
<1>2. /\ \A d \in DOMAIN docs : docs[d] \in Doc
      /\ docs \in [DOMAIN docs -> Doc]
      /\ DOMAIN docs = 1..Len(docs) /\ Len(docs) \in Nat
  <2>1. \A d \in DOMAIN docs : docs[d] \in Doc
    BY <1>1, Domains DEF Base
  <2>2. docs = [d \in DOMAIN docs |-> docs[d]]
    BY <1>1 DEF Base, TypeOK
  <2>3. QED
    BY <1>1, <2>1, <2>2, Domains DEF Base
<1>3. CASE docs' = docs
  BY <1>3
<1>4. CASE \E p : NewTree(p)
  <2>1. /\ Len(docs) < MaxDocs /\ docs' = Append(docs, NewVersion(Len(docs) + 1, 0))
    BY <1>4 DEF NewTree
  <2>2. NewVersion(Len(docs) + 1, 0) \in Doc
    BY <1>2 DEF NewVersion, Doc
  <2>3. QED
    BY <1>1, <1>2, <2>1, <2>2, OneMoreDoc
<1>5. CASE \E q \in Requests : ImportUpdates(q)
  <2>1. PICK q \in Requests : ImportUpdates(q)
    BY <1>5
  <2>2. PICK r \in Locked(q) :
          docs' = Append([d \in DOMAIN docs |-> IF docs[d].tree = TreeOf(r)
                                                THEN [docs[d] EXCEPT !.current = FALSE]
                                                ELSE docs[d]],
                         NewVersion(TreeOf(r), rows[r].doc))
    BY <2>1 DEF ImportUpdates, TreeOf
  <2> DEFINE aside == [d \in DOMAIN docs |-> IF docs[d].tree = TreeOf(r)
                                             THEN [docs[d] EXCEPT !.current = FALSE] ELSE docs[d]]
  <2>3. aside \in [DOMAIN docs -> Doc]
    <3>1. \A d \in DOMAIN docs : [docs[d] EXCEPT !.current = FALSE] \in Doc
      BY <1>2 DEF Doc
    <3>2. QED
      BY <1>2, <3>1
  <2>4. NewVersion(TreeOf(r), rows[r].doc) \in Doc
    <3>1. r \in DOMAIN rows
      BY DEF Locked, Active, LiveRows
    <3>2. TreeOf(r) \in Nat \ {0} /\ rows[r].doc \in Nat
      BY <1>1, <3>1, RowFacts
    <3>3. QED
      BY <3>2 DEF NewVersion, Doc
  <2>5. docs' = Append(aside, NewVersion(TreeOf(r), rows[r].doc)) /\ Len(docs) < MaxDocs
    BY <2>1, <2>2 DEF ImportUpdates
  <2> HIDE DEF aside
  <2>6. QED
    BY <1>1, <2>3, <2>4, <2>5, OneMoreDoc
<1>6. CASE \E q \in Requests : RestoreVersion(q)
  <2>1. PICK q \in Requests : RestoreVersion(q)
    BY <1>6
  <2>2. PICK d : d = req[q].doc
    OBVIOUS
  <2>3. /\ docs' = Append([docs EXCEPT ![d].current = FALSE], NewVersion(docs[d].tree, d))
        /\ Len(docs) < MaxDocs
    BY <2>1, <2>2 DEF RestoreVersion
  <2>4. d \in DOMAIN docs
    BY <1>1, <2>1, <2>2 DEF RestoreVersion, Base, Requested, Remembers
  <2>5. [docs EXCEPT ![d].current = FALSE] \in [DOMAIN docs -> Doc]
    <3>1. [docs[d] EXCEPT !.current = FALSE] \in Doc
      BY <1>2, <2>4 DEF Doc
    <3>2. QED
      BY <1>2, <2>4, <3>1
  <2>6. NewVersion(docs[d].tree, d) \in Doc
    BY <1>2, <2>4 DEF NewVersion, Doc
  <2>7. QED
    BY <1>1, <2>3, <2>5, <2>6, OneMoreDoc
<1>7. ASSUME NEW q \in Requests,
             \/ \E p \in Paths : ImportLooks(q, p) \/ Restore(q, p)
             \/ ImportRecords(q) \/ SoftDelete(q) \/ Erase(q) \/ Leaves(q)
             \/ \E r \in DOMAIN rows :
                  SoftDeleteLooks(q, r) \/ RestoreLooks(q, r) \/ RestoreVersionFinds(q, r) \/ EraseLooks(q, r)
             \/ \E old, d \in DOMAIN docs : RestoreVersionLooks(q, old, d)
      PROVE  docs' = docs
  BY <1>7 DEF ImportLooks, Restore, ImportRecords, SoftDeleteLooks, RestoreLooks, RestoreVersionFinds,
    EraseLooks, RestoreVersionLooks, SoftDelete, Erase, Leaves, Reads
<1>8. CASE \/ \E r \in DOMAIN rows, p \in Paths : Move(r, p)
           \/ \E D \in SUBSET LiveDocs : BulkTrash(D)
           \/ UNCHANGED vars
  BY <1>3, <1>8 DEF Move, BulkTrash, vars
<1>9. CASE \E p \in Paths : AddDocument(p)
  BY <1>4, <1>9 DEF AddDocument
<1>10. ASSUME NEW q \in Requests, ImportCreates(q)
       PROVE  Len(docs') <= MaxDocs
  BY <1>4, <1>10 DEF ImportCreates
<1>11. QED
  BY <1>3, <1>5, <1>6, <1>7, <1>8, <1>9, <1>10 DEF Next

\* The entry of t in the table f is rewritten, and g is what results.
Rewritten(f, g, t, a, v, b, w) ==
  /\ f = [u \in Trees |-> f[u]] /\ f[t] = [place |-> a, version |-> v]
  /\ g = [u \in Trees |-> IF u = t THEN [place |-> b, version |-> w] ELSE f[u]]

Raised(f, t) == [f EXCEPT ![t].version = @ + 1]

Relocated(f, t, p) == [f EXCEPT ![t].place = p]

\* What one entry of a table of files may become.
LEMMA Rewriting ==
  ASSUME NEW f, NEW g, NEW t \in Trees, NEW a, NEW v \in Nat, NEW b, NEW w,
         Rewritten(f, g, t, a, v, b, w)
  PROVE  /\ a = b /\ w = v => g = f
         /\ a = b /\ w = v + 1 => g = Raised(f, t)
         /\ w = v => g = Relocated(f, t, b)
<1>1. \A u \in Trees : u # t => g[u] = f[u]
  BY DEF Rewritten
<1>2. g[t] = [place |-> b, version |-> w] /\ f[t] = [place |-> a, version |-> v]
  BY DEF Rewritten
<1>3. f = [u \in Trees |-> f[u]] /\ g = [u \in Trees |-> g[u]]
  BY DEF Rewritten
<1>4. ASSUME a = b, w = v PROVE g = f
  BY <1>1, <1>2, <1>3, <1>4
<1>5. ASSUME a = b, w = v + 1 PROVE g = Raised(f, t)
  <2>1. g[t] = [f[t] EXCEPT !.version = @ + 1]
    BY <1>2, <1>5
  <2>2. QED
    BY <1>1, <1>3, <2>1 DEF Raised, Relocated
<1>6. ASSUME w = v PROVE g = Relocated(f, t, b)
  <2>1. g[t] = [f[t] EXCEPT !.place = b]
    BY <1>2, <1>6
  <2>2. QED
    BY <1>1, <1>3, <2>1 DEF Raised, Relocated
<1>7. QED
  BY <1>4, <1>5, <1>6

\* The tree of a current row shows that row.
LEMMA CurrentShows ==
  ASSUME Base, Orderly, Len(docs) <= MaxDocs, NEW r \in LiveRows, rows[r].current
  PROVE  /\ CurrentRows(TreeOf(r)) = {r} /\ Root(TreeOf(r)) /\ TreeOf(r) \in Trees
         /\ FileOf(TreeOf(r)) = FileAt(r)
<1>1. r \in DOMAIN rows /\ TreeOf(r) \in DOMAIN docs
  BY RowFacts DEF LiveRows
<1>2. TreeOf(r) \in Trees
  BY <1>1, Domains DEF Base, Trees
<1>3. Root(TreeOf(r))
  BY <1>1 DEF Base, Linked, Root, TreeOf
<1>4. CurrentRows(TreeOf(r)) = {r}
  BY DEF CurrentRows, Orderly, Placed, TreeOf
<1>5. QED
  BY <1>2, <1>3, <1>4, Showing DEF FilesShow

\* A path that no active row has is free in the file system.
LEMMA FreeFile ==
  ASSUME Base, Orderly, NEW p \in Paths, Free(p)
  PROVE  Files!Free(p)
<1>1. SUFFICES ASSUME NEW t \in Trees, FileOf(t).place = p PROVE FALSE
  BY DEF Files!Free
<1>2. p # "nowhere" /\ p # "gone" /\ p # "trash"
  BY PathsAssumption
<1>3. Root(t) /\ CurrentRows(t) # {}
  BY <1>1, <1>2, Showing DEF FilesShow
<1>4. PICK r \in CurrentRows(t) : CurrentRows(t) = {r}
  BY <1>3 DEF CurrentRows, Orderly, Placed, TreeOf
<1>5. FileOf(t) = FileAt(r) /\ r \in LiveRows /\ rows[r].current
  BY <1>3, <1>4, Showing DEF FilesShow, CurrentRows
<1>6. Active(r) /\ rows[r].path = p
  BY <1>1, <1>2, <1>5 DEF FileAt, Active
<1>7. QED
  BY <1>5, <1>6 DEF Free

\* A tree whose current row stays shows the same file.
LEMMA OtherFile ==
  ASSUME Base, Orderly, RowsKept, NEW t, Root(t)' <=> Root(t), CurrentRows(t)' = CurrentRows(t)
  PROVE  FileOf(t)' = FileOf(t)
<1>1. CASE ~Root(t)
  BY <1>1, Showing DEF FilesShow
<1>2. CASE Root(t) /\ CurrentRows(t) = {}
  BY <1>2, Showing DEF FilesShow
<1>3. CASE Root(t) /\ CurrentRows(t) # {}
  <2>1. PICK r \in CurrentRows(t) : CurrentRows(t) = {r}
    BY <1>3 DEF CurrentRows, Orderly, Placed, TreeOf
  <2>2. FileAt(r)' = FileAt(r)
    BY DEF FileAt, RowsKept, CurrentRows, LiveRows
  <2>3. FileOf(t) = FileAt(r) /\ FileOf(t)' = FileAt(r)'
    BY <1>3, <2>1, Showing DEF FilesShow
  <2>4. QED
    BY <2>2, <2>3
<1>4. QED
  BY <1>1, <1>2, <1>3

LEMMA RootsKept ==
  ASSUME DocsKept, \A e \in DOMAIN docs' \ DOMAIN docs : docs'[e].tree # e
  PROVE  \A t : Root(t)' <=> Root(t)
BY DEF Root, DocsKept

\* A row that gives way to its successor: the file of its tree alone changes,
\* as one of the operations of CorpusFiles or not at all.
LEMMA MovesFiles ==
  ASSUME Base, Orderly, Base', Len(docs) <= MaxDocs, NEW r, NEW n, NEW d, NEW p, NEW del \in BOOLEAN,
         Moves(r, n, d, p, del), Changed(r, n, d, p, del)
  PROVE  files' = files \/ Files!Next
<1>1. /\ r \in LiveRows /\ r \in DOMAIN rows /\ rows[r].current /\ RowsKept /\ DocsKept
      /\ rows'[n].path = p /\ rows'[n].deleted = del
      /\ rows'[n].version = rows[r].version + (IF d = rows[r].doc THEN 0 ELSE 1)
      /\ docs' = docs \/ VersionAt(d, TreeOf(r), rows[r].doc)
  BY DEF Moves, EventAt, LiveRows
<1>2. PICK t : t = TreeOf(r)
  OBVIOUS
<1>3. /\ t \in Trees /\ t \in DOMAIN docs /\ CurrentRows(t) = {r} /\ Root(t) /\ FileOf(t) = FileAt(r)
  BY <1>1, <1>2, CurrentShows DEF Root
<1>4. \A u : CurrentRows(u)' = IF u = t THEN {n} ELSE CurrentRows(u)
  BY <1>2, MovesOrderly
<1>5. \A u : Root(u)' <=> Root(u)
  <2>1. \A e \in DOMAIN docs' \ DOMAIN docs : docs'[e].tree # e
    BY <1>1, <1>2, <1>3 DEF VersionAt
  <2>2. QED
    BY <1>1, <2>1, RootsKept
<1>6. PICK v \in Nat : v = rows[r].version
  BY <1>1, Domains DEF Base, Row
<1>7. PICK a, b, w : /\ a = IF rows[r].deleted THEN "trash" ELSE rows[r].path
                     /\ b = IF del THEN "trash" ELSE p
                     /\ w = v + (IF d = rows[r].doc THEN 0 ELSE 1)
  OBVIOUS
<1>8. FileOf(t)' = [place |-> b, version |-> w]
  <2>1. FileOf(t)' = FileAt(n)'
    BY <1>3, <1>4, <1>5, Showing DEF FilesShow
  <2>2. QED
    BY <1>1, <1>6, <1>7, <2>1 DEF FileAt
<1>9. FileOf(t) = [place |-> a, version |-> v]
  BY <1>3, <1>6, <1>7 DEF FileAt
<1>10. \A u \in Trees : u # t => FileOf(u)' = FileOf(u)
  BY <1>1, <1>4, <1>5, OtherFile
<1>11. PICK f, g : f = files /\ g = files'
  OBVIOUS
<1>12. Rewritten(f, g, t, a, v, b, w)
  <2>1. f = [u \in Trees |-> FileOf(u)]
    BY <1>11 DEF files
  <2>2. g = [u \in Trees |-> FileOf(u)']
    BY <1>11 DEF files, Trees
  <2>3. QED
    BY <1>3, <1>8, <1>9, <1>10, <2>1, <2>2 DEF Rewritten
<1>13. /\ a = b /\ w = v => g = f
       /\ a = b /\ w = v + 1 => g = Raised(f, t)
       /\ w = v => g = Relocated(f, t, b)
  BY <1>3, <1>6, <1>12, Rewriting
<1>14. d = rows[r].doc => w = v
  BY <1>6, <1>7
<1>15. f[t].place = a
  BY <1>12 DEF Rewritten
<1>16. rows[r].path \in Paths
  BY <1>1, RowFacts
<1>17. CASE Active(r) /\ ~del /\ p = rows[r].path
  <2>1. a = b /\ a \in Paths
    BY <1>7, <1>16, <1>17 DEF Active
  <2>2. w = v \/ w = v + 1
    BY <1>6, <1>7
  <2>3. CASE w = v
    BY <1>11, <1>13, <2>1, <2>3
  <2>4. CASE w = v + 1
    <3>1. files' = [files EXCEPT ![t].version = @ + 1] /\ files[t].place \in Paths
      BY <1>11, <1>13, <1>15, <2>1, <2>4 DEF Raised
    <3>2. Files!Update(t)
      BY <3>1 DEF Files!Update, Files!InPlace, files
    <3>3. QED
      BY <1>3, <3>2 DEF Files!Next
  <2>5. QED
    BY <2>2, <2>3, <2>4
<1>18. CASE Active(r) /\ ~del /\ d = rows[r].doc /\ p \in Paths /\ Free(p)
  <2>1. b = p /\ a \in Paths
    BY <1>7, <1>16, <1>18 DEF Active
  <2>2. files' = [files EXCEPT ![t].place = p] /\ files[t].place \in Paths
    BY <1>11, <1>13, <1>14, <1>15, <1>18, <2>1 DEF Relocated
  <2>3. Files!Free(p)
    BY <1>18, FreeFile
  <2>4. Files!Move(t, p)
    BY <2>2, <2>3 DEF Files!Move, Files!InPlace, files
  <2>5. QED
    BY <1>3, <1>18, <2>4 DEF Files!Next
<1>19. CASE Active(r) /\ del /\ d = rows[r].doc
  <2>1. b = "trash" /\ a \in Paths /\ w = v
    BY <1>7, <1>14, <1>16, <1>19 DEF Active
  <2>2. /\ files[t].place \in Paths /\ \A u \in Trees : u # t => files'[u] = files[u]
        /\ files'[t] = [files[t] EXCEPT !.place = "trash"]
        /\ files' = [u \in Trees |-> files'[u]]
    <3>1. f[t].place \in Paths /\ \A u \in Trees : u # t => g[u] = f[u]
      BY <1>12, <1>15, <2>1 DEF Rewritten
    <3>2. g[t] = [f[t] EXCEPT !.place = "trash"]
      BY <1>3, <1>12, <2>1 DEF Rewritten
    <3>3. g = [u \in Trees |-> g[u]]
      BY <1>12 DEF Rewritten
    <3>4. QED
      BY <1>11, <3>1, <3>2, <3>3
  <2>3. files' = [u \in Trees |-> IF u \in {t} THEN [files[u] EXCEPT !.place = "trash"] ELSE files[u]]
    BY <2>2
  <2>4. Files!Trash({t})
    BY <2>2, <2>3 DEF Files!Trash, Files!InPlace, files
  <2>5. QED
    BY <1>3, <2>4 DEF Files!Next
<1>20. CASE Trashed(r) /\ ~del /\ d = rows[r].doc /\ p \in Paths /\ Free(p)
  <2>1. b = p /\ a = "trash"
    BY <1>7, <1>20 DEF Trashed
  <2>2. files' = [files EXCEPT ![t].place = p] /\ files[t].place = "trash"
    BY <1>11, <1>13, <1>14, <1>15, <1>20, <2>1 DEF Relocated
  <2>3. Files!Free(p)
    BY <1>20, FreeFile
  <2>4. Files!Restore(t, p)
    BY <2>2, <2>3 DEF Files!Restore, Files!InTrash, files
  <2>5. QED
    BY <1>3, <1>20, <2>4 DEF Files!Next
<1>21. QED
  BY <1>17, <1>18, <1>19, <1>20 DEF Changed

\* A new tree is a file that was nowhere.
LEMMA CreateFiles ==
  ASSUME Base, Orderly, Ending, NEW p \in Paths, NewTree(p)
  PROVE  Files!Next
<1>1. PICK n, t : n = Len(rows) + 1 /\ t = Len(docs) + 1
  OBVIOUS
<1>2. /\ DOMAIN rows' = DOMAIN rows \cup {n} /\ n \notin DOMAIN rows
      /\ DOMAIN docs' = DOMAIN docs \cup {t} /\ t \notin DOMAIN docs
      /\ \A s \in DOMAIN rows : rows'[s] = rows[s]
      /\ \A e \in DOMAIN docs : docs'[e] = docs[e]
      /\ rows'[n] = [doc |-> t, path |-> p, version |-> 1, parent |-> 0,
                     current |-> TRUE, deleted |-> FALSE]
      /\ docs'[t] = NewVersion(t, 0)
  BY <1>1, NewTreeBase
<1>3. t \in Trees
  BY <1>1, Domains DEF Base, NewTree, Trees
<1>4. RowsKept /\ ~Root(t) /\ Root(t)' /\ \A u : u # t => (Root(u)' <=> Root(u))
  BY <1>2 DEF RowsKept, Root, NewVersion
<1>5. \A u : CurrentRows(u)' = IF u = t THEN {n} ELSE CurrentRows(u)
  BY <1>1, NewTreeOrderly
<1>6. FileOf(t)' = [place |-> p, version |-> 1]
  <2>1. FileOf(t)' = FileAt(n)'
    BY <1>4, <1>5, Showing DEF FilesShow
  <2>2. QED
    BY <1>2, <2>1 DEF FileAt
<1>7. FileOf(t) = [place |-> "nowhere", version |-> 0]
  BY <1>4, Showing DEF FilesShow
<1>8. \A u \in Trees : u # t => FileOf(u)' = FileOf(u)
  BY <1>4, <1>5, OtherFile
<1>9. files' = [files EXCEPT ![t] = [place |-> p, version |-> 1]]
  <2>1. files' = [u \in Trees |-> FileOf(u)']
    BY DEF files, Trees
  <2>2. QED
    BY <1>3, <1>6, <1>8, <2>1 DEF files
<1>10. files[t] = Files!Nowhere
  BY <1>3, <1>7 DEF files, Files!Nowhere
<1>11. Files!Free(p)
  BY FreeFile DEF NewTree
<1>12. Files!Import(t, p)
  BY <1>9, <1>10, <1>11 DEF Files!Import, files
<1>13. QED
  BY <1>3, <1>12 DEF Files!Next

\* What was in the trash is gone.
LEMMA EraseFiles ==
  ASSUME Base, Orderly, Len(docs) <= MaxDocs, NEW q \in Requests, Erase(q), ~raced'
  PROVE  Files!Next
<1>1. PICK r \in DOMAIN rows :
        Trashed(r) /\ \A u : CurrentRows(u)' = IF u = TreeOf(r) THEN {} ELSE CurrentRows(u)
  BY EraseOrderly
<1>2. PICK t : t = TreeOf(r)
  OBVIOUS
<1>3. t \in Trees /\ Root(t) /\ FileOf(t) = FileAt(r)
  BY <1>1, <1>2, CurrentShows DEF Trashed
<1>4. RowsKept /\ \A u : Root(u)' <=> Root(u)
  BY DEF Erase, RowsKept, Root
<1>5. FileOf(t)' = [place |-> "gone", version |-> 0]
  BY <1>1, <1>2, <1>3, <1>4, Showing DEF FilesShow
<1>6. \A u \in Trees : u # t => FileOf(u)' = FileOf(u)
  BY <1>1, <1>2, <1>4, OtherFile
<1>7. files' = [files EXCEPT ![t] = Files!Gone]
  <2>1. files' = [u \in Trees |-> FileOf(u)']
    BY DEF files, Trees
  <2>2. QED
    BY <1>3, <1>5, <1>6, <2>1 DEF files, Files!Gone
<1>8. files[t].place = "trash"
  BY <1>1, <1>3 DEF files, FileAt, Trashed
<1>9. Files!Erase(t)
  BY <1>7, <1>8 DEF Files!Erase, Files!InTrash, files
<1>10. QED
  BY <1>3, <1>9 DEF Files!Next

\* All the documents of a bulk deletion move to the trash in one step.
LEMMA BulkFiles ==
  ASSUME Base, Orderly, Len(docs) <= MaxDocs, NEW D, BulkTrash(D)
  PROVE  Files!Next
<1> DEFINE T == {TreeOf(h) : h \in Heads(D)}
<1>1. RowsKept /\ \A u : Root(u)' <=> Root(u)
  BY BulkAdds DEF BulkTrash, Root
<1>2. ASSUME NEW h \in Heads(D)
      PROVE  /\ TreeOf(h) \in Trees /\ Root(TreeOf(h)) /\ FileOf(TreeOf(h)) = FileAt(h)
             /\ CurrentRows(TreeOf(h)) = {h} /\ rows[h].path \in Paths /\ ~rows[h].deleted
  <2>1. h \in LiveRows /\ rows[h].current /\ h \in DOMAIN rows /\ ~rows[h].deleted
    BY DEF Heads, Active, LiveRows
  <2>2. QED
    BY <2>1, CurrentShows, RowFacts
<1>3. ASSUME NEW u \in T
      PROVE  /\ FileOf(u).place \in Paths
             /\ FileOf(u)' = [FileOf(u) EXCEPT !.place = "trash"]
  <2>1. PICK h \in Heads(D), n \in DOMAIN rows' :
          /\ TreeOf(h) = u /\ CurrentRows(u)' = {n}
          /\ rows'[n].version = rows[h].version /\ rows'[n].deleted = TRUE
    BY <1>3, BulkOrderly
  <2>2. FileOf(u) = FileAt(h) /\ FileOf(u)' = FileAt(n)'
    BY <1>1, <1>2, <2>1, Showing DEF FilesShow
  <2>3. /\ FileOf(u) = [place |-> rows[h].path, version |-> rows[h].version]
        /\ FileOf(u)' = [place |-> "trash", version |-> rows[h].version]
    BY <1>2, <2>1, <2>2 DEF FileAt
  <2>4. QED
    BY <1>2, <2>3
<1>4. ASSUME NEW u \in Trees, u \notin T
      PROVE  FileOf(u)' = FileOf(u)
  <2>1. CurrentRows(u)' = CurrentRows(u)
    <3>1. ~ \E h \in Heads(D) : TreeOf(h) = u
      BY <1>4
    <3>2. QED
      BY <3>1, BulkOrderly
  <2>2. QED
    BY <1>1, <2>1, OtherFile
<1>5. T \in SUBSET Trees
  BY <1>2
<1> HIDE DEF T
<1>6. files' = [u \in Trees |-> IF u \in T THEN [files[u] EXCEPT !.place = "trash"] ELSE files[u]]
  <2>1. files' = [u \in Trees |-> FileOf(u)']
    BY DEF files, Trees
  <2>2. \A u \in Trees :
          FileOf(u)' = IF u \in T THEN [files[u] EXCEPT !.place = "trash"] ELSE files[u]
    BY <1>3, <1>4 DEF files
  <2>3. QED
    BY <2>1, <2>2
<1>7. \A u \in T : files[u].place \in Paths
  BY <1>3, <1>5 DEF files
<1>8. Files!Trash(T)
  BY <1>6, <1>7 DEF Files!Trash, Files!InPlace, files
<1>9. QED
  BY <1>5, <1>8 DEF Files!Next

LEMMA FilesInit == Init => Files!Init
<1>1. SUFFICES ASSUME Init PROVE Files!Init
  OBVIOUS
<1>2. \A t : ~Root(t)
  BY <1>1 DEF Init, Root
<1>3. \A t \in Trees : FileOf(t) = Files!Nowhere
  BY <1>2, Showing DEF FilesShow, Files!Nowhere
<1>4. QED
  BY <1>3 DEF Files!Init

LEMMA FilesStep ==
  ASSUME PathsInv, PathsInv', Len(docs) <= MaxDocs, [Next]_vars
  PROVE  raced' \/ Files!Next \/ UNCHANGED <<raced, files>>
<1>1. SUFFICES ASSUME ~raced' PROVE Files!Next \/ UNCHANGED <<raced, files>>
  OBVIOUS
<1>2. Base /\ Base' /\ (~raced => Orderly) /\ raced \in BOOLEAN
  BY DEF PathsInv, Base, TypeOK
<1>3. CASE UNCHANGED <<rows, docs, erased, lost, raced>>
  <2>1. \A t : FileOf(t)' = FileOf(t)
    BY <1>3 DEF FileOf, CurrentRows, LiveRows
  <2>2. QED
    BY <1>3, <2>1 DEF files, Trees
<1>4. CASE MovingStep
  <2>1. PICK r \in DOMAIN rows : \E n, d, p : \E del \in BOOLEAN :
          ~raced /\ Moves(r, n, d, p, del) /\ Changed(r, n, d, p, del)
    BY <1>1, <1>4, MovingMoves
  <2>2. PICK n, d, p : \E del \in BOOLEAN :
          ~raced /\ Moves(r, n, d, p, del) /\ Changed(r, n, d, p, del)
    BY <2>1
  <2>3. PICK del \in BOOLEAN : ~raced /\ Moves(r, n, d, p, del) /\ Changed(r, n, d, p, del)
    BY <2>2
  <2>4. files' = files \/ Files!Next
    BY <1>2, <2>3, MovesFiles
  <2>5. raced' = raced
    BY <1>1, <1>2, <2>3 DEF Base, TypeOK
  <2>6. QED
    BY <2>4, <2>5
<1>5. CASE \E D \in SUBSET LiveDocs : BulkTrash(D)
  <2>1. PICK D : BulkTrash(D)
    BY <1>5
  <2>2. ~raced
    BY <1>1, <2>1 DEF BulkTrash
  <2>3. QED
    BY <1>2, <2>1, <2>2, BulkFiles
<1>6. CASE \E q \in Requests : Erase(q)
  <2>1. PICK q \in Requests : Erase(q)
    BY <1>6
  <2>2. ~raced
    BY <1>1, <1>2, <2>1 DEF Erase, Race
  <2>3. QED
    BY <1>1, <1>2, <2>1, <2>2, EraseFiles
<1>7. CASE (\E p \in Paths : AddDocument(p)) \/ \E q \in Requests : ImportCreates(q)
  <2>1. PICK p \in Paths : NewTree(p) /\ Ending
    BY <1>7, CreateStep
  <2>2. ~raced
    BY <1>1, <2>1 DEF NewTree
  <2>3. QED
    BY <1>2, <2>1, <2>2, CreateFiles
<1>8. CASE (\E q \in Requests : Looks(q) \/ Leaves(q)) \/ UNCHANGED vars
  BY <1>3, <1>8, LooksStep DEF vars
<1>9. QED
  BY <1>4, <1>5, <1>6, <1>7, <1>8 DEF Next, MovingStep, Looks

\* The rows implement the file system a corpus promises: until an unlocked
\* request writes over a superseded row, every handler is one operation on
\* files that have one place each, or changes none.
THEOREM ImplementsFiles == Spec => ActsAsFiles
<1>1. Init => Files!Init
  BY FilesInit
<1> DEFINE Bounded == Len(docs) <= MaxDocs
<1>2. Init => Bounded
  BY DEF Init
<1>3. PathsInv /\ Bounded /\ [Next]_vars => Bounded'
  BY DocsBounded
<1>4. PathsInv /\ PathsInv' /\ Bounded /\ [Next]_vars
        => [raced' \/ Files!Next]_<<raced, [t \in Trees |-> FileOf(t)]>>
  BY FilesStep DEF files
<1> HIDE DEF Bounded
<1>5. QED
  BY <1>1, <1>2, <1>3, <1>4, PathsInvariant, PTL DEF Spec, ActsAsFiles
=============================================================================
