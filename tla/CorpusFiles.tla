---------------------------- MODULE CorpusFiles ----------------------------
(* What a corpus promises of its documents, whatever rows it keeps: every  *)
(* document (a version tree) is at one place, no two documents share a     *)
(* path, content changes only in place, and what was erased never returns. *)
EXTENDS Naturals

CONSTANTS Trees, Paths

VARIABLE file

Nowhere == [place |-> "nowhere", version |-> 0]

Gone == [place |-> "gone", version |-> 0]

Free(p) == \A t \in Trees : file[t].place # p

InPlace(t) == file[t].place \in Paths

InTrash(t) == file[t].place = "trash"

Init == file = [t \in Trees |-> Nowhere]

Import(t, p) ==
    /\ file[t] = Nowhere
    /\ Free(p)
    /\ file' = [file EXCEPT ![t] = [place |-> p, version |-> 1]]

Update(t) ==
    /\ InPlace(t)
    /\ file' = [file EXCEPT ![t].version = @ + 1]

Move(t, p) ==
    /\ InPlace(t)
    /\ Free(p)
    /\ file' = [file EXCEPT ![t].place = p]

Trash(T) ==
    /\ \A t \in T : InPlace(t)
    /\ file' = [t \in Trees |-> IF t \in T THEN [file[t] EXCEPT !.place = "trash"] ELSE file[t]]

Restore(t, p) ==
    /\ InTrash(t)
    /\ Free(p)
    /\ file' = [file EXCEPT ![t].place = p]

Erase(t) ==
    /\ InTrash(t)
    /\ file' = [file EXCEPT ![t] = Gone]

Next ==
    \/ \E t \in Trees, p \in Paths : Import(t, p) \/ Move(t, p) \/ Restore(t, p)
    \/ \E t \in Trees : Update(t) \/ Erase(t)
    \/ \E T \in SUBSET Trees : Trash(T)
=============================================================================
