----------------------------- MODULE MCSyncRepo -----------------------------
(* Instances of SyncRepo for TLC. *)
EXTENDS SyncRepo

CONSTANTS p1, p2, f1, mat, mrk

\* Each side edits the first text, Paratext also the second.
EditedTexts == [e \in {p1, p2, f1} |-> IF e = p2 THEN mrk ELSE mat]
=============================================================================
