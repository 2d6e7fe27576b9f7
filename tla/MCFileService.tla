---------------------------- MODULE MCFileService ----------------------------
(* Instances of FileService for TLC. *)
EXTENDS FileService

CONSTANTS f1, f2, s1, s2

OneFile == {f1}
TwoFiles == {f1, f2}
OneSync == {s1}
TwoSyncs == {s1, s2}
=============================================================================
