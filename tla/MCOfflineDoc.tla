---------------------------- MODULE MCOfflineDoc ----------------------------
(* Instances of OfflineDoc for TLC. *)
EXTENDS OfflineDoc

CONSTANT o1
=============================================================================
