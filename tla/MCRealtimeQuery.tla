--------------------------- MODULE MCRealtimeQuery ---------------------------
(* Instances of RealtimeQuery for TLC. *)
EXTENDS RealtimeQuery

CONSTANTS q1, q2, d1, d2

Symmetry == Permutations(Docs) \cup Permutations(Queries)
=============================================================================
