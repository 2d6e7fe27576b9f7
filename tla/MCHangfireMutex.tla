--------------------------- MODULE MCHangfireMutex ---------------------------
(* Instances of HangfireMutex for TLC. *)
EXTENDS HangfireMutex, TLC

CONSTANTS j1, j2, j3

TwoJobs == {j1, j2}
ThreeJobs == {j1, j2, j3}
NoJobs == {}

\* Jobs are interchangeable: no definition of HangfireMutex singles one out.
JobSymmetry == Permutations(Jobs)
=============================================================================
