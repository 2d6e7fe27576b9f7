----------------------------- MODULE MCSyncQueue -----------------------------
(***************************************************************************)
(* An instance of SyncQueue for TLC: two requests that fail, or one and a  *)
(* cancel.                                                                 *)
(***************************************************************************)
EXTENDS SyncQueue, TLC

CONSTANTS daughter, parent, r1, r2, c1

BothProjects == {daughter, parent}
TwoRequests == {r1, r2}
OneCancel == {c1}

\* r1 syncs daughter with its source parent; r2 syncs parent alone.
PairTarget == r1 :> daughter @@ r2 :> parent
PairSource == r1 :> parent @@ r2 :> NoProject
NoParents == r1 :> NoRequest @@ r2 :> NoRequest
CancelBoth == c1 :> <<daughter, parent>>

\* A cancel begins beside r1 alone, and nothing but the server fails then.
MCNext == Next /\ (~NoCancel => NoFaults /\ ~Started(r2))'

MCSpec == Init /\ [][MCNext]_vars /\ Fairness
=============================================================================
