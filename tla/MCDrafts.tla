------------------------------- MODULE MCDrafts -------------------------------
(***************************************************************************)
(* An instance of DraftBuild and FinishedBuilds for TLC.  Past the end of  *)
(* a build the two have no state in common, and their invariants are about *)
(* one or the other: a behaviour is of one of them, and the other rests.   *)
(***************************************************************************)
EXTENDS DraftBuild

CONSTANTS
    r1, r2,
    MaxBuilds,
    MaxRequestFaults    \* bound: faults in a behaviour of requests

ASSUME BuildsAssumption == MaxBuilds \in Nat

TwoRequests == {r1, r2}

VARIABLES part, finished, completed, poller, recorded, pending, retriever, retrieved, drafts

Results == INSTANCE FinishedBuilds

allVars == <<vars, part, Results!vars>>

MCInit == Init /\ Results!Init /\ part \in {"request", "result"}

BothNext ==
    /\ UNCHANGED part
    /\ \/ part = "request" /\ Next
          /\ UNCHANGED <<finished, completed, poller, recorded, pending, retriever, retrieved, drafts>>
       \/ part = "result" /\ Results!Next /\ UNCHANGED <<secret, chain>>

BothSpec == MCInit /\ [][BothNext]_allVars

\* Requests are alike, so it is enough to explore those in which r1 comes first.
InOrder == request[r1] = "idle" => request[r2] = "idle"

MCNext == BothNext /\ InOrder' /\ (part = "request" => faults' <= MaxRequestFaults)

MCSpec ==
    /\ MCInit
    /\ [][MCNext]_allVars
    /\ Fairness
    /\ Results!Fairness

\* Every variable has its type.
TypesOK == TypeOK /\ Results!TypeOK

\* See FinishedBuilds.
DraftsArrive == Results!DraftsArrive
=============================================================================
