---------------------------- MODULE FinishedBuilds ----------------------------
(***************************************************************************)
(* From a finished build on Serval to the drafted texts of the project:    *)
(* the poller of finished builds (MachineBackgroundService) and the        *)
(* Hangfire job that retrieves the texts                                   *)
(* (MachineApiService.RetrievePreTranslationStatusAsync).                  *)
(*                                                                         *)
(* Builds are numbered in the order in which Serval finished them.  The    *)
(* poller processes the build after the last one it knows of, then         *)
(* remembers it in memory, then in the site config.  Processing a          *)
(* completed build puts a retrieval into Hangfire's queue, where the mutex *)
(* of HangfireMutex lets one run at a time; a retrieval always takes the   *)
(* last completed build.  All builds are of one project.  The notices and  *)
(* emails about a build are left out.                                      *)
(***************************************************************************)
EXTENDS Naturals

CONSTANTS
    MaxBuilds,  \* bound: builds
    MaxFaults   \* bound: crashes and failed calls

VARIABLES
    finished,   \* the number of builds Serval has finished
    completed,  \* those that were not cancelled and did not fail
    poller,     \* LastFinishedBuildId in memory, and whether it is to be recorded
    recorded,   \* LastFinishedBuildId in the site config
    pending,    \* retrievals in Hangfire's queue, the running one included
    retriever,  \* the build a retrieval is at, or 0
    retrieved,  \* PreTranslationsRetrieved
    drafts,     \* the build the project's drafts are from
    faults      \* faults so far

serval == <<finished, completed>>
vars == <<serval, poller, recorded, pending, retriever, retrieved, drafts, faults>>

Builds == 1 .. MaxBuilds

TypeOK ==
    /\ finished \in 0 .. MaxBuilds /\ completed \subseteq 1 .. finished
    /\ poller \in [last : 0 .. finished, save : BOOLEAN]
    /\ recorded \in 0 .. poller.last
    /\ pending \in 0 .. MaxBuilds + MaxFaults
    /\ retriever \in completed \cup {0} /\ drafts \in completed \cup {0}
    /\ retriever # 0 => pending > 0
    /\ retrieved \in {"unset", "false", "true"}
    /\ faults \in 0 .. MaxFaults

Init ==
    /\ finished = 0 /\ completed = {}
    /\ poller = [last |-> 0, save |-> FALSE]
    /\ recorded = 0
    /\ pending = 0
    /\ retriever = 0
    /\ retrieved = "unset"
    /\ drafts = 0
    /\ faults = 0

Fault == faults < MaxFaults /\ faults' = faults + 1

\* A build ends on Serval.
BuildEnds ==
    /\ finished < MaxBuilds
    /\ finished' = finished + 1
    /\ completed' \in {completed, completed \cup {finished'}}
    /\ UNCHANGED <<poller, recorded, pending, retriever, retrieved, drafts, faults>>

-----------------------------------------------------------------------------
(* MachineBackgroundService. *)

\* GetNextFinishedBuildAsync answers with the build after the last.
Due == ~poller.save /\ poller.last < finished
Polled == poller.last + 1

\* ProcessBuildAsync of it.
Enqueue == pending' = IF Polled \in completed THEN pending + 1 ELSE pending

\* Mutant of Process: the build is recorded first, and the rest may not come.
RecordedFirst ==
    /\ Due
    /\ IF recorded = Polled THEN Enqueue ELSE UNCHANGED pending
    /\ poller' = IF recorded = Polled THEN [last |-> Polled, save |-> TRUE] ELSE poller
    /\ recorded' = Polled
    /\ UNCHANGED <<serval, retriever, retrieved, drafts, faults>>

Process ==
    /\ Due
    /\ Enqueue
    /\ poller' = [last |-> Polled, save |-> TRUE]
    /\ UNCHANGED <<serval, recorded, retriever, retrieved, drafts, faults>>

\* It throws, before or after the job is in the queue; the loop goes round.
ProcessFails ==
    /\ Due /\ Fault
    /\ Enqueue \/ UNCHANGED pending
    /\ UNCHANGED <<serval, poller, recorded, retriever, retrieved, drafts>>

\* The update of the site config; if it fails, the next build's will do.
Record ==
    /\ poller.save
    /\ \/ recorded' = poller.last /\ UNCHANGED faults
       \/ UNCHANGED recorded /\ Fault
    /\ poller' = [poller EXCEPT !.save = FALSE]
    /\ UNCHANGED <<serval, pending, retriever, retrieved, drafts>>

-----------------------------------------------------------------------------
(* RetrievePreTranslationStatusAsync. *)

\* The flag is false: another process seems to be at it, and this job is done.
Skip ==
    /\ pending > 0 /\ retriever = 0
    /\ retrieved = "false"
    /\ pending' = pending - 1
    /\ UNCHANGED <<serval, poller, recorded, retriever, retrieved, drafts, faults>>

Retrieve ==
    /\ pending > 0 /\ retriever = 0
    /\ retrieved # "false"
    /\ retriever' \in {k \in completed : \A l \in completed : l <= k}
    /\ retrieved' = "false"
    /\ UNCHANGED <<serval, poller, recorded, pending, drafts, faults>>

\* The texts are in the project.
Store ==
    /\ retriever # 0
    /\ drafts' = retriever
    /\ retriever' = 0
    /\ retrieved' = "true"
    /\ pending' = pending - 1
    /\ UNCHANGED <<serval, poller, recorded, faults>>

\* The flag is unset, and Hangfire runs the job again.
RetrieveFails ==
    /\ retriever # 0
    /\ Fault
    /\ retriever' = 0
    /\ retrieved' = "unset"
    /\ UNCHANGED <<serval, poller, recorded, pending, drafts>>

\* The server dies and is started again.  Hangfire has the job that was
\* running in its queue, and the flag is as it was.
Crash ==
    /\ Fault
    /\ poller' = [last |-> recorded, save |-> FALSE]
    /\ retriever' = 0
    /\ UNCHANGED <<serval, recorded, pending, retrieved, drafts>>

Next ==
    \/ BuildEnds
    \/ Process \/ ProcessFails \/ Record
    \/ Skip \/ Retrieve \/ Store \/ RetrieveFails
    \/ Crash

Spec == Init /\ [][Next]_vars

\* The poller goes round, and Hangfire runs what is in its queue.
Fairness ==
    /\ WF_vars(Process \/ Record)
    /\ WF_vars(Skip \/ Retrieve \/ Store)

-----------------------------------------------------------------------------
(* Properties. *)

\* Nobody retrieves, and the flag says somebody does: the server died during
\* a retrieval, and no later one will begin.
Stuck == retrieved = "false" /\ retriever = 0

\* The texts of every completed build arrive, or those of a later one,
\* whatever fails in the poller and the retrieval.
DraftsArrive == \A k \in Builds : k \in completed ~> drafts >= k \/ Stuck
=============================================================================
