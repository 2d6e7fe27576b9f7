------------------------------ MODULE DraftBuild ------------------------------
(***************************************************************************)
(* The drafts of one project, from the request to the build on Serval, the *)
(* machine translation server: MachineApiService (request and cancel) and  *)
(* MachineProjectService (the Hangfire job that uploads the project and    *)
(* starts the build).                                                      *)
(*                                                                         *)
(* The timestamp PreTranslationQueuedAt in the project secret is the claim *)
(* of a request: it is set before anything is scheduled, and cleared when  *)
(* Serval knows of the build.  A claim older than                          *)
(* QueuedBuildStaleThreshold may be taken over.                            *)
(*                                                                         *)
(* An update of the project secret, a call of Hangfire and a call of       *)
(* Serval are each one step; the syncs a build waits for are part of its   *)
(* job.  A job that has cleared its claim has yet to end: its method sends *)
(* an email or returns, and Hangfire commits Succeeded.  The error message *)
(* is left out, and so is the deletion of the project.  Serval and         *)
(* Hangfire are external.                                                  *)
(***************************************************************************)
EXTENDS Naturals

CONSTANTS
    Requests,   \* calls of StartPreTranslationBuildAsync
    NoOne,      \* no request
    MaxFaults   \* bound: crashes, failed calls, deleted parent jobs

ASSUME DraftAssumption == NoOne \notin Requests /\ MaxFaults \in Nat

VARIABLES
    queued,     \* PreTranslationQueuedAt: whose, and whether it is stale
    jobId,      \* PreTranslationJobId
    request,    \* where each request is
    abandoned,  \* the job id a request is to delete
    outdated,   \* the claim that was stale when a request began
    job,        \* the Hangfire job that builds for a request
    deleted,    \* that job was deleted; a worker may still be at it
    cancel,     \* CancelPreTranslationBuildAsync, and the job id it has read
    active,     \* the request whose build Serval is running
    faults,     \* faults so far
    excused,    \* requests that have lost their claim although they went on
    takenOver   \* history: a stale claim was taken over

secret == <<queued, jobId>>
history == <<excused, takenOver>>
chain == <<request, abandoned, outdated, job, deleted, cancel, active, history>>
vars == <<secret, chain, faults>>

None == [by |-> NoOne, stale |-> FALSE]
Anyone == Requests \cup {NoOne}

TypeOK ==
    /\ queued \in [by : Anyone, stale : BOOLEAN]
    /\ jobId \in Anyone
    /\ request \in [Requests -> {"idle", "claim", "delete", "check", "schedule", "store",
                                 "release", "over", "lost"}]
    /\ abandoned \in [Requests -> Anyone]
    /\ outdated \in [Requests -> Anyone]
    /\ job \in [Requests -> {"none", "waiting", "ready", "upload", "clear", "refused", "error",
                             "finish", "done"}]
    /\ deleted \in [Requests -> BOOLEAN]
    /\ cancel.pc \in {"idle", "delete", "unset", "serval", "done"} /\ cancel.saw \in Anyone
    /\ active \in Anyone
    /\ faults \in 0 .. MaxFaults
    /\ excused \subseteq Requests /\ takenOver \in BOOLEAN
    /\ jobId # NoOne => job[jobId] # "none"

Init ==
    /\ queued = None /\ jobId = NoOne
    /\ request = [r \in Requests |-> "idle"]
    /\ abandoned = [r \in Requests |-> NoOne]
    /\ outdated = [r \in Requests |-> NoOne]
    /\ job = [r \in Requests |-> "none"]
    /\ deleted = [r \in Requests |-> FALSE]
    /\ cancel = [pc |-> "idle", saw |-> NoOne]
    /\ active = NoOne
    /\ faults = 0 /\ excused = {} /\ takenOver = FALSE

-----------------------------------------------------------------------------
(* Building blocks. *)

Go(r, from, to) == request[r] = from /\ request' = [request EXCEPT ![r] = to]

\* Something goes wrong.
Fault == faults < MaxFaults /\ faults' = faults + 1

\* The claim is written over: whoever held it is excused from now on.
Excuse(rs) == excused' = excused \cup (rs \ {NoOne})

AtWork(r) == job[r] \in {"upload", "clear", "refused", "error", "finish"}

\* BackgroundJob.Delete: a job that has not begun never will; a worker is told.
DeleteJob(j) ==
    /\ job' = [r \in Requests |-> IF r = j /\ job[r] \in {"waiting", "ready"} THEN "done" ELSE job[r]]
    /\ deleted' = [r \in Requests |-> deleted[r] \/ (r = j /\ (AtWork(r) \/ job'[r] # job[r]))]

-----------------------------------------------------------------------------
(* StartPreTranslationBuildAsync. *)

\* The stale cutoff, and the job id of an abandoned build.
Start(r) ==
    /\ Go(r, "idle", "claim")
    /\ abandoned' = [abandoned EXCEPT ![r] = IF queued = None \/ queued.stale THEN jobId ELSE NoOne]
    /\ outdated' = [outdated EXCEPT ![r] = IF queued.stale THEN queued.by ELSE NoOne]
    /\ UNCHANGED <<secret, job, deleted, cancel, active, history, faults>>

\* Mutant of MayClaim: the filter asks for the job id, not for the timestamp.
ClaimWithoutJob(r) == queued.by = outdated[r] \/ jobId = NoOne

\* The filter of the update that claims.
MayClaim(r) == queued.by \in {NoOne, outdated[r]}

\* A stale claim's owner that had no job yet, or whose job has begun, goes on.
Claim(r) ==
    /\ MayClaim(r)
    /\ Go(r, "claim", "delete")
    /\ queued' = [by |-> r, stale |-> FALSE]
    /\ jobId' = NoOne
    /\ outdated' = [outdated EXCEPT ![r] = NoOne]
    /\ Excuse({q \in Requests : q = queued.by /\ queued.stale /\ (q # abandoned[r] \/ AtWork(q))})
    /\ takenOver' = (takenOver \/ queued.by # NoOne)
    /\ UNCHANGED <<abandoned, job, deleted, cancel, active, faults>>

\* BuildAlreadyRunningException: another request holds the claim.
Refuse(r) ==
    /\ ~MayClaim(r)
    /\ Go(r, "claim", "over")
    /\ abandoned' = [abandoned EXCEPT ![r] = NoOne]
    /\ outdated' = [outdated EXCEPT ![r] = NoOne]
    /\ UNCHANGED <<secret, job, deleted, cancel, active, history, faults>>

DeleteAbandoned(r) ==
    /\ Go(r, "delete", "check")
    /\ DeleteJob(abandoned[r])
    /\ abandoned' = [abandoned EXCEPT ![r] = NoOne]
    /\ UNCHANGED <<secret, outdated, cancel, active, history, faults>>

\* GetCurrentBuildAsync; an error of Serval counts as no build.
Check(r) ==
    /\ \/ active # NoOne /\ Go(r, "check", "release") /\ UNCHANGED faults
       \/ active = NoOne /\ Go(r, "check", "schedule") /\ UNCHANGED faults
       \/ active # NoOne /\ Go(r, "check", "schedule") /\ Fault
    /\ UNCHANGED <<secret, abandoned, outdated, job, deleted, cancel, active, history>>

\* Mutant of Schedule: the build is not scheduled.
OnlySyncs(r) ==
    /\ Go(r, "schedule", "store")
    /\ UNCHANGED <<secret, abandoned, outdated, job, deleted, cancel, active, history, faults>>

\* The syncs, and the build as the continuation of the last of them.
Schedule(r) ==
    /\ Go(r, "schedule", "store")
    /\ job' = [job EXCEPT ![r] = "waiting"]
    /\ UNCHANGED <<secret, abandoned, outdated, deleted, cancel, active, history, faults>>

StoreJobId(r) ==
    /\ Go(r, "store", "over")
    /\ jobId' = r
    /\ UNCHANGED <<queued, abandoned, outdated, job, deleted, cancel, active, history, faults>>

\* An exception, or the end of the user's connection, after the claim.
RequestFails(r) ==
    /\ Fault
    /\ \E from \in {"delete", "check", "schedule", "store"} : Go(r, from, "release")
    /\ Excuse(IF request[r] = "delete" THEN {abandoned[r]} ELSE {})
    /\ UNCHANGED <<secret, abandoned, outdated, job, deleted, cancel, active, takenOver>>

\* The catch block: whoever's claim it is, it is released.
Release(r) ==
    /\ Go(r, "release", "over")
    /\ queued' = None
    /\ Excuse(IF queued.by = r /\ job[r] = "none" THEN {} ELSE {queued.by})
    /\ UNCHANGED <<jobId, abandoned, outdated, job, deleted, cancel, active, takenOver, faults>>

\* The update in the catch block throws: the claim stays until it is stale.
ReleaseFails(r) ==
    /\ Fault
    /\ Go(r, "release", "lost")
    /\ UNCHANGED <<secret, abandoned, outdated, job, deleted, cancel, active, history>>

-----------------------------------------------------------------------------
(* BuildProjectForBackgroundJobAsync. *)

Job(r, from, to) == job[r] = from /\ job' = [job EXCEPT ![r] = to]

\* A sync was deleted, and Hangfire deletes its continuation.
ParentDeleted(r) ==
    /\ Fault
    /\ job[r] = "waiting"
    /\ DeleteJob(r)
    /\ UNCHANGED <<secret, request, abandoned, outdated, cancel, active, history>>

\* The syncs have ended, or the job is run again.
Begin(r) ==
    /\ \E from \in {"waiting", "ready"} : Job(r, from, "upload")
    /\ UNCHANGED <<secret, request, abandoned, outdated, deleted, cancel, active, history, faults>>

\* StartBuildAsync: Serval answers 409 when it is running a build.
StartBuild(r) ==
    /\ Job(r, "upload", IF active = NoOne THEN "clear" ELSE "refused")
    /\ active' = IF active = NoOne THEN r ELSE active
    /\ UNCHANGED <<secret, request, abandoned, outdated, deleted, cancel, history, faults>>

\* Mutant of ClearQueued: the timestamp is forgotten.
ClearJobId(r) ==
    /\ UNCHANGED queued
    /\ jobId' = NoOne
    /\ Excuse({} \ {r})

\* The job's claim and job id are cleared, or another request's when the job
\* has lost its own.
ClearQueued(r) ==
    /\ queued' = None
    /\ jobId' = NoOne
    /\ Excuse({queued.by} \ {r})

\* Serval knows of the build, or has answered 409.
Clear(r) ==
    /\ \E from \in {"clear", "refused"} : Job(r, from, "finish")
    /\ ClearQueued(r)
    /\ UNCHANGED <<request, abandoned, outdated, deleted, cancel, active, takenOver, faults>>

\* The upload, the start of the build or the update after it throws.
BuildFails(r) ==
    /\ Fault
    /\ \E from \in {"upload", "clear"} : Job(r, from, "error")
    /\ UNCHANGED <<secret, request, abandoned, outdated, deleted, cancel, active, history>>

ReportError(r) ==
    /\ Job(r, "error", "finish")
    /\ ClearQueued(r)
    /\ UNCHANGED <<request, abandoned, outdated, deleted, cancel, active, takenOver, faults>>

\* The update in a catch block throws as well, and Hangfire runs the job again.
ReportFails(r) ==
    /\ Fault
    /\ ~deleted[r]
    /\ \E from \in {"error", "refused"} : Job(r, from, "ready")
    /\ UNCHANGED <<secret, request, abandoned, outdated, deleted, cancel, active, history>>

\* The email is sent, the method has returned, and Hangfire has committed it.
Finish(r) ==
    /\ Job(r, "finish", "done")
    /\ UNCHANGED <<secret, request, abandoned, outdated, deleted, cancel, active, history, faults>>

\* The email or that commit fails: the job is run again, and has no claim.
FinishFails(r) ==
    /\ Fault
    /\ ~deleted[r]
    /\ Job(r, "finish", "ready")
    /\ Excuse({r})
    /\ UNCHANGED <<secret, request, abandoned, outdated, deleted, cancel, active, takenOver>>

\* The worker of a deleted job sees its token: its updates throw at once, as
\* they are given the same token, and nothing is cleared.
Notice(r) ==
    /\ deleted[r]
    /\ \E from \in {"upload", "clear", "refused", "error"} : Job(r, from, "done")
    /\ UNCHANGED <<secret, request, abandoned, outdated, deleted, cancel, active, history, faults>>

-----------------------------------------------------------------------------
(* CancelPreTranslationBuildAsync. *)

Cancelling(from, to) ==
    /\ cancel.pc = from
    /\ cancel' = [pc |-> to, saw |-> IF to = "unset" THEN cancel.saw ELSE NoOne]

CancelReads ==
    /\ cancel.pc = "idle"
    /\ cancel' = IF jobId = NoOne /\ queued = None THEN [pc |-> "serval", saw |-> NoOne]
                 ELSE [pc |-> "delete", saw |-> jobId]
    /\ UNCHANGED <<secret, request, abandoned, outdated, job, deleted, active, history, faults>>

CancelDeletes ==
    /\ Cancelling("delete", "unset")
    /\ DeleteJob(cancel.saw)
    /\ UNCHANGED <<secret, request, abandoned, outdated, active, history, faults>>

\* The claim of a request whose job the cancel has not read is cleared too.
CancelClears ==
    /\ Cancelling("unset", "serval")
    /\ queued' = None
    /\ jobId' = NoOne
    /\ Excuse({queued.by} \ {cancel.saw})
    /\ UNCHANGED <<request, abandoned, outdated, job, deleted, active, takenOver, faults>>

\* CancelBuildAsync; a 404 is ignored.
CancelBuild ==
    /\ Cancelling("serval", "done")
    /\ active' = NoOne
    /\ UNCHANGED <<secret, request, abandoned, outdated, job, deleted, history, faults>>

CancelFails ==
    /\ Fault
    /\ \E from \in {"delete", "unset", "serval"} : Cancelling(from, "done")
    /\ UNCHANGED <<secret, request, abandoned, outdated, job, deleted, active, history>>

-----------------------------------------------------------------------------
(* Serval, time and the server. *)

BuildEnds ==
    /\ active # NoOne
    /\ active' = NoOne
    /\ UNCHANGED <<secret, request, abandoned, outdated, job, deleted, cancel, history, faults>>

\* QueuedBuildStaleThreshold has passed.
GrowStale ==
    /\ queued # None
    /\ queued' = [queued EXCEPT !.stale = TRUE]
    /\ UNCHANGED <<jobId, chain, faults>>

\* The server dies and is started again: requests and a cancel are lost, and
\* Hangfire runs the jobs that were at work again, one that has cleared its
\* claim without it.
Crash ==
    /\ Fault
    /\ request' = [r \in Requests |->
                     IF request[r] \in {"idle", "over"} THEN request[r] ELSE "lost"]
    /\ job' = [r \in Requests |->
                 IF AtWork(r) THEN (IF deleted[r] THEN "done" ELSE "ready") ELSE job[r]]
    /\ cancel' = [cancel EXCEPT !.pc = IF @ = "idle" THEN @ ELSE "done"]
    /\ Excuse({abandoned[r] : r \in {q \in Requests : request[q] = "delete"}}
               \cup {r \in Requests : job[r] = "finish" /\ ~deleted[r]})
    /\ UNCHANGED <<secret, abandoned, outdated, deleted, active, takenOver>>

RequestStep(r) ==
    \/ Claim(r) \/ Refuse(r) \/ DeleteAbandoned(r) \/ Check(r)
    \/ Schedule(r) \/ StoreJobId(r) \/ Release(r)

JobStep(r) ==
    \/ Begin(r) \/ StartBuild(r) \/ Clear(r) \/ ReportError(r) \/ Finish(r) \/ Notice(r)

CancelStep == CancelDeletes \/ CancelClears \/ CancelBuild

Mishap ==
    \/ \E r \in Requests :
         \/ RequestFails(r) \/ ReleaseFails(r)
         \/ ParentDeleted(r) \/ BuildFails(r) \/ ReportFails(r) \/ FinishFails(r)
    \/ CancelFails \/ Crash

Next ==
    \/ \E r \in Requests : Start(r) \/ RequestStep(r) \/ JobStep(r)
    \/ CancelReads \/ CancelStep \/ BuildEnds
    \/ GrowStale \/ Mishap

Spec == Init /\ [][Next]_vars

\* What has begun goes on: requests, workers, the cancel and Serval.
Fairness ==
    /\ \A r \in Requests : WF_vars(RequestStep(r)) /\ WF_vars(JobStep(r))
    /\ WF_vars(CancelStep) /\ WF_vars(BuildEnds)
-----------------------------------------------------------------------------
(* Properties. *)

\* Hangfire has the job that is to start the build on Serval, and nobody is about
\* to stop it.
OnItsWay(r) ==
    /\ job[r] \in {"waiting", "ready", "upload"}
    /\ ~deleted[r]
    /\ \A q \in Requests : ~(request[q] = "delete" /\ abandoned[q] = r)

\* MachineApiService.cs:3344-3346: "The queued fields are only cleared after
\* Serval knows about a build, so no build can be invisible to both checks."  The
\* checks are those of the next request, of the timestamp and of Serval.  A cancel
\* clears the fields of a request that has yet to schedule its build.
NoInvisibleBuild == (\E r \in Requests : OnItsWay(r)) => queued # None \/ active # NoOne

\* What can take a claim from its owner: a cancel that has cleared the fields, a
\* takeover of a stale claim, and a fault.
Disturbed == faults > 0 \/ takenOver \/ cancel.pc \in {"serval", "done"}

\* What is left of that promise: a request that goes on, or a build on its way,
\* has the claim, so that there is never a second one.  It loses the claim only
\* to a cancel that found no job id to delete, to a request that fails late, to a
\* stale takeover of one that goes on, to the worker of a build that has lost its
\* own, or by being run again after it has cleared it: excused names those, and
\* none of it happens before a cancel, a takeover or a fault.
BuildHasClaim ==
    \A r \in Requests :
        (request[r] \in {"delete", "check", "schedule"} \/ OnItsWay(r)) /\ queued.by # r =>
            r \in excused /\ Disturbed

\* A claim's request died or could not release it, or its job was deleted.
Stranded(r) == deleted[r] \/ (request[r] = "lost" /\ job[r] = "none")

\* A project is not left with a claim: it is cleared by the job, by the
\* request that fails or by the cancel, and is left to grow stale only when
\* the server died, the release failed or Hangfire deleted the job.
ClaimIsGivenBack ==
    \A r \in Requests : queued.by = r ~> queued.by # r \/ queued.stale \/ Stranded(r)
=============================================================================
