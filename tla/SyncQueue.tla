------------------------------ MODULE SyncQueue ------------------------------
(***************************************************************************)
(* Queueing, running and cancelling Paratext syncs: SyncService.cs and the *)
(* bookkeeping of ParatextSyncRunner.cs (SIL.XForge.Scripture/Services).   *)
(*                                                                         *)
(* SyncAsync schedules one background job for the target project and, when *)
(* it has a source, one for the source, counts them in the project docs    *)
(* (Sync.QueuedCount, which clients show as "syncing"), stores their ids   *)
(* in the project secrets (SFProjectSecret.JobIds and SyncMetricsIds) and  *)
(* only then enqueues the first.  RunAsync takes itself off these records  *)
(* when it completes; CancelSyncAsync deletes the listed jobs and resets   *)
(* them.  The records live in two documents and the job storage in a third *)
(* place; nothing spans them.                                              *)
(*                                                                         *)
(* The jobs go through the states and the mutex of HangfireMutex, whose    *)
(* outer transactions are not lost here.                                   *)
(***************************************************************************)
EXTENDS Integers, FiniteSets, SequencesExt

CONSTANTS
    Projects,       \* project ids
    Requests,       \* calls of SyncAsync
    TargetOf,       \* SyncConfig.ProjectId of a request
    SourceOf,       \* the source project to sync with it, or NoProject
    ParentOf,       \* the request whose job is SyncConfig.ParentJobId, or NoRequest
    NoProject,
    NoRequest,
    Cancels,        \* calls of CancelSyncAsync
    CancelPlan,     \* the projects a cancel visits: the project, then its source
    MaxRetries,     \* attempts of Hangfire's AutomaticRetry filter before Failed
    MaxCrashes,     \* bound: crashes of the application server
    MaxRequestFaults, \* bound: exceptions thrown in SyncAsync
    MaxRunFaults    \* bound: exceptions thrown in the bookkeeping of RunAsync

\* A request owns at most two jobs; a job is named by its request and its role.
SyncJobs == {<<r, "target">> : r \in Requests}
                \cup {<<r, "source">> : r \in {q \in Requests : SourceOf[q] # NoProject}}

ASSUME QueueAssumption ==
    /\ NoProject \notin Projects
    /\ NoRequest \notin Requests
    /\ TargetOf \in [Requests -> Projects]
    /\ SourceOf \in [Requests -> Projects \cup {NoProject}]
    /\ ParentOf \in [Requests -> Requests \cup {NoRequest}]
    /\ CancelPlan \in [Cancels -> Seq(Projects) \ {<<>>}]
    /\ {MaxRetries, MaxCrashes, MaxRequestFaults, MaxRunFaults} \subseteq Nat

VARIABLES
    jobState, owners, electing, workers, attempts, retries, crashes, losses,
    queuedCount,    \* Sync.QueuedCount of each project doc
    jobIds,         \* JobIds of each project secret, oldest first
    metricIds,      \* SyncMetricsIds of each project secret; a job names its metrics
    todo,           \* the steps each SyncAsync call has left
    failed,         \* the SyncAsync calls that threw or died
    run,            \* RunAsync: where each job's run is, and what it read
    cancel,         \* CancelSyncAsync: where each call is, and what it read
    requestFaults,
    runFaults

Hf == INSTANCE HangfireMutex
        WITH Jobs <- SyncJobs, MaxAttempts <- 0, Deletable <- SyncJobs, MaxLosses <- 0

hfVars == <<jobState, owners, electing, workers, attempts, retries, crashes, losses>>
recordVars == <<queuedCount, jobIds, metricIds>>
requestVars == <<todo, failed, requestFaults>>
runVars == <<run, runFaults>>
vars == <<hfVars, recordVars, requestVars, runVars, cancel>>

ProjectOf(j) == IF j[2] = "target" THEN TargetOf[j[1]] ELSE SourceOf[j[1]]

NoJob == <<NoRequest, "none">>

-----------------------------------------------------------------------------
(* What each call does, as the list of its steps that write something. *)

\* Mutants of Plan: the target's job, or the first one, is enqueued early.
TargetEnqueued(r) ==
    LET t == <<r, "target">>
        s == <<r, "source">>
    IN IF SourceOf[r] # NoProject
       THEN << <<"schedule", s>>, <<"schedule", t>>, <<"count", t>>, <<"count", s>>,
               <<"list", s>>, <<"list", t>>, <<"enqueue", t>> >>
       ELSE << <<"schedule", t>>, <<"count", t>>, <<"list", t>>, <<"enqueue", t>> >>
EnqueuedEarly(r) ==
    LET t == <<r, "target">>
        s == <<r, "source">>
    IN IF SourceOf[r] # NoProject
       THEN << <<"schedule", s>>, <<"schedule", t>>, <<"enqueue", s>>,
               <<"count", t>>, <<"count", s>>, <<"list", s>>, <<"list", t>> >>
       ELSE << <<"schedule", t>>, <<"enqueue", t>>, <<"count", t>>, <<"list", t>> >>

Plan(r) ==
    LET t == <<r, "target">>
        s == <<r, "source">>
    IN IF SourceOf[r] # NoProject
       THEN << <<"schedule", s>>, <<"schedule", t>>, <<"count", t>>, <<"count", s>>,
               <<"list", s>>, <<"list", t>>, <<"enqueue", s>> >>
       ELSE << <<"schedule", t>>, <<"count", t>>, <<"list", t>>, <<"enqueue", t>> >>

\* The job a new job continues: the source's, or the one the caller named.
ParentJob(j) ==
    IF j[2] = "target" /\ SourceOf[j[1]] # NoProject THEN <<j[1], "source">>
    ELSE IF ParentOf[j[1]] # NoRequest THEN <<ParentOf[j[1]], "target">>
    ELSE NoJob

Started(r) == todo[r] # Plan(r)
Live(r) == Started(r) /\ todo[r] # <<>>

CancelStarted(c) == cancel[c].pc # "fetch" \/ cancel[c].left # CancelPlan[c]

IdleRun == [pc |-> "idle", ok |-> FALSE, second |-> FALSE, closed |-> FALSE,
            count |-> 0, head |-> NoJob, listed |-> FALSE]

Counters == -(Cardinality(SyncJobs)) .. Cardinality(SyncJobs)
RunSteps == {"idle", "fetch", "secret", "complete", "unlist", "close", "uncount",
             "metrics", "return", "throw"}

TypeOK ==
    /\ Hf!TypeOK
    /\ queuedCount \in [Projects -> Counters]
    /\ \A p \in Projects : jobIds[p] \in Seq(SyncJobs) /\ IsInjective(jobIds[p])
    /\ metricIds \in [Projects -> SUBSET SyncJobs]
    /\ \A r \in Requests : todo[r] = <<>> \/ IsSuffix(todo[r], Plan(r))
    /\ failed \subseteq Requests
    /\ run \in [SyncJobs -> [pc : RunSteps, ok : BOOLEAN, second : BOOLEAN,
                             closed : BOOLEAN, count : Counters,
                             head : SyncJobs \cup {NoJob}, listed : BOOLEAN]]
    /\ \A c \in Cancels :
        /\ cancel[c].pc \in {"fetch", "secret", "delete", "clear", "reset", "done", "died"}
        /\ IsSuffix(cancel[c].left, CancelPlan[c])
        /\ cancel[c].ids \in Seq(SyncJobs)

Init ==
    /\ Hf!Init
    /\ queuedCount = [p \in Projects |-> 0]
    /\ jobIds = [p \in Projects |-> <<>>]
    /\ metricIds = [p \in Projects |-> {}]
    /\ todo = [r \in Requests |-> Plan(r)]
    /\ failed = {}
    /\ run = [j \in SyncJobs |-> IdleRun]
    /\ cancel = [c \in Cancels |-> [pc |-> "fetch", left |-> CancelPlan[c], ids |-> <<>>]]
    /\ requestFaults = 0
    /\ runFaults = 0

-----------------------------------------------------------------------------
(* SyncAsync. *)

\* The next step of request r is to do `what` for job j.
At(r, what, j) == todo[r] # <<>> /\ Head(todo[r]) = <<what, j>>
Advance(r) == todo' = [todo EXCEPT ![r] = Tail(@)]

\* Schedule in five minutes, or continue another job; the metrics are inserted
\* just before.  Callers that name a parent job wait for its request.
Schedule(r, j) ==
    /\ At(r, "schedule", j)
    /\ ParentOf[r] # NoRequest => todo[ParentOf[r]] = <<>> /\ ParentOf[r] \notin failed
    /\ Hf!Create(j, IF ParentJob(j) = NoJob THEN "Scheduled" ELSE "Awaiting")
    /\ Advance(r)
    /\ UNCHANGED <<recordVars, failed, requestFaults, runVars, cancel>>

\* op.Inc(QueuedCount) on the project doc.
Count(r, j) ==
    /\ At(r, "count", j)
    /\ queuedCount' = [queuedCount EXCEPT ![ProjectOf(j)] = @ + 1]
    /\ Advance(r)
    /\ UNCHANGED <<hfVars, jobIds, metricIds, failed, requestFaults, runVars, cancel>>

\* Mutant of List: the update is a $push that is sent twice.
ListTwice(r, j) ==
    /\ At(r, "list", j)
    /\ jobIds' = [jobIds EXCEPT ![ProjectOf(j)] = @ \o <<j, j>>]
    /\ metricIds' = [metricIds EXCEPT ![ProjectOf(j)] = @ \cup {j}]
    /\ Advance(r)
    /\ UNCHANGED <<hfVars, queuedCount, failed, requestFaults, runVars, cancel>>

\* Both ids are added to the project secret in one update.
List(r, j) ==
    /\ At(r, "list", j)
    /\ jobIds' = [jobIds EXCEPT ![ProjectOf(j)] = Append(@, j)]
    /\ metricIds' = [metricIds EXCEPT ![ProjectOf(j)] = @ \cup {j}]
    /\ Advance(r)
    /\ UNCHANGED <<hfVars, queuedCount, failed, requestFaults, runVars, cancel>>

\* ChangeState(job, EnqueuedState): from whatever state the job is in.
EnqueueJob(r, j) ==
    /\ At(r, "enqueue", j)
    /\ j \notin electing
    /\ Hf!Transition(j, "Enqueued")
    /\ Advance(r)
    /\ UNCHANGED <<electing, workers, attempts, retries, crashes, losses,
                   recordVars, failed, requestFaults, runVars, cancel>>

\* The call throws.  From the first count on it deletes the jobs first, the
\* target's before the source's so that no continuation is triggered; the
\* counts and ids it has written stay.
RequestFault(r) ==
    /\ Live(r)
    /\ requestFaults < MaxRequestFaults
    /\ requestFaults' = requestFaults + 1
    /\ failed' = failed \cup {r}
    /\ todo' = [todo EXCEPT ![r] = <<>>]
    /\ IF Head(todo[r])[1] = "schedule"
       THEN UNCHANGED hfVars
       ELSE LET mine == {j \in SyncJobs : j[1] = r}
            IN /\ mine \cap electing = {}
               /\ jobState' = [j \in SyncJobs |-> IF j \in mine THEN "Deleted" ELSE jobState[j]]
               /\ owners' = {j \in owners : j \in mine => jobState[j] # "Processing"}
               /\ UNCHANGED <<electing, workers, attempts, retries, crashes, losses>>
    /\ UNCHANGED <<recordVars, runVars, cancel>>

-----------------------------------------------------------------------------
(* The job engine. *)

\* The delay of a scheduled job elapses: five minutes are longer than a call of
\* SyncAsync takes.  A continuation starts when its parent Succeeded or is
\* Deleted (Failed is no final state to Hangfire).
Timer(j) ==
    /\ CASE jobState[j] = "Scheduled" -> ~Live(j[1])
         [] jobState[j] = "Awaiting" -> jobState[ParentJob(j)] \in {"Succeeded", "Deleted"}
         [] OTHER -> FALSE
    /\ Hf!Enqueue(j)
    /\ UNCHANGED <<recordVars, requestVars, runVars, cancel>>

Elect(j) ==
    /\ Hf!Elect(j)
    /\ UNCHANGED <<recordVars, requestVars, runVars, cancel>>

Start(j) ==
    /\ Hf!StartProcessing(j)
    /\ run' = [run EXCEPT ![j] = [IdleRun EXCEPT !.pc = "fetch"]]
    /\ UNCHANGED <<recordVars, requestVars, runFaults, cancel>>

\* RunAsync returned or threw.
Leave(j) ==
    /\ CASE run[j].pc = "return" -> Hf!Finish(j) \/ Hf!Abandon(j)
         [] run[j].pc = "throw" -> Hf!Fail(j) \/ Hf!Abandon(j)
         [] OTHER -> FALSE
    /\ run' = [run EXCEPT ![j] = IdleRun]
    /\ UNCHANGED <<recordVars, requestVars, runFaults, cancel>>

\* The server dies with its runs and calls.  The job storage and the documents
\* survive; a call that died leaves its scheduled jobs behind.
Crash ==
    /\ Hf!Crash
    /\ run' = [j \in SyncJobs |-> IdleRun]
    /\ failed' = failed \cup {r \in Requests : Live(r)}
    /\ todo' = [r \in Requests |-> IF Live(r) THEN <<>> ELSE todo[r]]
    /\ cancel' = [c \in Cancels |->
                    IF cancel[c].pc = "done" \/ ~CancelStarted(c) THEN cancel[c]
                    ELSE [cancel[c] EXCEPT !.pc = "died"]]
    /\ UNCHANGED <<recordVars, requestFaults, runFaults>>

-----------------------------------------------------------------------------
(* RunAsync: InitAsync, the sync itself, CompleteSync. *)

\* The update that takes an id off a list ($pull), written as a function over the
\* list so that it can be reasoned about.
Pull(ids, id) ==
    LET rest[i \in 0 .. Len(ids)] ==
            IF i = 0 THEN <<>>
            ELSE IF ids[i] = id THEN rest[i - 1] ELSE Append(rest[i - 1], ids[i])
    IN rest[Len(ids)]

Executes(j, pc) == j \in workers /\ run[j].pc = pc

RunUnchanged == UNCHANGED <<hfVars, requestVars, runFaults, cancel>>

\* InitAsync marks the metrics as running and fetches the project doc: this
\* count is what CompleteSync will test.
FetchDoc(j) ==
    /\ Executes(j, "fetch")
    /\ run' = [run EXCEPT ![j].pc = "secret", ![j].count = queuedCount[ProjectOf(j)]]
    /\ UNCHANGED recordVars
    /\ RunUnchanged

\* InitAsync loads the project secret: these ids are what CompleteSync removes.
FetchSecret(j) ==
    /\ Executes(j, "secret")
    /\ LET ids == jobIds[ProjectOf(j)]
       IN run' = [run EXCEPT ![j].pc = "complete",
                             ![j].head = IF ids = <<>> THEN NoJob ELSE Head(ids),
                             ![j].listed = j \in metricIds[ProjectOf(j)]]
    /\ UNCHANGED recordVars
    /\ RunUnchanged

\* The sync succeeds or fails and CompleteSync updates the project doc.  The
\* fetched count stays as it was: inside a transaction a write returns the doc
\* as this connection saw it, not as it is on the server.
Complete(j) ==
    /\ Executes(j, "complete")
    /\ \E ok \in IF run[j].second THEN {FALSE} ELSE BOOLEAN :
            run' = [run EXCEPT ![j].pc = "unlist", ![j].ok = ok]
    /\ UNCHANGED recordVars
    /\ RunUnchanged

\* Mutants of Unlist: only its own job id is taken off, and only when it is the
\* first; the first of the metrics ids is taken off like the first job id.
UnlistIfFirst(j) ==
    /\ Executes(j, "unlist")
    /\ run' = [run EXCEPT ![j].pc = "close"]
    /\ LET p == ProjectOf(j)
       IN /\ jobIds' = [jobIds EXCEPT ![p] = IF run[j].head = j THEN Pull(@, j) ELSE @]
          /\ metricIds' = [metricIds EXCEPT ![p] = @ \ {j}]
    /\ UNCHANGED queuedCount
    /\ RunUnchanged
UnlistFirstMetrics(j) ==
    /\ Executes(j, "unlist")
    /\ run' = [run EXCEPT ![j].pc = "close"]
    /\ LET p == ProjectOf(j)
       IN /\ jobIds' = [jobIds EXCEPT ![p] = Pull(@, run[j].head)]
          /\ metricIds' = [metricIds EXCEPT ![p] = @ \ {run[j].head}]
    /\ UNCHANGED queuedCount
    /\ RunUnchanged

\* The job id that was first, whosever it is, and the run's own metrics id.
Unlist(j) ==
    /\ Executes(j, "unlist")
    /\ run' = [run EXCEPT ![j].pc = "close"]
    /\ LET p == ProjectOf(j)
       IN /\ jobIds' = [jobIds EXCEPT ![p] = Pull(@, run[j].head)]
          /\ metricIds' = [metricIds EXCEPT ![p] = IF run[j].listed THEN @ \ {j} ELSE @]
    /\ UNCHANGED queuedCount
    /\ RunUnchanged

\* The transaction is committed, or rolled back.  A second CompleteSync that
\* finds it closed already throws.
Close(j) ==
    /\ Executes(j, "close")
    /\ run' = [run EXCEPT ![j].pc = IF run[j].closed THEN "throw" ELSE "uncount",
                          ![j].closed = TRUE]
    /\ UNCHANGED recordVars
    /\ RunUnchanged

\* Mutant of Uncount: the count is reset, as if there were no other sync.
UncountAll(j) ==
    /\ Executes(j, "uncount")
    /\ run' = [run EXCEPT ![j].pc = "metrics"]
    /\ queuedCount' = [queuedCount EXCEPT ![ProjectOf(j)] = 0]
    /\ UNCHANGED <<jobIds, metricIds>>
    /\ RunUnchanged

\* op.Inc(QueuedCount, -1) if the fetched count was positive, else op.Set to 0,
\* which sends nothing when the fetched count already was 0.
Uncount(j) ==
    /\ Executes(j, "uncount")
    /\ run' = [run EXCEPT ![j].pc = "metrics"]
    /\ queuedCount' = [queuedCount EXCEPT ![ProjectOf(j)] =
                            IF run[j].count > 0 THEN @ - 1
                            ELSE IF run[j].count = 0 THEN @ ELSE 0]
    /\ UNCHANGED <<jobIds, metricIds>>
    /\ RunUnchanged

\* The metrics are stored and the run returns.
StoreMetrics(j) ==
    /\ Executes(j, "metrics")
    /\ run' = [run EXCEPT ![j].pc = "return"]
    /\ UNCHANGED recordVars
    /\ RunUnchanged

\* The run of a deleted or re-enqueued job notices its cancelled token in a
\* database call: whatever it was doing, the CompleteSync of the exception
\* handler meets the same token in its query of the project's users.
Noticed(j) ==
    /\ j \in workers
    /\ jobState[j] # "Processing"
    /\ run[j].pc \in {"fetch", "secret", "complete", "unlist", "metrics"}
    /\ run' = [run EXCEPT ![j].pc = IF run[j].pc = "secret" THEN "return" ELSE "throw"]
    /\ UNCHANGED recordVars
    /\ RunUnchanged

\* An exception.  InitAsync fails before there is a connection (CompleteSync
\* throws), or before both documents are loaded (CompleteSync returns early).
\* Later, the exception handler runs CompleteSync a second time.
RunFault(j) ==
    /\ j \in workers
    /\ runFaults < MaxRunFaults
    /\ runFaults' = runFaults + 1
    /\ \/ /\ run[j].pc = "fetch"
          /\ \E pc \in {"throw", "return"} : run' = [run EXCEPT ![j].pc = pc]
       \/ /\ run[j].pc = "secret"
          /\ run' = [run EXCEPT ![j].pc = "return"]
       \/ /\ run[j].pc \in {"complete", "unlist", "close", "uncount", "metrics"}
          /\ run' = [run EXCEPT ![j].pc = IF run[j].second THEN "throw" ELSE "complete",
                                ![j].second = TRUE, ![j].ok = FALSE]
    /\ UNCHANGED <<hfVars, recordVars, requestVars, cancel>>

RunStep(j) ==
    \/ FetchDoc(j) \/ FetchSecret(j) \/ Complete(j) \/ Unlist(j) \/ Close(j)
    \/ Uncount(j) \/ StoreMetrics(j) \/ Noticed(j)

-----------------------------------------------------------------------------
(* CancelSyncAsync. *)

CancelAt(c, pc) == cancel[c].pc = pc
CancelUnchanged == UNCHANGED <<requestVars, runVars>>

\* Only a project that is counted as syncing is cancelled, then its source.
CancelFetch(c) ==
    /\ CancelAt(c, "fetch")
    /\ cancel' = [cancel EXCEPT ![c].pc =
                    IF queuedCount[Head(cancel[c].left)] > 0 THEN "secret" ELSE "done"]
    /\ UNCHANGED <<hfVars, recordVars>>
    /\ CancelUnchanged

CancelSecret(c) ==
    /\ CancelAt(c, "secret")
    /\ cancel' = [cancel EXCEPT ![c].pc = "delete",
                                ![c].ids = jobIds[Head(cancel[c].left)]]
    /\ UNCHANGED <<hfVars, recordVars>>
    /\ CancelUnchanged

\* backgroundJobClient.Delete for each id in turn, whatever the job's state.
CancelDelete(c) ==
    /\ CancelAt(c, "delete")
    /\ cancel[c].ids # <<>>
    /\ LET j == Head(cancel[c].ids)
       IN IF jobState[j] = "Deleted" THEN UNCHANGED hfVars ELSE Hf!Delete(j)
    /\ cancel' = [cancel EXCEPT ![c].ids = Tail(@)]
    /\ UNCHANGED recordVars
    /\ CancelUnchanged

\* The lists are emptied, with whatever was added since they were read.
CancelClear(c) ==
    /\ CancelAt(c, "delete")
    /\ cancel[c].ids = <<>>
    /\ jobIds' = [jobIds EXCEPT ![Head(cancel[c].left)] = <<>>]
    /\ metricIds' = [metricIds EXCEPT ![Head(cancel[c].left)] = {}]
    /\ cancel' = [cancel EXCEPT ![c].pc = "reset"]
    /\ UNCHANGED <<hfVars, queuedCount>>
    /\ CancelUnchanged

CancelReset(c) ==
    /\ CancelAt(c, "reset")
    /\ queuedCount' = [queuedCount EXCEPT ![Head(cancel[c].left)] = 0]
    /\ cancel' = [cancel EXCEPT ![c].left = Tail(@),
                                ![c].pc = IF Len(cancel[c].left) = 1 THEN "done" ELSE "fetch"]
    /\ UNCHANGED <<hfVars, jobIds, metricIds>>
    /\ CancelUnchanged

-----------------------------------------------------------------------------
RequestStep(r, j) == Schedule(r, j) \/ Count(r, j) \/ List(r, j) \/ EnqueueJob(r, j)
CancelStep(c) ==
    CancelFetch(c) \/ CancelSecret(c) \/ CancelDelete(c) \/ CancelClear(c) \/ CancelReset(c)

Next ==
    \/ \E r \in Requests, j \in SyncJobs : RequestStep(r, j)
    \/ \E r \in Requests : RequestFault(r)
    \/ \E j \in SyncJobs : Timer(j) \/ Elect(j) \/ Start(j) \/ Leave(j)
    \/ \E j \in SyncJobs : RunStep(j) \/ RunFault(j)
    \/ \E c \in Cancels : CancelStep(c)
    \/ Crash

Spec == Init /\ [][Next]_vars

\* Calls and runs go on while their server lives; Hangfire keeps polling.
Fairness ==
    /\ \A r \in Requests, j \in SyncJobs : WF_vars(RequestStep(r, j) /\ Started(r))
    /\ \A j \in SyncJobs : /\ WF_vars(Timer(j))
                           /\ WF_vars(Elect(j))
                           /\ WF_vars(Start(j))
                           /\ WF_vars(Leave(j))
                           /\ WF_vars(RunStep(j))
    /\ \A c \in Cancels : WF_vars(CancelStep(c) /\ CancelStarted(c))

FairSpec == Spec /\ Fairness

-----------------------------------------------------------------------------
(* Properties. *)

\* Done or not yet done for job j, as far as its request and its run have come.
Ahead(what, j) == \E i \in DOMAIN todo[j[1]] : todo[j[1]][i] = <<what, j>>
Ended(j) == jobState[j] = "Succeeded"
Unlisted(j) == Ended(j) \/ run[j].pc \in {"close", "uncount", "metrics", "return"}
Uncounted(j) == Ended(j) \/ run[j].pc \in {"metrics", "return"}
Of(p) == {j \in SyncJobs : ProjectOf(j) = p}

NoFaults == requestFaults = 0 /\ runFaults = 0
NoCancel == \A c \in Cancels : ~CancelStarted(c)
Calm == NoFaults /\ crashes = 0 /\ NoCancel

\* What the clients rely on: while nothing fails, QueuedCount is the number of
\* syncs of the project that were counted in and have not counted themselves
\* out.  It takes the order of SyncAsync: as no job starts before it is counted,
\* the count a run reads at its start, and tests at its end, has its own sync in
\* it, whatever other runs do meanwhile.
CountIsPending ==
    Calm => \A p \in Projects :
        queuedCount[p] = Cardinality({j \in Of(p) : ~Ahead("count", j) /\ ~Uncounted(j)})

\* SFProjectSecret.JobIds has one id for each sync that was listed and has not
\* taken an id off, although a run takes off the first id rather than its own.
\* This one takes the mutex: of two runs that have read the same first id, the
\* second would take off none.
IdsArePending ==
    Calm => \A p \in Projects :
        Len(jobIds[p]) = Cardinality({j \in Of(p) : ~Ahead("list", j) /\ ~Unlisted(j)})

\* SFProjectSecret.cs:20: SyncMetricsIds are "the queued or active SyncMetrics
\* Ids": no id of a sync that returned is left, even after crashes.  A run that
\* failed in InitAsync returns without taking it off, and the target's sync, set
\* going when a cancel deletes its source's, may return before it is listed.
MetricIdsArePending ==
    runFaults = 0 /\ NoCancel => \A p \in Projects : \A j \in metricIds[p] : ~Ended(j)

\* SyncService.cs:95: "We need to sync the source first so that we can link the
\* source texts": no run of a target's job overlaps or precedes that of its
\* source, through crashes, exceptions and retries.  Only a cancel breaks it: it
\* deletes the listed source job, which sets the target going, and SyncAsync
\* then enqueues the deleted job.
TargetAfterSource ==
    NoCancel => \A j \in workers :
        j[2] = "target" /\ SourceOf[j[1]] # NoProject =>
            /\ jobState[<<j[1], "source">>] \in {"Succeeded", "Deleted"}
            /\ <<j[1], "source">> \notin workers

\* The clients' "syncing" display ends: a project that is counted as syncing
\* later is not, through crashes of calls and runs and through cancels, as long
\* as neither SyncAsync nor the bookkeeping of a run throws and no cancel dies
\* half way (it may be repeated by the user, but nothing else repairs it).
SpinnerEnds ==
    [](NoFaults /\ \A c \in Cancels : cancel[c].pc # "died") =>
        \A p \in Projects : queuedCount[p] > 0 ~> queuedCount[p] <= 0
=============================================================================
