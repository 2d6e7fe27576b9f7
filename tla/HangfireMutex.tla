---------------------------- MODULE HangfireMutex ----------------------------
(***************************************************************************)
(* MutexAttribute (SIL.XForge.Scripture/Services/MutexAttribute.cs) on top *)
(* of the Hangfire job engine.                                             *)
(*                                                                         *)
(* Hangfire asks the filter when a worker wants to move a job to           *)
(* Processing (OnStateElection) and tells it when a state change is being  *)
(* applied (OnStateApplied).  The filter keeps, in the job storage, a set  *)
(* of the jobs that own the mutex.  Both callbacks touch that set in a     *)
(* local transaction under a distributed lock, while the job's new state   *)
(* is committed by an outer transaction of Hangfire's that may still fail. *)
(*                                                                         *)
(* Every use of the attribute is on a method of a service interface and    *)
(* names no resource, so there is one set per method: "owners" is the set  *)
(* of IParatextSyncRunner.RunAsync, or of any other such method.           *)
(*                                                                         *)
(* The filter also inherits OnPerforming of                                *)
(* DisableConcurrentExecutionAttribute: a worker takes a distributed lock  *)
(* before it calls the method.  That lock is left out.  It makes a worker  *)
(* wait whose job is Processing already, for a day at the most, and throw  *)
(* then; what is said here is about the state Processing, not about the    *)
(* method.                                                                 *)
(***************************************************************************)
EXTENDS Integers, FiniteSets

CONSTANTS
    Jobs,         \* the background jobs
    MaxAttempts,  \* MutexAttribute.MaxAttempts; 0 means retry for ever
    MaxRetries,   \* attempts of Hangfire's AutomaticRetry filter before Failed
    Deletable,    \* the jobs somebody may delete
    MaxCrashes,   \* bound: crashes of the application server
    MaxLosses     \* bound: outer state transactions that fail to commit

ASSUME MutexAssumption ==
    /\ MaxAttempts \in Nat
    /\ MaxRetries \in Nat
    /\ MaxCrashes \in Nat
    /\ MaxLosses \in Nat
    /\ Deletable \subseteq Jobs

VARIABLES
    jobState,   \* the state name Hangfire stores for each job
    owners,     \* the resource set: jobs that own the mutex
    electing,   \* jobs permitted by OnStateElection, outer transaction pending
    workers,    \* jobs a worker has taken: it waits in OnPerforming or is in the method
    attempts,   \* the MutexAttempt job parameter
    retries,    \* the RetryCount job parameter of AutomaticRetry
    crashes,    \* crashes so far
    losses      \* lost outer transactions so far

mutexVars == <<jobState, owners, electing, workers, attempts, retries, crashes, losses>>

States == {"Absent", "Scheduled", "Awaiting", "Enqueued", "Processing",
           "Succeeded", "Failed", "Deleted"}
Final == {"Succeeded", "Failed", "Deleted"}

TypeOK ==
    /\ jobState \in [Jobs -> States]
    /\ owners \subseteq Jobs
    /\ electing \subseteq Jobs
    /\ workers \subseteq Jobs
    /\ attempts \in [Jobs -> 0 .. MaxAttempts]
    /\ retries \in [Jobs -> 0 .. MaxRetries]
    /\ crashes \in 0 .. MaxCrashes
    /\ losses \in 0 .. MaxLosses

Init ==
    /\ jobState = [j \in Jobs |-> "Absent"]
    /\ owners = {}
    /\ electing = {}
    /\ workers = {}
    /\ attempts = [j \in Jobs |-> 0]
    /\ retries = [j \in Jobs |-> 0]
    /\ crashes = 0
    /\ losses = 0

-----------------------------------------------------------------------------
(* Building blocks. *)

\* Mutants of OwnersAfterApply: the test of the old state is dropped; the job is
\* never removed; the key of the set is removed instead of the job's id.
DroppedByAnyTransition(j) == owners \ {j}
NeverDropped(j) == owners
WholeSetDropped(j) == IF jobState[j] = "Processing" THEN {} ELSE owners

\* OnStateApplied: a transition out of Processing drops the job from the set.
OwnersAfterApply(j) ==
    IF jobState[j] = "Processing" THEN owners \ {j} ELSE owners

\* A whole state change of j: the filters run, then the new state is committed.
Transition(j, new) ==
    /\ jobState' = [jobState EXCEPT ![j] = new]
    /\ owners' = OwnersAfterApply(j)

\* A worker may fetch a queued job, or a job whose former worker died.
Fetchable(j) ==
    /\ jobState[j] \in {"Enqueued", "Processing"}
    /\ j \notin workers
    /\ j \notin electing

\* blockedBy: somebody else owns the resource.
Blocked(j) == \E o \in owners : o # j

-----------------------------------------------------------------------------
(* Hangfire's own transitions. *)

\* Schedule, ContinueJobWith or Enqueue stores a new job.
Create(j, state) ==
    /\ jobState[j] = "Absent"
    /\ Transition(j, state)
    /\ UNCHANGED <<electing, workers, attempts, retries, crashes, losses>>

\* The delay elapsed, the parent finished, or ChangeState(job, EnqueuedState).
Enqueue(j) ==
    /\ jobState[j] \in {"Scheduled", "Awaiting"}
    /\ Transition(j, "Enqueued")
    /\ UNCHANGED <<electing, workers, attempts, retries, crashes, losses>>

-----------------------------------------------------------------------------
(* OnStateElection, for a job a worker wants to process. *)

\* Mutant of ElectPermit: the set is not read before the job is added to it.
PermitUnread(j) ==
    /\ Fetchable(j)
    /\ owners' = owners \cup {j}
    /\ electing' = electing \cup {j}
    /\ UNCHANGED <<jobState, workers, attempts, retries, crashes, losses>>

\* The set is empty or j's own: j is added in a committed local transaction.
ElectPermit(j) ==
    /\ Fetchable(j)
    /\ ~Blocked(j)
    /\ owners' = owners \cup {j}
    /\ electing' = electing \cup {j}
    /\ UNCHANGED <<jobState, workers, attempts, retries, crashes, losses>>

\* Somebody else owns it: scheduled for a retry, or deleted after MaxAttempts.
\* The count is capped at MaxAttempts, beyond which every attempt is alike.
ElectBlocked(j) ==
    /\ Fetchable(j)
    /\ Blocked(j)
    /\ LET attempt == attempts[j] + 1
       IN /\ attempts' = [attempts EXCEPT ![j] = IF attempt > MaxAttempts THEN @ ELSE attempt]
          /\ Transition(j, IF MaxAttempts = 0 \/ attempt <= MaxAttempts
                           THEN "Scheduled" ELSE "Deleted")
    /\ UNCHANGED <<electing, workers, retries, crashes, losses>>

\* The distributed lock of the set could not be taken within a minute.
ElectTimeout(j) ==
    /\ Fetchable(j)
    /\ losses < MaxLosses
    /\ losses' = losses + 1
    /\ Transition(j, "Scheduled")
    /\ UNCHANGED <<electing, workers, attempts, retries, crashes>>

-----------------------------------------------------------------------------
(* The outer transaction of an elected transition, and the end of a run. *)

\* The job is Processing and its worker performs it: it waits for the inherited
\* lock, then calls the method.  When it already was Processing (its worker died),
\* OnStateApplied sees the old state and drops the owner.
StartProcessing(j) ==
    /\ j \in electing
    /\ Transition(j, "Processing")
    /\ electing' = electing \ {j}
    /\ workers' = workers \cup {j}
    /\ UNCHANGED <<attempts, retries, crashes, losses>>

\* The outer transaction fails, before or after OnStateApplied ran.
LoseProcessing(j) ==
    /\ j \in electing
    /\ losses < MaxLosses
    /\ losses' = losses + 1
    /\ owners' \in {owners, OwnersAfterApply(j)}
    /\ electing' = electing \ {j}
    /\ UNCHANGED <<jobState, workers, attempts, retries, crashes>>

\* The method returned.
Finish(j) ==
    /\ j \in workers
    /\ jobState[j] = "Processing"
    /\ Transition(j, "Succeeded")
    /\ workers' = workers \ {j}
    /\ UNCHANGED <<electing, attempts, retries, crashes, losses>>

\* The method returned or threw, but the final state is not committed: the job
\* stays Processing and will be fetched again.
LoseFinish(j) ==
    /\ j \in workers
    /\ jobState[j] = "Processing"
    /\ losses < MaxLosses
    /\ losses' = losses + 1
    /\ owners' \in {owners, OwnersAfterApply(j)}
    /\ workers' = workers \ {j}
    /\ UNCHANGED <<jobState, electing, attempts, retries, crashes>>

\* Mutant of Fail: the retries are not limited.
RetryForever(j) ==
    /\ j \in workers
    /\ jobState[j] = "Processing"
    /\ retries' = [retries EXCEPT ![j] = @ + 1]
    /\ Transition(j, "Scheduled")
    /\ workers' = workers \ {j}
    /\ UNCHANGED <<electing, attempts, crashes, losses>>

\* The method threw, or the wait for its lock: AutomaticRetry schedules it again until it gives up.
Fail(j) ==
    /\ j \in workers
    /\ jobState[j] = "Processing"
    /\ IF retries[j] < MaxRetries
       THEN /\ retries' = [retries EXCEPT ![j] = @ + 1]
            /\ Transition(j, "Scheduled")
       ELSE /\ Transition(j, "Failed")
            /\ UNCHANGED retries
    /\ workers' = workers \ {j}
    /\ UNCHANGED <<electing, attempts, crashes, losses>>

\* IBackgroundJobClient.Delete.  A worker that performs the job keeps running
\* until it notices: its cancellation token is polled.
Delete(j) ==
    /\ j \in Deletable
    /\ j \notin electing
    /\ jobState[j] \notin {"Absent", "Deleted"}
    /\ Transition(j, "Deleted")
    /\ UNCHANGED <<electing, workers, attempts, retries, crashes, losses>>

\* The worker of a deleted job returns or throws; the job's state is final.
Abandon(j) ==
    /\ j \in workers
    /\ jobState[j] # "Processing"
    /\ workers' = workers \ {j}
    /\ UNCHANGED <<jobState, owners, electing, attempts, retries, crashes, losses>>

\* The application server dies with its workers; the job storage survives.
Crash ==
    /\ crashes < MaxCrashes
    /\ crashes' = crashes + 1
    /\ workers' = {}
    /\ electing' = {}
    /\ UNCHANGED <<jobState, owners, attempts, retries, losses>>

-----------------------------------------------------------------------------
Elect(j) == ElectPermit(j) \/ ElectBlocked(j)
Leave(j) == Finish(j) \/ Fail(j) \/ Abandon(j)

Next ==
    \/ \E j \in Jobs : \E state \in {"Scheduled", "Awaiting", "Enqueued"} : Create(j, state)
    \/ \E j \in Jobs : Enqueue(j)
    \/ \E j \in Jobs : Elect(j)
    \/ \E j \in Jobs : ElectTimeout(j)
    \/ \E j \in Jobs : StartProcessing(j)
    \/ \E j \in Jobs : LoseProcessing(j)
    \/ \E j \in Jobs : Leave(j)
    \/ \E j \in Jobs : LoseFinish(j)
    \/ \E j \in Jobs : Delete(j)
    \/ Crash

Spec == Init /\ [][Next]_mutexVars

\* Hangfire's schedulers and workers keep polling, and a sync that runs ends.
Fairness ==
    \A j \in Jobs : /\ WF_mutexVars(Enqueue(j))
                    /\ WF_mutexVars(Elect(j))
                    /\ WF_mutexVars(StartProcessing(j))
                    /\ WF_mutexVars(Leave(j))

FairSpec == Spec /\ Fairness

-----------------------------------------------------------------------------
(* Properties. *)

AtMostOne(S) == \A i, j \in S : i = j

\* No server died and no outer transaction was lost so far.
Undisturbed == crashes = 0 /\ losses = 0

\* The resource set never names two jobs, whatever crashes, is lost or deleted:
\* the read and the write of OnStateElection are one step under the lock.
OneOwner == AtMostOne(owners)

\* The jobs that are Processing with a worker, in the method or waiting for its
\* lock.  The worker of a deleted job may be in the method until it polls its
\* token, and the next one's waits for it.
Performing == {j \in workers : jobState[j] = "Processing"}

\* The promise of MutexAttribute while no server died and no outer transaction
\* was lost: one job at most is let into Processing and has a worker, even when
\* others are deleted under it.
ProcessingExcludes == Undisturbed => AtMostOne(Performing)

\* A job that ran to its end never holds up the others: no crash or lost commit
\* leaves its id in the resource set.  A deleted one can only be left there by a
\* crash or a lost commit between its election and the outer transaction.
OwnerIsAlive ==
    \A j \in owners :
        /\ jobState[j] \notin {"Succeeded", "Failed"}
        /\ Undisturbed => jobState[j] # "Deleted"

\* A job permitted to run keeps the mutex until it has started: nobody else's
\* transition, and none of its own from another state, takes the id out.
PermitIsKept ==
    [][\A j \in electing : j \in owners' \/ (jobState[j] = "Processing" /\ j \notin electing')]_mutexVars

\* Every queued job is eventually done with, however often it is blocked and
\* rescheduled and whatever is deleted meanwhile.  It takes the release of the
\* mutex on every way out of Processing.  It is promised until a server dies or an
\* outer transaction is lost: together with a deletion these may leave a dead
\* owner behind (see OwnerIsAlive).
EveryJobEnds ==
    \A j \in Jobs : jobState[j] = "Enqueued" ~> jobState[j] \in Final \/ ~Undisturbed

\* MutexAttribute.cs:17-18: a job that starts executing, "i.e. because the jobs
\* were all restarted", is "blocked and rescheduled until the first job finishes".
\* A restarted job goes from Processing to Processing and loses the mutex as it
\* starts: the next job is not blocked but let into Processing beside it, and only
\* the inherited lock, for which its worker has to wait, keeps it from the method.
BlockedAfterRestart == AtMostOne(Performing)

-----------------------------------------------------------------------------
(* Until a crash or a lost transaction the jobs with a worker come and go     *)
(* like the critical sections of an abstract lock.                            *)

Lock == INSTANCE ExclusiveExecution WITH running <- IF Undisturbed THEN Performing ELSE {}

\* Jobs enter and leave Processing one at a time, never overlapping; the deletion
\* of the one that is performed counts as leaving, and so does the first
\* disturbance, after which nothing is claimed.
ImplementsExclusiveExecution == Lock!Spec
=============================================================================
