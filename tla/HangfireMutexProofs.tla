------------------------- MODULE HangfireMutexProofs -------------------------
(***************************************************************************)
(* Proofs about HangfireMutex, for every set of jobs and every bound.      *)
(***************************************************************************)
EXTENDS HangfireMutex, TLAPS

(* The inductive invariant.  OneOwner alone says nothing of who owns the     *)
(* mutex: the strengthening ties the owner to the transition or the run that *)
(* it protects.                                                              *)

\* A permitted job is fetched, not yet run, and in the resource set.
ElectingOwns ==
    \A j \in electing : /\ j \in owners
                        /\ j \notin workers
                        /\ jobState[j] \in {"Enqueued", "Processing"}

\* A worker performs a job that is Processing, or that was deleted meanwhile.
WorkersRun == \A j \in workers : jobState[j] \in {"Processing", "Deleted"}

\* Undisturbed, Processing means owning the mutex and being performed, and an
\* owner is on its way into, or in, Processing.
ProcessingOwns ==
    Undisturbed => /\ \A j \in Jobs : jobState[j] = "Processing" => j \in owners /\ j \in workers
                   /\ \A j \in owners : j \in electing \/ jobState[j] = "Processing"

IInv == TypeOK /\ OneOwner /\ ElectingOwns /\ WorkersRun /\ ProcessingOwns /\ OwnerIsAlive

-----------------------------------------------------------------------------
LEMMA InitIInv == Init => IInv
  BY MutexAssumption DEF Init, IInv, TypeOK, States, OneOwner, AtMostOne, ElectingOwns, WorkersRun,
     ProcessingOwns, Undisturbed, OwnerIsAlive

\* Every step keeps every variable in its type.
LEMMA TypeStep == TypeOK /\ [Next]_mutexVars => TypeOK'
  <1> SUFFICES ASSUME TypeOK, [Next]_mutexVars PROVE TypeOK'
    OBVIOUS
  <1> USE MutexAssumption DEF TypeOK, Transition, OwnersAfterApply, States
  <1>1. ASSUME NEW j \in Jobs, NEW state \in {"Scheduled", "Awaiting", "Enqueued"}, Create(j, state)
        PROVE TypeOK'
    BY <1>1 DEF Create
  <1>2. ASSUME NEW j \in Jobs, Enqueue(j) PROVE TypeOK'
    BY <1>2 DEF Enqueue
  <1>3. ASSUME NEW j \in Jobs, ElectPermit(j) PROVE TypeOK'
    BY <1>3 DEF ElectPermit
  <1>4. ASSUME NEW j \in Jobs, ElectBlocked(j) PROVE TypeOK'
    <2>1. attempts' \in [Jobs -> 0 .. MaxAttempts]
      BY <1>4 DEF ElectBlocked
    <2> QED
      BY <2>1, <1>4 DEF ElectBlocked
  <1>5. ASSUME NEW j \in Jobs, ElectTimeout(j) PROVE TypeOK'
    BY <1>5 DEF ElectTimeout
  <1>6. ASSUME NEW j \in Jobs, StartProcessing(j) PROVE TypeOK'
    BY <1>6 DEF StartProcessing
  <1>7. ASSUME NEW j \in Jobs, LoseProcessing(j) PROVE TypeOK'
    BY <1>7 DEF LoseProcessing
  <1>8. ASSUME NEW j \in Jobs, Finish(j) PROVE TypeOK'
    BY <1>8 DEF Finish
  <1>9. ASSUME NEW j \in Jobs, LoseFinish(j) PROVE TypeOK'
    BY <1>9 DEF LoseFinish
  <1>10. ASSUME NEW j \in Jobs, Fail(j) PROVE TypeOK'
    <2>1. retries' \in [Jobs -> 0 .. MaxRetries]
      BY <1>10 DEF Fail
    <2> QED
      BY <2>1, <1>10 DEF Fail
  <1>11. ASSUME NEW j \in Jobs, Delete(j) PROVE TypeOK'
    BY <1>11 DEF Delete
  <1>12. ASSUME NEW j \in Jobs, Abandon(j) PROVE TypeOK'
    BY <1>12 DEF Abandon
  <1>13. CASE Crash
    BY <1>13 DEF Crash
  <1>14. CASE UNCHANGED mutexVars
    BY <1>14 DEF mutexVars
  <1> QED
    BY <1>1, <1>2, <1>3, <1>4, <1>5, <1>6, <1>7, <1>8, <1>9, <1>10, <1>11, <1>12, <1>13, <1>14
    DEF Next, Elect, Leave

\* Every step keeps the rest of the invariant.
LEMMA StepIInv == IInv /\ [Next]_mutexVars => IInv'
  <1> SUFFICES ASSUME IInv, [Next]_mutexVars PROVE IInv'
    OBVIOUS
  <1>t. TypeOK /\ TypeOK'
    BY TypeStep DEF IInv
  <1> DEFINE Rest == OneOwner /\ ElectingOwns /\ WorkersRun /\ ProcessingOwns /\ OwnerIsAlive
  <1> SUFFICES Rest'
    BY <1>t DEF IInv
  <1> USE MutexAssumption, <1>t DEF TypeOK, IInv, Transition, OwnersAfterApply, States, Final,
          OneOwner, AtMostOne, ElectingOwns, WorkersRun, ProcessingOwns, Undisturbed, OwnerIsAlive
  <1>1. ASSUME NEW j \in Jobs, NEW state \in {"Scheduled", "Awaiting", "Enqueued"}, Create(j, state)
        PROVE Rest'
    BY <1>1 DEF Create
  <1>2. ASSUME NEW j \in Jobs, Enqueue(j) PROVE Rest'
    BY <1>2 DEF Enqueue
  <1>3. ASSUME NEW j \in Jobs, ElectPermit(j) PROVE Rest'
    BY <1>3 DEF ElectPermit, Fetchable, Blocked
  <1>4. ASSUME NEW j \in Jobs, ElectBlocked(j) PROVE Rest'
    <2>1. j \notin owners
      BY <1>4 DEF ElectBlocked, Blocked
    <2>2. /\ \E new \in {"Scheduled", "Deleted"} : jobState' = [jobState EXCEPT ![j] = new]
          /\ owners' = owners
          /\ UNCHANGED <<electing, workers, retries, crashes, losses>>
      <3>1. PICK new \in {"Scheduled", "Deleted"} : Transition(j, new)
        BY <1>4 DEF ElectBlocked
      <3>2. owners \ {j} = owners
        BY <2>1
      <3> QED
        BY <1>4, <3>1, <3>2 DEF ElectBlocked
    <2>3. j \notin electing /\ j \notin workers
      BY <1>4 DEF ElectBlocked, Fetchable
    <2> QED
      BY <2>1, <2>2, <2>3
  <1>5. ASSUME NEW j \in Jobs, ElectTimeout(j) PROVE Rest'
    BY <1>5 DEF ElectTimeout, Fetchable
  <1>6. ASSUME NEW j \in Jobs, StartProcessing(j) PROVE Rest'
    BY <1>6 DEF StartProcessing
  <1>7. ASSUME NEW j \in Jobs, LoseProcessing(j) PROVE Rest'
    BY <1>7 DEF LoseProcessing
  <1>8. ASSUME NEW j \in Jobs, Finish(j) PROVE Rest'
    BY <1>8 DEF Finish
  <1>9. ASSUME NEW j \in Jobs, LoseFinish(j) PROVE Rest'
    BY <1>9 DEF LoseFinish
  <1>10. ASSUME NEW j \in Jobs, Fail(j) PROVE Rest'
    BY <1>10 DEF Fail
  <1>11. ASSUME NEW j \in Jobs, Delete(j) PROVE Rest'
    BY <1>11 DEF Delete
  <1>12. ASSUME NEW j \in Jobs, Abandon(j) PROVE Rest'
    BY <1>12 DEF Abandon
  <1>13. CASE Crash
    BY <1>13 DEF Crash
  <1>14. CASE UNCHANGED mutexVars
    BY <1>14 DEF mutexVars
  <1> QED
    BY <1>1, <1>2, <1>3, <1>4, <1>5, <1>6, <1>7, <1>8, <1>9, <1>10, <1>11, <1>12, <1>13, <1>14
    DEF Next, Elect, Leave

LEMMA Invariance == Spec => []IInv
  BY InitIInv, StepIInv, PTL DEF Spec

-----------------------------------------------------------------------------
\* Every variable keeps its type.
THEOREM TypeCorrect == Spec => []TypeOK
  <1>1. IInv => TypeOK
    BY DEF IInv
  <1> QED
    BY <1>1, Invariance, PTL

\* The resource set never holds two jobs, with any number of crashes, lost
\* transactions and deletions.
THEOREM MutexHasOneOwner == Spec => []OneOwner
  <1>1. IInv => OneOwner
    BY DEF IInv
  <1> QED
    BY <1>1, Invariance, PTL

\* While nothing crashed and no outer transaction was lost, one Processing job
\* at most is performed, whatever is deleted.
THEOREM MutualExclusion == Spec => []ProcessingExcludes
  <1>1. IInv => ProcessingExcludes
    BY DEF IInv, TypeOK, OneOwner, AtMostOne, ProcessingOwns, Undisturbed,
     ProcessingExcludes, Performing
  <1> QED
    BY <1>1, Invariance, PTL

\* A job that ended normally is never left in the resource set.
THEOREM OwnersAreAlive == Spec => []OwnerIsAlive
  <1>1. IInv => OwnerIsAlive
    BY DEF IInv
  <1> QED
    BY <1>1, Invariance, PTL

\* A permitted job keeps the mutex until it has started.
THEOREM PermitsAreKept == Spec => PermitIsKept
  <1>1. IInv /\ [Next]_mutexVars =>
          [\A j \in electing : j \in owners' \/ (jobState[j] = "Processing" /\ j \notin electing')]_mutexVars
    <2> SUFFICES ASSUME IInv, Next, NEW i \in electing
                 PROVE  i \in owners' \/ (jobState[i] = "Processing" /\ i \notin electing')
      BY DEF mutexVars
    <2> USE DEF IInv, TypeOK, ElectingOwns, OneOwner, AtMostOne, Transition, OwnersAfterApply
    <2>1. ASSUME NEW j \in Jobs, NEW state \in {"Scheduled", "Awaiting", "Enqueued"}, Create(j, state)
          PROVE  i \in owners'
      BY <2>1 DEF Create
    <2>2. ASSUME NEW j \in Jobs, Enqueue(j) PROVE i \in owners'
      BY <2>2 DEF Enqueue
    <2>3. ASSUME NEW j \in Jobs, Elect(j) PROVE i \in owners'
      BY <2>3 DEF Elect, ElectPermit, ElectBlocked, Blocked, Fetchable
    <2>4. ASSUME NEW j \in Jobs, ElectTimeout(j) PROVE i \in owners'
      BY <2>4 DEF ElectTimeout, Fetchable
    <2>5. ASSUME NEW j \in Jobs, StartProcessing(j) \/ LoseProcessing(j)
          PROVE  i \in owners' \/ (jobState[i] = "Processing" /\ i \notin electing')
      BY <2>5 DEF StartProcessing, LoseProcessing
    <2>6. ASSUME NEW j \in Jobs, Leave(j) \/ LoseFinish(j) PROVE i \in owners'
      BY <2>6 DEF Leave, Finish, Fail, Abandon, LoseFinish
    <2>7. ASSUME NEW j \in Jobs, Delete(j) PROVE i \in owners'
      BY <2>7 DEF Delete
    <2>8. CASE Crash
      BY <2>8 DEF Crash
    <2> QED
      BY <2>1, <2>2, <2>3, <2>4, <2>5, <2>6, <2>7, <2>8 DEF Next
  <1> QED
    BY <1>1, Invariance, PTL DEF Spec, PermitIsKept

-----------------------------------------------------------------------------
(* Until something crashes or is lost the jobs performed come and go like     *)
(* the holders of the abstract lock.                                          *)

\* What the refinement mapping shows of the jobs performed.
Shown == IF Undisturbed THEN Performing ELSE {}

\* Jobs enter and leave Processing one at a time, whatever is deleted; the first
\* crash or loss reads as the leaving of the one that is in.
THEOREM Refinement == Spec => ImplementsExclusiveExecution
  <1> USE MutexAssumption
  <1>1. Init => Lock!Init
    BY DEF Init, Lock!Init, Performing
  <1>2. IInv /\ [Next]_mutexVars => [Lock!Next]_Shown
    <2> SUFFICES ASSUME IInv, [Next]_mutexVars PROVE [Lock!Next]_Shown
      OBVIOUS
    <2>t. TypeOK /\ TypeOK'
      BY TypeStep DEF IInv
    <2>0. Undisturbed => \A i, j \in Performing : i = j
      BY DEF IInv, TypeOK, OneOwner, AtMostOne, ProcessingOwns, Performing
    <2>a. CASE ~Undisturbed
      <3>1. ~Undisturbed'
        <4> USE <2>t, <2>a DEF TypeOK, Undisturbed
        <4>1. crashes' = crashes \/ crashes' = crashes + 1
          BY DEF Next, Create, Enqueue, Elect, ElectPermit, ElectBlocked, ElectTimeout, StartProcessing,
             LoseProcessing, Leave, Finish, Fail, Abandon, LoseFinish, Delete, Crash, mutexVars
        <4>2. losses' = losses \/ losses' = losses + 1
          BY DEF Next, Create, Enqueue, Elect, ElectPermit, ElectBlocked, ElectTimeout, StartProcessing,
             LoseProcessing, Leave, Finish, Fail, Abandon, LoseFinish, Delete, Crash, mutexVars
        <4> QED
          BY <4>1, <4>2
      <3> QED
        BY <2>a, <3>1 DEF Shown
    <2>b. CASE Undisturbed /\ ~Undisturbed'
      <3>1. Shown' = {}
        BY <2>b DEF Shown
      <3>2. CASE Performing = {}
        BY <2>b, <3>1, <3>2 DEF Shown
      <3>3. CASE Performing # {}
        <4>1. PICK j \in Performing : TRUE
          BY <3>3
        <4>2. Shown = {j} /\ j \in Jobs
          BY <2>0, <2>b, <4>1, <2>t DEF Shown, Performing, TypeOK
        <4> QED
          BY <3>1, <4>2 DEF Lock!Next, Lock!Stop, Shown
      <3> QED
        BY <3>2, <3>3
    <2>c. CASE Undisturbed /\ Undisturbed'
      <3> SUFFICES Performing' = Performing
                     \/ \E j \in Jobs : \/ Performing = {} /\ Performing' = {j}
                                        \/ Performing = {j} /\ Performing' = {}
        BY <2>c DEF Shown, Lock!Next, Lock!Start, Lock!Stop
      <3> USE <2>t, <2>c DEF IInv, TypeOK, ElectingOwns, Transition, Performing
      <3>1. ASSUME NEW j \in Jobs, StartProcessing(j) PROVE Performing = {} /\ Performing' = {j}
        <4>1. Performing = {}
          BY <3>1 DEF StartProcessing, OneOwner, AtMostOne, ProcessingOwns
        <4> QED
          BY <3>1, <4>1 DEF StartProcessing
      <3>2. ASSUME NEW j \in Jobs, Finish(j) \/ Fail(j) PROVE Performing = {j} /\ Performing' = {}
        <4>1. Performing = {j}
          BY <2>0, <3>2 DEF Finish, Fail
        <4>2. j \notin Performing' /\ Performing' \subseteq Performing
          BY <3>2 DEF Finish, Fail
        <4> QED
          BY <4>1, <4>2
      <3>3. ASSUME NEW j \in Jobs, Delete(j)
            PROVE  Performing' = Performing \/ (Performing = {j} /\ Performing' = {})
        <4>1. Performing' = Performing \ {j}
          BY <3>3 DEF Delete
        <4> QED
          BY <2>0, <4>1
      <3>4. ASSUME NEW j \in Jobs, Enqueue(j) \/ Elect(j) \/ Abandon(j) PROVE Performing' = Performing
        <4>1. Enqueue(j) \/ Elect(j) => j \notin workers
          BY DEF Enqueue, Elect, ElectPermit, ElectBlocked, Fetchable, WorkersRun
        <4>2. CASE Abandon(j)
          BY <4>2 DEF Abandon
        <4>3. CASE Enqueue(j) \/ Elect(j)
          BY <4>1, <4>3 DEF Enqueue, Elect, ElectPermit, ElectBlocked
        <4> QED
          BY <3>4, <4>2, <4>3
      <3>5. ASSUME NEW j \in Jobs, ElectTimeout(j) \/ LoseProcessing(j) \/ LoseFinish(j) PROVE FALSE
        BY <3>5 DEF ElectTimeout, LoseProcessing, LoseFinish, Undisturbed
      <3>6. ASSUME NEW j \in Jobs, NEW state \in {"Scheduled", "Awaiting", "Enqueued"}, Create(j, state)
            PROVE  Performing' = Performing
        <4>1. j \notin workers
          BY <3>6 DEF Create, WorkersRun
        <4> QED
          BY <3>6, <4>1 DEF Create
      <3>7. CASE Crash
        BY <3>7 DEF Crash, Undisturbed
      <3>8. CASE UNCHANGED mutexVars
        BY <3>8 DEF mutexVars
      <3> QED
        BY <3>1, <3>2, <3>3, <3>4, <3>5, <3>6, <3>7, <3>8 DEF Next, Leave
    <2> QED
      BY <2>a, <2>b, <2>c
  <1> QED
    BY <1>1, <1>2, Invariance, PTL DEF Spec, Lock!Spec, ImplementsExclusiveExecution, Shown
=============================================================================
