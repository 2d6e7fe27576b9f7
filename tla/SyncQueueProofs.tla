--------------------------- MODULE SyncQueueProofs ---------------------------
(***************************************************************************)
(* Proofs about SyncQueue, for any projects and requests.  As long as      *)
(* nobody cancels and no request names the job of another: through         *)
(* crashes, exceptions and retries the target's sync follows its source's, *)
(* and the metrics ids in a project secret are those of syncs that have    *)
(* not returned; while nothing fails, the count of a project and its list  *)
(* of job ids are those of its pending syncs.  The last part, with cancels *)
(* and continuations, is about the types: no id is listed twice, and a     *)
(* count is off by no more than there are syncs.                           *)
(***************************************************************************)
EXTENDS SyncQueue, SequenceTheorems, FiniteSetTheorems,
        WellFoundedInduction, TLAPS

\* The requests are on their own, and nobody cancels.
Standalone == Cancels = {} /\ \A r \in Requests : ParentOf[r] = NoRequest

\* The job SyncAsync enqueues: the source's, if there is one.
First(r) == IF SourceOf[r] # NoProject THEN <<r, "source">> ELSE <<r, "target">>

Words == {"schedule", "count", "list", "enqueue"}

IsRun(x) == x = [pc |-> x.pc, ok |-> x.ok, second |-> x.second, closed |-> x.closed,
                 count |-> x.count, head |-> x.head, listed |-> x.listed]

\* The shapes of the variables the proofs look into.
Shapes ==
    /\ jobState \in [SyncJobs -> Hf!States]
    /\ electing \subseteq SyncJobs
    /\ workers \subseteq SyncJobs
    /\ todo \in [Requests -> Seq(Words \X SyncJobs)]
    /\ metricIds \in [Projects -> SUBSET SyncJobs]
    /\ run = [j \in SyncJobs |-> run[j]]
    /\ \A j \in SyncJobs : IsRun(run[j])
    /\ runFaults \in Nat

\* What a call of SyncAsync has left: steps for its own jobs, the last of them
\* to enqueue the first job.  Before it starts there are no jobs.
Plans ==
    \A r \in Requests :
        /\ \A i \in DOMAIN todo[r] :
              /\ todo[r][i][2][1] = r
              /\ todo[r][i][1] = "enqueue" => i = Len(todo[r]) /\ todo[r][i][2] = First(r)
        /\ Len(todo[r]) <= Len(Plan(r))
        /\ todo[r] = Plan(r) => \A j \in SyncJobs : j[1] = r => jobState[j] = "Absent"

\* Until the call is done its jobs wait: the first for the call, the target's
\* for the source's.
Waiting ==
    \A r \in Requests :
        /\ jobState[First(r)] # "Awaiting"
        /\ todo[r] # <<>> =>
              \A j \in SyncJobs : j[1] = r =>
                  jobState[j] \in {"Absent", IF j = First(r) THEN "Scheduled" ELSE "Awaiting"}

\* A worker executes a job that is Processing, and it alone runs RunAsync.
Executed ==
    \A j \in SyncJobs :
        /\ j \in workers => jobState[j] = "Processing"
        /\ j \in electing => jobState[j] \in {"Enqueued", "Processing"} /\ j \notin workers
        /\ run[j].pc # "idle" => j \in workers

\* The target's job is not set going before the source's is over for good.
Ordered ==
    \A r \in Requests : SourceOf[r] # NoProject =>
        \/ jobState[<<r, "target">>] \in {"Absent", "Awaiting", "Deleted"}
        \/ todo[r] = <<>> /\ jobState[<<r, "source">>] \in {"Succeeded", "Deleted"}

\* A metrics id that is still there is that of a run that has not come to
\* Unlist, or that has seen it.
Metrics ==
    runFaults = 0 =>
        \A p \in Projects : \A j \in metricIds[p] :
            /\ p = ProjectOf(j)
            /\ ~Ended(j)
            /\ run[j].pc \in {"complete", "unlist"} => run[j].listed
            /\ run[j].pc \notin {"close", "uncount", "metrics", "return"}

IInv == Standalone /\ Shapes /\ Plans /\ Waiting /\ Executed /\ Ordered /\ Metrics

-----------------------------------------------------------------------------
(* Jobs and plans. *)

\* A job is a source's or a target's.
LEMMA JobIs ==
    ASSUME NEW j \in SyncJobs
    PROVE  /\ j[1] \in Requests /\ ProjectOf(j) \in Projects /\ j # NoJob
           /\ \/ j = <<j[1], "target">>
              \/ j = <<j[1], "source">> /\ SourceOf[j[1]] # NoProject
  BY QueueAssumption DEF SyncJobs, ProjectOf, NoJob

\* The first job of a call is one of its jobs.
LEMMA FirstIs ==
    ASSUME NEW r \in Requests
    PROVE  /\ First(r) \in SyncJobs /\ First(r)[1] = r
           /\ <<r, "target">> \in SyncJobs
           /\ SourceOf[r] # NoProject => <<r, "source">> \in SyncJobs /\ First(r) = <<r, "source">>
           /\ SourceOf[r] = NoProject => First(r) = <<r, "target">>
  BY DEF First, SyncJobs

\* What each job continues.
LEMMA ParentIs ==
    ASSUME Standalone, NEW j \in SyncJobs
    PROVE  IF j = First(j[1]) THEN ParentJob(j) = NoJob
           ELSE /\ j = <<j[1], "target">> /\ SourceOf[j[1]] # NoProject
                /\ ParentJob(j) = <<j[1], "source">> /\ ParentJob(j) # NoJob
                /\ ParentJob(j) = First(j[1])
  <1>1. CASE j = <<j[1], "source">> /\ SourceOf[j[1]] # NoProject
    BY <1>1, JobIs DEF ParentJob, First, Standalone
  <1>2. CASE j = <<j[1], "target">> /\ SourceOf[j[1]] # NoProject
    BY <1>2, JobIs, QueueAssumption DEF ParentJob, First, NoJob
  <1>3. CASE j = <<j[1], "target">> /\ SourceOf[j[1]] = NoProject
    BY <1>3, JobIs DEF ParentJob, First, Standalone
  <1> QED BY <1>1, <1>2, <1>3, JobIs

\* What a call does in all.
LEMMA PlanIs ==
    ASSUME NEW r \in Requests
    PROVE  /\ Plan(r) \in Seq(Words \X SyncJobs) /\ Plan(r) # <<>>
           /\ \A i \in DOMAIN Plan(r) :
                 /\ Plan(r)[i][2][1] = r
                 /\ Plan(r)[i][1] = "enqueue" => i = Len(Plan(r)) /\ Plan(r)[i][2] = First(r)
  <1> DEFINE t == <<r, "target">>
             s == <<r, "source">>
  <1>1. CASE SourceOf[r] # NoProject
    <2>1. s \in SyncJobs /\ t \in SyncJobs /\ s[1] = r /\ t[1] = r /\ First(r) = s
      BY <1>1 DEF SyncJobs, First
    <2>2. Plan(r) = << <<"schedule", s>>, <<"schedule", t>>, <<"count", t>>, <<"count", s>>,
                       <<"list", s>>, <<"list", t>>, <<"enqueue", s>> >>
      BY <1>1 DEF Plan
    <2> HIDE DEF s, t
    <2> QED BY <2>1, <2>2 DEF Words
  <1>2. CASE SourceOf[r] = NoProject
    <2>1. t \in SyncJobs /\ t[1] = r /\ First(r) = t
      BY <1>2 DEF SyncJobs, First
    <2>2. Plan(r) = << <<"schedule", t>>, <<"count", t>>, <<"list", t>>, <<"enqueue", t>> >>
      BY <1>2 DEF Plan
    <2> HIDE DEF t
    <2> QED BY <2>1, <2>2 DEF Words
  <1> QED BY <1>1, <1>2

\* What a step of SyncAsync leaves to be done.
Advanced(r) ==
    /\ todo' \in [Requests -> Seq(Words \X SyncJobs)]
    /\ \A q \in Requests \ {r} : todo'[q] = todo[q]
    /\ \A i \in DOMAIN todo'[r] :
          /\ todo'[r][i][2][1] = r
          /\ todo'[r][i][1] = "enqueue" => i = Len(todo'[r]) /\ todo'[r][i][2] = First(r)
    /\ Len(todo'[r]) <= Len(Plan(r)) /\ todo'[r] # Plan(r)

\* What a step of a call leaves to do.
LEMMA StepIs ==
    ASSUME Shapes, Plans, NEW r \in Requests, NEW what, NEW j, At(r, what, j), Advance(r)
    PROVE  /\ j \in SyncJobs /\ j[1] = r /\ todo[r] # <<>>
           /\ what = "enqueue" => j = First(r) /\ todo'[r] = <<>>
           /\ Advanced(r)
  <1> DEFINE q == todo[r]
  <1>1. q \in Seq(Words \X SyncJobs) /\ q # <<>> /\ Head(q) = <<what, j>>
    BY DEF Shapes, At
  <1>2. todo' = [todo EXCEPT ![r] = Tail(q)] /\ todo \in [Requests -> Seq(Words \X SyncJobs)]
    BY DEF Advance, Shapes
  <1>3. /\ Len(q) \in Nat \ {0} /\ Tail(q) \in Seq(Words \X SyncJobs)
        /\ Len(Tail(q)) = Len(q) - 1
        /\ \A i \in 1 .. Len(Tail(q)) : Tail(q)[i] = q[i + 1]
    BY <1>1, HeadTailProperties
  <1>4. /\ \A i \in DOMAIN q : /\ q[i][2][1] = r
                               /\ q[i][1] = "enqueue" => i = Len(q) /\ q[i][2] = First(r)
        /\ Len(q) <= Len(Plan(r))
    BY DEF Plans
  <1>5. /\ 1 \in DOMAIN q /\ q[1] = <<what, j>> /\ q[1] \in Words \X SyncJobs
        /\ q[1][1] = what /\ q[1][2] = j
    BY <1>1, <1>3
  <1>6. j \in SyncJobs /\ j[1] = r
    BY <1>4, <1>5
  <1>7. what = "enqueue" => j = First(r) /\ Tail(q) = <<>>
    <2> SUFFICES ASSUME what = "enqueue" PROVE j = First(r) /\ Tail(q) = <<>>
      OBVIOUS
    <2>1. j = First(r) /\ Len(q) = 1
      BY <1>4, <1>5
    <2>2. Len(Tail(q)) = 0
      BY <1>3, <2>1
    <2> QED BY <1>3, <2>1, <2>2, EmptySeq
  <1>8. \A i \in DOMAIN Tail(q) :
           /\ Tail(q)[i][2][1] = r
           /\ Tail(q)[i][1] = "enqueue" => i = Len(Tail(q)) /\ Tail(q)[i][2] = First(r)
    <2> TAKE i \in DOMAIN Tail(q)
    <2>1. i \in 1 .. Len(q) - 1 /\ i + 1 \in DOMAIN q /\ Tail(q)[i] = q[i + 1]
      BY <1>1, <1>3
    <2> QED BY <1>3, <1>4, <2>1
  <1>9. Len(Plan(r)) \in Nat /\ Len(Tail(q)) <= Len(Plan(r)) /\ Tail(q) # Plan(r)
    BY <1>3, <1>4, PlanIs
  <1>10. todo'[r] = Tail(q) /\ todo' \in [Requests -> Seq(Words \X SyncJobs)]
    BY <1>2, <1>3
  <1> HIDE DEF q
  <1> QED BY <1>2, <1>6, <1>7, <1>8, <1>9, <1>10, <1>1 DEF Advanced, q

-----------------------------------------------------------------------------
(* The shapes of the variables. *)

\* Updating a field of a run leaves it a run.
LEMMA SetRun ==
    ASSUME NEW x, IsRun(x), NEW v
    PROVE  /\ IsRun([x EXCEPT !.pc = v]) /\ IsRun([x EXCEPT !.closed = v])
           /\ IsRun([x EXCEPT !.ok = v]) /\ IsRun([x EXCEPT !.second = v])
           /\ IsRun([x EXCEPT !.count = v]) /\ IsRun([x EXCEPT !.head = v])
           /\ IsRun([x EXCEPT !.listed = v])
  BY DEF IsRun

\* The record of no run.
LEMMA IdleIs == IsRun(IdleRun) /\ IdleRun.pc = "idle"
  BY DEF IsRun, IdleRun

\* What an election and an end of a run do to the jobs.
LEMMA ElectIs ==
    ASSUME Shapes, NEW j \in SyncJobs, Hf!Elect(j)
    PROVE  /\ jobState[j] \in {"Enqueued", "Processing"} /\ j \notin workers /\ j \notin electing
           /\ \/ jobState' = jobState /\ electing' = electing \cup {j}
              \/ jobState' = [jobState EXCEPT ![j] = "Scheduled"] /\ electing' = electing
           /\ workers' = workers
  BY DEF Hf!Elect, Hf!ElectPermit, Hf!ElectBlocked, Hf!Fetchable, Hf!Transition

\* What the end of a run does to the jobs.
LEMMA LeaveIs ==
    ASSUME Shapes, NEW j \in SyncJobs, Leave(j)
    PROVE  /\ j \in workers /\ workers' = workers \ {j} /\ electing' = electing
           /\ \/ jobState[j] # "Processing" /\ jobState' = jobState
              \/ /\ jobState[j] = "Processing"
                 /\ \E new \in {"Scheduled", "Failed", "Succeeded"} :
                       /\ jobState' = [jobState EXCEPT ![j] = new]
                       /\ new = "Succeeded" => run[j].pc = "return"
           /\ run' = [run EXCEPT ![j] = IdleRun]
  BY DEF Leave, Hf!Finish, Hf!Abandon, Hf!Fail, Hf!Transition

\* Every step keeps the shapes of the variables.
LEMMA ShapesStep ==
    ASSUME Standalone, Shapes, Plans, [Next]_vars
    PROVE  Shapes'
  <1> USE DEF Shapes, Hf!States, recordVars, hfVars, requestVars, runVars, Advanced
  <1>1. ASSUME NEW r \in Requests, NEW j \in SyncJobs, Schedule(r, j) PROVE Shapes'
    BY <1>1, StepIs, SetRun, IdleIs DEF Schedule, Hf!Create, Hf!Transition
  <1>2. ASSUME NEW r \in Requests, NEW j \in SyncJobs, Count(r, j) PROVE Shapes'
    BY <1>2, StepIs, SetRun, IdleIs DEF Count
  <1>3. ASSUME NEW r \in Requests, NEW j \in SyncJobs, List(r, j) PROVE Shapes'
    BY <1>3, StepIs, JobIs DEF List
  <1>4. ASSUME NEW r \in Requests, NEW j \in SyncJobs, EnqueueJob(r, j) PROVE Shapes'
    BY <1>4, StepIs, SetRun, IdleIs DEF EnqueueJob, Hf!Transition
  <1>5. ASSUME NEW r \in Requests, RequestFault(r) PROVE Shapes'
    BY <1>5, SetRun, IdleIs DEF RequestFault
  <1>6. ASSUME NEW j \in SyncJobs, Timer(j) PROVE Shapes'
    BY <1>6, SetRun, IdleIs DEF Timer, Hf!Enqueue, Hf!Transition
  <1>7. ASSUME NEW j \in SyncJobs, Elect(j) PROVE Shapes'
    BY <1>7, ElectIs DEF Elect
  <1>8. ASSUME NEW j \in SyncJobs, Start(j) PROVE Shapes'
    BY <1>8, SetRun, IdleIs DEF Start, Hf!StartProcessing, Hf!Transition
  <1>9. ASSUME NEW j \in SyncJobs, Leave(j) PROVE Shapes'
    BY <1>9, LeaveIs, IdleIs DEF Leave
  <1>10. ASSUME NEW j \in SyncJobs, FetchDoc(j) PROVE Shapes'
    BY <1>10, SetRun, IdleIs DEF FetchDoc, RunUnchanged
  <1>11. ASSUME NEW j \in SyncJobs, FetchSecret(j) PROVE Shapes'
    BY <1>11, SetRun, IdleIs DEF FetchSecret, RunUnchanged
  <1>12. ASSUME NEW j \in SyncJobs, Complete(j) PROVE Shapes'
    <2>1. PICK ok : run' = [run EXCEPT ![j].pc = "unlist", ![j].ok = ok]
      BY <1>12 DEF Complete
    <2>2. IsRun(run'[j]) /\ \A i \in SyncJobs \ {j} : run'[i] = run[i]
      BY <2>1 DEF IsRun
    <2>3. run' = [i \in SyncJobs |-> run'[i]]
      BY <2>1
    <2>4. /\ jobState' = jobState /\ electing' = electing /\ workers' = workers
          /\ todo' = todo /\ metricIds' = metricIds /\ runFaults' = runFaults
      BY <1>12 DEF Complete, RunUnchanged
    <2> QED BY <2>2, <2>3, <2>4
  <1>13. ASSUME NEW j \in SyncJobs, Unlist(j) PROVE Shapes'
    BY <1>13, SetRun, IdleIs DEF Unlist, RunUnchanged
  <1>14. ASSUME NEW j \in SyncJobs, Close(j) PROVE Shapes'
    BY <1>14, SetRun, IdleIs DEF Close, RunUnchanged
  <1>15. ASSUME NEW j \in SyncJobs, Uncount(j) PROVE Shapes'
    BY <1>15, SetRun, IdleIs DEF Uncount, RunUnchanged
  <1>16. ASSUME NEW j \in SyncJobs, StoreMetrics(j) PROVE Shapes'
    BY <1>16, SetRun, IdleIs DEF StoreMetrics, RunUnchanged
  <1>17. ASSUME NEW j \in SyncJobs, Noticed(j) PROVE Shapes'
    BY <1>17, SetRun, IdleIs DEF Noticed, RunUnchanged
  <1>18. ASSUME NEW j \in SyncJobs, RunFault(j) PROVE Shapes'
    <2>1. \/ \E pc : run' = [run EXCEPT ![j].pc = pc]
          \/ \E pc : run' = [run EXCEPT ![j].pc = pc, ![j].second = TRUE, ![j].ok = FALSE]
      BY <1>18 DEF RunFault
    <2>2. IsRun(run'[j]) /\ \A i \in SyncJobs \ {j} : run'[i] = run[i]
      BY <2>1 DEF IsRun
    <2>3. run' = [i \in SyncJobs |-> run'[i]]
      BY <2>1
    <2>4. /\ jobState' = jobState /\ electing' = electing /\ workers' = workers
          /\ todo' = todo /\ metricIds' = metricIds /\ runFaults' = runFaults + 1
      BY <1>18 DEF RunFault
    <2> QED BY <2>2, <2>3, <2>4
  <1>19. CASE Crash
    BY <1>19, SetRun, IdleIs DEF Crash, Hf!Crash
  <1>20. CASE UNCHANGED vars
    BY <1>20, SetRun, IdleIs DEF vars
  <1>21. ~ \E c \in Cancels : CancelStep(c)
    BY DEF Standalone
  <1> QED
    BY <1>1, <1>2, <1>3, <1>4, <1>5, <1>6, <1>7, <1>8, <1>9, <1>10, <1>11,
       <1>12, <1>13, <1>14, <1>15, <1>16, <1>17, <1>18, <1>19, <1>20, <1>21
    DEF Next, RequestStep, RunStep

-----------------------------------------------------------------------------
(* What a step may do to a call and to a job. *)

Pending == {"Absent", "Scheduled", "Awaiting"}

\* A call advances by one step, ends, or stays.
LEMMA TodoStep ==
    ASSUME Standalone, Shapes, Plans, [Next]_vars, NEW r \in Requests
    PROVE  \/ todo'[r] = todo[r]
           \/ todo[r] # <<>> /\ todo'[r] = <<>>
           \/ todo[r] # <<>> /\ Advanced(r)
  <1> DEFINE Goal == \/ todo'[r] = todo[r]
                     \/ todo[r] # <<>> /\ todo'[r] = <<>>
                     \/ todo[r] # <<>> /\ Advanced(r)
  <1> USE DEF Shapes, recordVars, hfVars, requestVars, runVars
  <1>1. ASSUME NEW q \in Requests, NEW j \in SyncJobs, Schedule(q, j) PROVE Goal
    <2>1. todo[q] # <<>> /\ Advanced(q)
      BY <1>1, StepIs DEF Schedule
    <2>2. CASE q = r
      BY <2>1, <2>2
    <2>3. CASE q # r
      BY <2>1, <2>3 DEF Advanced
    <2> QED BY <2>2, <2>3
  <1>2. ASSUME NEW q \in Requests, NEW j \in SyncJobs, Count(q, j) PROVE Goal
    <2>1. todo[q] # <<>> /\ Advanced(q)
      BY <1>2, StepIs DEF Count
    <2>2. CASE q = r
      BY <2>1, <2>2
    <2>3. CASE q # r
      BY <2>1, <2>3 DEF Advanced
    <2> QED BY <2>2, <2>3
  <1>3. ASSUME NEW q \in Requests, NEW j \in SyncJobs, List(q, j) PROVE Goal
    <2>1. todo[q] # <<>> /\ Advanced(q)
      BY <1>3, StepIs DEF List
    <2>2. CASE q = r
      BY <2>1, <2>2
    <2>3. CASE q # r
      BY <2>1, <2>3 DEF Advanced
    <2> QED BY <2>2, <2>3
  <1>4. ASSUME NEW q \in Requests, NEW j \in SyncJobs, EnqueueJob(q, j) PROVE Goal
    <2>1. todo[q] # <<>> /\ Advanced(q)
      BY <1>4, StepIs DEF EnqueueJob
    <2>2. CASE q = r
      BY <2>1, <2>2
    <2>3. CASE q # r
      BY <2>1, <2>3 DEF Advanced
    <2> QED BY <2>2, <2>3
  <1>5. ASSUME NEW q \in Requests, RequestFault(q) PROVE Goal
    BY <1>5, JobIs DEF RequestFault, Live
  <1>6. ASSUME NEW j \in SyncJobs, Timer(j) PROVE Goal
    BY <1>6, JobIs DEF Timer, Hf!Enqueue, Hf!Transition
  <1>7. ASSUME NEW j \in SyncJobs, Elect(j) PROVE Goal
    BY <1>7, JobIs, ElectIs DEF Elect
  <1>8. ASSUME NEW j \in SyncJobs, Start(j) PROVE Goal
    BY <1>8, JobIs DEF Start, Hf!StartProcessing, Hf!Transition
  <1>9. ASSUME NEW j \in SyncJobs, Leave(j) PROVE Goal
    BY <1>9, JobIs, LeaveIs DEF Leave
  <1>10. ASSUME NEW j \in SyncJobs, FetchDoc(j) PROVE Goal
    BY <1>10, JobIs DEF FetchDoc, RunUnchanged
  <1>11. ASSUME NEW j \in SyncJobs, FetchSecret(j) PROVE Goal
    BY <1>11, JobIs DEF FetchSecret, RunUnchanged
  <1>12. ASSUME NEW j \in SyncJobs, Complete(j) PROVE Goal
    BY <1>12, JobIs DEF Complete, RunUnchanged
  <1>13. ASSUME NEW j \in SyncJobs, Unlist(j) PROVE Goal
    BY <1>13, JobIs DEF Unlist, RunUnchanged
  <1>14. ASSUME NEW j \in SyncJobs, Close(j) PROVE Goal
    BY <1>14, JobIs DEF Close, RunUnchanged
  <1>15. ASSUME NEW j \in SyncJobs, Uncount(j) PROVE Goal
    BY <1>15, JobIs DEF Uncount, RunUnchanged
  <1>16. ASSUME NEW j \in SyncJobs, StoreMetrics(j) PROVE Goal
    BY <1>16, JobIs DEF StoreMetrics, RunUnchanged
  <1>17. ASSUME NEW j \in SyncJobs, Noticed(j) PROVE Goal
    BY <1>17, JobIs DEF Noticed, RunUnchanged
  <1>18. ASSUME NEW j \in SyncJobs, RunFault(j) PROVE Goal
    BY <1>18, JobIs DEF RunFault
  <1>19. CASE Crash
    BY <1>19, JobIs DEF Crash, Hf!Crash
  <1>20. CASE UNCHANGED vars
    BY <1>20, JobIs DEF vars
  <1>21. ~ \E c \in Cancels : CancelStep(c)
    BY DEF Standalone
  <1> QED
    BY <1>1, <1>2, <1>3, <1>4, <1>5, <1>6, <1>7, <1>8, <1>9, <1>10, <1>11,
       <1>12, <1>13, <1>14, <1>15, <1>16, <1>17, <1>18, <1>19, <1>20, <1>21
    DEF Next, RequestStep, RunStep

\* From one state of a job to the next.
Fate(j) ==
    \/ jobState'[j] = jobState[j]
    \/ /\ jobState[j] = "Absent" /\ todo[j[1]] # <<>> /\ todo'[j[1]] # Plan(j[1])
       /\ jobState'[j] = IF j = First(j[1]) THEN "Scheduled" ELSE "Awaiting"
    \/ /\ jobState[j] \in Pending /\ todo'[j[1]] = <<>> /\ jobState'[j] = "Enqueued"
       /\ j = First(j[1]) \/ jobState[First(j[1])] \in {"Succeeded", "Deleted"}
    \/ /\ jobState[j] \in {"Enqueued", "Processing"}
       /\ jobState'[j] \in {"Scheduled", "Processing", "Failed", "Succeeded"}
    \/ jobState[j] \in Pending /\ todo'[j[1]] = <<>> /\ jobState'[j] = "Deleted"

\* No job takes another step than those of Fate.
LEMMA JobStep ==
    ASSUME Standalone, Shapes, Plans, Waiting, Executed, Ordered, [Next]_vars
    PROVE  \A i \in SyncJobs : Fate(i)
  <1> USE DEF Shapes, recordVars, hfVars, requestVars, runVars, Fate, Pending
  <1>1. ASSUME NEW r \in Requests, NEW j \in SyncJobs, Schedule(r, j) PROVE \A i \in SyncJobs : Fate(i)
    <2>1. todo[r] # <<>> /\ todo'[r] # Plan(r) /\ j[1] = r
      BY <1>1, StepIs DEF Schedule, Advanced
    <2>2. jobState[j] = "Absent"
      BY <1>1 DEF Schedule, Hf!Create
    <2>3. jobState' = [jobState EXCEPT ![j] = IF ParentJob(j) = NoJob THEN "Scheduled" ELSE "Awaiting"]
      BY <1>1 DEF Schedule, Hf!Create, Hf!Transition
    <2> QED BY <2>1, <2>2, <2>3, ParentIs
  <1>2. ASSUME NEW r \in Requests, NEW j \in SyncJobs, Count(r, j) PROVE \A i \in SyncJobs : Fate(i)
    BY <1>2, StepIs, JobIs DEF Count
  <1>3. ASSUME NEW r \in Requests, NEW j \in SyncJobs, List(r, j) PROVE \A i \in SyncJobs : Fate(i)
    BY <1>3, StepIs, JobIs DEF List
  <1>4. ASSUME NEW r \in Requests, NEW j \in SyncJobs, EnqueueJob(r, j) PROVE \A i \in SyncJobs : Fate(i)
    <2>1. j = First(r) /\ j[1] = r /\ todo[r] # <<>> /\ todo'[r] = <<>>
      BY <1>4, StepIs DEF EnqueueJob
    <2>2. jobState[j] \in Pending
      BY <2>1 DEF Waiting
    <2>3. jobState' = [jobState EXCEPT ![j] = "Enqueued"]
      BY <1>4 DEF EnqueueJob, Hf!Transition
    <2> QED BY <2>1, <2>2, <2>3
  <1>5. ASSUME NEW r \in Requests, RequestFault(r) PROVE \A i \in SyncJobs : Fate(i)
    <2>1. todo[r] # <<>> /\ todo' = [todo EXCEPT ![r] = <<>>]
      BY <1>5 DEF RequestFault, Live
    <2>2. todo'[r] = <<>>
      BY <2>1
    <2>3. CASE jobState' = jobState
      BY <2>3
    <2>4. CASE jobState' = [j \in SyncJobs |-> IF j[1] = r THEN "Deleted" ELSE jobState[j]]
      <3>1. \A i \in SyncJobs : i[1] = r => jobState[i] \in Pending
        BY <2>1 DEF Waiting
      <3> QED BY <2>2, <2>4, <3>1
    <2> QED BY <1>5, <2>3, <2>4 DEF RequestFault
  <1>6. ASSUME NEW j \in SyncJobs, Timer(j) PROVE \A i \in SyncJobs : Fate(i)
    <2> DEFINE r == j[1]
    <2>1. jobState[j] \in {"Scheduled", "Awaiting"} /\ jobState' = [jobState EXCEPT ![j] = "Enqueued"]
      BY <1>6 DEF Timer, Hf!Enqueue, Hf!Transition
    <2>2. todo' = todo
      BY <1>6 DEF Timer
    <2>3. r \in Requests /\ todo[r] # Plan(r)
      BY <2>1, JobIs DEF Plans
    <2>4. CASE jobState[j] = "Scheduled"
      <3>1. todo[r] = <<>>
        BY <1>6, <2>3, <2>4 DEF Timer, Live, Started
      <3>2. j = First(r) \/ jobState[First(r)] \in {"Succeeded", "Deleted"}
        BY <2>3, <2>4, ParentIs, FirstIs DEF Ordered
      <3> QED BY <2>1, <2>2, <3>1, <3>2
    <2>5. CASE jobState[j] = "Awaiting"
      <3>1. jobState[ParentJob(j)] \in {"Succeeded", "Deleted"}
        BY <1>6, <2>5 DEF Timer
      <3>2. j # First(r)
        BY <2>3, <2>5 DEF Waiting
      <3>3. jobState[First(r)] \in {"Succeeded", "Deleted"}
        BY <3>1, <3>2, ParentIs
      <3>4. todo[r] = <<>>
        BY <2>3, <3>3, FirstIs DEF Waiting
      <3> QED BY <2>1, <2>2, <3>3, <3>4
    <2> QED BY <2>1, <2>4, <2>5
  <1>7. ASSUME NEW j \in SyncJobs, Elect(j) PROVE \A i \in SyncJobs : Fate(i)
    BY <1>7, ElectIs DEF Elect
  <1>8. ASSUME NEW j \in SyncJobs, Start(j) PROVE \A i \in SyncJobs : Fate(i)
    <2>1. jobState' = [jobState EXCEPT ![j] = "Processing"] /\ j \in electing
      BY <1>8 DEF Start, Hf!StartProcessing, Hf!Transition
    <2> QED BY <2>1 DEF Executed
  <1>9. ASSUME NEW j \in SyncJobs, Leave(j) PROVE \A i \in SyncJobs : Fate(i)
    BY <1>9, JobIs, LeaveIs DEF Leave
  <1>10. ASSUME NEW j \in SyncJobs, FetchDoc(j) PROVE \A i \in SyncJobs : Fate(i)
    BY <1>10, JobIs DEF FetchDoc, RunUnchanged
  <1>11. ASSUME NEW j \in SyncJobs, FetchSecret(j) PROVE \A i \in SyncJobs : Fate(i)
    BY <1>11, JobIs DEF FetchSecret, RunUnchanged
  <1>12. ASSUME NEW j \in SyncJobs, Complete(j) PROVE \A i \in SyncJobs : Fate(i)
    BY <1>12, JobIs DEF Complete, RunUnchanged
  <1>13. ASSUME NEW j \in SyncJobs, Unlist(j) PROVE \A i \in SyncJobs : Fate(i)
    BY <1>13, JobIs DEF Unlist, RunUnchanged
  <1>14. ASSUME NEW j \in SyncJobs, Close(j) PROVE \A i \in SyncJobs : Fate(i)
    BY <1>14, JobIs DEF Close, RunUnchanged
  <1>15. ASSUME NEW j \in SyncJobs, Uncount(j) PROVE \A i \in SyncJobs : Fate(i)
    BY <1>15, JobIs DEF Uncount, RunUnchanged
  <1>16. ASSUME NEW j \in SyncJobs, StoreMetrics(j) PROVE \A i \in SyncJobs : Fate(i)
    BY <1>16, JobIs DEF StoreMetrics, RunUnchanged
  <1>17. ASSUME NEW j \in SyncJobs, Noticed(j) PROVE \A i \in SyncJobs : Fate(i)
    BY <1>17, JobIs DEF Noticed, RunUnchanged
  <1>18. ASSUME NEW j \in SyncJobs, RunFault(j) PROVE \A i \in SyncJobs : Fate(i)
    BY <1>18, JobIs DEF RunFault
  <1>19. CASE Crash
    BY <1>19, JobIs DEF Crash, Hf!Crash
  <1>20. CASE UNCHANGED vars
    BY <1>20, JobIs DEF vars
  <1>21. ~ \E c \in Cancels : CancelStep(c)
    BY DEF Standalone
  <1> QED
    BY <1>1, <1>2, <1>3, <1>4, <1>5, <1>6, <1>7, <1>8, <1>9, <1>10, <1>11,
       <1>12, <1>13, <1>14, <1>15, <1>16, <1>17, <1>18, <1>19, <1>20, <1>21
    DEF Next, RequestStep, RunStep

\* What is left of the calls.
LEMMA PlansStep ==
    ASSUME Standalone, Shapes, Plans, Waiting, Executed, Ordered, [Next]_vars
    PROVE  Plans'
  <1> SUFFICES ASSUME NEW r \in Requests
               PROVE  /\ \A i \in DOMAIN todo'[r] :
                            /\ todo'[r][i][2][1] = r
                            /\ todo'[r][i][1] = "enqueue" => i = Len(todo'[r]) /\ todo'[r][i][2] = First(r)
                      /\ Len(todo'[r]) <= Len(Plan(r))
                      /\ todo'[r] = Plan(r) => \A j \in SyncJobs : j[1] = r => jobState'[j] = "Absent"
    BY DEF Plans
  <1>1. CASE todo'[r] = todo[r]
    <2>1. ASSUME todo'[r] = Plan(r), NEW j \in SyncJobs, j[1] = r PROVE jobState'[j] = "Absent"
      <3>1. jobState[j] = "Absent"
        BY <1>1, <2>1 DEF Plans
      <3> QED BY <2>1, <3>1, JobStep, PlanIs DEF Fate
    <2> QED BY <1>1, <2>1 DEF Plans
  <1>2. CASE todo'[r] = <<>>
    BY <1>2, PlanIs
  <1>3. CASE Advanced(r)
    BY <1>3 DEF Advanced
  <1> QED BY <1>1, <1>2, <1>3, TodoStep

\* Jobs wait for their calls.
LEMMA WaitingStep ==
    ASSUME Standalone, Shapes, Plans, Waiting, Executed, Ordered, [Next]_vars
    PROVE  Waiting'
  <1> SUFFICES ASSUME NEW r \in Requests
               PROVE  /\ jobState'[First(r)] # "Awaiting"
                      /\ todo'[r] # <<>> => \A j \in SyncJobs : j[1] = r =>
                            jobState'[j] \in {"Absent", IF j = First(r) THEN "Scheduled" ELSE "Awaiting"}
    BY DEF Waiting
  <1>1. jobState'[First(r)] # "Awaiting"
    BY JobStep, FirstIs DEF Fate, Waiting
  <1>2. ASSUME todo'[r] # <<>>, NEW j \in SyncJobs, j[1] = r
        PROVE  jobState'[j] \in {"Absent", IF j = First(r) THEN "Scheduled" ELSE "Awaiting"}
    <2>1. todo[r] # <<>>
      BY <1>2, TodoStep
    <2>2. jobState[j] \in {"Absent", IF j = First(r) THEN "Scheduled" ELSE "Awaiting"}
      BY <1>2, <2>1 DEF Waiting
    <2> QED BY <1>2, <2>2, JobStep DEF Fate
  <1> QED BY <1>1, <1>2

\* The target's job comes after the source's.
LEMMA OrderedStep ==
    ASSUME Standalone, Shapes, Plans, Waiting, Executed, Ordered, [Next]_vars
    PROVE  Ordered'
  <1> SUFFICES ASSUME NEW r \in Requests, SourceOf[r] # NoProject
               PROVE  \/ jobState'[<<r, "target">>] \in {"Absent", "Awaiting", "Deleted"}
                      \/ todo'[r] = <<>> /\ jobState'[<<r, "source">>] \in {"Succeeded", "Deleted"}
    BY DEF Ordered
  <1> DEFINE t == <<r, "target">>
             s == <<r, "source">>
  <1>1. /\ s \in SyncJobs /\ t \in SyncJobs /\ First(r) = s /\ t # s
        /\ s[1] = r /\ t[1] = r
    BY FirstIs
  <1>2. Fate(s) /\ Fate(t)
    BY <1>1, JobStep
  <1>3. \/ jobState[t] \in {"Absent", "Awaiting", "Deleted"}
        \/ todo[r] = <<>> /\ jobState[s] \in {"Succeeded", "Deleted"}
    BY DEF Ordered
  <1>4. todo[r] = <<>> => todo'[r] = <<>>
    BY TodoStep
  <1>5. jobState[s] \in {"Succeeded", "Deleted"} => jobState'[s] = jobState[s]
    BY <1>2 DEF Fate, Pending
  <1> HIDE DEF s, t
  <1>6. CASE todo[r] = <<>> /\ jobState[s] \in {"Succeeded", "Deleted"}
    BY <1>4, <1>5, <1>6 DEF s
  <1>7. CASE jobState[t] \in {"Absent", "Awaiting", "Deleted"}
    <2>1. \/ jobState'[t] \in {"Absent", "Awaiting", "Deleted"}
          \/ todo'[r] = <<>> /\ jobState[s] \in {"Succeeded", "Deleted"}
      BY <1>1, <1>2, <1>7 DEF Fate, Pending
    <2> QED BY <1>5, <2>1 DEF s, t
  <1> QED BY <1>3, <1>6, <1>7

\* Workers execute jobs that are Processing.
LEMMA ExecutedStep ==
    ASSUME Standalone, Shapes, Plans, Waiting, Executed, Ordered, [Next]_vars
    PROVE  Executed'
  <1> USE DEF Executed, Shapes, Executes, recordVars, hfVars, requestVars, runVars
  <1>1. ASSUME NEW r \in Requests, NEW j \in SyncJobs, Schedule(r, j) PROVE Executed'
    BY <1>1, StepIs, IdleIs DEF Schedule, Hf!Create, Hf!Transition
  <1>2. ASSUME NEW r \in Requests, NEW j \in SyncJobs, Count(r, j) PROVE Executed'
    BY <1>2, StepIs, IdleIs DEF Count
  <1>3. ASSUME NEW r \in Requests, NEW j \in SyncJobs, List(r, j) PROVE Executed'
    BY <1>3, StepIs, IdleIs DEF List
  <1>4. ASSUME NEW r \in Requests, NEW j \in SyncJobs, EnqueueJob(r, j) PROVE Executed'
    <2>1. jobState[j] \in Pending
      BY <1>4, StepIs DEF EnqueueJob, Waiting, Pending
    <2> QED BY <1>4, <2>1 DEF EnqueueJob, Hf!Transition, Pending
  <1>5. ASSUME NEW r \in Requests, RequestFault(r) PROVE Executed'
    <2>1. todo[r] # <<>>
      BY <1>5 DEF RequestFault, Live
    <2>2. \A i \in SyncJobs : i[1] = r => jobState[i] \in Pending
      BY <2>1 DEF Waiting, Pending
    <2>3. \A i \in SyncJobs : jobState'[i] = jobState[i] \/ i[1] = r
      BY <1>5 DEF RequestFault
    <2>4. workers' = workers /\ electing' = electing /\ run' = run
      BY <1>5 DEF RequestFault
    <2> QED BY <2>2, <2>3, <2>4 DEF Pending
  <1>6. ASSUME NEW j \in SyncJobs, Timer(j) PROVE Executed'
    BY <1>6, IdleIs DEF Timer, Hf!Enqueue, Hf!Transition
  <1>7. ASSUME NEW j \in SyncJobs, Elect(j) PROVE Executed'
    BY <1>7, ElectIs DEF Elect
  <1>8. ASSUME NEW j \in SyncJobs, Start(j) PROVE Executed'
    BY <1>8, IdleIs DEF Start, Hf!StartProcessing, Hf!Transition
  <1>9. ASSUME NEW j \in SyncJobs, Leave(j) PROVE Executed'
    BY <1>9, IdleIs, LeaveIs DEF Leave
  <1>10. ASSUME NEW j \in SyncJobs, FetchDoc(j) PROVE Executed'
    BY <1>10, IdleIs DEF FetchDoc, RunUnchanged
  <1>11. ASSUME NEW j \in SyncJobs, FetchSecret(j) PROVE Executed'
    BY <1>11, IdleIs DEF FetchSecret, RunUnchanged
  <1>12. ASSUME NEW j \in SyncJobs, Complete(j) PROVE Executed'
    BY <1>12, IdleIs DEF Complete, RunUnchanged
  <1>13. ASSUME NEW j \in SyncJobs, Unlist(j) PROVE Executed'
    BY <1>13, IdleIs DEF Unlist, RunUnchanged
  <1>14. ASSUME NEW j \in SyncJobs, Close(j) PROVE Executed'
    BY <1>14, IdleIs DEF Close, RunUnchanged
  <1>15. ASSUME NEW j \in SyncJobs, Uncount(j) PROVE Executed'
    BY <1>15, IdleIs DEF Uncount, RunUnchanged
  <1>16. ASSUME NEW j \in SyncJobs, StoreMetrics(j) PROVE Executed'
    BY <1>16, IdleIs DEF StoreMetrics, RunUnchanged
  <1>17. ASSUME NEW j \in SyncJobs, Noticed(j) PROVE Executed'
    BY <1>17, IdleIs DEF Noticed, RunUnchanged
  <1>18. ASSUME NEW j \in SyncJobs, RunFault(j) PROVE Executed'
    BY <1>18, IdleIs DEF RunFault
  <1>19. CASE Crash
    BY <1>19, IdleIs DEF Crash, Hf!Crash
  <1>20. CASE UNCHANGED vars
    BY <1>20, IdleIs DEF vars
  <1>21. ~ \E c \in Cancels : CancelStep(c)
    BY DEF Standalone
  <1> QED
    BY <1>1, <1>2, <1>3, <1>4, <1>5, <1>6, <1>7, <1>8, <1>9, <1>10, <1>11,
       <1>12, <1>13, <1>14, <1>15, <1>16, <1>17, <1>18, <1>19, <1>20, <1>21
    DEF Next, RequestStep, RunStep

\* Where the steps of a run take it.
Others(j) == \A i \in SyncJobs \ {j} : run'[i] = run[i]

\* Each step of a run takes it to the next.
LEMMA RunIs ==
    ASSUME Shapes, NEW j \in SyncJobs
    PROVE  /\ Start(j) => run'[j].pc = "fetch" /\ Others(j)
           /\ FetchDoc(j) => run'[j].pc = "secret" /\ Others(j)
           /\ FetchSecret(j) => /\ run'[j].pc = "complete" /\ Others(j)
                                /\ run'[j].listed = (j \in metricIds[ProjectOf(j)])
           /\ Complete(j) => /\ run'[j].pc = "unlist" /\ Others(j)
                             /\ run'[j].listed = run[j].listed
           /\ Unlist(j) => run'[j].pc = "close" /\ Others(j)
           /\ Close(j) => run'[j].pc \in {"throw", "uncount"} /\ Others(j)
           /\ Uncount(j) => run'[j].pc = "metrics" /\ Others(j)
           /\ StoreMetrics(j) => run'[j].pc = "return" /\ Others(j)
  <1> USE DEF Shapes, IsRun, Others
  <1>1. Start(j) => run'[j].pc = "fetch" /\ Others(j)
    BY DEF Start, IdleRun
  <1>2. FetchDoc(j) => run'[j].pc = "secret" /\ Others(j)
    BY DEF FetchDoc
  <1>3. FetchSecret(j) => /\ run'[j].pc = "complete" /\ Others(j)
                          /\ run'[j].listed = (j \in metricIds[ProjectOf(j)])
    BY DEF FetchSecret
  <1>4. ASSUME Complete(j)
        PROVE  run'[j].pc = "unlist" /\ Others(j) /\ run'[j].listed = run[j].listed
    <2>1. PICK ok : run' = [run EXCEPT ![j].pc = "unlist", ![j].ok = ok]
      BY <1>4 DEF Complete
    <2> QED BY <2>1
  <1>5. Unlist(j) => run'[j].pc = "close" /\ Others(j)
    BY DEF Unlist
  <1>6. ASSUME Close(j) PROVE run'[j].pc \in {"throw", "uncount"} /\ Others(j)
    <2>1. PICK pc \in {"throw", "uncount"} :
             run' = [run EXCEPT ![j].pc = pc, ![j].closed = TRUE]
      BY <1>6 DEF Close
    <2> QED BY <2>1
  <1>7. Uncount(j) => run'[j].pc = "metrics" /\ Others(j)
    BY DEF Uncount
  <1>8. StoreMetrics(j) => run'[j].pc = "return" /\ Others(j)
    BY DEF StoreMetrics
  <1> QED BY <1>1, <1>2, <1>3, <1>4, <1>5, <1>6, <1>7, <1>8

\* A step of a run that leaves the metrics ids right.
LEMMA MetricsKept ==
    ASSUME Shapes, Metrics, NEW j \in SyncJobs, Others(j),
           jobState' = jobState, runFaults' = runFaults,
           \A p \in Projects : metricIds'[p] \subseteq metricIds[p],
           \A p \in Projects : j \in metricIds'[p] =>
              /\ run'[j].pc \in {"complete", "unlist"} => run'[j].listed
              /\ run'[j].pc \notin {"close", "uncount", "metrics", "return"}
    PROVE  Metrics'
  <1> SUFFICES ASSUME runFaults = 0, NEW p \in Projects, NEW i \in metricIds'[p]
               PROVE  /\ p = ProjectOf(i) /\ jobState[i] # "Succeeded"
                      /\ run'[i].pc \in {"complete", "unlist"} => run'[i].listed
                      /\ run'[i].pc \notin {"close", "uncount", "metrics", "return"}
    BY DEF Metrics, Ended
  <1>1. i \in metricIds[p] /\ i \in SyncJobs
    BY DEF Shapes
  <1>2. /\ p = ProjectOf(i) /\ jobState[i] # "Succeeded"
        /\ run[i].pc \in {"complete", "unlist"} => run[i].listed
        /\ run[i].pc \notin {"close", "uncount", "metrics", "return"}
    BY <1>1 DEF Metrics, Ended
  <1>3. CASE i = j
    BY <1>2, <1>3
  <1>4. CASE i # j
    <2>1. run'[i] = run[i]
      BY <1>1, <1>4 DEF Others
    <2> QED BY <1>2, <2>1
  <1> QED BY <1>3, <1>4

\* A metrics id is taken off before its run returns.
LEMMA MetricsStep ==
    ASSUME Standalone, Shapes, Plans, Waiting, Executed, Ordered, Metrics, [Next]_vars
    PROVE  Metrics'
  <1> SUFFICES ASSUME runFaults' = 0 PROVE Metrics'
    BY DEF Metrics
  <1> USE DEF Metrics, Ended, Shapes, Executes, recordVars, hfVars, requestVars, runVars, Others
  <1>1. ASSUME NEW r \in Requests, NEW j \in SyncJobs, Schedule(r, j) PROVE Metrics'
    BY <1>1 DEF Schedule, Hf!Create, Hf!Transition
  <1>2. ASSUME NEW r \in Requests, NEW j \in SyncJobs, Count(r, j) PROVE Metrics'
    BY <1>2, StepIs, IdleIs DEF Count
  <1>3. ASSUME NEW r \in Requests, NEW j \in SyncJobs, List(r, j) PROVE Metrics'
    <2>1. todo[r] # <<>> /\ j[1] = r /\ ProjectOf(j) \in Projects
      BY <1>3, StepIs, JobIs DEF List
    <2>2. jobState[j] \in Pending
      BY <2>1 DEF Waiting, Pending
    <2>3. run[j].pc = "idle"
      BY <2>2 DEF Executed, Pending
    <2>4. /\ metricIds' = [metricIds EXCEPT ![ProjectOf(j)] = metricIds[ProjectOf(j)] \cup {j}]
          /\ jobState' = jobState /\ run' = run /\ runFaults' = runFaults
      BY <1>3 DEF List
    <2> QED BY <2>1, <2>2, <2>3, <2>4 DEF Pending
  <1>4. ASSUME NEW r \in Requests, NEW j \in SyncJobs, EnqueueJob(r, j) PROVE Metrics'
    BY <1>4 DEF EnqueueJob, Hf!Transition
  <1>5. ASSUME NEW r \in Requests, RequestFault(r) PROVE Metrics'
    BY <1>5, IdleIs DEF RequestFault
  <1>6. ASSUME NEW j \in SyncJobs, Timer(j) PROVE Metrics'
    BY <1>6, IdleIs DEF Timer, Hf!Enqueue, Hf!Transition
  <1>7. ASSUME NEW j \in SyncJobs, Elect(j) PROVE Metrics'
    BY <1>7, ElectIs DEF Elect
  <1>8. ASSUME NEW j \in SyncJobs, Start(j) PROVE Metrics'
    BY <1>8, RunIs DEF Start, Hf!StartProcessing, Hf!Transition
  <1>9. ASSUME NEW j \in SyncJobs, Leave(j) PROVE Metrics'
    BY <1>9, IdleIs, LeaveIs DEF Leave
  <1>10. ASSUME NEW j \in SyncJobs, FetchDoc(j) PROVE Metrics'
    <2>1. Others(j) /\ jobState' = jobState /\ metricIds' = metricIds /\ runFaults' = runFaults
      BY <1>10, RunIs DEF FetchDoc, RunUnchanged
    <2>2. \A p \in Projects : j \in metricIds[p] =>
              /\ run'[j].pc \in {"complete", "unlist"} => run'[j].listed
              /\ run'[j].pc \notin {"close", "uncount", "metrics", "return"}
      BY <1>10, <2>1, RunIs DEF FetchDoc
    <2> QED BY <2>1, <2>2, MetricsKept
  <1>11. ASSUME NEW j \in SyncJobs, FetchSecret(j) PROVE Metrics'
    <2>1. /\ Others(j) /\ jobState' = jobState /\ metricIds' = metricIds /\ runFaults' = runFaults
          /\ run'[j].pc = "complete" /\ run'[j].listed = (j \in metricIds[ProjectOf(j)])
      BY <1>11, RunIs DEF FetchSecret, RunUnchanged
    <2>2. \A p \in Projects : j \in metricIds[p] => p = ProjectOf(j)
      BY <2>1
    <2>3. ASSUME NEW p \in Projects, j \in metricIds'[p]
          PROVE  /\ run'[j].pc \in {"complete", "unlist"} => run'[j].listed
                 /\ run'[j].pc \notin {"close", "uncount", "metrics", "return"}
      <3>1. p = ProjectOf(j) /\ j \in metricIds[p]
        BY <2>1, <2>2, <2>3
      <3>2. run'[j].listed = TRUE
        BY <2>1, <3>1
      <3> QED BY <2>1, <3>2
    <2> QED BY <2>1, <2>3, MetricsKept
  <1>12. ASSUME NEW j \in SyncJobs, Complete(j) PROVE Metrics'
    <2>1. Others(j) /\ jobState' = jobState /\ metricIds' = metricIds /\ runFaults' = runFaults
      BY <1>12, RunIs DEF Complete, RunUnchanged
    <2>2. \A p \in Projects : j \in metricIds[p] =>
              /\ run'[j].pc \in {"complete", "unlist"} => run'[j].listed
              /\ run'[j].pc \notin {"close", "uncount", "metrics", "return"}
      BY <1>12, <2>1, RunIs DEF Complete
    <2> QED BY <2>1, <2>2, MetricsKept
  <1>13. ASSUME NEW j \in SyncJobs, Unlist(j) PROVE Metrics'
    <2>1. run'[j].pc = "close" /\ \A i \in SyncJobs \ {j} : run'[i] = run[i]
      BY <1>13, RunIs
    <2>2. /\ metricIds' = [metricIds EXCEPT ![ProjectOf(j)] =
                               IF run[j].listed THEN metricIds[ProjectOf(j)] \ {j}
                               ELSE metricIds[ProjectOf(j)]]
          /\ run[j].pc = "unlist" /\ jobState' = jobState /\ runFaults' = runFaults
      BY <1>13 DEF Unlist, RunUnchanged
    <2>3. \A p \in Projects : metricIds'[p] \subseteq metricIds[p]
      BY <2>2
    <2>4. \A p \in Projects : j \in metricIds[p] => p = ProjectOf(j) /\ run[j].listed
      BY <2>2
    <2>5. \A p \in Projects : j \notin metricIds'[p]
      BY <2>2, <2>4
    <2> QED BY <2>1, <2>2, <2>3, <2>5, MetricsKept
  <1>14. ASSUME NEW j \in SyncJobs, Close(j) PROVE Metrics'
    <2>1. Others(j) /\ jobState' = jobState /\ metricIds' = metricIds /\ runFaults' = runFaults
      BY <1>14, RunIs DEF Close, RunUnchanged
    <2>2. \A p \in Projects : j \in metricIds[p] =>
              /\ run'[j].pc \in {"complete", "unlist"} => run'[j].listed
              /\ run'[j].pc \notin {"close", "uncount", "metrics", "return"}
      BY <1>14, <2>1, RunIs DEF Close
    <2> QED BY <2>1, <2>2, MetricsKept
  <1>15. ASSUME NEW j \in SyncJobs, Uncount(j) PROVE Metrics'
    <2>1. Others(j) /\ jobState' = jobState /\ metricIds' = metricIds /\ runFaults' = runFaults
      BY <1>15, RunIs DEF Uncount, RunUnchanged
    <2>2. \A p \in Projects : j \in metricIds[p] =>
              /\ run'[j].pc \in {"complete", "unlist"} => run'[j].listed
              /\ run'[j].pc \notin {"close", "uncount", "metrics", "return"}
      BY <1>15, <2>1, RunIs DEF Uncount
    <2> QED BY <2>1, <2>2, MetricsKept
  <1>16. ASSUME NEW j \in SyncJobs, StoreMetrics(j) PROVE Metrics'
    <2>1. Others(j) /\ jobState' = jobState /\ metricIds' = metricIds /\ runFaults' = runFaults
      BY <1>16, RunIs DEF StoreMetrics, RunUnchanged
    <2>2. \A p \in Projects : j \in metricIds[p] =>
              /\ run'[j].pc \in {"complete", "unlist"} => run'[j].listed
              /\ run'[j].pc \notin {"close", "uncount", "metrics", "return"}
      BY <1>16, <2>1, RunIs DEF StoreMetrics
    <2> QED BY <2>1, <2>2, MetricsKept
  <1>17. ASSUME NEW j \in SyncJobs, Noticed(j) PROVE Metrics'
    BY <1>17 DEF Noticed, Executed
  <1>18. ASSUME NEW j \in SyncJobs, RunFault(j) PROVE Metrics'
    BY <1>18, IdleIs DEF RunFault
  <1>19. CASE Crash
    BY <1>19, IdleIs DEF Crash, Hf!Crash
  <1>20. CASE UNCHANGED vars
    BY <1>20, IdleIs DEF vars
  <1>21. ~ \E c \in Cancels : CancelStep(c)
    BY DEF Standalone
  <1> QED
    BY <1>1, <1>2, <1>3, <1>4, <1>5, <1>6, <1>7, <1>8, <1>9, <1>10, <1>11,
       <1>12, <1>13, <1>14, <1>15, <1>16, <1>17, <1>18, <1>19, <1>20, <1>21
    DEF Next, RequestStep, RunStep

-----------------------------------------------------------------------------
(* While nothing fails: the counts and the lists of ids. *)

\* No step of a call is there twice.
Once == \A r \in Requests : \A i, k \in DOMAIN todo[r] : todo[r][i] = todo[r][k] => i = k

\* The numbers of mishaps and the counts are numbers; each project has a list.
Numbers ==
    /\ requestFaults \in Nat /\ runFaults \in Nat /\ crashes \in Nat
    /\ queuedCount \in [Projects -> Int]
    /\ DOMAIN jobIds = Projects

\* A run goes through CompleteSync once, and it has read a positive count, which
\* has its own sync in it.
GoesStraight(x) ==
    /\ ~x.second
    /\ x.closed => x.pc \in {"uncount", "metrics", "return"}
    /\ x.pc # "throw"
    /\ x.pc \in {"secret", "complete", "unlist", "close", "uncount"} => x.count > 0
Straight == Calm => \A j \in SyncJobs : GoesStraight(run[j])

\* The syncs that are counted, and those whose ids are listed.
IsCounted(j) == ~Ahead("count", j) /\ ~Uncounted(j)
IsListed(j) == ~Ahead("list", j) /\ ~Unlisted(j)
CountedOf(p) == {j \in Of(p) : IsCounted(j)}
ToList == {j \in SyncJobs : Ahead("list", j)}
ListedOf(p) == {j \in Of(p) : IsListed(j)}

\* The counts are those of finitely many syncs.
Counts ==
    Calm => \A p \in Projects :
        IsFiniteSet(CountedOf(p)) /\ queuedCount[p] = Cardinality(CountedOf(p))

\* Of the jobs one at most is let in and executed.
OneRuns ==
    Calm => /\ Hf!AtMostOne(owners)
            /\ electing \subseteq owners /\ workers \subseteq owners
            /\ \A j \in SyncJobs : jobState[j] = "Processing" => j \in workers

\* The ids of a project are different ones, as many as syncs are listed; a run
\* that is about to take one off takes off the first.
Lists ==
    Calm => \A p \in Projects :
        /\ jobIds[p] \in Seq(SyncJobs) /\ IsInjective(jobIds[p])
        /\ \A i \in DOMAIN jobIds[p] : jobIds[p][i] \notin ToList
        /\ IsFiniteSet(ListedOf(p)) /\ Len(jobIds[p]) = Cardinality(ListedOf(p))
        /\ \A j \in Of(p) : run[j].pc \in {"complete", "unlist"} =>
              jobIds[p] # <<>> /\ run[j].head = Head(jobIds[p])

Kept == Once /\ Numbers /\ Straight /\ Counts /\ OneRuns /\ Lists

(* Lists of ids. *)

\* Taking the first id off a list of different ids leaves the others.
LEMMA PullFirst ==
    ASSUME NEW S, NEW ids \in Seq(S), IsInjective(ids), ids # <<>>
    PROVE  Pull(ids, Head(ids)) = Tail(ids)
  <1>0. PICK n \in Nat \ {0} : n = Len(ids)
    BY EmptySeq
  <1> DEFINE Rest(f) == f = [i \in 0 .. n |->
                 IF i = 0 THEN <<>>
                 ELSE IF ids[i] = Head(ids) THEN f[i - 1] ELSE Append(f[i - 1], ids[i])]
             g == [i \in 0 .. n |-> IF i = 0 THEN <<>> ELSE SubSeq(ids, 2, i)]
             rest == CHOOSE f : Rest(f)
  <1>1. Pull(ids, Head(ids)) = rest[n]
    BY <1>0, Zenon DEF Pull
  <1>2. ids[1] = Head(ids) /\ \A i \in 2 .. n : ids[i] # Head(ids)
    BY <1>0 DEF IsInjective
  <1>3. \A i \in 2 .. n : SubSeq(ids, 2, i) = Append(SubSeq(ids, 2, i - 1), ids[i])
    BY <1>0
  <1>4. SubSeq(ids, 2, 1) = <<>>
    BY <1>0
  <1>5. Rest(g)
    <2> SUFFICES ASSUME NEW i \in 0 .. n
                 PROVE  g[i] = IF i = 0 THEN <<>>
                               ELSE IF ids[i] = Head(ids) THEN g[i - 1] ELSE Append(g[i - 1], ids[i])
      OBVIOUS
    <2>1. CASE i = 0
      BY <2>1
    <2>2. CASE i = 1
      BY <2>2, <1>0, <1>2, <1>4
    <2>3. CASE i \in 2 .. n
      BY <2>3, <1>0, <1>2, <1>3
    <2> QED BY <2>1, <2>2, <2>3, <1>0
  <1>6. Rest(rest)
    BY <1>5
  <1> HIDE DEF rest
  <1>7. \A i \in 0 .. n : rest[i] = g[i]
    <2> SUFFICES ASSUME NEW k \in {i \in 0 .. n : rest[i] # g[i]} PROVE FALSE
      OBVIOUS
    <2> DEFINE T == {i \in 0 .. n : rest[i] # g[i]}
    <2>1. T \subseteq Nat /\ k \in T
      OBVIOUS
    <2>2. PICK i \in T : \A m \in T : ~ (<<m, i>> \in OpToRel(<, Nat))
      <3> HIDE DEF T
      <3> QED BY <2>1, WFMin, NatLessThanWellFounded
    <2>3. i \in 0 .. n /\ rest[i] # g[i] /\ i # 0
      BY <1>0, <1>6
    <2>4. i - 1 \in Nat /\ i - 1 \in 0 .. n /\ i - 1 < i
      BY <1>0, <2>3
    <2>5. i - 1 \notin T
      BY <2>1, <2>2, <2>4 DEF OpToRel
    <2>6. rest[i - 1] = g[i - 1]
      BY <2>4, <2>5
    <2>7. rest[i] = IF ids[i] = Head(ids) THEN rest[i - 1] ELSE Append(rest[i - 1], ids[i])
      BY <1>6, <2>3
    <2>8. g[i] = IF ids[i] = Head(ids) THEN g[i - 1] ELSE Append(g[i - 1], ids[i])
      BY <1>5, <2>3
    <2> QED BY <2>3, <2>6, <2>7, <2>8
  <1>8. rest[n] = SubSeq(ids, 2, n)
    <2>1. n \in 0 .. n /\ n # 0
      BY <1>0
    <2>2. g[n] = SubSeq(ids, 2, n)
      BY <2>1
    <2> QED BY <1>7, <2>1, <2>2, Zenon
  <1> QED BY <1>0, <1>1, <1>8

-----------------------------------------------------------------------------
(* What the steps do while nothing fails. *)

\* A job whose call is not over is not set going; one that runs is done with by
\* its call.
LEMMA JobAndCall ==
    ASSUME IInv, NEW j \in SyncJobs
    PROVE  /\ todo[j[1]] # <<>> =>
                 /\ run[j].pc = "idle" /\ jobState[j] \in Pending
                 /\ j \notin workers /\ j \notin electing
           /\ j \in workers => jobState[j] = "Processing" /\ todo[j[1]] = <<>>
           /\ todo[j[1]] = <<>> => \A w : ~Ahead(w, j)
           /\ run[j].pc # "idle" => j \in workers
           /\ Ended(j) => run[j].pc = "idle"
  <1>1. j[1] \in Requests
    BY JobIs
  <1>2. todo[j[1]] # <<>> => jobState[j] \in Pending
    BY <1>1 DEF IInv, Waiting, Pending
  <1>3. /\ j \in workers => jobState[j] = "Processing"
        /\ j \in electing => jobState[j] \in {"Enqueued", "Processing"}
        /\ run[j].pc # "idle" => j \in workers
    BY DEF IInv, Executed
  <1>4. todo[j[1]] = <<>> => \A w : ~Ahead(w, j)
    BY DEF Ahead
  <1> QED BY <1>2, <1>3, <1>4 DEF Pending, Ended

\* A step of a call takes itself, and nothing else, off what is ahead.
LEMMA StepTaken ==
    ASSUME todo \in [Requests -> Seq(Words \X SyncJobs)], Once,
           NEW r \in Requests, NEW what, NEW j, j[1] = r, At(r, what, j), Advance(r)
    PROVE  /\ Once'
           /\ Ahead(what, j)
           /\ \A w, i : i[1] \in Requests =>
                 (Ahead(w, i)' <=> Ahead(w, i) /\ <<w, i>> # <<what, j>>)
  <1> DEFINE q == todo[r]
  <1>1. /\ q \in Seq(Words \X SyncJobs) /\ q # <<>> /\ Head(q) = <<what, j>>
        /\ j[1] = r
    BY DEF At
  <1>2. todo' = [todo EXCEPT ![r] = Tail(q)] /\ todo \in [Requests -> Seq(Words \X SyncJobs)]
    BY DEF Advance
  <1>3. \A p \in Requests : todo'[p] = IF p = r THEN Tail(q) ELSE todo[p]
    BY <1>2
  <1>4. PICK n \in Nat \ {0} : n = Len(q)
    BY <1>1, EmptySeq
  <1>5. /\ DOMAIN q = 1 .. n /\ DOMAIN Tail(q) = 1 .. n - 1
        /\ q[1] = <<what, j>> /\ \A i \in 1 .. n - 1 : Tail(q)[i] = q[i + 1]
    BY <1>1, <1>4, HeadTailProperties
  <1>6. \A i, k \in 1 .. n : q[i] = q[k] => i = k
    BY <1>5 DEF Once
  <1> HIDE DEF q
  <1>7. \A i, k \in DOMAIN Tail(q) : Tail(q)[i] = Tail(q)[k] => i = k
    <2> SUFFICES ASSUME NEW i \in 1 .. n - 1, NEW k \in 1 .. n - 1, Tail(q)[i] = Tail(q)[k] PROVE i = k
      BY <1>5
    <2>1. q[i + 1] = q[k + 1] /\ i + 1 \in 1 .. n /\ k + 1 \in 1 .. n
      BY <1>4, <1>5
    <2>2. i + 1 = k + 1
      BY <1>6, <2>1
    <2> QED BY <2>2
  <1>8. Once'
    BY <1>3, <1>7 DEF Once
  <1>9. Ahead(what, j)
    <2>1. 1 \in DOMAIN todo[j[1]] /\ todo[j[1]][1] = <<what, j>>
      BY <1>1, <1>4, <1>5 DEF q
    <2> QED BY <2>1 DEF Ahead
  <1>10. ASSUME NEW w, NEW i, i[1] \in Requests
         PROVE  Ahead(w, i)' <=> Ahead(w, i) /\ <<w, i>> # <<what, j>>
    <2>1. CASE i[1] # r
      <3>1. todo'[i[1]] = todo[i[1]] /\ i # j
        BY <1>1, <1>3, <1>10, <2>1
      <3> QED BY <3>1 DEF Ahead
    <2>2. CASE i[1] = r
      <3>1. Ahead(w, i)' <=> \E k \in 1 .. n - 1 : q[k + 1] = <<w, i>>
        <4>1. Ahead(w, i)' <=> \E k \in 1 .. n - 1 : Tail(q)[k] = <<w, i>>
          BY <1>3, <1>5, <1>10, <2>2 DEF Ahead
        <4> QED BY <1>5, <4>1
      <3>2. Ahead(w, i) <=> \E k \in 1 .. n : q[k] = <<w, i>>
        BY <1>5, <2>2 DEF Ahead, q
      <3>3. ASSUME NEW k \in 1 .. n - 1, q[k + 1] = <<w, i>>
            PROVE  Ahead(w, i) /\ <<w, i>> # <<what, j>>
        <4>1. k + 1 \in 1 .. n /\ k + 1 # 1 /\ 1 \in 1 .. n
          BY <1>4
        <4>2. <<w, i>> # <<what, j>>
          BY <1>5, <1>6, <3>3, <4>1
        <4> QED BY <3>2, <3>3, <4>1, <4>2
      <3>4. ASSUME NEW k \in 1 .. n, q[k] = <<w, i>>, <<w, i>> # <<what, j>>
            PROVE  \E m \in 1 .. n - 1 : q[m + 1] = <<w, i>>
        <4>1. k # 1
          BY <1>5, <3>4
        <4>2. k - 1 \in 1 .. n - 1 /\ (k - 1) + 1 = k
          BY <1>4, <4>1
        <4> QED BY <3>4, <4>2
      <3> QED BY <3>1, <3>2, <3>3, <3>4
    <2> QED BY <2>1, <2>2
  <1> QED BY <1>8, <1>9, <1>10

\* The same under the invariant.
LEMMA AheadStep ==
    ASSUME Shapes, Plans, Once, NEW r \in Requests, NEW what, NEW j, At(r, what, j), Advance(r)
    PROVE  /\ Once'
           /\ Ahead(what, j)
           /\ \A w, i : i[1] \in Requests =>
                 (Ahead(w, i)' <=> Ahead(w, i) /\ <<w, i>> # <<what, j>>)
  <1>1. j[1] = r /\ todo \in [Requests -> Seq(Words \X SyncJobs)]
    BY StepIs DEF Shapes
  <1> QED BY <1>1, StepTaken


\* A step counts one mishap more, or none.
LEMMA Mishaps ==
    ASSUME Standalone, [Next]_vars
    PROVE  /\ requestFaults' = requestFaults \/ requestFaults' = requestFaults + 1
           /\ runFaults' = runFaults \/ runFaults' = runFaults + 1
           /\ crashes' = crashes \/ crashes' = crashes + 1
  <1> USE DEF Standalone, vars, hfVars, requestVars, runVars, recordVars, RunUnchanged
  <1>1. requestFaults' = requestFaults \/ requestFaults' = requestFaults + 1
    BY DEF Next, RequestStep, Schedule, Count, List, EnqueueJob, RequestFault, Timer, Elect,
           Start, Leave, RunStep, FetchDoc, FetchSecret, Complete, Unlist, Close, Uncount,
           StoreMetrics, Noticed, RunFault, Crash
  <1>2. runFaults' = runFaults \/ runFaults' = runFaults + 1
    BY DEF Next, RequestStep, Schedule, Count, List, EnqueueJob, RequestFault, Timer, Elect,
           Start, Leave, RunStep, FetchDoc, FetchSecret, Complete, Unlist, Close, Uncount,
           StoreMetrics, Noticed, RunFault, Crash
  <1>3. crashes' = crashes \/ crashes' = crashes + 1
    BY DEF Next, RequestStep, Schedule, Count, List, EnqueueJob, RequestFault, Timer, Elect,
           Start, Leave, RunStep, FetchDoc, FetchSecret, Complete, Unlist, Close, Uncount,
           StoreMetrics, Noticed, RunFault, Crash, Hf!Create, Hf!Enqueue, Hf!Elect,
           Hf!ElectPermit, Hf!ElectBlocked, Hf!StartProcessing, Hf!Finish, Hf!Abandon, Hf!Fail,
           Hf!Crash
  <1> QED BY <1>1, <1>2, <1>3

\* Nothing has failed before the state in which nothing has failed.
LEMMA CalmBefore ==
    ASSUME Standalone, Numbers, [Next]_vars, Calm'
    PROVE  Calm
  <1>1. requestFaults \in Nat /\ runFaults \in Nat /\ crashes \in Nat
    BY DEF Numbers
  <1>2. requestFaults' = 0 /\ runFaults' = 0 /\ crashes' = 0 /\ NoCancel
    BY DEF Calm, NoFaults, NoCancel, Standalone
  <1>3. requestFaults = 0 /\ runFaults = 0 /\ crashes = 0
    BY <1>1, <1>2, Mishaps
  <1> QED BY <1>2, <1>3 DEF Calm, NoFaults

\* The steps that do not fail.
Proceeds(r, j) ==
    \/ Schedule(r, j) \/ Count(r, j) \/ List(r, j) \/ EnqueueJob(r, j)
    \/ Timer(j) \/ Elect(j) \/ Start(j) \/ Leave(j)
    \/ FetchDoc(j) \/ FetchSecret(j) \/ Complete(j) \/ Unlist(j) \/ Close(j)
    \/ Uncount(j) \/ StoreMetrics(j)

\* While nothing fails there are no others: no token is cancelled.
LEMMA CalmStep ==
    ASSUME IInv, Kept, [Next]_vars, Calm'
    PROVE  \/ UNCHANGED vars
           \/ \E r \in Requests, j \in SyncJobs : Proceeds(r, j)
  <1>1. Calm
    BY CalmBefore DEF IInv, Kept
  <1>2. ASSUME NEW r \in Requests, RequestFault(r) PROVE FALSE
    BY <1>1, <1>2 DEF RequestFault, Calm, NoFaults
  <1>3. ASSUME NEW j \in SyncJobs, RunFault(j) PROVE FALSE
    BY <1>1, <1>3 DEF RunFault, Calm, NoFaults
  <1>4. ~Crash
    BY <1>1 DEF Crash, Hf!Crash, Calm
  <1>5. ASSUME NEW j \in SyncJobs, Noticed(j) PROVE FALSE
    BY <1>5, JobAndCall DEF Noticed
  <1>6. ~ \E c \in Cancels : CancelStep(c)
    BY DEF IInv, Standalone
  <1>7. ASSUME NEW j \in SyncJobs, \E r \in Requests : Proceeds(r, j)
        PROVE  \E r \in Requests, i \in SyncJobs : Proceeds(r, i)
    BY <1>7
  <1>8. ASSUME NEW j \in SyncJobs,
               \/ Timer(j) \/ Elect(j) \/ Start(j) \/ Leave(j)
               \/ FetchDoc(j) \/ FetchSecret(j) \/ Complete(j) \/ Unlist(j) \/ Close(j)
               \/ Uncount(j) \/ StoreMetrics(j)
        PROVE  \E r \in Requests, i \in SyncJobs : Proceeds(r, i)
    <2>1. j[1] \in Requests /\ Proceeds(j[1], j)
      BY <1>8, JobIs DEF Proceeds
    <2> QED BY <2>1
  <1>9. ASSUME NEW r \in Requests, NEW j \in SyncJobs, RequestStep(r, j)
        PROVE  \E q \in Requests, i \in SyncJobs : Proceeds(q, i)
    BY <1>9 DEF RequestStep, Proceeds
  <1> QED
    BY <1>2, <1>3, <1>4, <1>5, <1>6, <1>8, <1>9 DEF Next, RunStep

\* What the end of a run does while nothing fails: the job has succeeded.
LEMMA CalmLeave ==
    ASSUME IInv, Kept, Calm, NEW j \in SyncJobs, Leave(j)
    PROVE  /\ run[j].pc = "return" /\ jobState[j] = "Processing" /\ j \in workers
           /\ jobState' = [jobState EXCEPT ![j] = "Succeeded"]
           /\ owners' = owners \ {j} /\ workers' = workers \ {j} /\ electing' = electing
           /\ run' = [run EXCEPT ![j] = IdleRun]
  <1>1. run[j].pc = "return"
    BY DEF Leave, Kept, Straight, GoesStraight
  <1>2. j \in workers /\ jobState[j] = "Processing"
    BY LeaveIs, JobAndCall DEF IInv
  <1>3. Hf!Finish(j)
    BY <1>1, <1>2 DEF Leave, Hf!Abandon
  <1> QED
    BY <1>1, <1>2, <1>3 DEF Leave, Hf!Finish, Hf!Transition, Hf!OwnersAfterApply

\* An election while nothing fails is of a job that waits.
LEMMA CalmElect ==
    ASSUME IInv, Kept, Calm, NEW j \in SyncJobs, Elect(j)
    PROVE  /\ jobState[j] = "Enqueued" /\ j \notin workers /\ j \notin electing
           /\ workers' = workers
           /\ \/ /\ jobState' = jobState /\ electing' = electing \cup {j}
                 /\ owners' = owners \cup {j} /\ \A o \in owners : o = j
              \/ /\ jobState' = [jobState EXCEPT ![j] = "Scheduled"] /\ electing' = electing
                 /\ owners' = owners
           /\ UNCHANGED <<recordVars, requestVars, runVars, cancel>>
  <1>1. /\ jobState[j] \in {"Enqueued", "Processing"} /\ j \notin workers /\ j \notin electing
        /\ workers' = workers
    BY ElectIs DEF Elect, IInv
  <1>2. jobState[j] = "Enqueued"
    BY <1>1 DEF Kept, OneRuns
  <1>3. Hf!Elect(j) /\ UNCHANGED <<recordVars, requestVars, runVars, cancel>>
    BY DEF Elect
  <1>4. CASE Hf!ElectPermit(j)
    BY <1>1, <1>2, <1>3, <1>4 DEF Hf!ElectPermit, Hf!Blocked
  <1>5. CASE Hf!ElectBlocked(j)
    BY <1>1, <1>2, <1>3, <1>5 DEF Hf!ElectBlocked, Hf!Transition, Hf!OwnersAfterApply
  <1> QED BY <1>3, <1>4, <1>5 DEF Hf!Elect

\* A start while nothing fails is of a job that is queued and owns the mutex.
LEMMA CalmStart ==
    ASSUME IInv, Kept, Calm, NEW j \in SyncJobs, Start(j)
    PROVE  /\ j \in electing /\ j \in owners /\ jobState[j] = "Enqueued" /\ run[j].pc = "idle"
           /\ jobState' = [jobState EXCEPT ![j] = "Processing"]
           /\ owners' = owners /\ electing' = electing \ {j} /\ workers' = workers \cup {j}
           /\ run' = [run EXCEPT ![j] = [IdleRun EXCEPT !.pc = "fetch"]]
           /\ UNCHANGED <<recordVars, requestVars, runFaults, cancel>>
  <1>1. j \in electing
    BY DEF Start, Hf!StartProcessing
  <1>2. jobState[j] \in {"Enqueued", "Processing"} /\ j \notin workers /\ run[j].pc = "idle"
    BY <1>1 DEF IInv, Executed
  <1>3. jobState[j] = "Enqueued" /\ j \in owners
    BY <1>1, <1>2 DEF Kept, OneRuns
  <1> QED
    BY <1>1, <1>2, <1>3 DEF Start, Hf!StartProcessing, Hf!Transition, Hf!OwnersAfterApply

\* A step of a call does not let a job in: it only moves jobs that wait.
LEMMA CalmCall ==
    ASSUME IInv, NEW r \in Requests, NEW j \in SyncJobs, RequestStep(r, j)
    PROVE  /\ j[1] = r /\ todo[r] # <<>>
           /\ \E what : At(r, what, j) /\ Advance(r)
           /\ jobState[j] \in Pending
           /\ \/ jobState' = jobState
              \/ \E new \in {"Scheduled", "Awaiting", "Enqueued"} :
                    jobState' = [jobState EXCEPT ![j] = new]
           /\ owners' = owners /\ electing' = electing /\ workers' = workers
           /\ run' = run
  <1>1. \E what : At(r, what, j) /\ Advance(r)
    BY DEF RequestStep, Schedule, Count, List, EnqueueJob
  <1>2. j[1] = r /\ todo[r] # <<>>
    BY <1>1, StepIs DEF IInv
  <1>3. jobState[j] \in Pending
    BY <1>2, JobAndCall
  <1>4. CASE Schedule(r, j)
    BY <1>1, <1>2, <1>3, <1>4 DEF Schedule, Hf!Create, Hf!Transition, Hf!OwnersAfterApply, runVars, Pending
  <1>5. CASE Count(r, j)
    BY <1>1, <1>2, <1>3, <1>5 DEF Count, hfVars, runVars
  <1>6. CASE List(r, j)
    BY <1>1, <1>2, <1>3, <1>6 DEF List, hfVars, runVars
  <1>7. CASE EnqueueJob(r, j)
    BY <1>1, <1>2, <1>3, <1>7 DEF EnqueueJob, Hf!Transition, Hf!OwnersAfterApply, runVars, Pending
  <1> QED BY <1>4, <1>5, <1>6, <1>7 DEF RequestStep

\* The timer moves a job that waits.
LEMMA CalmTimer ==
    ASSUME IInv, NEW j \in SyncJobs, Timer(j)
    PROVE  /\ jobState[j] \in {"Scheduled", "Awaiting"}
           /\ jobState' = [jobState EXCEPT ![j] = "Enqueued"]
           /\ owners' = owners /\ electing' = electing /\ workers' = workers
           /\ UNCHANGED <<recordVars, requestVars, runVars, cancel>>
  BY DEF Timer, Hf!Enqueue, Hf!Transition, Hf!OwnersAfterApply

\* The steps of a run are those of a worker and touch no job.
LEMMA CalmRun ==
    ASSUME IInv, NEW j \in SyncJobs,
           \/ FetchDoc(j) \/ FetchSecret(j) \/ Complete(j) \/ Unlist(j) \/ Close(j)
           \/ Uncount(j) \/ StoreMetrics(j)
    PROVE  /\ j \in workers /\ jobState[j] = "Processing" /\ todo[j[1]] = <<>>
           /\ UNCHANGED hfVars /\ UNCHANGED requestVars /\ runFaults' = runFaults
           /\ Others(j)
  <1>1. j \in workers
    BY DEF Executes, FetchDoc, FetchSecret, Complete, Unlist, Close, Uncount, StoreMetrics
  <1>2. UNCHANGED hfVars /\ UNCHANGED requestVars /\ runFaults' = runFaults
    BY DEF RunUnchanged, FetchDoc, FetchSecret, Complete, Unlist, Close, Uncount, StoreMetrics
  <1>3. Others(j)
    BY RunIs DEF IInv
  <1> QED BY <1>1, <1>2, <1>3, JobAndCall

\* One job at a time, while nothing fails.
LEMMA OneRunsStep ==
    ASSUME IInv, Kept, [Next]_vars
    PROVE  OneRuns'
  <1> SUFFICES ASSUME Calm' PROVE OneRuns'
    BY DEF OneRuns
  <1>1. Calm
    BY CalmBefore DEF IInv, Kept
  <1>2. /\ \A i, k \in owners : i = k
        /\ electing \subseteq owners /\ workers \subseteq owners
        /\ \A i \in SyncJobs : jobState[i] = "Processing" => i \in workers
        /\ jobState \in [SyncJobs -> Hf!States]
        /\ \A i \in electing : i \notin workers
        /\ electing \subseteq SyncJobs
    BY <1>1 DEF Kept, OneRuns, Hf!AtMostOne, IInv, Shapes, Executed
  <1> USE DEF OneRuns, Hf!AtMostOne
  <1>3. CASE UNCHANGED vars
    BY <1>2, <1>3 DEF vars, hfVars
  <1>4. ASSUME NEW r \in Requests, NEW j \in SyncJobs, RequestStep(r, j) PROVE OneRuns'
    BY <1>2, <1>4, CalmCall
  <1>5. ASSUME NEW j \in SyncJobs, Timer(j) PROVE OneRuns'
    BY <1>2, <1>5, CalmTimer
  <1>6. ASSUME NEW j \in SyncJobs, Elect(j) PROVE OneRuns'
    BY <1>1, <1>2, <1>6, CalmElect
  <1>7. ASSUME NEW j \in SyncJobs, Start(j) PROVE OneRuns'
    BY <1>1, <1>2, <1>7, CalmStart
  <1>8. ASSUME NEW j \in SyncJobs, Leave(j) PROVE OneRuns'
    BY <1>1, <1>2, <1>8, CalmLeave
  <1>9. ASSUME NEW j \in SyncJobs,
               \/ FetchDoc(j) \/ FetchSecret(j) \/ Complete(j) \/ Unlist(j) \/ Close(j)
               \/ Uncount(j) \/ StoreMetrics(j)
        PROVE  OneRuns'
    BY <1>2, <1>9, CalmRun DEF hfVars
  <1> QED
    BY <1>3, <1>4, <1>5, <1>6, <1>7, <1>8, <1>9, CalmStep DEF Proceeds, RequestStep

\* The counts are numbers.
LEMMA NumbersStep ==
    ASSUME IInv, Numbers, [Next]_vars
    PROVE  Numbers'
  <1>1. requestFaults \in Nat /\ runFaults \in Nat /\ crashes \in Nat /\ Standalone
    BY DEF Numbers, IInv
  <1>2. requestFaults' \in Nat /\ runFaults' \in Nat /\ crashes' \in Nat
    BY <1>1, Mishaps
  <1>3. queuedCount \in [Projects -> Int]
    BY DEF Numbers
  <1>4. ASSUME NEW r \in Requests, NEW j \in SyncJobs, Count(r, j)
        PROVE  queuedCount' \in [Projects -> Int]
    BY <1>3, <1>4, JobIs DEF Count
  <1>5. ASSUME NEW j \in SyncJobs, Uncount(j)
        PROVE  queuedCount' \in [Projects -> Int]
    BY <1>3, <1>5, JobIs DEF Uncount
  <1>6. \/ queuedCount' = queuedCount
        \/ \E r \in Requests, j \in SyncJobs : Count(r, j)
        \/ \E j \in SyncJobs : Uncount(j)
    BY <1>1 DEF Next, RequestStep, Schedule, List, EnqueueJob, RequestFault, Timer, Elect,
       Start, Leave, RunStep, FetchDoc, FetchSecret, Complete, Unlist, Close,
       StoreMetrics, Noticed, RunFault, Crash, Standalone, recordVars, vars
  <1>7. queuedCount' \in [Projects -> Int]
    BY <1>3, <1>4, <1>5, <1>6
  <1>8. DOMAIN jobIds' = Projects
    <2>1. DOMAIN jobIds = Projects
      BY DEF Numbers
    <2>2. ASSUME NEW r \in Requests, NEW j \in SyncJobs, List(r, j)
          PROVE  DOMAIN jobIds' = Projects
      BY <2>1, <2>2 DEF List
    <2>3. ASSUME NEW j \in SyncJobs, Unlist(j)
          PROVE  DOMAIN jobIds' = Projects
      BY <2>1, <2>3 DEF Unlist
    <2>4. \/ jobIds' = jobIds
          \/ \E r \in Requests, j \in SyncJobs : List(r, j)
          \/ \E j \in SyncJobs : Unlist(j)
      BY <1>1 DEF Next, RequestStep, Schedule, Count, EnqueueJob, RequestFault, Timer, Elect,
         Start, Leave, RunStep, FetchDoc, FetchSecret, Complete, Uncount, Close,
         StoreMetrics, Noticed, RunFault, Crash, Standalone, recordVars, vars
    <2> QED BY <2>1, <2>2, <2>3, <2>4
  <1> QED BY <1>2, <1>7, <1>8 DEF Numbers

\* No step of a call is there twice.
LEMMA OnceStep ==
    ASSUME IInv, Once, [Next]_vars
    PROVE  Once'
  <1>1. ASSUME NEW r \in Requests, NEW j \in SyncJobs, RequestStep(r, j) PROVE Once'
    BY <1>1, CalmCall, AheadStep DEF IInv
  <1>2. CASE todo' = todo
    BY <1>2 DEF Once
  <1>3. CASE \A r \in Requests : todo'[r] = todo[r] \/ todo'[r] = <<>>
    BY <1>3 DEF Once
  <1>4. ASSUME NEW r \in Requests, RequestFault(r) PROVE Once'
    BY <1>3, <1>4 DEF RequestFault, IInv, Shapes
  <1>5. CASE Crash
    BY <1>3, <1>5 DEF Crash
  <1>6. ~ \E c \in Cancels : CancelStep(c)
    BY DEF IInv, Standalone
  <1>7. ASSUME NEW j \in SyncJobs,
               Timer(j) \/ Elect(j) \/ Start(j) \/ Leave(j) \/ RunStep(j) \/ RunFault(j)
        PROVE  todo' = todo
    BY <1>7 DEF Timer, Elect, Start, Leave, RunStep, FetchDoc, FetchSecret, Complete, Unlist,
             Close, Uncount, StoreMetrics, Noticed, RunFault, RunUnchanged, requestVars
  <1>8. CASE UNCHANGED vars
    BY <1>2, <1>8 DEF vars, requestVars
  <1> QED BY <1>1, <1>2, <1>4, <1>5, <1>6, <1>7, <1>8 DEF Next

\* What the steps of a run keep of what it knows.
LEMMA RunKeeps ==
    ASSUME Shapes, NEW j \in SyncJobs
    PROVE  /\ FetchDoc(j) => /\ run'[j].second = run[j].second /\ run'[j].closed = run[j].closed
                             /\ run'[j].count = queuedCount[ProjectOf(j)]
                             /\ run[j].pc = "fetch"
           /\ FetchSecret(j) => /\ run'[j].second = run[j].second /\ run'[j].closed = run[j].closed
                                /\ run'[j].count = run[j].count /\ run[j].pc = "secret"
                                /\ jobIds[ProjectOf(j)] # <<>> =>
                                      run'[j].head = Head(jobIds[ProjectOf(j)])
           /\ Complete(j) => /\ run'[j].second = run[j].second /\ run'[j].closed = run[j].closed
                             /\ run'[j].count = run[j].count /\ run'[j].head = run[j].head
                             /\ run[j].pc = "complete"
           /\ Unlist(j) => /\ run'[j].second = run[j].second /\ run'[j].closed = run[j].closed
                           /\ run'[j].count = run[j].count /\ run[j].pc = "unlist"
           /\ Close(j) => /\ run'[j].second = run[j].second /\ run'[j].closed
                          /\ run'[j].count = run[j].count /\ run[j].pc = "close"
                          /\ ~run[j].closed => run'[j].pc = "uncount"
           /\ Uncount(j) => /\ run'[j].second = run[j].second /\ run'[j].closed = run[j].closed
                            /\ run[j].pc = "uncount"
           /\ StoreMetrics(j) => /\ run'[j].second = run[j].second
                                 /\ run'[j].closed = run[j].closed /\ run[j].pc = "metrics"
  <1> USE DEF Shapes, IsRun, Executes
  <1>1. ASSUME FetchDoc(j)
        PROVE  /\ run'[j].second = run[j].second /\ run'[j].closed = run[j].closed
               /\ run'[j].count = queuedCount[ProjectOf(j)]
               /\ run[j].pc = "fetch"
    <2>1. PICK n : n = queuedCount[ProjectOf(j)]
      OBVIOUS
    <2>2. run' = [run EXCEPT ![j].pc = "secret", ![j].count = n]
      BY <1>1, <2>1 DEF FetchDoc
    <2>3. run[j].pc = "fetch"
      BY <1>1 DEF FetchDoc
    <2>4. run'[j] = [run[j] EXCEPT !.pc = "secret", !.count = n]
      BY <2>2
    <2>5. IsRun(run[j])
      OBVIOUS
    <2> HIDE DEF Shapes
    <2> QED BY <2>1, <2>3, <2>4, <2>5
  <1>2. FetchSecret(j) => /\ run'[j].second = run[j].second /\ run'[j].closed = run[j].closed
                          /\ run'[j].count = run[j].count /\ run[j].pc = "secret"
                          /\ jobIds[ProjectOf(j)] # <<>> =>
                                run'[j].head = Head(jobIds[ProjectOf(j)])
    BY DEF FetchSecret
  <1>3. ASSUME Complete(j)
        PROVE  /\ run'[j].second = run[j].second /\ run'[j].closed = run[j].closed
               /\ run'[j].count = run[j].count /\ run'[j].head = run[j].head
               /\ run[j].pc = "complete"
    <2>1. PICK ok : run' = [run EXCEPT ![j].pc = "unlist", ![j].ok = ok]
      BY <1>3 DEF Complete
    <2> QED BY <1>3, <2>1 DEF Complete
  <1>4. Unlist(j) => /\ run'[j].second = run[j].second /\ run'[j].closed = run[j].closed
                     /\ run'[j].count = run[j].count /\ run[j].pc = "unlist"
    BY DEF Unlist
  <1>5. ASSUME Close(j)
        PROVE  /\ run'[j].second = run[j].second /\ run'[j].closed
               /\ run'[j].count = run[j].count /\ run[j].pc = "close"
               /\ ~run[j].closed => run'[j].pc = "uncount"
    <2>1. PICK pc : /\ run' = [run EXCEPT ![j].pc = pc, ![j].closed = TRUE]
                    /\ ~run[j].closed => pc = "uncount"
      BY <1>5 DEF Close
    <2>2. run[j].pc = "close"
      BY <1>5 DEF Close
    <2>3. run'[j] = [run[j] EXCEPT !.pc = pc, !.closed = TRUE]
      BY <2>1
    <2>4. IsRun(run[j])
      OBVIOUS
    <2> HIDE DEF Shapes
    <2>5. run'[j].closed = TRUE
      BY <2>3, <2>4
    <2>6. /\ run'[j].second = run[j].second /\ run'[j].count = run[j].count
          /\ run'[j].pc = pc
      BY <2>3, <2>4
    <2> QED BY <2>1, <2>2, <2>5, <2>6, Zenon
  <1>6. Uncount(j) => /\ run'[j].second = run[j].second /\ run'[j].closed = run[j].closed
                      /\ run[j].pc = "uncount"
    BY DEF Uncount
  <1>7. StoreMetrics(j) => /\ run'[j].second = run[j].second
                           /\ run'[j].closed = run[j].closed /\ run[j].pc = "metrics"
    BY DEF StoreMetrics
  <1> QED BY <1>1, <1>2, <1>3, <1>4, <1>5, <1>6, <1>7

\* A sync that is being executed and has not counted itself out is counted, and
\* likewise it is listed until it takes an id off.
LEMMA RunningIsCounted ==
    ASSUME IInv, Kept, Calm, NEW j \in workers
    PROVE  /\ j \in SyncJobs /\ ProjectOf(j) \in Projects /\ j \in Of(ProjectOf(j))
           /\ run[j].pc \notin {"metrics", "return"} =>
                 j \in CountedOf(ProjectOf(j)) /\ queuedCount[ProjectOf(j)] > 0
           /\ run[j].pc \notin {"close", "uncount", "metrics", "return"} =>
                 j \in ListedOf(ProjectOf(j)) /\ jobIds[ProjectOf(j)] # <<>>
  <1> DEFINE p == ProjectOf(j)
  <1>1. j \in SyncJobs /\ p \in Projects /\ j \in Of(p)
    BY JobIs DEF IInv, Shapes, Of
  <1>2. /\ ~Ended(j) /\ ~Ahead("count", j) /\ ~Ahead("list", j)
    BY <1>1, JobAndCall DEF Ended
  <1>3. ASSUME run[j].pc \notin {"metrics", "return"}
        PROVE  j \in CountedOf(p) /\ queuedCount[p] > 0
    <2>1. j \in CountedOf(p)
      BY <1>1, <1>2, <1>3 DEF CountedOf, IsCounted, Uncounted
    <2>2. IsFiniteSet(CountedOf(p)) /\ queuedCount[p] = Cardinality(CountedOf(p))
      BY <1>1 DEF Kept, Counts
    <2>3. Cardinality(CountedOf(p)) \in Nat /\ Cardinality(CountedOf(p)) # 0
      BY <2>1, <2>2, FS_CardinalityType, FS_EmptySet
    <2> QED BY <2>1, <2>2, <2>3
  <1>4. ASSUME run[j].pc \notin {"close", "uncount", "metrics", "return"}
        PROVE  j \in ListedOf(p) /\ jobIds[p] # <<>>
    <2>1. j \in ListedOf(p)
      BY <1>1, <1>2, <1>4 DEF ListedOf, IsListed, Unlisted
    <2>2. IsFiniteSet(ListedOf(p)) /\ Len(jobIds[p]) = Cardinality(ListedOf(p))
      BY <1>1 DEF Kept, Lists
    <2>3. Cardinality(ListedOf(p)) # 0
      BY <2>1, <2>2, FS_EmptySet
    <2>4. Len(jobIds[p]) # 0
      BY <2>2, <2>3
    <2> QED BY <2>1, <2>4, Zenon, EmptySeq
  <1> QED BY <1>1, <1>3, <1>4

\* Runs go straight through.
LEMMA StraightStep ==
    ASSUME IInv, Kept, [Next]_vars
    PROVE  Straight'
  <1> SUFFICES ASSUME Calm', NEW i \in SyncJobs PROVE GoesStraight(run'[i])
    BY DEF Straight, GoesStraight
  <1>1. Calm
    BY CalmBefore DEF IInv, Kept
  <1>2. GoesStraight(run[i])
    BY <1>1 DEF Kept, Straight
  <1>3. CASE run'[i] = run[i]
    BY <1>2, <1>3
  <1>4. GoesStraight(IdleRun)
    BY DEF GoesStraight, IdleRun
  <1>5. Shapes
    BY DEF IInv
  <1>6. CASE Start(i)
    <2>1. run'[i] = [IdleRun EXCEPT !.pc = "fetch"]
      BY <1>1, <1>5, <1>6, CalmStart DEF Shapes
    <2> QED BY <2>1 DEF GoesStraight, IdleRun
  <1>7. CASE Leave(i)
    <2>1. run'[i] = IdleRun
      BY <1>1, <1>5, <1>7, CalmLeave DEF Shapes
    <2> QED BY <1>4, <2>1
  <1>8. CASE FetchDoc(i)
    <2>1. run[i].pc = "fetch" /\ i \in workers
      BY <1>8 DEF FetchDoc, Executes
    <2>2. queuedCount[ProjectOf(i)] > 0
      BY <1>1, <2>1, RunningIsCounted
    <2> QED BY <1>2, <1>5, <1>8, <2>1, <2>2, RunIs, RunKeeps DEF GoesStraight
  <1>9. CASE FetchSecret(i)
    BY <1>2, <1>5, <1>9, RunIs, RunKeeps DEF GoesStraight
  <1>10. CASE Complete(i)
    BY <1>2, <1>5, <1>10, RunIs, RunKeeps DEF GoesStraight
  <1>11. CASE Unlist(i)
    BY <1>2, <1>5, <1>11, RunIs, RunKeeps DEF GoesStraight
  <1>12. CASE Close(i)
    <2>1. run[i].pc = "close" /\ ~run[i].closed
      BY <1>2, <1>5, <1>12, RunKeeps DEF GoesStraight
    <2> QED BY <1>2, <1>5, <1>12, <2>1, RunKeeps DEF GoesStraight
  <1>13. CASE Uncount(i)
    BY <1>2, <1>5, <1>13, RunIs, RunKeeps DEF GoesStraight
  <1>14. CASE StoreMetrics(i)
    BY <1>2, <1>5, <1>14, RunIs, RunKeeps DEF GoesStraight
  <1>15. ASSUME NEW j \in SyncJobs, j # i,
                \/ Start(j) \/ Leave(j)
                \/ FetchDoc(j) \/ FetchSecret(j) \/ Complete(j) \/ Unlist(j) \/ Close(j)
                \/ Uncount(j) \/ StoreMetrics(j)
         PROVE  run'[i] = run[i]
    <2>1. CASE Start(j) \/ Leave(j)
      BY <1>1, <1>5, <1>15, <2>1, CalmStart, CalmLeave DEF Shapes
    <2>2. CASE ~(Start(j) \/ Leave(j))
      <3>1. Others(j)
        BY <1>15, <2>2, CalmRun
      <3> QED BY <1>15, <3>1 DEF Others
    <2> QED BY <2>1, <2>2
  <1>16. ASSUME NEW r \in Requests, NEW j \in SyncJobs, RequestStep(r, j) PROVE run' = run
    BY <1>16, CalmCall
  <1>17. ASSUME NEW j \in SyncJobs, Timer(j) \/ Elect(j) PROVE run' = run
    BY <1>1, <1>17, CalmTimer, CalmElect DEF runVars
  <1>18. CASE UNCHANGED vars
    BY <1>3, <1>18 DEF vars, runVars
  <1>19. ASSUME NEW r \in Requests, NEW j \in SyncJobs, Proceeds(r, j)
         PROVE  GoesStraight(run'[i])
    <2>1. CASE j = i
      BY <1>3, <1>6, <1>7, <1>8, <1>9, <1>10, <1>11, <1>12, <1>13, <1>14, <1>16, <1>17, <1>19, <2>1
         DEF Proceeds, RequestStep
    <2>2. CASE j # i
      BY <1>3, <1>15, <1>16, <1>17, <1>19, <2>2 DEF Proceeds, RequestStep
    <2> QED BY <2>1, <2>2
  <1> QED BY <1>18, <1>19, CalmStep

\* Which syncs are counted and listed is changed by the steps for it alone.
LEMMA PlacesStep ==
    ASSUME IInv, Kept, [Next]_vars, Calm', NEW i \in SyncJobs
    PROVE  /\ \/ IsCounted(i)' <=> IsCounted(i)
              \/ \E r \in Requests : Count(r, i)
              \/ Uncount(i)
           /\ \/ IsListed(i)' <=> IsListed(i)
              \/ \E r \in Requests : List(r, i)
              \/ Unlist(i)
  <1> DEFINE Goal == /\ \/ IsCounted(i)' <=> IsCounted(i)
                        \/ \E r \in Requests : Count(r, i)
                        \/ Uncount(i)
                     /\ \/ IsListed(i)' <=> IsListed(i)
                        \/ \E r \in Requests : List(r, i)
                        \/ Unlist(i)
  <1>1. Calm /\ Shapes /\ Plans /\ Once
    BY CalmBefore DEF IInv, Kept
  <1>2. ASSUME todo' = todo, Uncounted(i)' <=> Uncounted(i), Unlisted(i)' <=> Unlisted(i)
        PROVE  Goal
    BY <1>2 DEF IsCounted, IsListed, Ahead
  <1>3. ASSUME jobState'[i] = jobState[i], run'[i] = run[i]
        PROVE  (Uncounted(i)' <=> Uncounted(i)) /\ (Unlisted(i)' <=> Unlisted(i))
    BY <1>3 DEF Uncounted, Unlisted, Ended
  <1>4. CASE UNCHANGED vars
    BY <1>2, <1>3, <1>4 DEF vars, hfVars, requestVars, runVars
  <1>5. ASSUME NEW r \in Requests, NEW j \in SyncJobs, RequestStep(r, j) PROVE Goal
    <2>1. PICK what : At(r, what, j) /\ Advance(r)
      BY <1>5, CalmCall
    <2>2. i[1] \in Requests
      BY JobIs
    <2>3. \A w : Ahead(w, i)' <=> Ahead(w, i) /\ <<w, i>> # <<what, j>>
      BY <1>1, <2>1, <2>2, AheadStep
    <2>4. (Uncounted(i)' <=> Uncounted(i)) /\ (Unlisted(i)' <=> Unlisted(i))
      <3>1. run' = run /\ jobState[j] \in Pending
            /\ \/ jobState' = jobState
               \/ \E new \in {"Scheduled", "Awaiting", "Enqueued"} :
                     jobState' = [jobState EXCEPT ![j] = new]
        BY <1>5, CalmCall
      <3>2. Ended(i)' <=> Ended(i)
        BY <1>1, <3>1 DEF Ended, Shapes, Pending
      <3> QED BY <3>1, <3>2 DEF Uncounted, Unlisted
    <2>5. Schedule(r, j) => what = "schedule"
      BY <2>1 DEF Schedule, At
    <2>6. EnqueueJob(r, j) => what = "enqueue"
      BY <2>1 DEF EnqueueJob, At
    <2>7. Count(r, j) => what = "count"
      BY <2>1 DEF Count, At
    <2>8. List(r, j) => what = "list"
      BY <2>1 DEF List, At
    <2>9. CASE i = j
      BY <1>5, <2>3, <2>4, <2>5, <2>6, <2>7, <2>8, <2>9 DEF IsCounted, IsListed, RequestStep
    <2>10. CASE i # j
      BY <2>3, <2>4, <2>10 DEF IsCounted, IsListed
    <2> QED BY <2>9, <2>10
  <1>6. ASSUME NEW j \in SyncJobs, Timer(j) PROVE Goal
    <2>1. todo' = todo /\ run' = run
      BY <1>6, CalmTimer DEF requestVars, runVars
    <2>2. Ended(i)' <=> Ended(i)
      BY <1>1, <1>6, CalmTimer DEF Ended, Shapes
    <2> QED BY <1>2, <2>1, <2>2 DEF Uncounted, Unlisted
  <1>7. ASSUME NEW j \in SyncJobs, Elect(j) PROVE Goal
    <2>1. todo' = todo /\ run' = run
      BY <1>1, <1>7, CalmElect DEF requestVars, runVars
    <2>2. Ended(i)' <=> Ended(i)
      BY <1>1, <1>7, CalmElect DEF Ended, Shapes
    <2> QED BY <1>2, <2>1, <2>2 DEF Uncounted, Unlisted
  <1>8. ASSUME NEW j \in SyncJobs, Start(j) PROVE Goal
    <2>1. /\ todo' = todo /\ run[j].pc = "idle" /\ jobState[j] = "Enqueued"
          /\ jobState' = [jobState EXCEPT ![j] = "Processing"]
          /\ run' = [run EXCEPT ![j] = [IdleRun EXCEPT !.pc = "fetch"]]
      BY <1>1, <1>8, CalmStart DEF requestVars
    <2>2. CASE i = j
      <3>1. run'[i].pc = "fetch" /\ jobState'[i] = "Processing"
        BY <1>1, <2>1, <2>2 DEF IdleRun, Shapes
      <3> QED BY <1>2, <2>1, <2>2, <3>1 DEF Uncounted, Unlisted, Ended
    <2>3. CASE i # j
      BY <1>1, <1>2, <1>3, <2>1, <2>3 DEF Shapes
    <2> QED BY <2>2, <2>3
  <1>9. ASSUME NEW j \in SyncJobs, Leave(j) PROVE Goal
    <2>1. /\ run[j].pc = "return" /\ jobState' = [jobState EXCEPT ![j] = "Succeeded"]
          /\ run' = [run EXCEPT ![j] = IdleRun]
      BY <1>1, <1>9, CalmLeave
    <2>2. todo' = todo
      BY <1>9 DEF Leave, requestVars
    <2>3. CASE i = j
      <3>1. jobState'[i] = "Succeeded"
        BY <1>1, <2>1, <2>3 DEF Shapes
      <3> QED BY <1>2, <2>1, <2>2, <2>3, <3>1 DEF Uncounted, Unlisted, Ended
    <2>4. CASE i # j
      BY <1>1, <1>2, <1>3, <2>1, <2>2, <2>4 DEF Shapes
    <2> QED BY <2>3, <2>4
  <1>10. ASSUME NEW j \in SyncJobs,
                \/ FetchDoc(j) \/ FetchSecret(j) \/ Complete(j) \/ Unlist(j) \/ Close(j)
                \/ Uncount(j) \/ StoreMetrics(j)
         PROVE  Goal
    <2>1. todo' = todo /\ jobState' = jobState /\ Others(j) /\ jobState[j] = "Processing"
      BY <1>10, CalmRun DEF hfVars, requestVars
    <2>2. CASE i # j
      BY <1>2, <1>3, <2>1, <2>2 DEF Others
    <2>3. CASE i = j
      <3>1. ~Ended(i) /\ ~Ended(i)'
        BY <2>1, <2>3 DEF Ended
      <3>2. /\ FetchDoc(i) => run[i].pc = "fetch" /\ run'[i].pc = "secret"
            /\ FetchSecret(i) => run[i].pc = "secret" /\ run'[i].pc = "complete"
            /\ Complete(i) => run[i].pc = "complete" /\ run'[i].pc = "unlist"
            /\ Unlist(i) => run[i].pc = "unlist" /\ run'[i].pc = "close"
            /\ StoreMetrics(i) => run[i].pc = "metrics" /\ run'[i].pc = "return"
            /\ Uncount(i) => run[i].pc = "uncount" /\ run'[i].pc = "metrics"
        BY <1>1, RunIs, RunKeeps
      <3>3. ASSUME Close(i) PROVE run[i].pc = "close" /\ run'[i].pc = "uncount"
        <4>1. run[i].pc = "close"
          BY <1>1, <3>3, RunKeeps
        <4>2. ~run[i].closed
          BY <1>1, <4>1 DEF Kept, Straight, GoesStraight
        <4> QED BY <1>1, <3>3, <4>1, <4>2, RunKeeps
      <3>4. CASE FetchDoc(i) \/ FetchSecret(i) \/ Complete(i) \/ Close(i) \/ StoreMetrics(i)
        <4>1. (Uncounted(i)' <=> Uncounted(i)) /\ (Unlisted(i)' <=> Unlisted(i))
          BY <3>1, <3>2, <3>3, <3>4 DEF Uncounted, Unlisted
        <4> QED BY <1>2, <2>1, <4>1
      <3>5. CASE Unlist(i)
        <4>1. Uncounted(i)' <=> Uncounted(i)
          BY <3>1, <3>2, <3>5 DEF Uncounted
        <4> QED BY <2>1, <3>5, <4>1 DEF IsCounted, Ahead
      <3>6. CASE Uncount(i)
        <4>1. Unlisted(i)' <=> Unlisted(i)
          BY <3>1, <3>2, <3>6 DEF Unlisted
        <4> QED BY <2>1, <3>6, <4>1 DEF IsListed, Ahead
      <3> QED BY <1>10, <2>3, <3>4, <3>5, <3>6
    <2> QED BY <2>2, <2>3
  <1> HIDE DEF Goal
  <1>11. ASSUME NEW r \in Requests, NEW j \in SyncJobs, Proceeds(r, j) PROVE Goal
    BY <1>5, <1>6, <1>7, <1>8, <1>9, <1>10, <1>11 DEF Proceeds, RequestStep
  <1>12. Goal
    <2>1. CASE \E r \in Requests, j \in SyncJobs : Proceeds(r, j)
      <3>1. PICK r \in Requests, j \in SyncJobs : Proceeds(r, j)
        BY <2>1
      <3> QED BY <1>11, <3>1
    <2>2. \/ UNCHANGED vars
          \/ \E r \in Requests, j \in SyncJobs : Proceeds(r, j)
      BY CalmStep
    <2>3. CASE UNCHANGED vars
      BY <1>4, <2>3, Zenon DEF Goal
    <2> QED BY <2>1, <2>2, <2>3, Zenon
  <1> QED BY <1>12 DEF Goal

\* Who is counted after a step: the count of a project goes with it.
LEMMA CountsStep ==
    ASSUME IInv, Kept, [Next]_vars
    PROVE  Counts'
  <1> SUFFICES ASSUME Calm', NEW p \in Projects
               PROVE  /\ IsFiniteSet(CountedOf(p)')
                      /\ queuedCount'[p] = Cardinality(CountedOf(p)')
    BY DEF Counts
  <1>1. Calm /\ IsFiniteSet(CountedOf(p)) /\ queuedCount[p] = Cardinality(CountedOf(p))
    BY CalmBefore DEF IInv, Kept, Counts
  <1>2. queuedCount \in [Projects -> Int]
    BY DEF Kept, Numbers
  <1>3. Shapes /\ Plans /\ Once
    BY DEF IInv, Kept
  <1>4. CASE ~ \E j \in SyncJobs : (\E r \in Requests : Count(r, j)) \/ Uncount(j)
    <2>1. \A i \in SyncJobs : IsCounted(i)' <=> IsCounted(i)
      BY <1>4, PlacesStep
    <2>2. CountedOf(p)' = CountedOf(p)
      BY <2>1 DEF CountedOf, Of
    <2>3. queuedCount' = queuedCount
      BY <1>4, CalmStep DEF Proceeds, Schedule, List, EnqueueJob, Timer, Elect, Start, Leave,
         FetchDoc, FetchSecret, Complete, Unlist, Close, StoreMetrics, recordVars, vars
    <2> QED BY <1>1, <2>2, <2>3
  <1>5. ASSUME NEW r \in Requests, NEW j \in SyncJobs, Count(r, j)
        PROVE  /\ IsFiniteSet(CountedOf(p)')
               /\ queuedCount'[p] = Cardinality(CountedOf(p)')
    <2>1. At(r, "count", j) /\ Advance(r)
      BY <1>5 DEF Count
    <2>2. j[1] = r /\ todo[r] # <<>>
      BY <1>3, <2>1, StepIs
    <2>3. /\ run'[j] = run[j] /\ run[j].pc = "idle" /\ jobState' = jobState
          /\ jobState[j] \in Pending /\ run' = run
      BY <1>5, <2>2, JobAndCall DEF Count, hfVars, runVars
    <2>4. \A i \in SyncJobs : (Uncounted(i)' <=> Uncounted(i))
      BY <2>3 DEF Uncounted, Ended
    <2>5. ~Uncounted(j)
      BY <2>3 DEF Uncounted, Ended, Pending
    <2>6. /\ Ahead("count", j)
          /\ \A i \in SyncJobs : Ahead("count", i)' <=> Ahead("count", i) /\ i # j
      BY <1>3, <2>1, AheadStep, JobIs
    <2>7. \A i \in SyncJobs : IsCounted(i)' <=> IsCounted(i) \/ i = j
      BY <2>4, <2>5, <2>6 DEF IsCounted
    <2>8. ~IsCounted(j)
      BY <2>6 DEF IsCounted
    <2>9. queuedCount' = [queuedCount EXCEPT ![ProjectOf(j)] = queuedCount[ProjectOf(j)] + 1]
      BY <1>5 DEF Count
    <2>10. CASE p = ProjectOf(j)
      <3>1. CountedOf(p)' = CountedOf(p) \cup {j} /\ j \notin CountedOf(p)
        BY <2>7, <2>8, <2>10 DEF CountedOf, Of
      <3>2. /\ IsFiniteSet(CountedOf(p) \cup {j})
            /\ Cardinality(CountedOf(p) \cup {j}) = Cardinality(CountedOf(p)) + 1
        BY <1>1, <3>1, FS_AddElement
      <3> QED BY <1>1, <1>2, <2>9, <2>10, <3>1, <3>2
    <2>11. CASE p # ProjectOf(j)
      <3>1. CountedOf(p)' = CountedOf(p)
        BY <2>7, <2>11 DEF CountedOf, Of
      <3> QED BY <1>1, <1>2, <2>9, <2>11, <3>1
    <2> QED BY <2>10, <2>11
  <1>6. ASSUME NEW j \in SyncJobs, Uncount(j)
        PROVE  /\ IsFiniteSet(CountedOf(p)')
               /\ queuedCount'[p] = Cardinality(CountedOf(p)')
    <2>1. run[j].pc = "uncount" /\ run'[j].pc = "metrics" /\ Others(j) /\ j \in workers
      BY <1>3, <1>6, RunIs, RunKeeps DEF Uncount, Executes
    <2>2. todo' = todo /\ jobState' = jobState
      BY <1>6 DEF Uncount, RunUnchanged, hfVars, requestVars
    <2>3. \A i \in SyncJobs : IsCounted(i)' <=> IsCounted(i) /\ i # j
      BY <2>1, <2>2 DEF IsCounted, Uncounted, Ahead, Ended, Others
    <2>4. j \in CountedOf(ProjectOf(j))
      BY <1>1, <2>1, RunningIsCounted
    <2>5. run[j].count > 0
      BY <1>1, <2>1 DEF Kept, Straight, GoesStraight
    <2>6. queuedCount' = [queuedCount EXCEPT ![ProjectOf(j)] = queuedCount[ProjectOf(j)] - 1]
      BY <1>6, <2>5 DEF Uncount
    <2>7. CASE p = ProjectOf(j)
      <3>1. CountedOf(p)' = CountedOf(p) \ {j} /\ j \in CountedOf(p)
        BY <2>3, <2>4, <2>7 DEF CountedOf, Of
      <3>2. /\ IsFiniteSet(CountedOf(p) \ {j})
            /\ Cardinality(CountedOf(p) \ {j}) = Cardinality(CountedOf(p)) - 1
        BY <1>1, <3>1, FS_RemoveElement
      <3> QED BY <1>1, <1>2, <2>6, <2>7, <3>1, <3>2
    <2>8. CASE p # ProjectOf(j)
      <3>1. CountedOf(p)' = CountedOf(p)
        BY <2>3, <2>8 DEF CountedOf, Of
      <3> QED BY <1>1, <1>2, <2>6, <2>8, <3>1
    <2> QED BY <2>7, <2>8
  <1> QED BY <1>4, <1>5, <1>6

\* The ids of a project after a step.
LEMMA ListsStep ==
    ASSUME IInv, Kept, [Next]_vars
    PROVE  Lists'
  <1> SUFFICES ASSUME Calm', NEW p \in Projects
               PROVE  /\ jobIds'[p] \in Seq(SyncJobs) /\ IsInjective(jobIds'[p])
                      /\ \A i \in DOMAIN jobIds'[p] : jobIds'[p][i] \notin ToList'
                      /\ IsFiniteSet(ListedOf(p)') /\ Len(jobIds'[p]) = Cardinality(ListedOf(p)')
                      /\ \A j \in Of(p) : run'[j].pc \in {"complete", "unlist"} =>
                            jobIds'[p] # <<>> /\ run'[j].head = Head(jobIds'[p])
    BY DEF Lists
  <1>1. Calm /\ Shapes /\ Plans /\ Once
    BY CalmBefore DEF IInv, Kept
  <1> DEFINE ids == jobIds[p]
  <1>2. /\ ids \in Seq(SyncJobs) /\ IsInjective(ids)
        /\ \A i \in DOMAIN ids : ids[i] \notin ToList
        /\ IsFiniteSet(ListedOf(p)) /\ Len(ids) = Cardinality(ListedOf(p))
        /\ \A j \in Of(p) : run[j].pc \in {"complete", "unlist"} =>
              ids # <<>> /\ run[j].head = Head(ids)
    BY <1>1 DEF Kept, Lists
  <1>3. \A j \in Of(p) : j \in SyncJobs /\ ProjectOf(j) = p
    BY DEF Of
  <1>4. ToList' \subseteq ToList
    <2>1. ASSUME NEW r \in Requests, NEW j \in SyncJobs, RequestStep(r, j), NEW i \in SyncJobs,
                 Ahead("list", i)'
          PROVE  Ahead("list", i)
      <3>1. PICK what : At(r, what, j) /\ Advance(r)
        BY <2>1, CalmCall
      <3>2. i[1] \in Requests
        BY JobIs
      <3> QED BY <1>1, <2>1, <3>1, <3>2, AheadStep
    <2>2. CASE todo' = todo
      BY <2>2 DEF Ahead, ToList
    <2>3. \/ todo' = todo
          \/ \E r \in Requests, j \in SyncJobs : RequestStep(r, j)
      BY CalmStep DEF Proceeds, RequestStep, Timer, Elect, Start, Leave, FetchDoc, FetchSecret,
         Complete, Unlist, Close, Uncount, StoreMetrics, RunUnchanged, requestVars, vars
    <2>4. CASE \E r \in Requests, j \in SyncJobs : RequestStep(r, j)
      BY <2>1, <2>4 DEF ToList
    <2> QED BY <2>2, <2>3, <2>4 DEF ToList
  <1>5. \A i \in DOMAIN ids : ids[i] \in SyncJobs /\ ids[i] \notin ToList'
    BY <1>2, <1>4
  <1> HIDE DEF ids
  \* A step that changes neither the ids nor who is listed.
  <1>6. ASSUME ~ \E j \in SyncJobs : (\E r \in Requests : List(r, j)) \/ Unlist(j),
               \A j \in Of(p) : run'[j].pc \in {"complete", "unlist"} =>
                  \/ run[j].pc \in {"complete", "unlist"} /\ run'[j].head = run[j].head
                  \/ ids # <<>> /\ run'[j].head = Head(ids)
        PROVE  /\ jobIds'[p] \in Seq(SyncJobs) /\ IsInjective(jobIds'[p])
               /\ \A i \in DOMAIN jobIds'[p] : jobIds'[p][i] \notin ToList'
               /\ IsFiniteSet(ListedOf(p)') /\ Len(jobIds'[p]) = Cardinality(ListedOf(p)')
               /\ \A j \in Of(p) : run'[j].pc \in {"complete", "unlist"} =>
                     jobIds'[p] # <<>> /\ run'[j].head = Head(jobIds'[p])
    <2>1. \A i \in SyncJobs : IsListed(i)' <=> IsListed(i)
      BY <1>6, PlacesStep
    <2>2. ListedOf(p)' = ListedOf(p)
      BY <2>1 DEF ListedOf, Of
    <2>3. jobIds' = jobIds
      <3>1. ASSUME NEW r \in Requests, NEW j \in SyncJobs, Proceeds(r, j) PROVE jobIds' = jobIds
        <4>1. ~List(r, j) /\ ~Unlist(j)
          BY <1>6
        <4> QED
          BY <3>1, <4>1 DEF Proceeds, Schedule, Count, EnqueueJob, Timer, Elect, Start, Leave,
             FetchDoc, FetchSecret, Complete, Uncount, Close, StoreMetrics, recordVars
      <3> QED BY <3>1, CalmStep DEF recordVars, vars
    <2>4. jobIds'[p] = ids
      BY <2>3 DEF ids
    <2>5. \A j \in Of(p) : run'[j].pc \in {"complete", "unlist"} =>
             ids # <<>> /\ run'[j].head = Head(ids)
      BY <1>2, <1>6
    <2> QED BY <1>2, <1>5, <2>2, <2>4, <2>5
  <1>7. ASSUME NEW r \in Requests, NEW j \in SyncJobs, List(r, j)
        PROVE  /\ jobIds'[p] \in Seq(SyncJobs) /\ IsInjective(jobIds'[p])
               /\ \A i \in DOMAIN jobIds'[p] : jobIds'[p][i] \notin ToList'
               /\ IsFiniteSet(ListedOf(p)') /\ Len(jobIds'[p]) = Cardinality(ListedOf(p)')
               /\ \A k \in Of(p) : run'[k].pc \in {"complete", "unlist"} =>
                     jobIds'[p] # <<>> /\ run'[k].head = Head(jobIds'[p])
    <2>1. At(r, "list", j) /\ Advance(r)
      BY <1>7 DEF List
    <2>2. j[1] = r /\ todo[r] # <<>>
      BY <1>1, <2>1, StepIs
    <2>3. /\ run' = run /\ run[j].pc = "idle" /\ jobState' = jobState /\ jobState[j] \in Pending
      BY <1>7, <2>2, JobAndCall DEF List, hfVars, runVars
    <2>4. \A i \in SyncJobs : (Unlisted(i)' <=> Unlisted(i))
      BY <2>3 DEF Unlisted, Ended
    <2>5. ~Unlisted(j)
      BY <2>3 DEF Unlisted, Ended, Pending
    <2>6. /\ Ahead("list", j)
          /\ \A i \in SyncJobs : Ahead("list", i)' <=> Ahead("list", i) /\ i # j
      BY <1>1, <2>1, AheadStep, JobIs
    <2>60. j \in ToList /\ ToList' = ToList \ {j}
      BY <2>6 DEF ToList
    <2>7. \A i \in SyncJobs : IsListed(i)' <=> IsListed(i) \/ i = j
      BY <2>4, <2>5, <2>6 DEF IsListed
    <2>8. ~IsListed(j)
      BY <2>6 DEF IsListed
    <2>9. ProjectOf(j) \in Projects
      BY JobIs
    <2>10. CASE p = ProjectOf(j)
      <3>1. ListedOf(p)' = ListedOf(p) \cup {j} /\ j \notin ListedOf(p)
        BY <2>7, <2>8, <2>10 DEF ListedOf, Of
      <3>2. /\ IsFiniteSet(ListedOf(p) \cup {j})
            /\ Cardinality(ListedOf(p) \cup {j}) = Cardinality(ListedOf(p)) + 1
        BY <1>2, <3>1, FS_AddElement
      <3>3. jobIds'[p] = Append(ids, j)
        <4>1. jobIds' = [jobIds EXCEPT ![p] = Append(jobIds[p], j)]
          BY <1>7, <2>10 DEF List
        <4>2. p \in DOMAIN jobIds
          BY DEF Kept, Numbers
        <4> QED BY <4>1, <4>2 DEF ids
      <3>4. PICK n \in Nat : n = Len(ids)
        BY <1>2
      <3>5. /\ Append(ids, j) \in Seq(SyncJobs) /\ Append(ids, j) # <<>>
            /\ Len(Append(ids, j)) = n + 1 /\ DOMAIN Append(ids, j) = 1 .. n + 1
            /\ DOMAIN ids = 1 .. n
            /\ \A i \in 1 .. n : Append(ids, j)[i] = ids[i]
            /\ Append(ids, j)[n + 1] = j
        BY <1>2, <3>4, AppendProperties
      <3>6. \A i \in 1 .. n : ids[i] # j
        BY <1>2, <2>60, <3>5
      <3>7. IsInjective(Append(ids, j))
        <4> SUFFICES ASSUME NEW a \in 1 .. n + 1, NEW b \in 1 .. n + 1,
                            Append(ids, j)[a] = Append(ids, j)[b]
                     PROVE  a = b
          BY <3>5 DEF IsInjective
        <4>1. CASE a \in 1 .. n /\ b \in 1 .. n
          BY <1>2, <3>5, <4>1 DEF IsInjective
        <4>2. CASE a = n + 1 \/ b = n + 1
          BY <3>5, <3>6, <4>2
        <4> QED BY <3>4, <4>1, <4>2
      <3>8. \A i \in 1 .. n + 1 : Append(ids, j)[i] \notin ToList'
        BY <1>5, <2>60, <3>4, <3>5
      <3>9. ids # <<>> => Head(Append(ids, j)) = Head(ids)
        <4> SUFFICES ASSUME ids # <<>> PROVE Head(Append(ids, j)) = Head(ids)
          OBVIOUS
        <4>1. n # 0
          BY <1>2, <3>4, EmptySeq
        <4>2. 1 \in 1 .. n
          BY <3>4, <4>1
        <4>3. Append(ids, j)[1] = ids[1]
          BY <3>5, <4>2
        <4> QED BY <1>2, <3>5, <4>3
      <3>10. \A k \in Of(p) : run'[k].pc \in {"complete", "unlist"} =>
                     Append(ids, j) # <<>> /\ run'[k].head = Head(Append(ids, j))
        BY <1>2, <2>3, <3>5, <3>9
      <3>11. Len(Append(ids, j)) = Cardinality(ListedOf(p)')
        BY <1>2, <3>1, <3>2, <3>4, <3>5
      <3> QED BY <3>1, <3>2, <3>3, <3>5, <3>7, <3>8, <3>10, <3>11
    <2>11. CASE p # ProjectOf(j)
      <3>1. ListedOf(p)' = ListedOf(p)
        BY <2>7, <2>11 DEF ListedOf, Of
      <3>2. jobIds'[p] = ids
        BY <1>7, <2>11 DEF List, ids
      <3> QED BY <1>2, <1>5, <2>3, <3>1, <3>2
    <2> QED BY <2>10, <2>11
  <1>8. ASSUME NEW j \in SyncJobs, Unlist(j)
        PROVE  /\ jobIds'[p] \in Seq(SyncJobs) /\ IsInjective(jobIds'[p])
               /\ \A i \in DOMAIN jobIds'[p] : jobIds'[p][i] \notin ToList'
               /\ IsFiniteSet(ListedOf(p)') /\ Len(jobIds'[p]) = Cardinality(ListedOf(p)')
               /\ \A k \in Of(p) : run'[k].pc \in {"complete", "unlist"} =>
                     jobIds'[p] # <<>> /\ run'[k].head = Head(jobIds'[p])
    <2>1. run[j].pc = "unlist" /\ run'[j].pc = "close" /\ Others(j) /\ j \in workers
      BY <1>1, <1>8, RunIs, RunKeeps DEF Unlist, Executes
    <2>2. todo' = todo /\ jobState' = jobState
      BY <1>8 DEF Unlist, RunUnchanged, hfVars, requestVars
    <2>3. \A i \in SyncJobs : IsListed(i)' <=> IsListed(i) /\ i # j
      BY <2>1, <2>2 DEF IsListed, Unlisted, Ahead, Ended, Others
    <2>4. j \in ListedOf(ProjectOf(j))
      BY <1>1, <2>1, RunningIsCounted
    <2>5. \A k \in SyncJobs : run'[k].pc \notin {"complete", "unlist"}
      <3> SUFFICES ASSUME NEW k \in SyncJobs, run'[k].pc \in {"complete", "unlist"} PROVE FALSE
        OBVIOUS
      <3>1. k # j
        BY <2>1
      <3>2. run[k].pc \in {"complete", "unlist"}
        BY <2>1, <3>1 DEF Others
      <3>3. k \in workers
        BY <3>2, JobAndCall
      <3> QED BY <1>1, <2>1, <3>1, <3>3 DEF Kept, OneRuns, Hf!AtMostOne
    <2>6. CASE p = ProjectOf(j)
      <3>1. ListedOf(p)' = ListedOf(p) \ {j} /\ j \in ListedOf(p) /\ j \in Of(p)
        BY <2>3, <2>4, <2>6 DEF ListedOf, Of
      <3>2. /\ IsFiniteSet(ListedOf(p) \ {j})
            /\ Cardinality(ListedOf(p) \ {j}) = Cardinality(ListedOf(p)) - 1
        BY <1>2, <3>1, FS_RemoveElement
      <3>3. ids # <<>> /\ run[j].head = Head(ids)
        BY <1>2, <2>1, <3>1
      <3>4. jobIds'[p] = Tail(ids)
        <4>1. jobIds' = [jobIds EXCEPT ![p] = Pull(jobIds[p], run[j].head)]
          BY <1>8, <2>6 DEF Unlist
        <4>2. p \in DOMAIN jobIds
          BY DEF Kept, Numbers
        <4>3. Pull(ids, Head(ids)) = Tail(ids)
          BY <1>2, <3>3, PullFirst
        <4> QED BY <3>3, <4>1, <4>2, <4>3 DEF ids
      <3>5. PICK n \in Nat \ {0} : n = Len(ids)
        BY <1>2, <3>3, EmptySeq
      <3>6. /\ Tail(ids) \in Seq(SyncJobs) /\ Len(Tail(ids)) = n - 1
            /\ DOMAIN Tail(ids) = 1 .. n - 1 /\ DOMAIN ids = 1 .. n
            /\ \A i \in 1 .. n - 1 : Tail(ids)[i] = ids[i + 1]
        BY <1>2, <3>3, <3>5, HeadTailProperties
      <3>7. \A i \in 1 .. n - 1 : i + 1 \in 1 .. n
        BY <3>5
      <3>8. IsInjective(Tail(ids))
        <4> SUFFICES ASSUME NEW a \in 1 .. n - 1, NEW b \in 1 .. n - 1, Tail(ids)[a] = Tail(ids)[b]
                     PROVE  a = b
          BY <3>6 DEF IsInjective
        <4>1. a + 1 = b + 1
          BY <1>2, <3>6, <3>7 DEF IsInjective
        <4> QED BY <4>1
      <3>9. \A i \in 1 .. n - 1 : Tail(ids)[i] \notin ToList'
        BY <1>5, <3>6, <3>7
      <3>10. Len(Tail(ids)) = Cardinality(ListedOf(p)')
        BY <1>2, <3>1, <3>2, <3>5, <3>6
      <3> QED BY <1>3, <2>5, <3>1, <3>2, <3>4, <3>6, <3>8, <3>9, <3>10
    <2>7. CASE p # ProjectOf(j)
      <3>1. ListedOf(p)' = ListedOf(p)
        BY <2>3, <2>7 DEF ListedOf, Of
      <3>2. jobIds'[p] = ids
        BY <1>8, <2>7 DEF Unlist, ids
      <3> QED BY <1>2, <1>3, <1>5, <2>5, <3>1, <3>2
    <2> QED BY <2>6, <2>7
  <1>9. ASSUME ~ \E j \in SyncJobs : (\E r \in Requests : List(r, j)) \/ Unlist(j),
               NEW k \in Of(p), run'[k].pc \in {"complete", "unlist"}
        PROVE  \/ run[k].pc \in {"complete", "unlist"} /\ run'[k].head = run[k].head
               \/ ids # <<>> /\ run'[k].head = Head(ids)
    <2>1. k \in SyncJobs /\ ProjectOf(k) = p
      BY <1>3
    <2>2. CASE run'[k] = run[k]
      BY <1>9, <2>2
    <2>3. CASE FetchSecret(k)
      <3>1. run[k].pc = "secret" /\ k \in workers
        BY <2>3 DEF FetchSecret, Executes
      <3>2. ids # <<>>
        BY <1>1, <2>1, <3>1, RunningIsCounted DEF ids
      <3> QED BY <1>1, <2>1, <2>3, <3>2, RunKeeps DEF ids
    <2>4. CASE Complete(k)
      BY <1>1, <2>1, <2>4, RunKeeps
    <2>5. CASE FetchDoc(k) \/ Close(k) \/ Uncount(k) \/ StoreMetrics(k)
      BY <1>1, <1>9, <2>1, <2>5, RunIs
    <2>6. CASE Start(k)
      BY <1>1, <1>9, <2>1, <2>6, RunIs
    <2>7. CASE Leave(k)
      <3>1. run'[k].pc = "idle"
        BY <1>1, <2>1, <2>7, CalmLeave, IdleIs DEF Shapes
      <3> QED BY <1>9, <3>1
    <2>8. ASSUME NEW j \in SyncJobs, j # k,
                 \/ Start(j) \/ Leave(j)
                 \/ FetchDoc(j) \/ FetchSecret(j) \/ Complete(j) \/ Close(j)
                 \/ Uncount(j) \/ StoreMetrics(j)
          PROVE  run'[k] = run[k]
      <3>1. CASE Start(j) \/ Leave(j)
        BY <1>1, <2>1, <2>8, <3>1, CalmStart, CalmLeave DEF Shapes
      <3>2. CASE ~(Start(j) \/ Leave(j))
        <4>1. Others(j)
          BY <2>8, <3>2, CalmRun
        <4> QED BY <2>1, <2>8, <4>1 DEF Others
      <3> QED BY <3>1, <3>2
    <2>9. ASSUME NEW r \in Requests, NEW j \in SyncJobs, RequestStep(r, j) PROVE run' = run
      BY <2>9, CalmCall
    <2>10. ASSUME NEW j \in SyncJobs, Timer(j) \/ Elect(j) PROVE run' = run
      BY <1>1, <2>10, CalmTimer, CalmElect DEF runVars
    <2>11. CASE UNCHANGED vars
      BY <2>2, <2>11 DEF vars, runVars
    <2>12. CASE \E r \in Requests, j \in SyncJobs : Proceeds(r, j)
      <3>1. PICK r \in Requests, j \in SyncJobs : Proceeds(r, j)
        BY <2>12
      <3>2. CASE RequestStep(r, j) \/ Timer(j) \/ Elect(j)
        BY <2>2, <2>9, <2>10, <3>2
      <3>3. CASE ~(RequestStep(r, j) \/ Timer(j) \/ Elect(j))
        <4>1. \/ Start(j) \/ Leave(j)
              \/ FetchDoc(j) \/ FetchSecret(j) \/ Complete(j) \/ Close(j)
              \/ Uncount(j) \/ StoreMetrics(j)
          BY <1>9, <3>1, <3>3 DEF Proceeds, RequestStep
        <4>2. CASE j = k
          BY <2>3, <2>4, <2>5, <2>6, <2>7, <4>1, <4>2
        <4>3. CASE j # k
          BY <2>2, <2>8, <4>1, <4>3
        <4> QED BY <4>2, <4>3
      <3> QED BY <3>2, <3>3
    <2> QED BY <2>11, <2>12, CalmStep
  <1>10. CASE ~ \E j \in SyncJobs : (\E r \in Requests : List(r, j)) \/ Unlist(j)
    BY <1>6, <1>9, <1>10
  <1> QED BY <1>7, <1>8, <1>10

-----------------------------------------------------------------------------
(* The theorems. *)

\* The initial states satisfy the invariant.
LEMMA Initial ==
    ASSUME Standalone, Init
    PROVE  IInv
  <1> USE DEF Init, Hf!Init
  <1>1. Shapes
    <2>1. todo \in [Requests -> Seq(Words \X SyncJobs)]
      BY PlanIs
    <2> QED BY <2>1, IdleIs DEF Shapes, Hf!States
  <1>2. Plans
    BY PlanIs DEF Plans
  <1>3. Waiting
    BY FirstIs DEF Waiting
  <1>4. Executed
    BY IdleIs DEF Executed
  <1>5. Ordered
    BY FirstIs DEF Ordered
  <1>6. Metrics
    BY DEF Metrics
  <1> QED BY <1>1, <1>2, <1>3, <1>4, <1>5, <1>6 DEF IInv

\* Every step keeps the invariant.
LEMMA Inductive ==
    ASSUME IInv, [Next]_vars
    PROVE  IInv'
  BY ShapesStep, PlansStep, WaitingStep, ExecutedStep, OrderedStep, MetricsStep
     DEF IInv, Standalone

\* The invariant holds in every reachable state.
LEMMA Invariance ==
    ASSUME Standalone
    PROVE  Spec => []IInv
  <1>1. Init => IInv
    BY Initial
  <1>2. IInv /\ [Next]_vars => IInv'
    BY Inductive
  <1> QED BY <1>1, <1>2, PTL DEF Spec

\* SyncService.cs:95: "We need to sync the source first": no run of a target's
\* job overlaps or precedes that of its source, through any number of crashes,
\* exceptions and retries, when nobody cancels.
THEOREM TargetFollowsSource ==
    ASSUME Standalone
    PROVE  Spec => []TargetAfterSource
  <1>1. IInv => TargetAfterSource
    <2> SUFFICES ASSUME IInv, NEW j \in workers, j[2] = "target", SourceOf[j[1]] # NoProject
                 PROVE  /\ jobState[<<j[1], "source">>] \in {"Succeeded", "Deleted"}
                        /\ <<j[1], "source">> \notin workers
      BY DEF TargetAfterSource
    <2> DEFINE s == <<j[1], "source">>
    <2>0. j \in SyncJobs /\ j[1] \in Requests /\ s \in SyncJobs
      BY JobIs, FirstIs DEF IInv, Shapes
    <2>1. j = <<j[1], "target">>
      BY <2>0, JobIs
    <2>2. jobState[j] = "Processing"
      BY <2>0 DEF IInv, Executed
    <2>3. jobState[s] \in {"Succeeded", "Deleted"}
      BY <2>0, <2>1, <2>2 DEF IInv, Ordered
    <2>4. s \notin workers
      BY <2>0, <2>3 DEF IInv, Executed
    <2> QED BY <2>3, <2>4
  <1> QED BY <1>1, Invariance, PTL

\* SFProjectSecret.cs:20: SyncMetricsIds are "the queued or active SyncMetrics
\* Ids": no id of a sync that returned is left, for any number of crashes and
\* exceptions in SyncAsync, as long as the bookkeeping of no run fails and
\* nobody cancels.
THEOREM MetricIdsAreOfPending ==
    ASSUME Standalone
    PROVE  Spec => []MetricIdsArePending
  <1>1. IInv => MetricIdsArePending
    BY DEF IInv, Metrics, MetricIdsArePending
  <1> QED BY <1>1, Invariance, PTL

\* A call has each of its steps once, and counts and lists each of its jobs.
LEMMA PlanOnce ==
    ASSUME NEW r \in Requests
    PROVE  /\ \A i, k \in DOMAIN Plan(r) : Plan(r)[i] = Plan(r)[k] => i = k
           /\ \A j \in SyncJobs : j[1] = r =>
                 /\ \E i \in DOMAIN Plan(r) : Plan(r)[i] = <<"count", j>>
                 /\ \E i \in DOMAIN Plan(r) : Plan(r)[i] = <<"list", j>>
  <1> DEFINE t == <<r, "target">>
             s == <<r, "source">>
  <1>1. CASE SourceOf[r] # NoProject
    <2>1. Plan(r) = << <<"schedule", s>>, <<"schedule", t>>, <<"count", t>>, <<"count", s>>,
                       <<"list", s>>, <<"list", t>>, <<"enqueue", s>> >>
      BY <1>1 DEF Plan
    <2>2. s # t /\ \A j \in SyncJobs : j[1] = r => j = s \/ j = t
      BY JobIs
    <2> HIDE DEF s, t
    <2>3. DOMAIN Plan(r) = 1 .. 7
      BY <2>1
    <2>4. \A i, k \in 1 .. 7 : Plan(r)[i] = Plan(r)[k] => i = k
      BY <2>1, <2>2
    <2>5. /\ Plan(r)[3] = <<"count", t>> /\ Plan(r)[4] = <<"count", s>>
          /\ Plan(r)[5] = <<"list", s>> /\ Plan(r)[6] = <<"list", t>>
      BY <2>1
    <2> QED BY <2>2, <2>3, <2>4, <2>5
  <1>2. CASE SourceOf[r] = NoProject
    <2>1. Plan(r) = << <<"schedule", t>>, <<"count", t>>, <<"list", t>>, <<"enqueue", t>> >>
      BY <1>2 DEF Plan
    <2>2. \A j \in SyncJobs : j[1] = r => j = t
      BY <1>2, JobIs
    <2> HIDE DEF s, t
    <2>3. DOMAIN Plan(r) = 1 .. 4
      BY <2>1
    <2>4. \A i, k \in 1 .. 4 : Plan(r)[i] = Plan(r)[k] => i = k
      BY <2>1
    <2>5. Plan(r)[2] = <<"count", t>> /\ Plan(r)[3] = <<"list", t>>
      BY <2>1
    <2> QED BY <2>2, <2>3, <2>4, <2>5
  <1> QED BY <1>1, <1>2

\* At the start nothing is counted or listed.
LEMMA KeptAtStart ==
    ASSUME Init
    PROVE  Kept
  <1> USE DEF Init, Hf!Init
  <1>1. Once
    BY PlanOnce DEF Once
  <1>2. Numbers
    BY DEF Numbers
  <1>3. Straight
    BY DEF Straight, GoesStraight, IdleRun
  <1>4. \A j \in SyncJobs : Ahead("count", j) /\ Ahead("list", j)
    <2> TAKE j \in SyncJobs
    <2>1. j[1] \in Requests
      BY JobIs
    <2>2. todo[j[1]] = Plan(j[1])
      BY <2>1
    <2> QED BY <2>1, <2>2, PlanOnce DEF Ahead
  <1>5. \A p \in Projects : CountedOf(p) = {} /\ ListedOf(p) = {}
    BY <1>4 DEF CountedOf, ListedOf, IsCounted, IsListed, Of
  <1>6. IsFiniteSet({}) /\ Cardinality({}) = 0
    BY FS_EmptySet
  <1>7. Counts
    BY <1>5, <1>6 DEF Counts
  <1>8. OneRuns
    BY DEF OneRuns, Hf!AtMostOne
  <1>9. /\ <<>> \in Seq(SyncJobs) /\ Len(<<>>) = 0 /\ DOMAIN <<>> = {}
        /\ IsInjective(<<>>)
    BY DEF IsInjective
  <1>10. \A j \in SyncJobs : run[j].pc \notin {"complete", "unlist"}
    BY DEF IdleRun
  <1>11. Lists
    BY <1>5, <1>6, <1>9, <1>10 DEF Lists, Of
  <1> QED BY <1>1, <1>2, <1>3, <1>7, <1>8, <1>11 DEF Kept

\* The counts and lists are kept right in every reachable state.
LEMMA KeptInvariance ==
    ASSUME Standalone
    PROVE  Spec => [](IInv /\ Kept)
  <1>1. Init => IInv /\ Kept
    BY Initial, KeptAtStart
  <1>2. IInv /\ Kept /\ [Next]_vars => (IInv /\ Kept)'
    <2> SUFFICES ASSUME IInv, Kept, [Next]_vars PROVE IInv' /\ Kept'
      OBVIOUS
    <2>1. Once' /\ Numbers'
      BY OnceStep, NumbersStep DEF Kept
    <2>2. Straight' /\ Counts' /\ OneRuns' /\ Lists'
      BY StraightStep, CountsStep, OneRunsStep, ListsStep
    <2> QED BY Inductive, <2>1, <2>2 DEF Kept
  <1> QED BY <1>1, <1>2, PTL DEF Spec

\* QueuedCount, which the clients show as "syncing", is the number of syncs that
\* were counted in and have not counted themselves out, for any number of calls
\* and projects, as long as nothing fails and nobody cancels.
THEOREM CountsArePending ==
    ASSUME Standalone
    PROVE  Spec => []CountIsPending
  <1>1. IInv /\ Kept => CountIsPending
    BY DEF Kept, Counts, CountIsPending, CountedOf, IsCounted
  <1> QED BY <1>1, KeptInvariance, PTL

\* JobIds has one id for each sync that was listed and has not taken one off,
\* although a run takes off the first id rather than its own.
THEOREM IdsAreOfPending ==
    ASSUME Standalone
    PROVE  Spec => []IdsArePending
  <1>1. IInv /\ Kept => IdsArePending
    BY DEF Kept, Lists, IdsArePending, ListedOf, IsListed
  <1> QED BY <1>1, KeptInvariance, PTL

-----------------------------------------------------------------------------
(* The types of the variables, whatever is cancelled or continued. *)

\* s is the end of t.
IsEndOf(s, t) ==
    Len(s) <= Len(t) /\ \A i \in 1 .. Len(s) : s[i] = t[i + (Len(t) - Len(s))]

\* The end of a list is a suffix of it.
LEMMA EndIsSuffix ==
    ASSUME NEW S, NEW s \in Seq(S), NEW t \in Seq(S), IsEndOf(s, t)
    PROVE  IsSuffix(s, t)
  <1>1. PICK m \in Nat, n \in Nat : m = Len(s) /\ n = Len(t)
    OBVIOUS
  <1>2. m <= n /\ \A i \in 1 .. m : s[i] = t[i + (n - m)]
    BY <1>1 DEF IsEndOf
  <1> DEFINE a == Reverse(s)
             b == Reverse(t)
  <1>3. a = [i \in 1 .. m |-> s[(m - i) + 1]] /\ b = [i \in 1 .. n |-> t[(n - i) + 1]]
    BY <1>1 DEF Reverse
  <1>4. /\ \A i \in 1 .. m : (m - i) + 1 \in 1 .. m /\ s[(m - i) + 1] \in S
        /\ \A i \in 1 .. n : (n - i) + 1 \in 1 .. n /\ t[(n - i) + 1] \in S
    <2>1. DOMAIN s = 1 .. m /\ DOMAIN t = 1 .. n
      BY <1>1
    <2>2. /\ \A i \in 1 .. m : (m - i) + 1 \in 1 .. m
          /\ \A i \in 1 .. n : (n - i) + 1 \in 1 .. n
      OBVIOUS
    <2> QED BY <2>1, <2>2, ElementOfSeq
  <1>5. a \in Seq(S) /\ Len(a) = m /\ b \in Seq(S) /\ Len(b) = n
    <2>1. a \in [1 .. m -> S] /\ b \in [1 .. n -> S]
      BY <1>3, <1>4
    <2> HIDE DEF a, b
    <2> QED BY <2>1, IsASeq, LenProperties
  <1>6. \A i \in 1 .. m : a[i] = b[i]
    <2> TAKE i \in 1 .. m
    <2>1. i \in 1 .. n /\ (m - i) + 1 \in 1 .. m /\ ((m - i) + 1) + (n - m) = (n - i) + 1
      BY <1>2
    <2>2. a[i] = s[(m - i) + 1] /\ b[i] = t[(n - i) + 1]
      BY <1>3, <2>1
    <2>3. s[(m - i) + 1] = t[((m - i) + 1) + (n - m)]
      BY <1>2, <2>1
    <2> QED BY <2>1, <2>2, <2>3
  <1> HIDE DEF a, b
  <1>7. SubSeq(a, 1, m) = SubSeq(b, 1, m)
    BY <1>2, <1>5, <1>6
  <1> QED BY <1>2, <1>5, <1>7 DEF IsSuffix, IsPrefix, a, b

\* The tail of an end is an end.
LEMMA TailIsEnd ==
    ASSUME NEW S, NEW s \in Seq(S), NEW t \in Seq(S), IsEndOf(s, t), s # <<>>
    PROVE  IsEndOf(Tail(s), t)
  <1>1. PICK m \in Nat, n \in Nat : m = Len(s) /\ n = Len(t)
    OBVIOUS
  <1>2. m <= n /\ \A i \in 1 .. m : s[i] = t[i + (n - m)]
    BY <1>1 DEF IsEndOf
  <1>3. m # 0 /\ Len(Tail(s)) = m - 1 /\ \A i \in 1 .. m - 1 : Tail(s)[i] = s[i + 1]
    BY <1>1, HeadTailProperties, EmptySeq
  <1> DEFINE r == Tail(s)
  <1> HIDE DEF r
  <1>4. ASSUME NEW i \in 1 .. m - 1 PROVE s[i + 1] = t[i + (n - (m - 1))]
    <2>1. i + 1 \in 1 .. m /\ (i + 1) + (n - m) = i + (n - (m - 1))
      BY <1>3
    <2>2. s[i + 1] = t[(i + 1) + (n - m)]
      BY <1>2, <2>1
    <2> QED BY <2>1, <2>2
  <1>5. m - 1 <= n /\ Len(r) = m - 1 /\ \A i \in 1 .. m - 1 : r[i] = t[i + (n - (m - 1))]
    BY <1>2, <1>3, <1>4 DEF r
  <1> QED BY <1>1, <1>5 DEF IsEndOf, r

\* The numbers are in every set that has 0 and with each number the next.
LEMMA NumbersFrom ==
    ASSUME NEW S, 0 \in S, \A n \in Nat : n \in S => n + 1 \in S
    PROVE  Nat \subseteq S
  <1> DEFINE T == Nat \ S
  <1>1. ASSUME NEW k \in T PROVE FALSE
    <2>1. T \subseteq Nat /\ k \in T
      BY <1>1
    <2>2. PICK n \in T : \A m \in T : ~ (<<m, n>> \in OpToRel(<, Nat))
      <3> HIDE DEF T
      <3> QED BY <2>1, WFMin, NatLessThanWellFounded
    <2>3. n \in Nat /\ n # 0
      BY <2>2
    <2>4. n - 1 \in Nat /\ n - 1 < n
      BY <2>3
    <2>5. n - 1 \notin T
      BY <2>2, <2>3, <2>4 DEF OpToRel
    <2>6. n - 1 \in S /\ (n - 1) + 1 = n
      BY <2>3, <2>4, <2>5
    <2> QED BY <2>2, <2>4, <2>6
  <1> QED BY <1>1

\* What is left of ids up to the i-th one without id.
Left(ids, id, i, seen) == IF ids[i] = id THEN seen ELSE Append(seen, ids[i])

\* f goes through the ids and leaves out one of them.
Leaves(ids, id, f) ==
    /\ f[0] = <<>>
    /\ \A i \in 1 .. Len(ids) : f[i] = Left(ids, id, i, f[i - 1])

\* The function that Pull chooses exists.
LEMMA PullIs ==
    ASSUME NEW S, NEW ids \in Seq(S), NEW id
    PROVE  \E f : Leaves(ids, id, f) /\ Pull(ids, id) = f[Len(ids)]
  <1> DEFINE none == <<>>
             Rest(n, f) == f = [i \in 0 .. n |-> IF i = 0 THEN none ELSE Left(ids, id, i, f[i - 1])]
             T == {n \in Nat : \E f : Rest(n, f)}
             rest == CHOOSE f : Rest(Len(ids), f)
  <1>6. Pull(ids, id) = rest[Len(ids)]
    BY Zenon DEF Pull, Left
  <1> HIDE DEF none
  <1>1. 0 \in T
    <2> DEFINE g == [i \in 0 .. 0 |-> none]
    <2>1. Rest(0, g)
      OBVIOUS
    <2> QED BY <2>1
  <1>2. ASSUME NEW n \in Nat, n \in T PROVE n + 1 \in T
    <2>1. PICK f : Rest(n, f)
      BY <1>2
    <2> DEFINE g == [i \in 0 .. n + 1 |-> IF i = 0 THEN none ELSE Left(ids, id, i, f[i - 1])]
    <2>2. \A i \in 0 .. n : g[i] = f[i]
      BY <2>1
    <2>3. \A i \in 0 .. n + 1 : i # 0 => i - 1 \in 0 .. n
      OBVIOUS
    <2>4. \A i \in 0 .. n + 1 : i # 0 => g[i - 1] = f[i - 1]
      BY <2>2, <2>3, Zenon
    <2>5. Rest(n + 1, g)
      BY <2>4
    <2>6. \E h : Rest(n + 1, h)
      BY <2>5
    <2> QED BY <2>6
  <1>3. Len(ids) \in Nat
    OBVIOUS
  <1>4. Nat \subseteq T
    <2> HIDE DEF T
    <2> QED BY <1>1, <1>2, NumbersFrom
  <1>5. Rest(Len(ids), rest)
    BY <1>3, <1>4
  <1> HIDE DEF rest
  <1>7. rest[0] = none /\ \A i \in 1 .. Len(ids) : rest[i] = Left(ids, id, i, rest[i - 1])
    BY <1>3, <1>5
  <1>8. Leaves(ids, id, rest)
    BY <1>7 DEF Leaves, none
  <1>9. WITNESS rest
  <1> QED BY <1>6, <1>8

\* Taking an id off a list of different ids leaves some of them, all different.
LEMMA PullKeeps ==
    ASSUME NEW S, NEW ids \in Seq(S), IsInjective(ids), NEW id
    PROVE  /\ Pull(ids, id) \in Seq(S) /\ IsInjective(Pull(ids, id))
           /\ \A k \in DOMAIN Pull(ids, id) : \E i \in DOMAIN ids : Pull(ids, id)[k] = ids[i]
  <1>1. PICK f : Leaves(ids, id, f) /\ Pull(ids, id) = f[Len(ids)]
    BY PullIs
  <1>2. PICK m \in Nat : m = Len(ids) /\ DOMAIN ids = 1 .. m
    OBVIOUS
  <1> DEFINE Good(n, q) == /\ q \in Seq(S)
                           /\ \A k, l \in DOMAIN q : q[k] = q[l] => k = l
                           /\ \A k \in DOMAIN q : \E i \in 1 .. n : q[k] = ids[i]
             T == {n \in Nat : n <= m => Good(n, f[n])}
  <1>3. 0 \in T
    <2>1. f[0] = <<>>
      BY <1>1 DEF Leaves
    <2>2. Good(0, <<>>)
      OBVIOUS
    <2> QED BY <2>1, <2>2
  <1>4. ASSUME NEW n \in Nat, n \in T PROVE n + 1 \in T
    <2> SUFFICES ASSUME n + 1 <= m PROVE Good(n + 1, f[n + 1])
      OBVIOUS
    <2> DEFINE q == f[n]
               e == ids[n + 1]
    <2>1. Good(n, q)
      BY <1>4, <1>2
    <2>2. n + 1 \in 1 .. m /\ (n + 1) - 1 = n /\ e \in S /\ \A i \in 1 .. n : i \in 1 .. m /\ i # n + 1
      BY <1>2, ElementOfSeq
    <2>3. f[n + 1] = IF e = id THEN q ELSE Append(q, e)
      BY <1>1, <1>2, <2>2 DEF Leaves, Left
    <2>4. \A i \in 1 .. n : ids[i] # e
      BY <1>2, <2>2 DEF IsInjective
    <2> HIDE DEF q, e
    <2>5. Good(n + 1, q)
      <3>1. \A i \in 1 .. n : i \in 1 .. n + 1
        OBVIOUS
      <3> QED BY <2>1, <3>1
    <2>6. Good(n + 1, Append(q, e))
      <3> DEFINE r == Append(q, e)
      <3>1. PICK p \in Nat : p = Len(q) /\ DOMAIN q = 1 .. p
        BY <2>1
      <3>2. /\ r \in Seq(S) /\ DOMAIN r = 1 .. p + 1
            /\ \A k \in 1 .. p : r[k] = q[k]
            /\ r[p + 1] = e
        BY <2>1, <2>2, <3>1, AppendProperties
      <3> HIDE DEF r
      <3>3. \A k \in 1 .. p + 1 : k \in 1 .. p \/ k = p + 1
        OBVIOUS
      <3>4. \A k \in 1 .. p : q[k] # e
        BY <2>1, <2>4, <3>1
      <3>5. \A k, l \in 1 .. p + 1 : r[k] = r[l] => k = l
        <4> TAKE k \in 1 .. p + 1, l \in 1 .. p + 1
        <4>1. CASE k \in 1 .. p /\ l \in 1 .. p
          BY <2>1, <3>1, <3>2, <4>1
        <4>2. CASE k \in 1 .. p /\ l = p + 1
          BY <3>2, <3>4, <4>2
        <4>3. CASE k = p + 1 /\ l \in 1 .. p
          BY <3>2, <3>4, <4>3
        <4> QED BY <3>3, <4>1, <4>2, <4>3
      <3>6. n + 1 \in 1 .. n + 1 /\ \A i \in 1 .. n : i \in 1 .. n + 1
        OBVIOUS
      <3>7. \A k \in 1 .. p + 1 : \E i \in 1 .. n + 1 : r[k] = ids[i]
        <4> TAKE k \in 1 .. p + 1
        <4>1. CASE k \in 1 .. p
          <5>1. PICK i \in 1 .. n : q[k] = ids[i]
            BY <2>1, <3>1, <4>1
          <5> QED BY <3>2, <3>6, <4>1, <5>1
        <4>2. CASE k = p + 1
          BY <3>2, <3>6, <4>2 DEF e
        <4> QED BY <3>3, <4>1, <4>2
      <3> QED BY <3>2, <3>5, <3>7 DEF r
    <2> QED BY <2>3, <2>5, <2>6
  <1>5. Nat \subseteq T
    <2> HIDE DEF T
    <2> QED BY <1>3, <1>4, NumbersFrom
  <1>6. Good(m, f[m])
    BY <1>5
  <1> QED BY <1>1, <1>2, <1>6 DEF IsInjective

RunForms == [pc : RunSteps, ok : BOOLEAN, second : BOOLEAN, closed : BOOLEAN, count : Int,
             head : SyncJobs \cup {NoJob}, listed : BOOLEAN]
CancelForms == [pc : {"fetch", "secret", "delete", "clear", "reset", "done", "died"},
                left : Seq(Projects), ids : Seq(SyncJobs)]

\* The forms of the variables, without bounds on the counts.  A cancel that is
\* not over has a project left, and a run counts itself out in a transaction
\* that is closed.
Forms ==
    /\ Hf!TypeOK
    /\ queuedCount \in [Projects -> Int]
    /\ metricIds \in [Projects -> SUBSET SyncJobs]
    /\ todo \in [Requests -> Seq(Words \X SyncJobs)]
    /\ \A r \in Requests : todo[r] = <<>> \/ IsEndOf(todo[r], Plan(r))
    /\ failed \subseteq Requests
    /\ run \in [SyncJobs -> RunForms]
    /\ \A j \in SyncJobs : run[j].pc \in {"uncount", "metrics"} => run[j].closed
    /\ cancel \in [Cancels -> CancelForms]
    /\ \A c \in Cancels : /\ IsEndOf(cancel[c].left, CancelPlan[c])
                          /\ cancel[c].pc \notin {"done", "died"} => cancel[c].left # <<>>

\* The ids of a project are different ones: a call that has to list a job has
\* not listed it before.
ListedOnce ==
    /\ jobIds \in [Projects -> Seq(SyncJobs)]
    /\ \A p \in Projects :
          /\ IsInjective(jobIds[p])
          /\ \A i \in DOMAIN jobIds[p] : jobIds[p][i] \notin ToList

\* A run that is going to take one off the count, and the syncs counted in so
\* far.
CountsItself(j) ==
    /\ run[j].count > 0
    /\ \/ run[j].pc = "uncount"
       \/ run[j].pc \in {"secret", "complete", "unlist", "close"} /\ ~run[j].closed
ToUncount(p) == {j \in Of(p) : CountsItself(j)}
CountedIn == {j \in SyncJobs : ~Ahead("count", j)}

\* A count is at most the number of syncs counted in.  It may fall below zero,
\* by the runs that read it while it was positive.
Bounded ==
    \A p \in Projects :
        /\ queuedCount[p] <= Cardinality(CountedIn)
        /\ queuedCount[p] + Cardinality(SyncJobs) >= Cardinality(ToUncount(p))

\* A run has read what a count may be.
Reads == \A j \in SyncJobs : run[j].count \in Counters

\* No step of a call is there twice, as none is there twice in its plan.
LEMMA OnceIs ==
    ASSUME Forms
    PROVE  Once
  <1> SUFFICES ASSUME NEW r \in Requests, IsEndOf(todo[r], Plan(r)),
                      NEW i \in DOMAIN todo[r], NEW k \in DOMAIN todo[r], todo[r][i] = todo[r][k]
               PROVE  i = k
    <2>1. DOMAIN <<>> = {}
      OBVIOUS
    <2> QED BY <2>1 DEF Forms, Once
  <1> DEFINE q == todo[r]
             plan == Plan(r)
  <1>1. q \in Seq(Words \X SyncJobs) /\ plan \in Seq(Words \X SyncJobs)
    BY PlanIs DEF Forms
  <1>2. \A a, b \in DOMAIN plan : plan[a] = plan[b] => a = b
    BY PlanOnce
  <1> HIDE DEF q, plan
  <1>3. PICK m \in Nat, n \in Nat :
           m = Len(q) /\ n = Len(plan) /\ DOMAIN q = 1 .. m /\ DOMAIN plan = 1 .. n
    BY <1>1
  <1>4. m <= n /\ \A a \in 1 .. m : q[a] = plan[a + (n - m)]
    BY <1>3 DEF IsEndOf, q, plan
  <1>5. i \in 1 .. m /\ k \in 1 .. m /\ q[i] = q[k]
    BY <1>3 DEF q
  <1>6. PICK x \in 1 .. n, y \in 1 .. n : x = i + (n - m) /\ y = k + (n - m)
    BY <1>4, <1>5
  <1>7. plan[x] = plan[y]
    BY <1>4, <1>5, <1>6
  <1>8. x = y
    BY <1>2, <1>3, <1>7
  <1> QED BY <1>5, <1>6, <1>8

\* What a step of a call does to what is ahead.
LEMMA CallTakes ==
    ASSUME Forms, NEW r \in Requests, NEW what, NEW j, At(r, what, j), Advance(r)
    PROVE  /\ j \in SyncJobs /\ j[1] = r /\ ProjectOf(j) \in Projects
           /\ Ahead(what, j)
           /\ \A w : \A i \in SyncJobs :
                 (Ahead(w, i)' <=> Ahead(w, i) /\ <<w, i>> # <<what, j>>)
           /\ todo' \in [Requests -> Seq(Words \X SyncJobs)]
           /\ \A p \in Requests : todo'[p] = <<>> \/ IsEndOf(todo'[p], Plan(p))
  <1> DEFINE q == todo[r]
             plan == Plan(r)
  <1>1. q \in Seq(Words \X SyncJobs) /\ q # <<>> /\ Head(q) = <<what, j>>
    BY DEF Forms, At
  <1>2. /\ todo' = [todo EXCEPT ![r] = Tail(q)]
        /\ todo \in [Requests -> Seq(Words \X SyncJobs)]
        /\ Tail(q) \in Seq(Words \X SyncJobs)
    BY <1>1, HeadTailProperties DEF Advance, Forms
  <1>3. IsEndOf(q, plan) /\ plan \in Seq(Words \X SyncJobs)
    BY <1>1, PlanIs DEF Forms
  <1>4. IsEndOf(Tail(q), plan)
    <2> HIDE DEF q, plan
    <2> QED BY <1>1, <1>3, TailIsEnd
  <1>5. todo' \in [Requests -> Seq(Words \X SyncJobs)]
    BY <1>2
  <1>6. \A p \in Requests : todo'[p] = <<>> \/ IsEndOf(todo'[p], Plan(p))
    BY <1>2, <1>4 DEF Forms
  <1>7. j \in SyncJobs /\ j[1] = r
    <2>1. \A i \in DOMAIN plan : plan[i][2][1] = r
      BY PlanIs
    <2> HIDE DEF q, plan
    <2>2. PICK m \in Nat, n \in Nat :
             m = Len(q) /\ n = Len(plan) /\ DOMAIN q = 1 .. m /\ DOMAIN plan = 1 .. n
      BY <1>1, <1>3
    <2>3. m # 0 /\ q[1] = <<what, j>> /\ q[1] \in Words \X SyncJobs
      BY <1>1, <2>2, EmptySeq, ElementOfSeq
    <2>4. m <= n /\ \A a \in 1 .. m : q[a] = plan[a + (n - m)]
      BY <1>3, <2>2 DEF IsEndOf
    <2>5. 1 \in 1 .. m /\ 1 + (n - m) \in 1 .. n
      BY <2>3, <2>4
    <2>6. plan[1 + (n - m)] = <<what, j>>
      BY <2>3, <2>4, <2>5
    <2> QED BY <2>1, <2>2, <2>3, <2>5, <2>6
  <1>8. /\ Ahead(what, j)
        /\ \A w, i : i[1] \in Requests =>
              (Ahead(w, i)' <=> Ahead(w, i) /\ <<w, i>> # <<what, j>>)
    BY <1>2, <1>7, OnceIs, StepTaken
  <1>9. \A w : \A i \in SyncJobs : (Ahead(w, i)' <=> Ahead(w, i) /\ <<w, i>> # <<what, j>>)
    BY <1>8, JobIs
  <1> QED BY <1>5, <1>6, <1>7, <1>8, <1>9, JobIs

\* The calls keep their form, and nothing is ahead again that is done.
LEMMA CallsForm ==
    ASSUME Forms, [Next]_vars
    PROVE  /\ todo' \in [Requests -> Seq(Words \X SyncJobs)]
           /\ \A r \in Requests : todo'[r] = <<>> \/ IsEndOf(todo'[r], Plan(r))
           /\ failed' \subseteq Requests
           /\ \A w : \A j \in SyncJobs : Ahead(w, j)' => Ahead(w, j)
  <1> DEFINE Goal == /\ todo' \in [Requests -> Seq(Words \X SyncJobs)]
                     /\ \A r \in Requests : todo'[r] = <<>> \/ IsEndOf(todo'[r], Plan(r))
                     /\ failed' \subseteq Requests
                     /\ \A w : \A j \in SyncJobs : Ahead(w, j)' => Ahead(w, j)
  <1>1. ASSUME NEW r \in Requests, NEW j \in SyncJobs, RequestStep(r, j) PROVE Goal
    <2>1. PICK what : At(r, what, j) /\ Advance(r)
      BY <1>1 DEF RequestStep, Schedule, Count, List, EnqueueJob
    <2>2. failed' = failed
      BY <1>1 DEF RequestStep, Schedule, Count, List, EnqueueJob
    <2> QED BY <2>1, <2>2, CallTakes DEF Forms
  <1>2. ASSUME todo' \in [Requests -> Seq(Words \X SyncJobs)], failed' \subseteq Requests,
               \A r \in Requests : todo'[r] = todo[r] \/ todo'[r] = <<>>
        PROVE  Goal
    <2>1. DOMAIN <<>> = {}
      OBVIOUS
    <2>2. \A w : \A j \in SyncJobs : Ahead(w, j)' => Ahead(w, j)
      BY <1>2, <2>1, JobIs DEF Ahead
    <2> QED BY <1>2, <2>2 DEF Forms
  <1>3. CASE todo' = todo /\ failed' = failed
    BY <1>2, <1>3 DEF Forms
  <1>4. ASSUME NEW r \in Requests, RequestFault(r) PROVE Goal
    BY <1>2, <1>4 DEF RequestFault, Forms
  <1>5. CASE Crash
    BY <1>2, <1>5 DEF Crash, Forms
  <1>6. ASSUME NEW c \in Cancels, CancelStep(c) PROVE todo' = todo /\ failed' = failed
    BY <1>6 DEF CancelStep, CancelFetch, CancelSecret, CancelDelete, CancelClear, CancelReset,
             CancelUnchanged, requestVars
  <1>7. ASSUME NEW j \in SyncJobs,
               Timer(j) \/ Elect(j) \/ Start(j) \/ Leave(j) \/ RunStep(j) \/ RunFault(j)
        PROVE  todo' = todo /\ failed' = failed
    BY <1>7 DEF Timer, Elect, Start, Leave, RunStep, FetchDoc, FetchSecret, Complete, Unlist,
             Close, Uncount, StoreMetrics, Noticed, RunFault, RunUnchanged, requestVars
  <1>8. CASE UNCHANGED vars
    BY <1>3, <1>8 DEF vars, requestVars
  <1> QED BY <1>1, <1>3, <1>4, <1>5, <1>6, <1>7, <1>8 DEF Next

\* A cancel that is not over has a project before it, and others behind.
LEMMA CancelIs ==
    ASSUME Forms, NEW c \in Cancels, cancel[c].pc \notin {"done", "died"}
    PROVE  /\ cancel[c] \in CancelForms
           /\ Head(cancel[c].left) \in Projects
           /\ Tail(cancel[c].left) \in Seq(Projects)
           /\ IsEndOf(Tail(cancel[c].left), CancelPlan[c])
           /\ Tail(cancel[c].left) = <<>> => Len(cancel[c].left) = 1
  <1> DEFINE s == cancel[c].left
             t == CancelPlan[c]
  <1>1. /\ cancel[c] \in CancelForms /\ s \in Seq(Projects) /\ s # <<>> /\ IsEndOf(s, t)
        /\ t \in Seq(Projects)
    BY QueueAssumption DEF Forms, CancelForms
  <1> HIDE DEF s, t
  <1>2. Head(s) \in Projects /\ Tail(s) \in Seq(Projects) /\ Len(Tail(s)) = Len(s) - 1
    BY <1>1, HeadTailProperties
  <1>3. IsEndOf(Tail(s), t)
    BY <1>1, TailIsEnd
  <1>4. ASSUME Tail(s) = <<>> PROVE Len(s) = 1
    <2>1. Len(Tail(s)) = 0 /\ Len(s) \in Nat
      BY <1>1, <1>2, <1>4, EmptySeq
    <2> QED BY <1>2, <2>1
  <1> QED BY <1>1, <1>2, <1>3, <1>4 DEF s, t

\* The jobs keep their form.
LEMMA JobsForm ==
    ASSUME Forms, [Next]_vars
    PROVE  Hf!TypeOK'
  <1> USE DEF Hf!TypeOK, Hf!Transition, Hf!OwnersAfterApply
  <1>0. /\ Hf!TypeOK
        /\ {"Absent", "Scheduled", "Awaiting", "Enqueued", "Processing",
            "Succeeded", "Failed", "Deleted"} = Hf!States
        /\ MaxRetries \in Nat /\ MaxCrashes \in Nat
    BY QueueAssumption DEF Forms, Hf!States
  <1>1. ASSUME UNCHANGED hfVars PROVE Hf!TypeOK'
    BY <1>0, <1>1 DEF hfVars
  <1>2. ASSUME NEW r \in Requests, NEW j \in SyncJobs, RequestStep(r, j) PROVE Hf!TypeOK'
    <2>1. CASE Schedule(r, j)
      BY <1>0, <2>1 DEF Schedule, Hf!Create
    <2>2. CASE Count(r, j) \/ List(r, j)
      BY <1>1, <2>2 DEF Count, List
    <2>3. CASE EnqueueJob(r, j)
      BY <1>0, <2>3 DEF EnqueueJob
    <2> QED BY <1>2, <2>1, <2>2, <2>3 DEF RequestStep
  <1>3. ASSUME NEW r \in Requests, RequestFault(r) PROVE Hf!TypeOK'
    <2>1. CASE UNCHANGED hfVars
      BY <1>1, <2>1
    <2>2. CASE ~ UNCHANGED hfVars
      BY <1>0, <1>3, <2>2 DEF RequestFault
    <2> QED BY <2>1, <2>2
  <1>4. ASSUME NEW j \in SyncJobs, Timer(j) PROVE Hf!TypeOK'
    BY <1>0, <1>4 DEF Timer, Hf!Enqueue
  <1>5. ASSUME NEW j \in SyncJobs, Elect(j) PROVE Hf!TypeOK'
    <2>1. CASE Hf!ElectPermit(j)
      BY <1>0, <2>1 DEF Hf!ElectPermit
    <2>2. CASE Hf!ElectBlocked(j)
      <3>1. attempts' = attempts
        <4>1. attempts[j] = 0
          BY <1>0
        <4> QED BY <1>0, <2>2, <4>1 DEF Hf!ElectBlocked
      <3> QED BY <1>0, <2>2, <3>1 DEF Hf!ElectBlocked
    <2> QED BY <1>5, <2>1, <2>2 DEF Elect, Hf!Elect
  <1>6. ASSUME NEW j \in SyncJobs, Start(j) PROVE Hf!TypeOK'
    BY <1>0, <1>6 DEF Start, Hf!StartProcessing
  <1>7. ASSUME NEW j \in SyncJobs, Leave(j) PROVE Hf!TypeOK'
    <2>1. CASE Hf!Finish(j)
      BY <1>0, <2>1 DEF Hf!Finish
    <2>2. CASE Hf!Abandon(j)
      BY <1>0, <2>2 DEF Hf!Abandon
    <2>3. CASE Hf!Fail(j)
      BY <1>0, <2>3 DEF Hf!Fail
    <2> QED BY <1>7, <2>1, <2>2, <2>3 DEF Leave
  <1>8. ASSUME NEW j \in SyncJobs, RunStep(j) \/ RunFault(j) PROVE Hf!TypeOK'
    BY <1>1, <1>8 DEF RunStep, FetchDoc, FetchSecret, Complete, Unlist, Close, Uncount,
             StoreMetrics, Noticed, RunFault, RunUnchanged
  <1>9. ASSUME NEW c \in Cancels, CancelStep(c) PROVE Hf!TypeOK'
    <2>1. CASE UNCHANGED hfVars
      BY <1>1, <2>1
    <2>2. ASSUME NEW j, Hf!Delete(j) PROVE Hf!TypeOK'
      BY <1>0, <2>2 DEF Hf!Delete
    <2> QED BY <1>9, <2>1, <2>2
            DEF CancelStep, CancelFetch, CancelSecret, CancelDelete, CancelClear, CancelReset
  <1>10. CASE Crash
    BY <1>0, <1>10 DEF Crash, Hf!Crash
  <1>11. CASE UNCHANGED vars
    BY <1>1, <1>11 DEF vars
  <1> QED BY <1>2, <1>3, <1>4, <1>5, <1>6, <1>7, <1>8, <1>9, <1>10, <1>11 DEF Next

\* The counts are numbers, and the metrics ids are those of jobs.
LEMMA RecordsForm ==
    ASSUME Forms, [Next]_vars
    PROVE  queuedCount' \in [Projects -> Int] /\ metricIds' \in [Projects -> SUBSET SyncJobs]
  <1> DEFINE Goal == queuedCount' \in [Projects -> Int] /\ metricIds' \in [Projects -> SUBSET SyncJobs]
  <1>0. queuedCount \in [Projects -> Int] /\ metricIds \in [Projects -> SUBSET SyncJobs]
    BY DEF Forms
  <1>1. ASSUME queuedCount' = queuedCount, metricIds' = metricIds PROVE Goal
    BY <1>0, <1>1
  <1>2. ASSUME NEW r \in Requests, NEW j \in SyncJobs, RequestStep(r, j) PROVE Goal
    <2>1. CASE Schedule(r, j) \/ EnqueueJob(r, j)
      BY <1>1, <2>1 DEF Schedule, EnqueueJob, recordVars
    <2>2. CASE Count(r, j)
      <3>1. ProjectOf(j) \in Projects
        BY JobIs
      <3> DEFINE p == ProjectOf(j)
      <3>2. queuedCount' = [queuedCount EXCEPT ![p] = queuedCount[p] + 1] /\ metricIds' = metricIds
        BY <2>2 DEF Count
      <3> HIDE DEF p
      <3>3. queuedCount[p] + 1 \in Int
        BY <1>0, <3>1 DEF p
      <3> QED BY <1>0, <3>2, <3>3
    <2>3. CASE List(r, j)
      BY <1>0, <2>3 DEF List
    <2> QED BY <1>2, <2>1, <2>2, <2>3 DEF RequestStep
  <1>3. ASSUME NEW r \in Requests, RequestFault(r) PROVE Goal
    BY <1>1, <1>3 DEF RequestFault, recordVars
  <1>4. ASSUME NEW j \in SyncJobs, Timer(j) \/ Elect(j) \/ Start(j) \/ Leave(j) \/ RunFault(j)
        PROVE  Goal
    BY <1>1, <1>4 DEF Timer, Elect, Start, Leave, RunFault, recordVars
  <1>5. ASSUME NEW j \in SyncJobs, RunStep(j) PROVE Goal
    <2>1. CASE Unlist(j)
      BY <1>0, <2>1 DEF Unlist
    <2>2. CASE Uncount(j)
      <3>1. ProjectOf(j) \in Projects
        BY JobIs
      <3> DEFINE p == ProjectOf(j)
                 n == IF run[j].count > 0 THEN queuedCount[p] - 1
                      ELSE IF run[j].count = 0 THEN queuedCount[p] ELSE 0
      <3>2. queuedCount' = [queuedCount EXCEPT ![p] = n] /\ metricIds' = metricIds
        BY <2>2 DEF Uncount
      <3>3. n \in Int
        <4> HIDE DEF p
        <4> QED BY <1>0, <3>1 DEF p
      <3> HIDE DEF p, n
      <3> QED BY <1>0, <3>2, <3>3
    <2>3. CASE ~Unlist(j) /\ ~Uncount(j)
      BY <1>1, <1>5, <2>3 DEF RunStep, FetchDoc, FetchSecret, Complete, Close, StoreMetrics,
               Noticed, recordVars
    <2> QED BY <2>1, <2>2, <2>3
  <1>6. ASSUME NEW c \in Cancels, CancelStep(c) PROVE Goal
    <2>1. CASE CancelFetch(c) \/ CancelSecret(c) \/ CancelDelete(c)
      BY <1>1, <2>1 DEF CancelFetch, CancelSecret, CancelDelete, recordVars
    <2>2. CASE CancelClear(c)
      BY <1>0, <2>2 DEF CancelClear
    <2>3. CASE CancelReset(c)
      <3> DEFINE p == Head(cancel[c].left)
      <3>1. queuedCount' = [queuedCount EXCEPT ![p] = 0] /\ metricIds' = metricIds /\ p \in Projects
        BY <2>3, CancelIs DEF CancelReset, CancelAt
      <3> HIDE DEF p
      <3> QED BY <1>0, <3>1
    <2> QED BY <1>6, <2>1, <2>2, <2>3 DEF CancelStep
  <1>7. CASE Crash
    BY <1>1, <1>7 DEF Crash, recordVars
  <1>8. CASE UNCHANGED vars
    BY <1>1, <1>8 DEF vars, recordVars
  <1> QED BY <1>2, <1>3, <1>4, <1>5, <1>6, <1>7, <1>8 DEF Next

\* The runs keep their form.
LEMMA RunsForm ==
    ASSUME Forms, ListedOnce, [Next]_vars
    PROVE  /\ run' \in [SyncJobs -> RunForms]
           /\ \A j \in SyncJobs : run'[j].pc \in {"uncount", "metrics"} => run'[j].closed
  <1> DEFINE Fit(x) == x \in RunForms /\ (x.pc \in {"uncount", "metrics"} => x.closed)
             Goal == /\ run' \in [SyncJobs -> RunForms]
                     /\ \A j \in SyncJobs : run'[j].pc \in {"uncount", "metrics"} => run'[j].closed
  <1>0. run \in [SyncJobs -> RunForms] /\ \A j \in SyncJobs : Fit(run[j])
    BY DEF Forms
  <1>1. CASE run' = run
    BY <1>0, <1>1
  <1>2. ASSUME NEW j \in SyncJobs, NEW x, Fit(x), run' = [run EXCEPT ![j] = x] PROVE Goal
    BY <1>0, <1>2
  <1>3. Fit(IdleRun) /\ Fit([IdleRun EXCEPT !.pc = "fetch"])
    <2>1. IdleRun \in RunForms /\ IdleRun.pc = "idle"
      BY DEF IdleRun, RunForms, RunSteps
    <2>2. [IdleRun EXCEPT !.pc = "fetch"] \in RunForms
      BY <2>1 DEF RunForms, RunSteps
    <2>3. [IdleRun EXCEPT !.pc = "fetch"].pc = "fetch"
      BY DEF IdleRun
    <2> QED BY <2>1, <2>2, <2>3
  <1>4. ASSUME NEW j \in SyncJobs, NEW pc \in RunSteps \ {"uncount", "metrics"}
        PROVE  Fit([run[j] EXCEPT !.pc = pc])
    BY <1>0 DEF RunForms
  <1>5. ASSUME NEW j \in SyncJobs, RunStep(j) PROVE Goal
    <2>1. CASE FetchDoc(j)
      <3>1. queuedCount[ProjectOf(j)] \in Int
        BY JobIs DEF Forms
      <3> DEFINE x == [run[j] EXCEPT !.pc = "secret", !.count = queuedCount[ProjectOf(j)]]
      <3>2. Fit(x)
        BY <1>0, <3>1 DEF RunForms, RunSteps
      <3>3. run' = [run EXCEPT ![j] = x]
        BY <2>1 DEF FetchDoc
      <3> HIDE DEF x
      <3> QED BY <1>2, <3>2, <3>3
    <2>2. CASE FetchSecret(j)
      <3> DEFINE ids == jobIds[ProjectOf(j)]
                 head == IF ids = <<>> THEN NoJob ELSE Head(ids)
                 listed == j \in metricIds[ProjectOf(j)]
                 x == [run[j] EXCEPT !.pc = "complete", !.head = head, !.listed = listed]
      <3>1. head \in SyncJobs \cup {NoJob}
        <4>1. ids \in Seq(SyncJobs)
          BY JobIs DEF ListedOnce
        <4> HIDE DEF ids
        <4> QED BY <4>1, HeadTailProperties
      <3>2. listed \in BOOLEAN
        OBVIOUS
      <3>3. run' = [run EXCEPT ![j] = x]
        BY <2>2 DEF FetchSecret
      <3> HIDE DEF head, listed
      <3>4. Fit(x)
        BY <1>0, <3>1, <3>2 DEF RunForms, RunSteps
      <3> HIDE DEF x
      <3> QED BY <1>2, <3>3, <3>4
    <2>3. CASE Complete(j)
      <3>1. PICK ok \in BOOLEAN : run' = [run EXCEPT ![j].pc = "unlist", ![j].ok = ok]
        BY <2>3 DEF Complete
      <3> DEFINE x == [run[j] EXCEPT !.pc = "unlist", !.ok = ok]
      <3>2. Fit(x)
        BY <1>0 DEF RunForms, RunSteps
      <3>3. run' = [run EXCEPT ![j] = x]
        BY <3>1
      <3> HIDE DEF x
      <3> QED BY <1>2, <3>2, <3>3
    <2>4. CASE Unlist(j)
      <3>1. run' = [run EXCEPT ![j] = [run[j] EXCEPT !.pc = "close"]]
        BY <2>4 DEF Unlist
      <3> QED BY <1>2, <1>4, <3>1 DEF RunSteps
    <2>5. CASE Close(j)
      <3> DEFINE x == [run[j] EXCEPT !.pc = IF run[j].closed THEN "throw" ELSE "uncount",
                                     !.closed = TRUE]
      <3>1. Fit(x)
        BY <1>0 DEF RunForms, RunSteps
      <3>2. run' = [run EXCEPT ![j] = x]
        BY <2>5 DEF Close
      <3> HIDE DEF x
      <3> QED BY <1>2, <3>1, <3>2
    <2>6. CASE Uncount(j)
      <3> DEFINE x == [run[j] EXCEPT !.pc = "metrics"]
      <3>1. Fit(x)
        BY <1>0, <2>6 DEF RunForms, RunSteps, Uncount, Executes
      <3>2. run' = [run EXCEPT ![j] = x]
        BY <2>6 DEF Uncount
      <3> HIDE DEF x
      <3> QED BY <1>2, <3>1, <3>2
    <2>7. CASE StoreMetrics(j)
      <3>1. run' = [run EXCEPT ![j] = [run[j] EXCEPT !.pc = "return"]]
        BY <2>7 DEF StoreMetrics
      <3> QED BY <1>2, <1>4, <3>1 DEF RunSteps
    <2>8. CASE Noticed(j)
      <3>1. PICK pc \in {"return", "throw"} : run' = [run EXCEPT ![j] = [run[j] EXCEPT !.pc = pc]]
        BY <2>8 DEF Noticed
      <3> QED BY <1>2, <1>4, <3>1 DEF RunSteps
    <2> QED BY <1>5, <2>1, <2>2, <2>3, <2>4, <2>5, <2>6, <2>7, <2>8 DEF RunStep
  <1>6. ASSUME NEW j \in SyncJobs, RunFault(j) PROVE Goal
    <2>1. ASSUME NEW pc \in {"return", "throw"}, run' = [run EXCEPT ![j].pc = pc] PROVE Goal
      <3>1. run' = [run EXCEPT ![j] = [run[j] EXCEPT !.pc = pc]]
        BY <2>1
      <3> QED BY <1>2, <1>4, <3>1 DEF RunSteps
    <2>2. ASSUME NEW pc \in {"throw", "complete"},
                 run' = [run EXCEPT ![j].pc = pc, ![j].second = TRUE, ![j].ok = FALSE]
          PROVE  Goal
      <3> DEFINE x == [run[j] EXCEPT !.pc = pc, !.second = TRUE, !.ok = FALSE]
      <3>1. Fit(x)
        BY <1>0 DEF RunForms, RunSteps
      <3>2. run' = [run EXCEPT ![j] = x]
        BY <2>2
      <3> HIDE DEF x
      <3> QED BY <1>2, <3>1, <3>2
    <2>3. \/ \E pc \in {"return", "throw"} : run' = [run EXCEPT ![j].pc = pc]
          \/ \E pc \in {"throw", "complete"} :
                run' = [run EXCEPT ![j].pc = pc, ![j].second = TRUE, ![j].ok = FALSE]
      BY <1>6 DEF RunFault
    <2> QED BY <2>1, <2>2, <2>3
  <1>7. ASSUME NEW j \in SyncJobs, Start(j) \/ Leave(j) PROVE Goal
    BY <1>2, <1>3, <1>7 DEF Start, Leave
  <1>8. CASE Crash
    BY <1>3, <1>8 DEF Crash
  <1>9. ASSUME NEW r \in Requests, NEW j \in SyncJobs, RequestStep(r, j) PROVE run' = run
    BY <1>9 DEF RequestStep, Schedule, Count, List, EnqueueJob, runVars
  <1>10. ASSUME NEW r \in Requests, RequestFault(r) PROVE run' = run
    BY <1>10 DEF RequestFault, runVars
  <1>11. ASSUME NEW j \in SyncJobs, Timer(j) \/ Elect(j) PROVE run' = run
    BY <1>11 DEF Timer, Elect, runVars
  <1>12. ASSUME NEW c \in Cancels, CancelStep(c) PROVE run' = run
    BY <1>12 DEF CancelStep, CancelFetch, CancelSecret, CancelDelete, CancelClear, CancelReset,
              CancelUnchanged, runVars
  <1>13. CASE UNCHANGED vars
    BY <1>1, <1>13 DEF vars, runVars
  <1> QED BY <1>1, <1>5, <1>6, <1>7, <1>8, <1>9, <1>10, <1>11, <1>12, <1>13 DEF Next

\* The cancels keep their form.
LEMMA CancelsForm ==
    ASSUME Forms, ListedOnce, [Next]_vars
    PROVE  /\ cancel' \in [Cancels -> CancelForms]
           /\ \A c \in Cancels : /\ IsEndOf(cancel'[c].left, CancelPlan[c])
                                 /\ cancel'[c].pc \notin {"done", "died"} => cancel'[c].left # <<>>
  <1> DEFINE Fit(c, x) == /\ x \in CancelForms /\ IsEndOf(x.left, CancelPlan[c])
                          /\ x.pc \notin {"done", "died"} => x.left # <<>>
             Goal == /\ cancel' \in [Cancels -> CancelForms]
                     /\ \A c \in Cancels :
                           /\ IsEndOf(cancel'[c].left, CancelPlan[c])
                           /\ cancel'[c].pc \notin {"done", "died"} => cancel'[c].left # <<>>
  <1>0. cancel \in [Cancels -> CancelForms] /\ \A c \in Cancels : Fit(c, cancel[c])
    BY DEF Forms
  <1>1. CASE cancel' = cancel
    BY <1>0, <1>1
  <1>2. ASSUME NEW c \in Cancels, NEW x, Fit(c, x), cancel' = [cancel EXCEPT ![c] = x] PROVE Goal
    BY <1>0, <1>2
  <1>3. ASSUME NEW c \in Cancels, CancelStep(c) PROVE Goal
    <2>0. cancel[c].pc \in {"fetch", "secret", "delete", "reset"}
      BY <1>3 DEF CancelStep, CancelFetch, CancelSecret, CancelDelete, CancelClear, CancelReset, CancelAt
    <2>1. ASSUME NEW pc \in {"secret", "done", "reset"},
                 cancel' = [cancel EXCEPT ![c].pc = pc]
          PROVE  Goal
      <3> DEFINE x == [cancel[c] EXCEPT !.pc = pc]
      <3>1. Fit(c, x)
        BY <1>0, <2>0 DEF CancelForms
      <3>2. cancel' = [cancel EXCEPT ![c] = x]
        BY <2>1
      <3> HIDE DEF x
      <3> QED BY <1>2, <3>1, <3>2
    <2>2. CASE CancelFetch(c) \/ CancelClear(c)
      BY <2>1, <2>2 DEF CancelFetch, CancelClear
    <2>3. ASSUME NEW ids \in Seq(SyncJobs),
                 cancel' = [cancel EXCEPT ![c].pc = "delete", ![c].ids = ids]
          PROVE  Goal
      <3> DEFINE x == [cancel[c] EXCEPT !.pc = "delete", !.ids = ids]
      <3>1. Fit(c, x)
        BY <1>0, <2>0 DEF CancelForms
      <3>2. cancel' = [cancel EXCEPT ![c] = x]
        BY <2>3
      <3> HIDE DEF x
      <3> QED BY <1>2, <3>1, <3>2
    <2>4. CASE CancelSecret(c)
      <3>1. jobIds[Head(cancel[c].left)] \in Seq(SyncJobs)
        BY <2>0, CancelIs DEF ListedOnce
      <3> QED BY <2>3, <2>4, <3>1 DEF CancelSecret
    <2>5. CASE CancelDelete(c)
      <3> DEFINE x == [cancel[c] EXCEPT !.ids = Tail(cancel[c].ids)]
      <3>1. Tail(cancel[c].ids) \in Seq(SyncJobs)
        <4>1. cancel[c].ids \in Seq(SyncJobs) /\ cancel[c].ids # <<>>
          BY <1>0, <2>5 DEF CancelForms, CancelDelete
        <4> QED BY <4>1, HeadTailProperties
      <3>2. Fit(c, x)
        BY <1>0, <2>0, <3>1 DEF CancelForms
      <3>3. cancel' = [cancel EXCEPT ![c] = x]
        BY <2>5 DEF CancelDelete
      <3> HIDE DEF x
      <3> QED BY <1>2, <3>2, <3>3
    <2>6. CASE CancelReset(c)
      <3> DEFINE t == Tail(cancel[c].left)
                 pc == IF Len(cancel[c].left) = 1 THEN "done" ELSE "fetch"
                 x == [cancel[c] EXCEPT !.left = t, !.pc = pc]
      <3>1. /\ t \in Seq(Projects) /\ IsEndOf(t, CancelPlan[c])
            /\ t = <<>> => pc = "done"
        BY <2>0, CancelIs
      <3>2. pc \in {"done", "fetch"}
        OBVIOUS
      <3>3. cancel' = [cancel EXCEPT ![c] = x]
        BY <2>6 DEF CancelReset
      <3> HIDE DEF t, pc
      <3>4. Fit(c, x)
        BY <1>0, <3>1, <3>2 DEF CancelForms
      <3> HIDE DEF x
      <3> QED BY <1>2, <3>3, <3>4
    <2> QED BY <1>3, <2>2, <2>4, <2>5, <2>6 DEF CancelStep
  <1>4. CASE Crash
    <2> DEFINE Died(c) == IF cancel[c].pc = "done" \/ ~CancelStarted(c) THEN cancel[c]
                           ELSE [cancel[c] EXCEPT !.pc = "died"]
    <2>1. cancel' = [c \in Cancels |-> Died(c)]
      BY <1>4 DEF Crash
    <2>2. ASSUME NEW c \in Cancels PROVE Fit(c, Died(c))
      <3>1. Fit(c, [cancel[c] EXCEPT !.pc = "died"])
        BY <1>0 DEF CancelForms
      <3> QED BY <1>0, <3>1
    <2> HIDE DEF Died
    <2> QED BY <2>1, <2>2
  <1>5. ASSUME NEW r \in Requests, NEW j \in SyncJobs, RequestStep(r, j) PROVE cancel' = cancel
    BY <1>5 DEF RequestStep, Schedule, Count, List, EnqueueJob
  <1>6. ASSUME NEW r \in Requests, RequestFault(r) PROVE cancel' = cancel
    BY <1>6 DEF RequestFault
  <1>7. ASSUME NEW j \in SyncJobs,
               Timer(j) \/ Elect(j) \/ Start(j) \/ Leave(j) \/ RunStep(j) \/ RunFault(j)
        PROVE  cancel' = cancel
    BY <1>7 DEF Timer, Elect, Start, Leave, RunStep, FetchDoc, FetchSecret, Complete, Unlist,
             Close, Uncount, StoreMetrics, Noticed, RunFault, RunUnchanged
  <1>8. CASE UNCHANGED vars
    BY <1>1, <1>8 DEF vars
  <1> QED BY <1>1, <1>3, <1>4, <1>5, <1>6, <1>7, <1>8 DEF Next

\* Every step keeps the ids of a project different: the one that is listed was
\* ahead until then.
LEMMA ListedOnceStep ==
    ASSUME Forms, ListedOnce, [Next]_vars
    PROVE  ListedOnce'
  <1>a. ToList' \subseteq ToList
    BY CallsForm DEF ToList
  <1>0. /\ jobIds \in [Projects -> Seq(SyncJobs)]
        /\ \A p \in Projects : /\ IsInjective(jobIds[p])
                               /\ \A i \in DOMAIN jobIds[p] : /\ jobIds[p][i] \in SyncJobs
                                                              /\ jobIds[p][i] \notin ToList
    <2>1. \A p \in Projects : \A i \in DOMAIN jobIds[p] : jobIds[p][i] \in SyncJobs
      BY DEF ListedOnce
    <2> QED BY <2>1 DEF ListedOnce
  <1>1. ASSUME NEW p \in Projects, NEW ids \in Seq(SyncJobs), IsInjective(ids),
               \A i \in DOMAIN ids : ids[i] \in SyncJobs /\ ids[i] \notin ToList',
               jobIds' = [jobIds EXCEPT ![p] = ids]
        PROVE  ListedOnce'
    <2>1. jobIds' \in [Projects -> Seq(SyncJobs)]
      BY <1>0, <1>1
    <2>2. ASSUME NEW q \in Projects
          PROVE  /\ IsInjective(jobIds'[q])
                 /\ \A i \in DOMAIN jobIds'[q] : jobIds'[q][i] \notin ToList'
      <3>1. CASE q = p
        BY <1>0, <1>1, <3>1
      <3>2. CASE q # p
        <4>1. jobIds'[q] = jobIds[q]
          BY <1>0, <1>1, <3>2
        <4>2. \A i \in DOMAIN jobIds[q] : jobIds[q][i] \notin ToList'
          BY <1>0, <1>a
        <4> QED BY <1>0, <4>1, <4>2
      <3> QED BY <3>1, <3>2
    <2> QED BY <2>1, <2>2 DEF ListedOnce
  <1>2. ASSUME jobIds' = jobIds PROVE ListedOnce'
    <2>1. \A p \in Projects : \A i \in DOMAIN jobIds[p] : jobIds[p][i] \notin ToList'
      BY <1>0, <1>a
    <2> QED BY <1>0, <1>2, <2>1 DEF ListedOnce
  <1>3. ASSUME NEW r \in Requests, NEW j \in SyncJobs, RequestStep(r, j) PROVE ListedOnce'
    <2>1. CASE Schedule(r, j) \/ Count(r, j) \/ EnqueueJob(r, j)
      BY <1>2, <2>1 DEF Schedule, Count, EnqueueJob, recordVars
    <2>2. CASE List(r, j)
      <3> DEFINE p == ProjectOf(j)
                 ids == jobIds[p]
                 new == Append(ids, j)
      <3>1. /\ p \in Projects /\ j \in ToList /\ j \notin ToList'
            /\ jobIds' = [jobIds EXCEPT ![p] = new]
        BY <2>2, CallTakes DEF List, ToList
      <3>2. /\ ids \in Seq(SyncJobs) /\ IsInjective(ids)
            /\ \A i \in DOMAIN ids : /\ ids[i] \in SyncJobs /\ ids[i] # j
                                     /\ ids[i] \notin ToList'
        <4>1. \A i \in DOMAIN ids : ids[i] \in SyncJobs /\ ids[i] \notin ToList
          BY <1>0, <3>1
        <4>2. \A i \in DOMAIN ids : ids[i] # j
          BY <3>1, <4>1
        <4>3. \A i \in DOMAIN ids : ids[i] \notin ToList'
          BY <4>1, <1>a
        <4> QED BY <1>0, <3>1, <4>1, <4>2, <4>3
      <3> HIDE DEF p, ids
      <3>3. PICK n \in Nat : n = Len(ids) /\ DOMAIN ids = 1 .. n
        BY <3>2
      <3>4. /\ new \in Seq(SyncJobs) /\ DOMAIN new = 1 .. n + 1 /\ new[n + 1] = j
            /\ \A i \in 1 .. n : new[i] = ids[i]
            /\ \A i \in 1 .. n + 1 : i \in 1 .. n \/ i = n + 1
        BY <3>2, <3>3, AppendProperties
      <3> HIDE DEF new
      <3>5. \A i, k \in 1 .. n + 1 : new[i] = new[k] => i = k
        <4> TAKE i \in 1 .. n + 1, k \in 1 .. n + 1
        <4>1. CASE i \in 1 .. n /\ k \in 1 .. n
          BY <3>2, <3>3, <3>4, <4>1 DEF IsInjective
        <4>2. CASE i \in 1 .. n /\ k = n + 1
          BY <3>2, <3>3, <3>4, <4>2
        <4>3. CASE i = n + 1 /\ k \in 1 .. n
          BY <3>2, <3>3, <3>4, <4>3
        <4> QED BY <3>4, <4>1, <4>2, <4>3
      <3>6. \A i \in DOMAIN new : new[i] \in SyncJobs /\ new[i] \notin ToList'
        <4> TAKE i \in DOMAIN new
        <4>1. CASE i \in 1 .. n
          BY <3>2, <3>3, <3>4, <4>1
        <4>2. CASE i = n + 1
          BY <3>1, <3>4, <4>2
        <4> QED BY <3>4, <4>1, <4>2
      <3>7. IsInjective(new)
        BY <3>4, <3>5 DEF IsInjective
      <3> QED BY <1>1, <3>1, <3>4, <3>6, <3>7
    <2> QED BY <1>3, <2>1, <2>2 DEF RequestStep
  <1>4. ASSUME NEW j \in SyncJobs, RunStep(j) PROVE ListedOnce'
    <2>1. CASE Unlist(j)
      <3> DEFINE p == ProjectOf(j)
                 ids == jobIds[p]
                 new == Pull(ids, run[j].head)
      <3>1. p \in Projects /\ jobIds' = [jobIds EXCEPT ![p] = new]
        BY <2>1, JobIs DEF Unlist
      <3>2. ids \in Seq(SyncJobs) /\ IsInjective(ids)
        BY <1>0, <3>1
      <3>3. \A i \in DOMAIN ids : ids[i] \in SyncJobs /\ ids[i] \notin ToList'
        BY <1>0, <1>a, <3>1
      <3> HIDE DEF p, ids
      <3>4. /\ new \in Seq(SyncJobs) /\ IsInjective(new)
            /\ \A k \in DOMAIN new : \E i \in DOMAIN ids : new[k] = ids[i]
        BY <3>2, PullKeeps
      <3> HIDE DEF new
      <3>5. \A k \in DOMAIN new : new[k] \in SyncJobs /\ new[k] \notin ToList'
        <4> TAKE k \in DOMAIN new
        <4>1. PICK i \in DOMAIN ids : new[k] = ids[i]
          BY <3>4
        <4> QED BY <3>3, <4>1
      <3> QED BY <1>1, <3>1, <3>4, <3>5
    <2>2. CASE ~Unlist(j)
      BY <1>2, <1>4, <2>2 DEF RunStep, FetchDoc, FetchSecret, Complete, Close, Uncount,
               StoreMetrics, Noticed, recordVars
    <2> QED BY <2>1, <2>2
  <1>5. ASSUME NEW c \in Cancels, CancelStep(c) PROVE ListedOnce'
    <2>1. CASE CancelClear(c)
      <3> DEFINE p == Head(cancel[c].left)
                 none == <<>>
      <3>1. p \in Projects /\ jobIds' = [jobIds EXCEPT ![p] = none]
        BY <2>1, CancelIs DEF CancelClear, CancelAt
      <3>2. none \in Seq(SyncJobs) /\ IsInjective(none) /\ DOMAIN none = {}
        BY DEF IsInjective
      <3> HIDE DEF p, none
      <3> QED BY <1>1, <3>1, <3>2
    <2>2. CASE ~CancelClear(c)
      BY <1>2, <1>5, <2>2 DEF CancelStep, CancelFetch, CancelSecret, CancelDelete, CancelReset,
               recordVars
    <2> QED BY <2>1, <2>2
  <1>6. ASSUME NEW j \in SyncJobs, Timer(j) \/ Elect(j) \/ Start(j) \/ Leave(j) \/ RunFault(j)
        PROVE  ListedOnce'
    BY <1>2, <1>6 DEF Timer, Elect, Start, Leave, RunFault, recordVars
  <1>7. ASSUME NEW r \in Requests, RequestFault(r) PROVE ListedOnce'
    BY <1>2, <1>7 DEF RequestFault, recordVars
  <1>8. CASE Crash
    BY <1>2, <1>8 DEF Crash, recordVars
  <1>9. CASE UNCHANGED vars
    BY <1>2, <1>9 DEF vars, recordVars
  <1> QED BY <1>3, <1>4, <1>5, <1>6, <1>7, <1>8, <1>9 DEF Next

\* Finitely many calls have finitely many jobs.
LEMMA JobsFinite ==
    ASSUME IsFiniteSet(Requests)
    PROVE  IsFiniteSet(SyncJobs)
  <1>1. SyncJobs \subseteq Requests \X ({"target"} \cup {"source"})
    BY DEF SyncJobs
  <1>2. IsFiniteSet({"target"} \cup {"source"})
    BY FS_Singleton, FS_Union
  <1> QED BY <1>1, <1>2, FS_Product, FS_Subset

\* The sets that are counted.
LEMMA Counted ==
    ASSUME IsFiniteSet(Requests), Forms, [Next]_vars, NEW p \in Projects
    PROVE  /\ IsFiniteSet(SyncJobs) /\ Cardinality(SyncJobs) \in Nat
           /\ Cardinality(CountedIn) \in Nat /\ Cardinality(CountedIn') \in Nat
           /\ Cardinality(CountedIn) <= Cardinality(CountedIn')
           /\ Cardinality(ToUncount(p)) \in Nat /\ Cardinality(ToUncount(p)') \in Nat
           /\ Cardinality(ToUncount(p)') <= Cardinality(SyncJobs)
           /\ ToUncount(p)' \subseteq ToUncount(p) =>
                 Cardinality(ToUncount(p)') <= Cardinality(ToUncount(p))
  <1>1. IsFiniteSet(SyncJobs) /\ Cardinality(SyncJobs) \in Nat
    BY JobsFinite, FS_CardinalityType
  <1>2. /\ CountedIn \subseteq SyncJobs /\ CountedIn' \subseteq SyncJobs
        /\ CountedIn \subseteq CountedIn'
    BY CallsForm DEF CountedIn
  <1>3. ToUncount(p) \subseteq SyncJobs /\ ToUncount(p)' \subseteq SyncJobs
    BY DEF ToUncount, Of
  <1>4. \A S, T : IsFiniteSet(T) /\ S \subseteq T =>
            IsFiniteSet(S) /\ Cardinality(S) \in Nat /\ Cardinality(S) <= Cardinality(T)
    BY FS_Subset, FS_CardinalityType
  <1>5. IsFiniteSet(CountedIn') /\ IsFiniteSet(ToUncount(p))
    BY <1>1, <1>2, <1>3, <1>4
  <1> QED BY <1>1, <1>2, <1>3, <1>4, <1>5

\* A count that is set to zero, or that stays while it is positive or no more
\* runs are going to take one off than before, is within its bounds.
LEMMA StaysBounded ==
    ASSUME IsFiniteSet(Requests), Forms, Bounded, [Next]_vars, NEW p \in Projects,
           \/ queuedCount'[p] = 0
           \/ queuedCount'[p] = queuedCount[p] /\ queuedCount[p] >= 0
           \/ queuedCount'[p] = queuedCount[p] /\ ToUncount(p)' \subseteq ToUncount(p)
    PROVE  /\ queuedCount'[p] <= Cardinality(CountedIn')
           /\ queuedCount'[p] + Cardinality(SyncJobs) >= Cardinality(ToUncount(p)')
  <1> DEFINE all == Cardinality(SyncJobs)
             c == Cardinality(CountedIn)
             d == Cardinality(CountedIn')
             u == Cardinality(ToUncount(p))
             v == Cardinality(ToUncount(p)')
             n == queuedCount[p]
             m == queuedCount'[p]
  <1>1. /\ all \in Nat /\ c \in Nat /\ d \in Nat /\ u \in Nat /\ v \in Nat
        /\ c <= d /\ v <= all
        /\ ToUncount(p)' \subseteq ToUncount(p) => v <= u
    BY Counted
  <1>2. n \in Int /\ n <= c /\ n + all >= u
    BY DEF Bounded, Forms
  <1>3. m = 0 \/ (m = n /\ n >= 0) \/ (m = n /\ ToUncount(p)' \subseteq ToUncount(p))
    OBVIOUS
  <1> HIDE DEF all, c, d, u, v, n, m
  <1>4. m <= d /\ m + all >= v
    <2>1. CASE m = 0
      BY <1>1, <2>1
    <2>2. CASE m = n /\ n >= 0
      BY <1>1, <1>2, <2>2
    <2>3. CASE m = n /\ v <= u
      BY <1>1, <1>2, <2>3
    <2> QED BY <1>1, <1>3, <2>1, <2>2, <2>3
  <1> QED BY <1>4 DEF all, d, v, m

\* Only a run that reads a positive count is going to take one off.
LEMMA MayCount ==
    ASSUME Forms, [Next]_vars, NEW i \in SyncJobs, CountsItself(i)'
    PROVE  CountsItself(i) \/ (FetchDoc(i) /\ queuedCount[ProjectOf(i)] > 0)
  <1>0. run \in [SyncJobs -> RunForms]
    BY DEF Forms
  <1>1. CASE run'[i] = run[i]
    BY <1>1 DEF CountsItself
  <1>2. run'[i].pc \in {"secret", "complete", "unlist", "close", "uncount"} /\ run'[i].count > 0
    BY DEF CountsItself
  <1>3. ASSUME NEW j \in SyncJobs, RunStep(j)
        PROVE  CountsItself(i) \/ (FetchDoc(i) /\ queuedCount[ProjectOf(i)] > 0)
    <2>1. CASE i # j
      <3>1. run'[i] = run[i]
        BY <1>0, <1>3, <2>1 DEF RunStep, FetchDoc, FetchSecret, Complete, Unlist, Close, Uncount,
                 StoreMetrics, Noticed
      <3> QED BY <1>1, <3>1
    <2>2. CASE FetchDoc(i)
      BY <1>0, <1>2, <2>2 DEF FetchDoc, RunForms
    <2>3. CASE FetchSecret(i)
      BY <1>0, <2>3 DEF FetchSecret, Executes, CountsItself, RunForms
    <2>4. CASE Complete(i)
      <3>1. PICK ok \in BOOLEAN : run' = [run EXCEPT ![i].pc = "unlist", ![i].ok = ok]
        BY <2>4 DEF Complete
      <3> QED BY <1>0, <2>4, <3>1 DEF Complete, Executes, CountsItself, RunForms
    <2>5. CASE Unlist(i)
      BY <1>0, <2>5 DEF Unlist, Executes, CountsItself, RunForms
    <2>6. CASE Close(i)
      BY <1>0, <2>6 DEF Close, Executes, CountsItself, RunForms
    <2>7. CASE Uncount(i) \/ StoreMetrics(i) \/ Noticed(i)
      BY <1>0, <1>2, <2>7 DEF Uncount, StoreMetrics, Noticed, RunForms
    <2> QED BY <1>3, <2>1, <2>2, <2>3, <2>4, <2>5, <2>6, <2>7 DEF RunStep
  <1>4. ASSUME NEW j \in SyncJobs, RunFault(j) PROVE CountsItself(i)
    <2>1. CASE i # j
      <3>1. run'[i] = run[i]
        BY <1>0, <1>4, <2>1 DEF RunFault
      <3> QED BY <1>1, <3>1 DEF CountsItself
    <2>2. CASE i = j
      <3>1. /\ run[i].pc \in {"complete", "unlist", "close", "uncount", "metrics"}
            /\ run'[i].pc = "complete" /\ run'[i].count = run[i].count
            /\ run'[i].closed = run[i].closed
        BY <1>0, <1>2, <1>4, <2>2 DEF RunFault, RunForms
      <3>2. run[i].pc # "metrics"
        BY <3>1 DEF Forms, CountsItself
      <3> QED BY <3>1, <3>2 DEF CountsItself
    <2> QED BY <2>1, <2>2
  <1>5. ASSUME NEW j \in SyncJobs, Start(j) \/ Leave(j) PROVE CountsItself(i)
    <2>1. CASE i # j
      <3>1. run'[i] = run[i]
        BY <1>0, <1>5, <2>1 DEF Start, Leave
      <3> QED BY <3>1 DEF CountsItself
    <2>2. CASE i = j
      <3>1. run'[i].pc \in {"fetch", "idle"}
        BY <1>0, <1>5, <2>2 DEF Start, Leave, IdleRun
      <3> QED BY <1>2, <3>1
    <2> QED BY <2>1, <2>2
  <1>6. ~Crash
    BY <1>2 DEF Crash, IdleRun
  <1>7. ASSUME NEW r \in Requests, NEW j \in SyncJobs, RequestStep(r, j) PROVE run' = run
    BY <1>7 DEF RequestStep, Schedule, Count, List, EnqueueJob, runVars
  <1>8. ASSUME NEW r \in Requests, RequestFault(r) PROVE run' = run
    BY <1>8 DEF RequestFault, runVars
  <1>9. ASSUME NEW j \in SyncJobs, Timer(j) \/ Elect(j) PROVE run' = run
    BY <1>9 DEF Timer, Elect, runVars
  <1>10. ASSUME NEW c \in Cancels, CancelStep(c) PROVE run' = run
    BY <1>10 DEF CancelStep, CancelFetch, CancelSecret, CancelDelete, CancelClear, CancelReset,
              CancelUnchanged, runVars
  <1>11. CASE UNCHANGED vars
    BY <1>1, <1>11 DEF vars, runVars
  <1> QED BY <1>1, <1>3, <1>4, <1>5, <1>6, <1>7, <1>8, <1>9, <1>10, <1>11 DEF Next

\* Every step keeps the bounds of the counts.
LEMMA BoundedStep ==
    ASSUME IsFiniteSet(Requests), Forms, Bounded, [Next]_vars
    PROVE  Bounded'
  <1> SUFFICES ASSUME NEW p \in Projects
               PROVE  /\ queuedCount'[p] <= Cardinality(CountedIn')
                      /\ queuedCount'[p] + Cardinality(SyncJobs) >= Cardinality(ToUncount(p)')
    BY DEF Bounded
  <1> DEFINE Goal == /\ queuedCount'[p] <= Cardinality(CountedIn')
                     /\ queuedCount'[p] + Cardinality(SyncJobs) >= Cardinality(ToUncount(p)')
  <1>0. queuedCount \in [Projects -> Int] /\ run \in [SyncJobs -> RunForms]
    BY DEF Forms
  <1>1. ASSUME queuedCount'[p] \in {queuedCount[p], 0} PROVE Goal
    <2>1. CASE queuedCount[p] > 0
      BY <1>0, <1>1, <2>1, StaysBounded
    <2>2. CASE ~(queuedCount[p] > 0)
      <3>1. ToUncount(p)' \subseteq ToUncount(p)
        BY <2>2, MayCount DEF ToUncount, Of
      <3> QED BY <1>1, <3>1, StaysBounded
    <2> QED BY <2>1, <2>2
  <1> DEFINE all == Cardinality(SyncJobs)
             c == Cardinality(CountedIn)
             d == Cardinality(CountedIn')
             u == Cardinality(ToUncount(p))
             v == Cardinality(ToUncount(p)')
             n == queuedCount[p]
             m == queuedCount'[p]
  <1>2. /\ IsFiniteSet(SyncJobs)
        /\ all \in Nat /\ c \in Nat /\ d \in Nat /\ u \in Nat /\ v \in Nat
        /\ c <= d /\ v <= all
        /\ ToUncount(p)' \subseteq ToUncount(p) => v <= u
    BY Counted
  <1>3. n \in Int /\ n <= c /\ n + all >= u
    BY <1>0 DEF Bounded
  <1>4. ASSUME NEW r \in Requests, NEW j \in SyncJobs, RequestStep(r, j) PROVE Goal
    <2>1. CASE Schedule(r, j) \/ List(r, j) \/ EnqueueJob(r, j)
      BY <1>1, <2>1 DEF Schedule, List, EnqueueJob, recordVars
    <2>2. CASE Count(r, j)
      <3>1. /\ At(r, "count", j) /\ Advance(r) /\ run' = run
            /\ queuedCount' = [queuedCount EXCEPT ![ProjectOf(j)] = queuedCount[ProjectOf(j)] + 1]
        BY <2>2 DEF Count, runVars
      <3>2. CASE ProjectOf(j) # p
        BY <1>0, <1>1, <3>1, <3>2
      <3>3. CASE ProjectOf(j) = p
        <4>1. m = n + 1
          BY <1>0, <3>1, <3>3
        <4>2. d = c + 1
          <5>1. /\ Ahead("count", j)
                /\ \A i \in SyncJobs : Ahead("count", i)' <=> Ahead("count", i) /\ i # j
            <6>1. /\ Ahead("count", j)
                  /\ \A i \in SyncJobs :
                        (Ahead("count", i)' <=> Ahead("count", i) /\ <<"count", i>> # <<"count", j>>)
              BY <3>1, CallTakes
            <6> QED BY <6>1
          <5>2. CountedIn' = CountedIn \cup {j} /\ j \notin CountedIn
            BY <5>1 DEF CountedIn
          <5>3. IsFiniteSet(CountedIn)
            <6>1. CountedIn \subseteq SyncJobs
              BY DEF CountedIn
            <6> QED BY <1>2, <6>1, FS_Subset
          <5> DEFINE S == CountedIn
          <5> HIDE DEF S
          <5>4. Cardinality(S \cup {j}) = Cardinality(S) + 1
            BY <5>2, <5>3, FS_AddElement DEF S
          <5> QED BY <5>2, <5>4 DEF S
        <4>3. v <= u
          <5>1. ToUncount(p)' = ToUncount(p)
            BY <3>1 DEF ToUncount, CountsItself
          <5> QED BY <1>2, <5>1
        <4> HIDE DEF all, c, d, u, v, n, m
        <4>4. m <= d /\ m + all >= v
          BY <1>2, <1>3, <4>1, <4>2, <4>3
        <4> QED BY <4>4 DEF all, d, v, m
      <3> QED BY <3>2, <3>3
    <2> QED BY <1>4, <2>1, <2>2 DEF RequestStep
  <1>5. ASSUME NEW j \in SyncJobs, RunStep(j) PROVE Goal
    <2>1. CASE ~Uncount(j)
      BY <1>1, <1>5, <2>1 DEF RunStep, FetchDoc, FetchSecret, Complete, Unlist, Close,
               StoreMetrics, Noticed, recordVars
    <2>2. CASE Uncount(j)
      <3>1. /\ run[j].pc = "uncount" /\ run' = [run EXCEPT ![j].pc = "metrics"]
            /\ queuedCount' = [queuedCount EXCEPT ![ProjectOf(j)] =
                                  IF run[j].count > 0 THEN queuedCount[ProjectOf(j)] - 1
                                  ELSE IF run[j].count = 0 THEN queuedCount[ProjectOf(j)] ELSE 0]
        BY <2>2 DEF Uncount, Executes
      <3>2. CASE ProjectOf(j) # p
        BY <1>0, <1>1, <3>1, <3>2
      <3>3. CASE ProjectOf(j) = p /\ ~(run[j].count > 0)
        BY <1>0, <1>1, <3>1, <3>3
      <3>4. CASE ProjectOf(j) = p /\ run[j].count > 0
        <4>1. m = n - 1
          BY <1>0, <3>1, <3>4
        <4>2. u = v + 1
          <5>1. j \in ToUncount(p)
            BY <3>1, <3>4 DEF ToUncount, CountsItself, Of
          <5>2. ToUncount(p)' = ToUncount(p) \ {j}
            <6>1. ~CountsItself(j)'
              BY <1>0, <3>1 DEF CountsItself, RunForms
            <6>2. \A i \in SyncJobs : i # j => run'[i] = run[i]
              BY <1>0, <3>1
            <6>3. \A i \in SyncJobs : i # j => (CountsItself(i)' <=> CountsItself(i))
              BY <6>2 DEF CountsItself
            <6> QED BY <6>1, <6>3 DEF ToUncount, Of
          <5>3. IsFiniteSet(ToUncount(p))
            <6>1. ToUncount(p) \subseteq SyncJobs
              BY DEF ToUncount, Of
            <6> QED BY <1>2, <6>1, FS_Subset
          <5> DEFINE S == ToUncount(p)
          <5> HIDE DEF S
          <5>4. Cardinality(S \ {j}) = Cardinality(S) - 1
            BY <5>1, <5>3, FS_RemoveElement DEF S
          <5>5. v = u - 1
            BY <5>2, <5>4 DEF S
          <5> HIDE DEF u, v
          <5> QED BY <1>2, <5>5
        <4> HIDE DEF all, c, d, u, v, n, m
        <4>3. m <= d /\ m + all >= v
          BY <1>2, <1>3, <4>1, <4>2
        <4> QED BY <4>3 DEF all, d, v, m
      <3> QED BY <3>2, <3>3, <3>4
    <2> QED BY <2>1, <2>2
  <1>6. ASSUME NEW c1 \in Cancels, CancelStep(c1) PROVE Goal
    <2>1. CASE CancelReset(c1)
      BY <1>0, <1>1, <2>1 DEF CancelReset
    <2>2. CASE ~CancelReset(c1)
      BY <1>1, <1>6, <2>2 DEF CancelStep, CancelFetch, CancelSecret, CancelDelete, CancelClear,
               recordVars
    <2> QED BY <2>1, <2>2
  <1>7. ASSUME NEW j \in SyncJobs, Timer(j) \/ Elect(j) \/ Start(j) \/ Leave(j) \/ RunFault(j)
        PROVE  Goal
    BY <1>1, <1>7 DEF Timer, Elect, Start, Leave, RunFault, recordVars
  <1>8. ASSUME NEW r \in Requests, RequestFault(r) PROVE Goal
    BY <1>1, <1>8 DEF RequestFault, recordVars
  <1>9. ASSUME Crash PROVE Goal
    BY <1>1, <1>9 DEF Crash, recordVars
  <1>10. ASSUME UNCHANGED vars PROVE Goal
    BY <1>1, <1>10 DEF vars, recordVars
  <1> HIDE DEF Goal
  <1>11. Goal
    BY <1>4, <1>5, <1>6, <1>7, <1>8, <1>9, <1>10 DEF Next
  <1> QED BY <1>11 DEF Goal

\* The bounds as an interval.
LEMMA CountersAre ==
    ASSUME IsFiniteSet(Requests), Forms, Bounded
    PROVE  0 \in Counters /\ \A p \in Projects : queuedCount[p] \in Counters
  <1>1. IsFiniteSet(SyncJobs)
    BY JobsFinite
  <1> DEFINE all == Cardinality(SyncJobs)
             c == Cardinality(CountedIn)
  <1>2. all \in Nat /\ c \in Nat /\ c <= all
    <2>1. CountedIn \subseteq SyncJobs
      BY DEF CountedIn
    <2> QED BY <1>1, <2>1, FS_Subset, FS_CardinalityType
  <1>3. ASSUME NEW p \in Projects PROVE queuedCount[p] \in Counters
    <2> DEFINE u == Cardinality(ToUncount(p))
               n == queuedCount[p]
    <2>1. u \in Nat
      <3>1. ToUncount(p) \subseteq SyncJobs
        BY DEF ToUncount, Of
      <3> QED BY <1>1, <3>1, FS_Subset, FS_CardinalityType
    <2>2. n \in Int /\ n <= c /\ n + all >= u
      BY DEF Forms, Bounded
    <2> HIDE DEF all, c, u, n
    <2>3. n \in -all .. all
      BY <1>2, <2>1, <2>2
    <2> QED BY <2>3 DEF Counters, all, n
  <1>4. 0 \in Counters
    <2> HIDE DEF all, c
    <2>1. 0 \in -all .. all
      BY <1>2
    <2> QED BY <2>1 DEF Counters, all
  <1> QED BY <1>3, <1>4

\* What a run has read is what a count may be.
LEMMA ReadsStep ==
    ASSUME IsFiniteSet(Requests), Forms, Bounded, Reads, [Next]_vars
    PROVE  Reads'
  <1> SUFFICES ASSUME NEW i \in SyncJobs PROVE run'[i].count \in Counters
    BY DEF Reads, Counters
  <1>0. run \in [SyncJobs -> RunForms] /\ run[i].count \in Counters /\ 0 \in Counters
    BY CountersAre DEF Forms, Reads
  <1>1. ASSUME NEW j \in SyncJobs, RunStep(j) PROVE run'[i].count \in Counters
    <2>1. CASE FetchDoc(j)
      <3>1. queuedCount[ProjectOf(j)] \in Counters
        BY JobIs, CountersAre
      <3> QED BY <1>0, <2>1, <3>1 DEF FetchDoc, RunForms
    <2>2. CASE FetchSecret(j) \/ Unlist(j) \/ Close(j) \/ Uncount(j) \/ StoreMetrics(j) \/ Noticed(j)
      <3>1. run'[i].count = run[i].count
        BY <1>0, <2>2 DEF FetchSecret, Unlist, Close, Uncount, StoreMetrics, Noticed, RunForms
      <3> QED BY <1>0, <3>1
    <2>3. CASE Complete(j)
      <3>1. PICK ok : run' = [run EXCEPT ![j].pc = "unlist", ![j].ok = ok]
        BY <2>3 DEF Complete
      <3>2. run'[i].count = run[i].count
        BY <1>0, <3>1 DEF RunForms
      <3> QED BY <1>0, <3>2
    <2> QED BY <1>1, <2>1, <2>2, <2>3 DEF RunStep
  <1>2. ASSUME NEW j \in SyncJobs, RunFault(j) PROVE run'[i].count \in Counters
    <2>1. run'[i].count = run[i].count
      BY <1>0, <1>2 DEF RunFault, RunForms
    <2> QED BY <1>0, <2>1
  <1>3. ASSUME NEW j \in SyncJobs, Start(j) \/ Leave(j) PROVE run'[i].count \in Counters
    <2>1. run'[i].count \in {run[i].count, 0}
      BY <1>0, <1>3 DEF Start, Leave, IdleRun
    <2> QED BY <1>0, <2>1
  <1>4. CASE Crash
    <2>1. run'[i].count = 0
      BY <1>4 DEF Crash, IdleRun
    <2> QED BY <1>0, <2>1
  <1>5. CASE run' = run
    BY <1>0, <1>5
  <1>6. ASSUME NEW r \in Requests, NEW j \in SyncJobs, RequestStep(r, j) PROVE run' = run
    BY <1>6 DEF RequestStep, Schedule, Count, List, EnqueueJob, runVars
  <1>7. ASSUME NEW r \in Requests, RequestFault(r) PROVE run' = run
    BY <1>7 DEF RequestFault, runVars
  <1>8. ASSUME NEW j \in SyncJobs, Timer(j) \/ Elect(j) PROVE run' = run
    BY <1>8 DEF Timer, Elect, runVars
  <1>9. ASSUME NEW c \in Cancels, CancelStep(c) PROVE run' = run
    BY <1>9 DEF CancelStep, CancelFetch, CancelSecret, CancelDelete, CancelClear, CancelReset,
             CancelUnchanged, runVars
  <1>10. CASE UNCHANGED vars
    BY <1>5, <1>10 DEF vars, runVars
  <1> QED BY <1>1, <1>2, <1>3, <1>4, <1>5, <1>6, <1>7, <1>8, <1>9, <1>10 DEF Next

\* At the start all calls have their whole plan before them, and nothing is
\* counted or listed.
LEMMA FormsAtStart ==
    ASSUME IsFiniteSet(Requests), Init
    PROVE  Forms /\ ListedOnce /\ Bounded /\ Reads
  <1> USE DEF Init, Hf!Init
  <1>0. \A S : \A s \in Seq(S) : IsEndOf(s, s)
    <2> TAKE S
    <2> TAKE s \in Seq(S)
    <2>1. PICK n \in Nat : n = Len(s)
      OBVIOUS
    <2>2. \A i \in 1 .. n : i + (n - n) = i
      OBVIOUS
    <2> QED BY <2>1, <2>2 DEF IsEndOf
  <1>1. Forms
    <2>1. Hf!TypeOK
      BY QueueAssumption DEF Hf!TypeOK, Hf!States
    <2>2. /\ todo \in [Requests -> Seq(Words \X SyncJobs)]
          /\ \A r \in Requests : todo[r] = <<>> \/ IsEndOf(todo[r], Plan(r))
      BY <1>0, PlanIs
    <2>3. run \in [SyncJobs -> RunForms]
          /\ \A j \in SyncJobs : run[j].pc \in {"uncount", "metrics"} => run[j].closed
      BY DEF IdleRun, RunForms, RunSteps
    <2>4. /\ cancel \in [Cancels -> CancelForms]
          /\ \A c \in Cancels : /\ IsEndOf(cancel[c].left, CancelPlan[c])
                                /\ cancel[c].pc \notin {"done", "died"} => cancel[c].left # <<>>
      <3> DEFINE none == <<>>
                 x(c) == [pc |-> "fetch", left |-> CancelPlan[c], ids |-> none]
      <3>1. \A c \in Cancels : /\ CancelPlan[c] \in Seq(Projects) /\ CancelPlan[c] # <<>>
                               /\ IsEndOf(CancelPlan[c], CancelPlan[c])
        BY <1>0, QueueAssumption
      <3>2. cancel = [c \in Cancels |-> x(c)] /\ none \in Seq(SyncJobs)
        OBVIOUS
      <3> HIDE DEF none
      <3>3. \A c \in Cancels : x(c) \in CancelForms /\ x(c).left = CancelPlan[c]
        BY <3>1, <3>2 DEF CancelForms
      <3> HIDE DEF x
      <3> QED BY <3>1, <3>2, <3>3
    <2>5. /\ queuedCount \in [Projects -> Int] /\ metricIds \in [Projects -> SUBSET SyncJobs]
          /\ failed \subseteq Requests
      OBVIOUS
    <2> QED BY <2>1, <2>2, <2>3, <2>4, <2>5 DEF Forms
  <1>2. ListedOnce
    <2>1. <<>> \in Seq(SyncJobs) /\ DOMAIN <<>> = {} /\ IsInjective(<<>>)
      BY DEF IsInjective
    <2> QED BY <2>1 DEF ListedOnce
  <1>3. Bounded
    <2>1. \A p \in Projects : ToUncount(p) = {}
      BY DEF ToUncount, CountsItself, Of, IdleRun
    <2>2. IsFiniteSet(SyncJobs) /\ CountedIn \subseteq SyncJobs
      BY JobsFinite DEF CountedIn
    <2>3. Cardinality(SyncJobs) \in Nat /\ Cardinality(CountedIn) \in Nat /\ Cardinality({}) = 0
      BY <2>2, FS_Subset, FS_CardinalityType, FS_EmptySet
    <2>4. \A p \in Projects : queuedCount[p] = 0
      OBVIOUS
    <2>5. \A p \in Projects : Cardinality(ToUncount(p)) = 0
      BY <2>1, <2>3
    <2> HIDE DEF Init
    <2> QED BY <2>3, <2>4, <2>5 DEF Bounded
  <1>4. Reads
    <2>1. \A j \in SyncJobs : run[j].count = 0
      BY DEF IdleRun
    <2> QED BY <1>1, <1>3, <2>1, CountersAre DEF Reads
  <1> QED BY <1>1, <1>2, <1>3, <1>4

\* The invariant has all that the type invariant asks for.
LEMMA FormsAreTypes ==
    ASSUME IsFiniteSet(Requests), Forms, ListedOnce, Bounded, Reads
    PROVE  TypeOK
  <1>1. queuedCount \in [Projects -> Counters]
    BY CountersAre DEF Forms
  <1>2. \A p \in Projects : jobIds[p] \in Seq(SyncJobs) /\ IsInjective(jobIds[p])
    BY DEF ListedOnce
  <1>3. \A r \in Requests : todo[r] = <<>> \/ IsSuffix(todo[r], Plan(r))
    BY PlanIs, EndIsSuffix DEF Forms
  <1>4. run \in [SyncJobs -> [pc : RunSteps, ok : BOOLEAN, second : BOOLEAN,
                             closed : BOOLEAN, count : Counters,
                             head : SyncJobs \cup {NoJob}, listed : BOOLEAN]]
    BY DEF Forms, RunForms, Reads
  <1>5. \A c \in Cancels :
           /\ cancel[c].pc \in {"fetch", "secret", "delete", "clear", "reset", "done", "died"}
           /\ cancel[c].ids \in Seq(SyncJobs)
           /\ IsSuffix(cancel[c].left, CancelPlan[c])
    <2> TAKE c \in Cancels
    <2>1. cancel[c] \in CancelForms /\ IsEndOf(cancel[c].left, CancelPlan[c])
      BY DEF Forms
    <2>2. cancel[c].left \in Seq(Projects) /\ CancelPlan[c] \in Seq(Projects)
      BY <2>1, QueueAssumption DEF CancelForms
    <2> QED BY <2>1, <2>2, EndIsSuffix DEF CancelForms
  <1> QED BY <1>1, <1>2, <1>3, <1>4, <1>5 DEF TypeOK, Forms

\* The types of all variables: a job id is never listed twice, and the count of
\* a project, and what a run has read of it, is off by no more than there are
\* syncs, whatever fails, crashes, is cancelled or continued, for any finite
\* number of calls.
THEOREM QueueTypeCorrect ==
    ASSUME IsFiniteSet(Requests)
    PROVE  Spec => []TypeOK
  <1> DEFINE Inv == Forms /\ ListedOnce /\ Bounded /\ Reads
  <1>1. Init => Inv
    BY FormsAtStart
  <1>2. Inv /\ [Next]_vars => Inv'
    <2> SUFFICES ASSUME Inv, [Next]_vars PROVE Inv'
      OBVIOUS
    <2>1. Forms'
      BY JobsForm, RecordsForm, CallsForm, RunsForm, CancelsForm DEF Forms
    <2>2. ListedOnce' /\ Bounded' /\ Reads'
      BY ListedOnceStep, BoundedStep, ReadsStep
    <2> QED BY <2>1, <2>2
  <1>3. Inv => TypeOK
    BY FormsAreTypes
  <1> QED BY <1>1, <1>2, <1>3, PTL DEF Spec
=============================================================================
