--------------------------- MODULE DraftBuildProofs ---------------------------
(***************************************************************************)
(* Proofs about DraftBuild and FinishedBuilds: type correctness, and that  *)
(* a request that goes on, or a build on its way to Serval, has the claim  *)
(* unless one of the named races took it, for any number of requests,      *)
(* builds and faults.                                                      *)
(***************************************************************************)
EXTENDS MCDrafts, TLAPS

CancelType == cancel \in [pc : {"idle", "delete", "unset", "serval", "done"}, saw : Anyone]

\* A request has a job from when it has scheduled one.
Scheduled ==
    /\ \A r \in Requests : job[r] # "none" => request[r] \in {"store", "release", "over", "lost"}
    /\ \A r \in Requests : request[r] = "store" => job[r] # "none"
    /\ \A r \in Requests : abandoned[r] # NoOne => job[abandoned[r]] # "none"
    /\ cancel.saw # NoOne => job[cancel.saw] # "none"

\* A claim is of a request that has got through, and one that a request has
\* seen to be stale still is.
Claimed ==
    /\ queued.by # NoOne => request[queued.by] \notin {"idle", "claim"}
    /\ \A r \in Requests : outdated[r] # NoOne =>
          /\ request[outdated[r]] \notin {"idle", "claim"}
          /\ queued.by = outdated[r] => queued.stale

\* The cancel has deleted the job whose claim it is about to clear.
Deleted ==
    cancel.pc = "unset" /\ cancel.saw # NoOne =>
        deleted[cancel.saw] \/ job[cancel.saw] = "done"

\* A job that has yet to clear its claim, also one whose build Serval has got or
\* refused or that has failed, as it may be run again.
Uncleared == {"waiting", "ready", "upload", "clear", "refused", "error"}

\* A request that goes on, or a job that nobody is about to stop.
Held(r) ==
    \/ request[r] \in {"delete", "check", "schedule"}
    \/ /\ job[r] \in Uncleared
       /\ ~deleted[r]
       /\ \A q \in Requests : ~(request[q] = "delete" /\ abandoned[q] = r)

HoldersClaim == \A r \in Requests \ excused : Held(r) => queued.by = r

\* Whoever has claimed keeps the claim as long as nobody cancels, takes over or
\* fails, also when it is about to give it back or its job was deleted.
HasHold(r) == request[r] \in {"delete", "check", "schedule", "release"} \/ job[r] \in Uncleared

Undisturbed ==
    ~Disturbed =>
        /\ excused = {}
        /\ \A r \in Requests : HasHold(r) => queued.by = r
        /\ \A r \in Requests : request[r] = "release" => job[r] = "none"

IInv ==
    TypeOK /\ CancelType /\ Scheduled /\ Claimed /\ Deleted /\ HoldersClaim /\ Undisturbed
-----------------------------------------------------------------------------
(* Each step preserves each part. *)

\* Types; a job id is that of a job.
LEMMA TypeStep ==
    ASSUME TypeOK, CancelType, Scheduled, [Next]_vars
    PROVE  TypeOK' /\ CancelType'
  <1> USE DraftAssumption DEF TypeOK, CancelType, Scheduled, secret, chain, history, Go, Job,
          Fault, Excuse, Cancelling, DeleteJob, AtWork, ClearQueued, None, Anyone
  <1>1. ASSUME NEW r \in Requests, Start(r) PROVE TypeOK' /\ CancelType'
    BY <1>1 DEF Start
  <1>2. ASSUME NEW r \in Requests, Claim(r) PROVE TypeOK' /\ CancelType'
    BY <1>2 DEF Claim
  <1>3. ASSUME NEW r \in Requests, Refuse(r) PROVE TypeOK' /\ CancelType'
    BY <1>3 DEF Refuse
  <1>4. ASSUME NEW r \in Requests, DeleteAbandoned(r) PROVE TypeOK' /\ CancelType'
    BY <1>4 DEF DeleteAbandoned
  <1>5. ASSUME NEW r \in Requests, Check(r) PROVE TypeOK' /\ CancelType'
    BY <1>5 DEF Check
  <1>6. ASSUME NEW r \in Requests, Schedule(r) PROVE TypeOK' /\ CancelType'
    BY <1>6 DEF Schedule
  <1>7. ASSUME NEW r \in Requests, StoreJobId(r) PROVE TypeOK' /\ CancelType'
    BY <1>7 DEF StoreJobId
  <1>8. ASSUME NEW r \in Requests, Release(r) PROVE TypeOK' /\ CancelType'
    BY <1>8 DEF Release
  <1>9. ASSUME NEW r \in Requests, RequestFails(r) PROVE TypeOK' /\ CancelType'
    BY <1>9 DEF RequestFails
  <1>10. ASSUME NEW r \in Requests, ReleaseFails(r) PROVE TypeOK' /\ CancelType'
    BY <1>10 DEF ReleaseFails
  <1>11. ASSUME NEW r \in Requests, Begin(r) PROVE TypeOK' /\ CancelType'
    BY <1>11 DEF Begin
  <1>12. ASSUME NEW r \in Requests, StartBuild(r) PROVE TypeOK' /\ CancelType'
    BY <1>12 DEF StartBuild
  <1>13. ASSUME NEW r \in Requests, Clear(r) PROVE TypeOK' /\ CancelType'
    BY <1>13 DEF Clear
  <1>14. ASSUME NEW r \in Requests, ReportError(r) PROVE TypeOK' /\ CancelType'
    BY <1>14 DEF ReportError
  <1>15. ASSUME NEW r \in Requests, Finish(r) PROVE TypeOK' /\ CancelType'
    BY <1>15 DEF Finish
  <1>16. ASSUME NEW r \in Requests, Notice(r) PROVE TypeOK' /\ CancelType'
    BY <1>16 DEF Notice
  <1>17. ASSUME NEW r \in Requests, ParentDeleted(r) PROVE TypeOK' /\ CancelType'
    BY <1>17 DEF ParentDeleted
  <1>18. ASSUME NEW r \in Requests, BuildFails(r) PROVE TypeOK' /\ CancelType'
    BY <1>18 DEF BuildFails
  <1>19. ASSUME NEW r \in Requests, ReportFails(r) PROVE TypeOK' /\ CancelType'
    BY <1>19 DEF ReportFails
  <1>20. ASSUME NEW r \in Requests, FinishFails(r) PROVE TypeOK' /\ CancelType'
    BY <1>20 DEF FinishFails
  <1>21. CASE CancelReads
    BY <1>21 DEF CancelReads
  <1>22. CASE CancelDeletes
    BY <1>22 DEF CancelDeletes
  <1>23. CASE CancelClears
    BY <1>23 DEF CancelClears
  <1>24. CASE CancelBuild
    BY <1>24 DEF CancelBuild
  <1>25. CASE CancelFails
    BY <1>25 DEF CancelFails
  <1>26. CASE BuildEnds
    BY <1>26 DEF BuildEnds
  <1>27. CASE GrowStale
    BY <1>27 DEF GrowStale
  <1>28. CASE Crash
    BY <1>28 DEF Crash
  <1>29. CASE UNCHANGED vars
    BY <1>29 DEF vars
  <1> QED
    BY <1>1, <1>2, <1>3, <1>4, <1>5, <1>6, <1>7, <1>8, <1>9, <1>10, <1>11, <1>12,
       <1>13, <1>14, <1>15, <1>16, <1>17, <1>18, <1>19, <1>20, <1>21, <1>22, <1>23,
       <1>24, <1>25, <1>26, <1>27, <1>28, <1>29
       DEF Next, RequestStep, JobStep, CancelStep, Mishap

\* Jobs are those of requests that have scheduled one.
LEMMA ScheduledStep ==
    ASSUME TypeOK, CancelType, Scheduled, [Next]_vars
    PROVE  Scheduled'
  <1> USE DraftAssumption DEF TypeOK, CancelType, Scheduled, secret, chain, history, Go, Job,
          Fault, Excuse, Cancelling, DeleteJob, AtWork, ClearQueued, None, Anyone
  <1>1. ASSUME NEW r \in Requests, Start(r) PROVE Scheduled'
    BY <1>1 DEF Start
  <1>2. ASSUME NEW r \in Requests, Claim(r) PROVE Scheduled'
    BY <1>2 DEF Claim
  <1>3. ASSUME NEW r \in Requests, Refuse(r) PROVE Scheduled'
    BY <1>3 DEF Refuse
  <1>4. ASSUME NEW r \in Requests, DeleteAbandoned(r) PROVE Scheduled'
    BY <1>4 DEF DeleteAbandoned
  <1>5. ASSUME NEW r \in Requests, Check(r) PROVE Scheduled'
    BY <1>5 DEF Check
  <1>6. ASSUME NEW r \in Requests, Schedule(r) PROVE Scheduled'
    BY <1>6 DEF Schedule
  <1>7. ASSUME NEW r \in Requests, StoreJobId(r) PROVE Scheduled'
    BY <1>7 DEF StoreJobId
  <1>8. ASSUME NEW r \in Requests, Release(r) PROVE Scheduled'
    BY <1>8 DEF Release
  <1>9. ASSUME NEW r \in Requests, RequestFails(r) PROVE Scheduled'
    BY <1>9 DEF RequestFails
  <1>10. ASSUME NEW r \in Requests, ReleaseFails(r) PROVE Scheduled'
    BY <1>10 DEF ReleaseFails
  <1>11. ASSUME NEW r \in Requests, Begin(r) PROVE Scheduled'
    BY <1>11 DEF Begin
  <1>12. ASSUME NEW r \in Requests, StartBuild(r) PROVE Scheduled'
    BY <1>12 DEF StartBuild
  <1>13. ASSUME NEW r \in Requests, Clear(r) PROVE Scheduled'
    BY <1>13 DEF Clear
  <1>14. ASSUME NEW r \in Requests, ReportError(r) PROVE Scheduled'
    BY <1>14 DEF ReportError
  <1>15. ASSUME NEW r \in Requests, Finish(r) PROVE Scheduled'
    BY <1>15 DEF Finish
  <1>16. ASSUME NEW r \in Requests, Notice(r) PROVE Scheduled'
    BY <1>16 DEF Notice
  <1>17. ASSUME NEW r \in Requests, ParentDeleted(r) PROVE Scheduled'
    BY <1>17 DEF ParentDeleted
  <1>18. ASSUME NEW r \in Requests, BuildFails(r) PROVE Scheduled'
    BY <1>18 DEF BuildFails
  <1>19. ASSUME NEW r \in Requests, ReportFails(r) PROVE Scheduled'
    BY <1>19 DEF ReportFails
  <1>20. ASSUME NEW r \in Requests, FinishFails(r) PROVE Scheduled'
    BY <1>20 DEF FinishFails
  <1>21. CASE CancelReads
    BY <1>21 DEF CancelReads
  <1>22. CASE CancelDeletes
    BY <1>22 DEF CancelDeletes
  <1>23. CASE CancelClears
    BY <1>23 DEF CancelClears
  <1>24. CASE CancelBuild
    BY <1>24 DEF CancelBuild
  <1>25. CASE CancelFails
    BY <1>25 DEF CancelFails
  <1>26. CASE BuildEnds
    BY <1>26 DEF BuildEnds
  <1>27. CASE GrowStale
    BY <1>27 DEF GrowStale
  <1>28. CASE Crash
    BY <1>28 DEF Crash
  <1>29. CASE UNCHANGED vars
    BY <1>29 DEF vars
  <1> QED
    BY <1>1, <1>2, <1>3, <1>4, <1>5, <1>6, <1>7, <1>8, <1>9, <1>10, <1>11, <1>12,
       <1>13, <1>14, <1>15, <1>16, <1>17, <1>18, <1>19, <1>20, <1>21, <1>22, <1>23,
       <1>24, <1>25, <1>26, <1>27, <1>28, <1>29
       DEF Next, RequestStep, JobStep, CancelStep, Mishap

\* Claims are of requests that have got through.
LEMMA ClaimedStep ==
    ASSUME TypeOK, Claimed, [Next]_vars
    PROVE  Claimed'
  <1> USE DraftAssumption DEF TypeOK, Claimed, secret, chain, history, Go, Job, Fault, Excuse,
          Cancelling, DeleteJob, AtWork, ClearQueued, None, Anyone
  <1>1. ASSUME NEW r \in Requests, Start(r) PROVE Claimed'
    BY <1>1 DEF Start
  <1>2. ASSUME NEW r \in Requests, Claim(r) PROVE Claimed'
    BY <1>2 DEF Claim
  <1>3. ASSUME NEW r \in Requests, Refuse(r) PROVE Claimed'
    BY <1>3 DEF Refuse
  <1>4. ASSUME NEW r \in Requests, DeleteAbandoned(r) PROVE Claimed'
    BY <1>4 DEF DeleteAbandoned
  <1>5. ASSUME NEW r \in Requests, Check(r) PROVE Claimed'
    BY <1>5 DEF Check
  <1>6. ASSUME NEW r \in Requests, Schedule(r) PROVE Claimed'
    BY <1>6 DEF Schedule
  <1>7. ASSUME NEW r \in Requests, StoreJobId(r) PROVE Claimed'
    BY <1>7 DEF StoreJobId
  <1>8. ASSUME NEW r \in Requests, Release(r) PROVE Claimed'
    BY <1>8 DEF Release
  <1>9. ASSUME NEW r \in Requests, RequestFails(r) PROVE Claimed'
    BY <1>9 DEF RequestFails
  <1>10. ASSUME NEW r \in Requests, ReleaseFails(r) PROVE Claimed'
    BY <1>10 DEF ReleaseFails
  <1>11. ASSUME NEW r \in Requests, Begin(r) PROVE Claimed'
    BY <1>11 DEF Begin
  <1>12. ASSUME NEW r \in Requests, StartBuild(r) PROVE Claimed'
    BY <1>12 DEF StartBuild
  <1>13. ASSUME NEW r \in Requests, Clear(r) PROVE Claimed'
    BY <1>13 DEF Clear
  <1>14. ASSUME NEW r \in Requests, ReportError(r) PROVE Claimed'
    BY <1>14 DEF ReportError
  <1>15. ASSUME NEW r \in Requests, Finish(r) PROVE Claimed'
    BY <1>15 DEF Finish
  <1>16. ASSUME NEW r \in Requests, Notice(r) PROVE Claimed'
    BY <1>16 DEF Notice
  <1>17. ASSUME NEW r \in Requests, ParentDeleted(r) PROVE Claimed'
    BY <1>17 DEF ParentDeleted
  <1>18. ASSUME NEW r \in Requests, BuildFails(r) PROVE Claimed'
    BY <1>18 DEF BuildFails
  <1>19. ASSUME NEW r \in Requests, ReportFails(r) PROVE Claimed'
    BY <1>19 DEF ReportFails
  <1>20. ASSUME NEW r \in Requests, FinishFails(r) PROVE Claimed'
    BY <1>20 DEF FinishFails
  <1>21. CASE CancelReads
    BY <1>21 DEF CancelReads
  <1>22. CASE CancelDeletes
    BY <1>22 DEF CancelDeletes
  <1>23. CASE CancelClears
    BY <1>23 DEF CancelClears
  <1>24. CASE CancelBuild
    BY <1>24 DEF CancelBuild
  <1>25. CASE CancelFails
    BY <1>25 DEF CancelFails
  <1>26. CASE BuildEnds
    BY <1>26 DEF BuildEnds
  <1>27. CASE GrowStale
    BY <1>27 DEF GrowStale
  <1>28. CASE Crash
    BY <1>28 DEF Crash
  <1>29. CASE UNCHANGED vars
    BY <1>29 DEF vars
  <1> QED
    BY <1>1, <1>2, <1>3, <1>4, <1>5, <1>6, <1>7, <1>8, <1>9, <1>10, <1>11, <1>12,
       <1>13, <1>14, <1>15, <1>16, <1>17, <1>18, <1>19, <1>20, <1>21, <1>22, <1>23,
       <1>24, <1>25, <1>26, <1>27, <1>28, <1>29
       DEF Next, RequestStep, JobStep, CancelStep, Mishap

\* A cancel clears claims of deleted jobs.
LEMMA DeletedStep ==
    ASSUME TypeOK, CancelType, Scheduled, Deleted, [Next]_vars
    PROVE  Deleted'
  <1> USE DraftAssumption DEF TypeOK, CancelType, Scheduled, Deleted, secret, chain, history, Go,
          Job, Fault, Excuse, Cancelling, DeleteJob, AtWork, ClearQueued, None, Anyone
  <1>1. ASSUME NEW r \in Requests, Start(r) PROVE Deleted'
    BY <1>1 DEF Start
  <1>2. ASSUME NEW r \in Requests, Claim(r) PROVE Deleted'
    BY <1>2 DEF Claim
  <1>3. ASSUME NEW r \in Requests, Refuse(r) PROVE Deleted'
    BY <1>3 DEF Refuse
  <1>4. ASSUME NEW r \in Requests, DeleteAbandoned(r) PROVE Deleted'
    BY <1>4 DEF DeleteAbandoned
  <1>5. ASSUME NEW r \in Requests, Check(r) PROVE Deleted'
    BY <1>5 DEF Check
  <1>6. ASSUME NEW r \in Requests, Schedule(r) PROVE Deleted'
    BY <1>6 DEF Schedule
  <1>7. ASSUME NEW r \in Requests, StoreJobId(r) PROVE Deleted'
    BY <1>7 DEF StoreJobId
  <1>8. ASSUME NEW r \in Requests, Release(r) PROVE Deleted'
    BY <1>8 DEF Release
  <1>9. ASSUME NEW r \in Requests, RequestFails(r) PROVE Deleted'
    BY <1>9 DEF RequestFails
  <1>10. ASSUME NEW r \in Requests, ReleaseFails(r) PROVE Deleted'
    BY <1>10 DEF ReleaseFails
  <1>11. ASSUME NEW r \in Requests, Begin(r) PROVE Deleted'
    BY <1>11 DEF Begin
  <1>12. ASSUME NEW r \in Requests, StartBuild(r) PROVE Deleted'
    BY <1>12 DEF StartBuild
  <1>13. ASSUME NEW r \in Requests, Clear(r) PROVE Deleted'
    BY <1>13 DEF Clear
  <1>14. ASSUME NEW r \in Requests, ReportError(r) PROVE Deleted'
    BY <1>14 DEF ReportError
  <1>15. ASSUME NEW r \in Requests, Finish(r) PROVE Deleted'
    BY <1>15 DEF Finish
  <1>16. ASSUME NEW r \in Requests, Notice(r) PROVE Deleted'
    BY <1>16 DEF Notice
  <1>17. ASSUME NEW r \in Requests, ParentDeleted(r) PROVE Deleted'
    BY <1>17 DEF ParentDeleted
  <1>18. ASSUME NEW r \in Requests, BuildFails(r) PROVE Deleted'
    BY <1>18 DEF BuildFails
  <1>19. ASSUME NEW r \in Requests, ReportFails(r) PROVE Deleted'
    BY <1>19 DEF ReportFails
  <1>20. ASSUME NEW r \in Requests, FinishFails(r) PROVE Deleted'
    BY <1>20 DEF FinishFails
  <1>21. CASE CancelReads
    BY <1>21 DEF CancelReads
  <1>22. CASE CancelDeletes
    BY <1>22 DEF CancelDeletes
  <1>23. CASE CancelClears
    BY <1>23 DEF CancelClears
  <1>24. CASE CancelBuild
    BY <1>24 DEF CancelBuild
  <1>25. CASE CancelFails
    BY <1>25 DEF CancelFails
  <1>26. CASE BuildEnds
    BY <1>26 DEF BuildEnds
  <1>27. CASE GrowStale
    BY <1>27 DEF GrowStale
  <1>28. CASE Crash
    BY <1>28 DEF Crash
  <1>29. CASE UNCHANGED vars
    BY <1>29 DEF vars
  <1> QED
    BY <1>1, <1>2, <1>3, <1>4, <1>5, <1>6, <1>7, <1>8, <1>9, <1>10, <1>11, <1>12,
       <1>13, <1>14, <1>15, <1>16, <1>17, <1>18, <1>19, <1>20, <1>21, <1>22, <1>23,
       <1>24, <1>25, <1>26, <1>27, <1>28, <1>29
       DEF Next, RequestStep, JobStep, CancelStep, Mishap

\* Whoever holds on has the claim.
LEMMA HoldersStep ==
    ASSUME IInv, [Next]_vars
    PROVE  HoldersClaim'
  <1> USE DraftAssumption DEF IInv, HoldersClaim, Held, Uncleared, TypeOK, Scheduled, Claimed,
          Deleted, CancelType, secret, chain, history, Go, Job, Fault, Excuse, Cancelling,
          DeleteJob, AtWork, ClearQueued, None, Anyone
  <1>1. ASSUME NEW r \in Requests, Start(r) PROVE HoldersClaim'
    BY <1>1 DEF Start
  <1>2. ASSUME NEW r \in Requests, Claim(r) PROVE HoldersClaim'
    <2> SUFFICES ASSUME NEW q \in Requests, q \notin excused', Held(q)'
                 PROVE  queued'.by = q
      BY DEF HoldersClaim
    <2>1. CASE q = r
      BY <1>2, <2>1 DEF Claim
    <2>2. CASE q # r
      <3>1. Held(q)
        BY <1>2, <2>2 DEF Claim
      <3>2. q \notin excused
        BY <1>2 DEF Claim
      <3>3. queued.by = q
        BY <3>1, <3>2
      <3>4. outdated[r] = q /\ queued.stale
        BY <1>2, <3>3 DEF Claim, MayClaim
      <3>5. q = abandoned[r] /\ ~AtWork(q)
        BY <1>2, <3>3, <3>4 DEF Claim
      <3>6. request'[r] = "delete" /\ abandoned'[r] = q
        BY <1>2, <3>5 DEF Claim
      <3>7. request'[q] \notin {"delete", "check", "schedule"}
        BY <1>2, <2>2, <3>5 DEF Claim
      <3> QED BY <3>6, <3>7
    <2> QED BY <2>1, <2>2
  <1>3. ASSUME NEW r \in Requests, Refuse(r) PROVE HoldersClaim'
    BY <1>3 DEF Refuse
  <1>4. ASSUME NEW r \in Requests, DeleteAbandoned(r) PROVE HoldersClaim'
    BY <1>4 DEF DeleteAbandoned
  <1>5. ASSUME NEW r \in Requests, Check(r) PROVE HoldersClaim'
    BY <1>5 DEF Check
  <1>6. ASSUME NEW r \in Requests, Schedule(r) PROVE HoldersClaim'
    BY <1>6 DEF Schedule
  <1>7. ASSUME NEW r \in Requests, StoreJobId(r) PROVE HoldersClaim'
    BY <1>7 DEF StoreJobId
  <1>8. ASSUME NEW r \in Requests, Release(r) PROVE HoldersClaim'
    BY <1>8 DEF Release
  <1>9. ASSUME NEW r \in Requests, RequestFails(r) PROVE HoldersClaim'
    BY <1>9 DEF RequestFails
  <1>10. ASSUME NEW r \in Requests, ReleaseFails(r) PROVE HoldersClaim'
    BY <1>10 DEF ReleaseFails
  <1>11. ASSUME NEW r \in Requests, Begin(r) PROVE HoldersClaim'
    BY <1>11 DEF Begin
  <1>12. ASSUME NEW r \in Requests, StartBuild(r) PROVE HoldersClaim'
    BY <1>12 DEF StartBuild
  <1>13. ASSUME NEW r \in Requests, Clear(r) PROVE HoldersClaim'
    BY <1>13 DEF Clear
  <1>14. ASSUME NEW r \in Requests, ReportError(r) PROVE HoldersClaim'
    BY <1>14 DEF ReportError
  <1>15. ASSUME NEW r \in Requests, Finish(r) PROVE HoldersClaim'
    BY <1>15 DEF Finish
  <1>16. ASSUME NEW r \in Requests, Notice(r) PROVE HoldersClaim'
    BY <1>16 DEF Notice
  <1>17. ASSUME NEW r \in Requests, ParentDeleted(r) PROVE HoldersClaim'
    BY <1>17 DEF ParentDeleted
  <1>18. ASSUME NEW r \in Requests, BuildFails(r) PROVE HoldersClaim'
    BY <1>18 DEF BuildFails
  <1>19. ASSUME NEW r \in Requests, ReportFails(r) PROVE HoldersClaim'
    BY <1>19 DEF ReportFails
  <1>20. ASSUME NEW r \in Requests, FinishFails(r) PROVE HoldersClaim'
    BY <1>20 DEF FinishFails
  <1>21. CASE CancelReads
    BY <1>21 DEF CancelReads
  <1>22. CASE CancelDeletes
    BY <1>22 DEF CancelDeletes
  <1>23. CASE CancelClears
    BY <1>23 DEF CancelClears
  <1>24. CASE CancelBuild
    BY <1>24 DEF CancelBuild
  <1>25. CASE CancelFails
    BY <1>25 DEF CancelFails
  <1>26. CASE BuildEnds
    BY <1>26 DEF BuildEnds
  <1>27. CASE GrowStale
    BY <1>27 DEF GrowStale
  <1>28. CASE Crash
    BY <1>28 DEF Crash
  <1>29. CASE UNCHANGED vars
    BY <1>29 DEF vars
  <1> QED
    BY <1>1, <1>2, <1>3, <1>4, <1>5, <1>6, <1>7, <1>8, <1>9, <1>10, <1>11, <1>12,
       <1>13, <1>14, <1>15, <1>16, <1>17, <1>18, <1>19, <1>20, <1>21, <1>22, <1>23,
       <1>24, <1>25, <1>26, <1>27, <1>28, <1>29
       DEF Next, RequestStep, JobStep, CancelStep, Mishap

\* Before a cancel, a takeover or a fault nobody else touches a claim.
LEMMA UndisturbedStep ==
    ASSUME IInv, [Next]_vars
    PROVE  Undisturbed'
  <1> USE DraftAssumption DEF IInv, Undisturbed, Disturbed, HasHold, Uncleared, TypeOK, Scheduled, CancelType,
          secret, chain, history, Go, Job, Fault, Excuse, Cancelling, DeleteJob, AtWork,
          ClearQueued, None, Anyone
  <1>1. ASSUME NEW r \in Requests, Start(r) PROVE Undisturbed'
    BY <1>1 DEF Start
  <1>2. ASSUME NEW r \in Requests, Claim(r) PROVE Undisturbed'
    <2> SUFFICES ASSUME ~Disturbed' PROVE Undisturbed'
      BY DEF Undisturbed
    <2>1. ~Disturbed /\ queued.by = NoOne
      BY <1>2 DEF Claim
    <2>2. excused' = {}
      BY <1>2, <2>1 DEF Claim
    <2>3. \A q \in Requests : ~HasHold(q)
      BY <2>1
    <2>4. \A q \in Requests \ {r} : ~HasHold(q)'
      BY <1>2, <2>3 DEF Claim
    <2>5. queued'.by = r /\ request'[r] = "delete"
      BY <1>2 DEF Claim
    <2>6. \A q \in Requests : request'[q] # "release"
      BY <2>4, <2>5
    <2> QED BY <2>2, <2>4, <2>5, <2>6
  <1>3. ASSUME NEW r \in Requests, Refuse(r) PROVE Undisturbed'
    BY <1>3 DEF Refuse
  <1>4. ASSUME NEW r \in Requests, DeleteAbandoned(r) PROVE Undisturbed'
    BY <1>4 DEF DeleteAbandoned
  <1>5. ASSUME NEW r \in Requests, Check(r) PROVE Undisturbed'
    BY <1>5 DEF Check
  <1>6. ASSUME NEW r \in Requests, Schedule(r) PROVE Undisturbed'
    BY <1>6 DEF Schedule
  <1>7. ASSUME NEW r \in Requests, StoreJobId(r) PROVE Undisturbed'
    BY <1>7 DEF StoreJobId
  <1>8. ASSUME NEW r \in Requests, Release(r) PROVE Undisturbed'
    BY <1>8 DEF Release
  <1>9. ASSUME NEW r \in Requests, RequestFails(r) PROVE Undisturbed'
    BY <1>9 DEF RequestFails
  <1>10. ASSUME NEW r \in Requests, ReleaseFails(r) PROVE Undisturbed'
    BY <1>10 DEF ReleaseFails
  <1>11. ASSUME NEW r \in Requests, Begin(r) PROVE Undisturbed'
    BY <1>11 DEF Begin
  <1>12. ASSUME NEW r \in Requests, StartBuild(r) PROVE Undisturbed'
    BY <1>12 DEF StartBuild
  <1>13. ASSUME NEW r \in Requests, Clear(r) PROVE Undisturbed'
    BY <1>13 DEF Clear
  <1>14. ASSUME NEW r \in Requests, ReportError(r) PROVE Undisturbed'
    BY <1>14 DEF ReportError
  <1>15. ASSUME NEW r \in Requests, Finish(r) PROVE Undisturbed'
    BY <1>15 DEF Finish
  <1>16. ASSUME NEW r \in Requests, Notice(r) PROVE Undisturbed'
    BY <1>16 DEF Notice
  <1>17. ASSUME NEW r \in Requests, ParentDeleted(r) PROVE Undisturbed'
    BY <1>17 DEF ParentDeleted
  <1>18. ASSUME NEW r \in Requests, BuildFails(r) PROVE Undisturbed'
    BY <1>18 DEF BuildFails
  <1>19. ASSUME NEW r \in Requests, ReportFails(r) PROVE Undisturbed'
    BY <1>19 DEF ReportFails
  <1>20. ASSUME NEW r \in Requests, FinishFails(r) PROVE Undisturbed'
    BY <1>20 DEF FinishFails
  <1>21. CASE CancelReads
    BY <1>21 DEF CancelReads
  <1>22. CASE CancelDeletes
    BY <1>22 DEF CancelDeletes
  <1>23. CASE CancelClears
    BY <1>23 DEF CancelClears
  <1>24. CASE CancelBuild
    BY <1>24 DEF CancelBuild
  <1>25. CASE CancelFails
    BY <1>25 DEF CancelFails
  <1>26. CASE BuildEnds
    BY <1>26 DEF BuildEnds
  <1>27. CASE GrowStale
    BY <1>27 DEF GrowStale
  <1>28. CASE Crash
    BY <1>28 DEF Crash
  <1>29. CASE UNCHANGED vars
    BY <1>29 DEF vars
  <1> QED
    BY <1>1, <1>2, <1>3, <1>4, <1>5, <1>6, <1>7, <1>8, <1>9, <1>10, <1>11, <1>12,
       <1>13, <1>14, <1>15, <1>16, <1>17, <1>18, <1>19, <1>20, <1>21, <1>22, <1>23,
       <1>24, <1>25, <1>26, <1>27, <1>28, <1>29
       DEF Next, RequestStep, JobStep, CancelStep, Mishap

-----------------------------------------------------------------------------
(* The theorems. *)

\* The initial states satisfy the invariant.
LEMMA Initial ==
    ASSUME Init
    PROVE  IInv
  <1>1. TypeOK /\ CancelType /\ Scheduled /\ Claimed /\ Deleted
    <2>1. TypeOK
      <3>0. faults = 0 /\ excused = {} /\ takenOver = FALSE
        BY DEF Init
      <3>1. faults \in 0 .. MaxFaults /\ takenOver \in BOOLEAN /\ excused \subseteq Requests
        <4>1. faults \in 0 .. MaxFaults
          BY <3>0, DraftAssumption
        <4> QED BY <3>0, <4>1
      <3>2. queued \in [by : Anyone, stale : BOOLEAN] /\ jobId = NoOne
        BY DEF Init, None, Anyone
      <3>3. deleted \in [Requests -> BOOLEAN]
        BY DEF Init
      <3> QED BY <3>1, <3>2, <3>3 DEF Init, TypeOK, Anyone
    <2>2. CancelType
      BY DEF Init, CancelType, Anyone
    <2>3. Scheduled /\ Claimed /\ Deleted
      BY DraftAssumption DEF Init, Scheduled, Claimed, Deleted, None, Anyone
    <2> QED BY <2>1, <2>2, <2>3
  <1>2. HoldersClaim /\ Undisturbed
    BY DEF Init, HoldersClaim, Held, Undisturbed, HasHold, Uncleared
  <1> QED BY <1>1, <1>2 DEF IInv

\* Every step keeps the invariant.
LEMMA Inductive ==
    ASSUME IInv, [Next]_vars
    PROVE  IInv'
  <1>1. TypeOK' /\ CancelType'
    BY TypeStep DEF IInv
  <1>2. Scheduled'
    BY ScheduledStep DEF IInv
  <1>3. Claimed'
    BY ClaimedStep DEF IInv
  <1>4. Deleted'
    BY DeletedStep DEF IInv
  <1>5. HoldersClaim'
    BY HoldersStep
  <1>6. Undisturbed'
    BY UndisturbedStep
  <1> QED BY <1>1, <1>2, <1>3, <1>4, <1>5, <1>6 DEF IInv

\* The project secret names requests that exist and jobs that were scheduled,
\* however requests, jobs, cancels and crashes interleave.
THEOREM DraftTypeCorrect == Spec => []TypeOK
  <1>1. Init => IInv
    BY Initial
  <1>2. IInv /\ [Next]_vars => IInv'
    BY Inductive
  <1>3. IInv => TypeOK
    BY DEF IInv
  <1> QED BY <1>1, <1>2, <1>3, PTL DEF Spec

\* A request that goes on after it has claimed, or a build on its way to Serval,
\* has the claim in PreTranslationQueuedAt, unless one of the races that excused
\* names has taken it; and none of them happens before a cancel has cleared the
\* fields, a stale claim is taken over, or something fails (MachineApiService.cs,
\* MachineProjectService.cs).
THEOREM BuildsHaveClaim == Spec => []BuildHasClaim
  <1>1. Init => IInv
    BY Initial
  <1>2. IInv /\ [Next]_vars => IInv'
    BY Inductive
  <1>3. IInv => BuildHasClaim
    <2> SUFFICES ASSUME IInv, NEW r \in Requests, queued.by # r,
                        request[r] \in {"delete", "check", "schedule"} \/ OnItsWay(r)
                 PROVE  r \in excused /\ Disturbed
      BY DEF BuildHasClaim
    <2>1. Held(r)
      BY DEF OnItsWay, Held, Uncleared
    <2>2. r \in excused
      BY <2>1 DEF IInv, HoldersClaim
    <2> QED BY <2>2 DEF IInv, Undisturbed
  <1> QED BY <1>1, <1>2, <1>3, PTL DEF Spec

-----------------------------------------------------------------------------
(* DraftBuild and FinishedBuilds together. *)

\* A build is put into the queue of retrievals once, and once more only for a
\* fault: the poller processes again what it has not recorded.
Tally ==
    /\ pending <= recorded + faults + IF poller.save THEN 1 ELSE 0
    /\ poller.save => recorded < poller.last

\* The type of FinishedBuilds but for the bound on pending, which Tally gives.
ResultType ==
    /\ finished \in 0 .. MaxBuilds /\ completed \subseteq 1 .. finished
    /\ poller \in [last : 0 .. finished, save : BOOLEAN]
    /\ recorded \in 0 .. poller.last
    /\ pending \in Nat
    /\ retriever \in completed \cup {0} /\ drafts \in completed \cup {0}
    /\ retriever # 0 => pending > 0
    /\ retrieved \in {"unset", "false", "true"}
    /\ faults \in 0 .. MaxFaults

Both == IInv /\ ResultType /\ Tally /\ (part = "request" => pending = 0)

\* Each step of the poller and the retrieval keeps types and tally.
LEMMA ResultStep ==
    ASSUME ResultType, Tally, Results!Next
    PROVE  ResultType' /\ Tally'
  <1> USE BuildsAssumption, DraftAssumption DEF ResultType, Tally, Results!Fault,
          Results!serval, Results!Due, Results!Polled, Results!Enqueue
  <1>1. CASE Results!BuildEnds
    BY <1>1 DEF Results!BuildEnds
  <1>2. CASE Results!Process
    BY <1>2 DEF Results!Process
  <1>3. CASE Results!ProcessFails
    <2> DEFINE extra == IF poller.save THEN 1 ELSE 0
    <2>1. /\ UNCHANGED <<finished, completed, poller, recorded, retriever, retrieved, drafts>>
          /\ faults < MaxFaults /\ faults' = faults + 1
          /\ pending' = pending + 1 \/ pending' = pending
      BY <1>3 DEF Results!ProcessFails
    <2>2. /\ pending \in Nat /\ recorded \in Nat /\ faults \in Nat /\ extra \in Nat
          /\ pending <= recorded + faults + extra
      <3>1. recorded \in Nat
        OBVIOUS
      <3> QED BY <3>1
    <2>3. faults' \in 0 .. MaxFaults /\ pending' \in Nat
      BY <2>1, <2>2
    <2>4. pending' <= recorded + faults' + extra
      <3> HIDE DEF extra
      <3> QED BY <2>1, <2>2
    <2>5. Tally'
      BY <2>1, <2>4
    <2>6. retriever # 0 => pending' > 0
      BY <2>1, <2>2
    <2>7. ResultType'
      <3> HIDE DEF Tally, extra
      <3> QED BY <2>1, <2>3, <2>6
    <2> QED BY <2>5, <2>7
  <1>4. CASE Results!Record
    <2>1. /\ poller.save /\ UNCHANGED <<finished, completed, pending, retriever, retrieved, drafts>>
          /\ poller' = [poller EXCEPT !.save = FALSE]
          /\ \/ recorded' = poller.last /\ faults' = faults
             \/ recorded' = recorded /\ faults < MaxFaults /\ faults' = faults + 1
      BY <1>4 DEF Results!Record
    <2>2. /\ poller'.last = poller.last /\ ~ poller'.save
          /\ poller' \in [last : 0 .. finished, save : BOOLEAN]
      BY <2>1
    <2>3. /\ recorded \in Nat /\ poller.last \in Nat /\ pending \in Nat /\ faults \in Nat
          /\ pending <= recorded + faults + 1 /\ recorded < poller.last
      BY <2>1
    <2>4. recorded' \in 0 .. poller'.last /\ faults' \in 0 .. MaxFaults
      BY <2>1, <2>2, <2>3
    <2>5. pending' <= recorded' + faults'
      BY <2>1, <2>3
    <2>6. ResultType'
      <3> HIDE DEF Tally
      <3> QED BY <2>1, <2>2, <2>4
    <2>7. Tally'
      <3>1. recorded' + faults' + (IF poller'.save THEN 1 ELSE 0) = recorded' + faults'
        <4>1. recorded' + faults' \in Nat
          BY <2>1, <2>3
        <4>2. \A n \in Nat : n + 0 = n
          OBVIOUS
        <4> QED BY <2>2, <4>1, <4>2
      <3> QED BY <2>2, <2>5, <3>1
    <2> QED BY <2>6, <2>7
  <1>5. CASE Results!Skip
    BY <1>5 DEF Results!Skip
  <1>6. CASE Results!Retrieve
    BY <1>6 DEF Results!Retrieve
  <1>7. CASE Results!Store
    BY <1>7 DEF Results!Store
  <1>8. CASE Results!RetrieveFails
    BY <1>8 DEF Results!RetrieveFails
  <1>9. CASE Results!Crash
    BY <1>9 DEF Results!Crash
  <1> QED
    BY <1>1, <1>2, <1>3, <1>4, <1>5, <1>6, <1>7, <1>8, <1>9 DEF Results!Next

\* Faults are only counted up.
LEMMA FaultsGrow ==
    ASSUME ResultType, Results!Next
    PROVE  faults' >= faults
  <1>1. faults \in Nat /\ (faults' = faults \/ faults' = faults + 1)
    BY DraftAssumption
       DEF ResultType, Results!Next, Results!BuildEnds, Results!Process, Results!ProcessFails,
           Results!Record, Results!Skip, Results!Retrieve, Results!Store,
           Results!RetrieveFails, Results!Crash, Results!Fault
  <1> QED BY <1>1

\* The faults of one are not the business of the other.
LEMMA OtherRests ==
    ASSUME IInv, UNCHANGED <<secret, chain>>, faults' \in 0 .. MaxFaults, faults' >= faults
    PROVE  IInv'
  <1>1. TypeOK' /\ CancelType' /\ Scheduled' /\ Claimed' /\ Deleted' /\ HoldersClaim'
    BY DEF IInv, TypeOK, CancelType, Scheduled, Claimed, Deleted, HoldersClaim, Held,
       Uncleared, secret, chain, history, Anyone
  <1>2. Disturbed => Disturbed'
    BY DraftAssumption DEF Disturbed, IInv, TypeOK, secret, chain, history
  <1>3. Undisturbed'
    BY <1>2 DEF IInv, Undisturbed, HasHold, Uncleared, secret, chain, history
  <1> QED BY <1>1, <1>3 DEF IInv

LEMMA BothStep ==
    ASSUME Both, [BothNext]_allVars
    PROVE  Both'
  <1> USE DEF Both
  <1>1. CASE part = "request" /\ Next
            /\ UNCHANGED <<finished, completed, poller, recorded, pending, retriever, retrieved, drafts>>
            /\ UNCHANGED part
    <2>1. IInv'
      BY <1>1, Inductive
    <2>2. faults' \in 0 .. MaxFaults
      BY <2>1 DEF IInv, TypeOK
    <2>3. ResultType'
      BY <1>1, <2>2 DEF ResultType
    <2>4. Tally'
      <3>1. recorded \in Nat /\ faults' \in Nat /\ pending = 0
        BY <1>1, <2>2 DEF ResultType
      <3> DEFINE extra == IF poller.save THEN 1 ELSE 0
      <3>2. extra \in Nat
        OBVIOUS
      <3>3. 0 <= recorded + faults' + extra
        <4> DEFINE k == faults'
        <4>1. k \in Nat
          BY <3>1
        <4> HIDE DEF extra, k
        <4>2. 0 <= recorded + k + extra
          BY <3>1, <3>2, <4>1
        <4> QED BY <4>2 DEF k
      <3> QED BY <1>1, <3>1, <3>3 DEF Tally
    <2> QED BY <1>1, <2>1, <2>3, <2>4
  <1>2. CASE part = "result" /\ Results!Next /\ UNCHANGED <<secret, chain, part>>
    <2>1. ResultType' /\ Tally'
      BY <1>2, ResultStep
    <2>2. faults' >= faults
      BY <1>2, FaultsGrow
    <2>3. IInv'
      BY <1>2, <2>1, <2>2, OtherRests DEF ResultType
    <2> QED BY <1>2, <2>1, <2>3
  <1>3. CASE UNCHANGED allVars
    <2>1. UNCHANGED <<secret, chain, faults, part>>
          /\ UNCHANGED <<finished, completed, poller, recorded, pending, retriever, retrieved, drafts>>
      BY <1>3 DEF allVars, vars, Results!vars, Results!serval
    <2>2. faults' >= faults /\ faults' \in 0 .. MaxFaults
      BY <2>1, DraftAssumption DEF ResultType
    <2>3. IInv'
      BY <2>1, <2>2, OtherRests
    <2> QED BY <2>1, <2>3 DEF ResultType, Tally
  <1> QED BY <1>1, <1>2, <1>3 DEF BothNext

\* The types of both parts, for any number of builds: above all no build is put
\* into Hangfire's queue again but for a crash or a call that failed
\* (MachineBackgroundService), so that the queue is never longer than both.
THEOREM DraftsTypeCorrect == BothSpec => []TypesOK
  <1>1. MCInit => Both
    <2> SUFFICES ASSUME MCInit PROVE Both
      OBVIOUS
    <2>1. IInv
      BY Initial DEF MCInit
    <2>2. ResultType /\ Tally /\ pending = 0
      BY BuildsAssumption, DraftAssumption DEF MCInit, Init, Results!Init, ResultType, Tally
    <2> QED BY <2>1, <2>2 DEF Both
  <1>2. Both /\ [BothNext]_allVars => Both'
    BY BothStep
  <1>3. Both => TypesOK
    <2> SUFFICES ASSUME Both PROVE TypeOK /\ Results!TypeOK
      BY DEF TypesOK
    <2>1. pending \in 0 .. MaxBuilds + MaxFaults
      BY BuildsAssumption, DraftAssumption DEF Both, ResultType, Tally
    <2> QED BY <2>1 DEF Both, IInv, ResultType, Results!TypeOK
  <1> QED BY <1>1, <1>2, <1>3, PTL DEF BothSpec
=============================================================================
