---------------------------- MODULE SyncRepoProofs ----------------------------
(***************************************************************************)
(* Proofs about SyncRepo: that no sync reverts an edit, that the recorded  *)
(* revision can be restored, that what is marked as in sync is, and that   *)
(* no revision is sent without a cause, for any edits, texts and any       *)
(* number of mishaps.                                                      *)
(***************************************************************************)
EXTENDS SyncRepo, SequenceTheorems, FiniteSetTheorems, TLAPS

\* The type of the state, without the bound on the number of revisions.
Runs == [pc : Steps, synced : 0 .. Public, error : BOOLEAN, canRollback : BOOLEAN,
         fetched : SUBSET Edits, queue : Seq(Deltas \cup Records), ok : BOOLEAN,
         second : BOOLEAN, closed : BOOLEAN, inSync : BOOLEAN, moved : 0 .. Public]

Typed ==
    /\ history \in Seq(SUBSET Edits) /\ history # <<>>
    /\ repo \in 0 .. Public
    /\ backup \in 0 .. Public
    /\ work \in [base : Revisions, files : SUBSET Edits]
    /\ texts \subseteq Edits
    /\ project \in [synced : Revisions, inSync : BOOLEAN, error : BOOLEAN]
    /\ run \in Runs
    /\ mishaps \subseteq Kinds
    /\ count \in 0 .. MaxMishaps

\* A run that has read the project doc and has not changed the repository's
\* record of it, and one that has what it will commit.
Reading == run.pc \in {"backup", "revision", "write", "send", "docs"}
Delivering == run.pc \in {"bundle", "move", "commit"} \/ (At("complete") /\ run.ok)

\* What a run holds of the repository is there, and it begins with nothing done.
Present ==
    /\ At("idle") \/ At("init") => ~run.ok
    /\ Reading => run.synced \in Revisions
    /\ At("docs") \/ Delivering => repo \in Revisions
    /\ At("restore") => backup \in Revisions
    /\ \A i \in DOMAIN run.queue :
          run.queue[i] \in Records => run.queue[i].revision \in Revisions

Undenied == "denied" \notin mishaps

\* Every revision has the edits of those before it.
Grows == \A m, n \in Revisions : m <= n => Revision(m) \subseteq Revision(n)

\* The texts have the recorded revision, and a run works on from there: what
\* it writes over the repository has the revision's edits, and what it
\* receives has all it has fetched.
FromRecorded ==
    /\ ~project.error /\ ~run.error
    /\ Grows
    /\ Revision(project.synced) \subseteq texts
    /\ Reading => run.synced = project.synced
    /\ At("write") \/ At("send") => work.base = run.synced
    /\ At("send") => work.files = run.fetched /\ Revision(work.base) \subseteq run.fetched
    /\ At("docs") => /\ work.base = repo /\ work.files = Revision(repo)
                     /\ run.fetched \subseteq work.files
    /\ At("send") \/ At("docs") => run.fetched \subseteq texts

\* The edits the first i operations of the queue add.
Adds(i) == {e \in Edits : \E j \in DOMAIN run.queue :
                j <= i /\ run.queue[j] \in Deltas /\ e \in run.queue[j].add}

\* The queue drops nothing, and what a revision has is in the texts when it is
\* recorded.
SafeQueue ==
    /\ \A i \in DOMAIN run.queue : run.queue[i] \in Deltas => run.queue[i].drop = {}
    /\ \A i \in DOMAIN run.queue :
          run.queue[i] \in Records =>
              Revision(run.queue[i].revision) \subseteq texts \cup Adds(i)
    /\ At("complete") => Revision(repo) \subseteq texts \cup Adds(Len(run.queue))

TextsKept == Undenied => FromRecorded /\ (Delivering => SafeQueue)

\* No record is ahead of the repository or of its backup.
Backed == mishaps \cap {"denied", "backup"} = {}

Restorable ==
    Backed =>
        /\ repo # 0 => project.synced <= repo
        /\ backup # 0 => project.synced <= backup
        /\ At("restore") => project.synced <= run.moved
        /\ Delivering => \A i \in DOMAIN run.queue :
              run.queue[i] \in Records =>
                  /\ run.queue[i].revision <= repo
                  /\ At("commit") /\ backup # 0 => run.queue[i].revision <= backup
        /\ At("move") => backup = 0

IInv == Typed /\ Present /\ TextsKept /\ Restorable

-----------------------------------------------------------------------------
(* Types. *)

\* An appended revision leaves those before it where they are.
LEMMA Appended ==
    ASSUME history \in Seq(SUBSET Edits), NEW x \in SUBSET Edits,
           history' = Append(history, x)
    PROVE  /\ history' \in Seq(SUBSET Edits) /\ history' # <<>>
           /\ Public' = Public + 1
           /\ Revisions' = 1 .. Public + 1
           /\ \A n \in Revisions : history'[n] = history[n]
           /\ history'[Public + 1] = x
           /\ Last(history') = x
  BY DEF Public, Revisions, Last

\* The revisions of a well-typed history.
LEMMA LastRevision ==
    ASSUME Typed
    PROVE  /\ Public \in Revisions /\ Revisions = 1 .. Public /\ Public \in Nat \ {0}
           /\ Last(history) = Revision(Public) /\ Last(history) \in SUBSET Edits
           /\ \A n \in Revisions : Revision(n) \in SUBSET Edits
  BY DEF Typed, Public, Revisions, Last, Revision

\* A merge is of edits.
LEMMA MergeType ==
    ASSUME NEW base \in SUBSET Edits, NEW mine \in SUBSET Edits, NEW theirs \in SUBSET Edits
    PROVE  Merge(base, mine, theirs) \in SUBSET Edits
  BY DEF Merge

\* What a send/receive makes of the server's history.
LEMMA SharedType ==
    ASSUME Typed, history' = Shared
    PROVE  /\ history' \in Seq(SUBSET Edits) /\ history' # <<>>
           /\ Public' \in Nat /\ Public <= Public'
           /\ Revisions' = 1 .. Public' /\ Public' \in Revisions'
           /\ Last(history') = history'[Public'] /\ Last(history') \in SUBSET Edits
           /\ \A n \in Revisions : n \in Revisions' /\ history'[n] = history[n]
  <1>1. CASE history' = history
    BY <1>1, LastRevision DEF Typed, Public, Revisions, Revision, Last
  <1>2. CASE history' # history
    <2> DEFINE x == Merge(Revision(work.base), work.files, Last(history))
    <2>1. history' = Append(history, x)
      BY <1>2 DEF Shared
    <2>2. x \in SUBSET Edits
      BY LastRevision, MergeType DEF Typed
    <2> HIDE DEF x
    <2>3. /\ history' \in Seq(SUBSET Edits) /\ history' # <<>>
          /\ Public' = Public + 1
          /\ Revisions' = 1 .. Public + 1
          /\ \A n \in Revisions : history'[n] = history[n]
          /\ history'[Public + 1] = Last(history')
          /\ Last(history') \in SUBSET Edits
      <3>1. history \in Seq(SUBSET Edits)
        BY DEF Typed
      <3> QED BY <2>1, <2>2, <3>1, Appended
    <2>4. Public \in Nat /\ Revisions = 1 .. Public
      BY LastRevision
    <2> QED BY <2>3, <2>4
  <1> QED BY <1>1, <1>2

\* When the history grows by revisions at its end, what is not written keeps
\* its type.
Longer == /\ history' \in Seq(SUBSET Edits) /\ history' # <<>>
          /\ Public' \in Nat /\ Public <= Public'
          /\ Revisions' = 1 .. Public'
          /\ \A n \in Revisions : n \in Revisions' /\ history'[n] = history[n]

\* What is typed stays so when the history grows.
LEMMA LongerType ==
    ASSUME Typed, Longer
    PROVE  /\ repo \in 0 .. Public' /\ backup \in 0 .. Public'
           /\ work \in [base : Revisions', files : SUBSET Edits]
           /\ project \in [synced : Revisions', inSync : BOOLEAN, error : BOOLEAN]
           /\ \A r \in Runs : r \in [pc : Steps, synced : 0 .. Public', error : BOOLEAN,
                 canRollback : BOOLEAN, fetched : SUBSET Edits,
                 queue : Seq(Deltas \cup Records), ok : BOOLEAN, second : BOOLEAN,
                 closed : BOOLEAN, inSync : BOOLEAN, moved : 0 .. Public']
  <1>1. Public \in Nat /\ Revisions = 1 .. Public
    BY LastRevision
  <1>2. \A n \in 0 .. Public : n \in 0 .. Public'
    BY <1>1 DEF Longer
  <1>3. \A n \in Revisions : n \in Revisions'
    BY DEF Longer
  <1>4. work.base \in Revisions' /\ project.synced \in Revisions'
    BY <1>3 DEF Typed
  <1> QED BY <1>2, <1>4 DEF Typed, Runs

\* A history that stays is one that has grown.
LEMMA SameHistory ==
    ASSUME Typed, history' = history
    PROVE  Longer /\ Public' = Public /\ Revisions' = Revisions /\ Runs' = Runs
  <1>1. Public' = Public /\ Revisions' = Revisions
    BY DEF Public, Revisions
  <1> QED BY <1>1, LastRevision DEF Typed, Longer, Runs

\* A mishap is of a known kind, and counted.
LEMMA MishapType ==
    ASSUME Typed, NEW kind \in Kinds, Mishap(kind)
    PROVE  mishaps' \subseteq Kinds /\ count' \in 0 .. MaxMishaps
  <1>1. MaxMishaps \in Nat /\ count \in 0 .. MaxMishaps /\ count < MaxMishaps /\ count' = count + 1
    BY RepoAssumption DEF Typed, Mishap
  <1>2. count' \in 0 .. MaxMishaps
    BY <1>1
  <1> QED BY <1>2 DEF Typed, Mishap

\* A step that goes well leaves mishaps as they are.
LEMMA WellType ==
    ASSUME Typed, Well
    PROVE  mishaps' \subseteq Kinds /\ count' \in 0 .. MaxMishaps
  BY DEF Typed, Well

\* Between runs there is a run that has done nothing.
LEMMA IdleType ==
    ASSUME Typed
    PROVE  IdleRun \in Runs
  <1>1. 0 \in 0 .. Public
    BY LastRevision
  <1>2. << >> \in Seq(Deltas \cup Records)
    OBVIOUS
  <1> QED BY <1>1, <1>2 DEF IdleRun, Runs, Steps

\* An exception leaves a run a run.
LEMMA ThrowType ==
    ASSUME Typed, NEW r \in Runs
    PROVE  Throw(r) \in Runs
  BY IdleType DEF Throw, Runs, Steps

\* So does the end of a transaction.
LEMMA RollbackType ==
    ASSUME Typed, NEW r \in Runs, NEW b \in BOOLEAN
    PROVE  Rollback(r, b) \in Runs
  <1>1. << >> \in Seq(Deltas \cup Records)
    OBVIOUS
  <1> QED BY <1>1, IdleType DEF Rollback, Runs, Steps

\* The operations of a queue are of two kinds.
LEMMA DeltaNoRecord ==
    ASSUME NEW op \in Deltas
    PROVE  op \notin Records
  <1>1. DOMAIN op = {"text", "add", "drop"}
    BY DEF Deltas
  <1>2. \A r \in Records : DOMAIN r = {"revision"}
    BY DEF Records
  <1> QED BY <1>1, <1>2

\* The delta of a text is an operation.
LEMMA DeltaType ==
    ASSUME Typed, NEW t \in Texts
    PROVE  Delta(t) \in Deltas
  BY DEF Typed, Runs, Delta, Deltas

\* The changed texts in any order: each is there.
LEMMA OrderType ==
    ASSUME NEW S, IsFiniteSet(S), NEW order \in SetToSeqs(S)
    PROVE  /\ order \in Seq(S) /\ DOMAIN order = 1 .. Len(order)
           /\ \A t \in S : \E i \in DOMAIN order : order[i] = t
  <1> DEFINE n == Cardinality(S)
  <1>1. n \in Nat
    BY FS_CardinalityType
  <1>2. order \in Injection(1 .. n, S)
    BY DEF SetToSeqs, Injection, IsInjective
  <1>3. Cardinality(1 .. n) = n
    BY <1>1, FS_Interval
  <1>4. order \in Surjection(1 .. n, S)
    BY <1>2, <1>3, FS_Injection
  <1>5. order \in [1 .. n -> S]
    BY <1>2 DEF Injection
  <1> QED BY <1>1, <1>4, <1>5 DEF Surjection

\* What UpdateDocs queues.
LEMMA UpdateType ==
    ASSUME Typed, UpdateDocs
    PROVE  /\ run'.queue \in Seq(Deltas)
           /\ run' = [run EXCEPT !.pc = "complete", !.ok = TRUE, !.queue = run'.queue]
           /\ \A i \in DOMAIN run'.queue : \E t \in Texts : run'.queue[i] = Delta(t)
           /\ \A t \in Texts : Changed(t) =>
                  \E i \in DOMAIN run'.queue : run'.queue[i] = Delta(t)
  <1> DEFINE S == {t \in Texts : Changed(t)}
  <1>1. PICK order \in SetToSeqs(S) :
            run' = [run EXCEPT !.pc = "complete", !.ok = TRUE,
                               !.queue = [i \in DOMAIN order |-> Delta(order[i])]]
    BY DEF UpdateDocs
  <1>2. IsFiniteSet(S)
    BY RepoAssumption, FS_Subset
  <1>3. /\ order \in Seq(S) /\ DOMAIN order = 1 .. Len(order)
        /\ \A t \in S : \E i \in DOMAIN order : order[i] = t
    BY <1>2, OrderType
  <1> DEFINE q == [i \in DOMAIN order |-> Delta(order[i])]
  <1>4. \A i \in DOMAIN order : order[i] \in Texts
    BY <1>3
  <1>5. q \in Seq(Deltas) /\ DOMAIN q = DOMAIN order
    <2>1. \A i \in DOMAIN order : Delta(order[i]) \in Deltas
      BY <1>4, DeltaType
    <2> QED BY <1>3, <2>1
  <1>6. run'.queue = q
    BY <1>1 DEF Typed, Runs
  <1>7. \A t \in Texts : Changed(t) => \E i \in DOMAIN q : q[i] = Delta(t)
    BY <1>3, <1>5
  <1>8. \A i \in DOMAIN q : \E t \in Texts : q[i] = Delta(t)
    BY <1>4, <1>5
  <1> HIDE DEF q
  <1> QED BY <1>1, <1>5, <1>6, <1>7, <1>8 DEF q

\* The first operation leaves the queue, and is carried out.
LEMMA TailType ==
    ASSUME Typed, run.queue # << >>
    PROVE  /\ [run EXCEPT !.queue = Tail(@)] \in Runs
           /\ Head(run.queue) \in Deltas \cup Records
           /\ Head(run.queue) = run.queue[1] /\ 1 \in DOMAIN run.queue
           /\ Len(Tail(run.queue)) = Len(run.queue) - 1
           /\ DOMAIN Tail(run.queue) = 1 .. Len(run.queue) - 1
           /\ \A i \in DOMAIN Tail(run.queue) :
                  i + 1 \in DOMAIN run.queue /\ Tail(run.queue)[i] = run.queue[i + 1]
  <1>1. run.queue \in Seq(Deltas \cup Records)
    BY DEF Typed, Runs
  <1>2. Tail(run.queue) \in Seq(Deltas \cup Records)
    BY <1>1
  <1> HIDE DEF Deltas, Records
  <1>3. [run EXCEPT !.queue = Tail(@)] \in Runs
    BY <1>2 DEF Typed, Runs
  <1> QED BY <1>1, <1>3

\* What sending an operation makes of the documents.
LEMMA SendType ==
    ASSUME Typed, Present, run.queue # << >>, Send(Head(run.queue))
    PROVE  /\ texts' \subseteq Edits
           /\ project' \in [synced : Revisions, inSync : BOOLEAN, error : BOOLEAN]
  <1>1. CASE Head(run.queue) \in Records
    <2>1. Head(run.queue).revision \in Revisions
      BY <1>1, TailType DEF Present
    <2> QED BY <1>1, <2>1 DEF Send, Typed
  <1>2. CASE Head(run.queue) \notin Records
    BY <1>2, TailType DEF Send, Typed, Deltas
  <1> QED BY <1>1, <1>2

\* Every step keeps the types.
LEMMA TypeStep ==
    ASSUME Typed, Present, [Next]_vars
    PROVE  Typed'
  <1>0. /\ Public \in Nat \ {0} /\ Revisions = 1 .. Public /\ run \in Runs
        /\ project.synced \in 0 .. Public /\ project.error \in BOOLEAN
    BY LastRevision DEF Typed
  <1>1. ASSUME NEW e \in ParatextEdits, ParatextUser(e) PROVE Typed'
    <2> DEFINE x == Last(history) \cup {e}
    <2>1. x \in SUBSET Edits /\ history' = Append(history, x)
      BY <1>1, LastRevision DEF ParatextUser, Edits
    <2> HIDE DEF x
    <2>2. Longer
      <3>1. history \in Seq(SUBSET Edits)
        BY DEF Typed
      <3>2. /\ history' \in Seq(SUBSET Edits) /\ history' # <<>>
            /\ Public' = Public + 1
            /\ Revisions' = 1 .. Public + 1
            /\ \A n \in Revisions : history'[n] = history[n]
        BY <2>1, <3>1, Appended
      <3> QED BY <1>0, <3>2 DEF Longer
    <2> QED BY <1>1, <2>2, LongerType DEF ParatextUser, Typed, Longer, Runs
  <1>2. ASSUME NEW e \in ForgeEdits, ForgeUser(e) PROVE Typed'
    BY <1>2, SameHistory DEF ForgeUser, Typed, Edits, Longer
  <1>3. CASE Start
    <2>1. run' \in Runs
      BY <1>0, <1>3 DEF Start, Goto, Runs, Steps
    <2> QED BY <1>3, <2>1, SameHistory, WellType DEF Start, stores, Typed, Longer
  <1>4. CASE InitSync
    <2>1. run' \in Runs
      BY <1>0, <1>4 DEF InitSync, Runs, Steps
    <2> QED BY <1>4, <2>1, SameHistory, WellType DEF InitSync, stores, Typed, Longer
  <1>5. CASE Denied
    <2>1. run' \in Runs
      BY <1>0, <1>5 DEF Denied, Runs, Steps
    <2>2. project' \in [synced : Revisions, inSync : BOOLEAN, error : BOOLEAN]
      BY <1>5 DEF Denied, Typed
    <2>3. mishaps' \subseteq Kinds /\ count' \in 0 .. MaxMishaps
      BY <1>5, MishapType DEF Denied, Kinds
    <2> QED BY <1>5, <2>1, <2>2, <2>3, SameHistory DEF Denied, Typed, Longer
  <1>6. CASE FirstBackup
    <2>1. run' \in Runs
      BY <1>0, <1>6 DEF FirstBackup, Goto, Runs, Steps
    <2>2. backup' \in 0 .. Public
      BY <1>6 DEF FirstBackup, Typed
    <2>3. mishaps' \subseteq Kinds /\ count' \in 0 .. MaxMishaps
      BY <1>6, WellType, MishapType DEF FirstBackup, Kinds
    <2> QED BY <1>6, <2>1, <2>2, <2>3, SameHistory DEF FirstBackup, Typed, Longer
  <1>7. CASE SetRevision
    <2>1. run' \in Runs
      BY <1>0, <1>7 DEF SetRevision, Goto, Runs, Steps
    <2>2. work' \in [base : Revisions, files : SUBSET Edits]
      BY <1>7, LastRevision DEF SetRevision, Present, Reading, At, Typed
    <2> QED BY <1>7, <2>1, <2>2, SameHistory, WellType DEF SetRevision, Typed, Longer
  <1>8. CASE NoRevision
    <2>1. run' \in Runs
      BY <1>0, <1>8, ThrowType DEF NoRevision
    <2> QED BY <1>8, <2>1, SameHistory, WellType DEF NoRevision, stores, Typed, Longer
  <1>9. CASE WriteBooks
    <2>1. run' \in Runs
      BY <1>0, <1>9 DEF WriteBooks, Typed, Runs, Steps
    <2>2. work' \in [base : Revisions, files : SUBSET Edits]
      BY <1>9 DEF WriteBooks, Typed
    <2> QED BY <1>9, <2>1, <2>2, SameHistory, WellType DEF WriteBooks, Typed, Longer
  <1>10. CASE SendReceive
    <2>1. Longer /\ Public' \in Revisions' /\ Last(history') \in SUBSET Edits
      BY <1>10, SharedType DEF SendReceive, Longer
    <2>2. run' \in Runs
      BY <1>0, <1>10 DEF SendReceive, Goto, Runs, Steps
    <2>3. run' \in Runs'
      BY <2>1, <2>2, LongerType DEF Runs
    <2>4. repo' = Public' /\ work' = [base |-> Public', files |-> Last(history')]
      BY <1>10 DEF SendReceive, Public
    <2>5. repo' \in 0 .. Public' /\ work' \in [base : Revisions', files : SUBSET Edits]
      BY <2>1, <2>4 DEF Longer
    <2> QED BY <1>10, <2>1, <2>3, <2>5, LongerType, WellType DEF SendReceive, Typed, Longer
  <1>11. CASE SendFails
    <2>1. PICK h \in {history, Shared} : history' = h
      BY <1>11 DEF SendFails
    <2>2. Longer
      BY <2>1, SharedType, SameHistory DEF Longer
    <2>3. run' \in Runs'
      BY <1>0, <1>11, <2>2, ThrowType, LongerType DEF SendFails, Runs
    <2>4. repo' \in 0 .. Public'
      BY <1>11, <2>2, LongerType DEF SendFails, Public, Longer
    <2>5. mishaps' \subseteq Kinds /\ count' \in 0 .. MaxMishaps
      BY <1>11, MishapType DEF SendFails, Kinds
    <2> QED BY <1>11, <2>2, <2>3, <2>4, <2>5, LongerType DEF SendFails, Typed, Longer
  <1>12. CASE UpdateDocs
    <2>1. run' \in Runs
      <3>1. run'.queue \in Seq(Deltas \cup Records)
        BY <1>12, UpdateType
      <3> QED BY <1>0, <1>12, <3>1, UpdateType DEF Runs, Steps
    <2> QED BY <1>12, <2>1, SameHistory, WellType DEF UpdateDocs, stores, Typed, Longer
  <1>13. CASE Complete
    <2>1. run' \in Runs
      <3>1. Append(run.queue, [revision |-> repo]) \in Seq(Deltas \cup Records)
        BY <1>0 DEF Typed, Runs, Records
      <3>2. repo \in 0 .. Public
        BY DEF Typed
      <3>3. CASE run.error
        BY <1>0, <1>13, <3>2, <3>3 DEF Complete, Runs, Steps
      <3>4. CASE ~run.error
        BY <1>0, <1>13, <3>1, <3>2, <3>4 DEF Complete, Runs, Steps
      <3> QED BY <3>3, <3>4
    <2>2. project' \in [synced : Revisions, inSync : BOOLEAN, error : BOOLEAN]
      BY <1>13 DEF Complete, Present, Delivering, At, Typed
    <2> QED BY <1>13, <2>1, <2>2, SameHistory, WellType DEF Complete, Typed, Longer
  <1>14. CASE RestoreMove
    <2>0. repo \in 0 .. Public /\ 0 \in 0 .. Public
      BY <1>0 DEF Typed
    <2>1. run' \in Runs
      BY <1>0, <1>14, <2>0 DEF RestoreMove, Runs, Steps
    <2> QED BY <1>14, <2>0, <2>1, SameHistory, WellType DEF RestoreMove, Typed, Longer
  <1>15. CASE RestoreNot
    <2>1. run' \in Runs
      BY <1>0, <1>15, RollbackType DEF RestoreNot
    <2> QED BY <1>15, <2>1, SameHistory, WellType DEF RestoreNot, stores, Typed, Longer
  <1>16. CASE RestoreDone
    <2>1. run' \in Runs
      BY <1>0, <1>16, RollbackType DEF RestoreDone
    <2>2. repo' \in 0 .. Public
      BY <1>0, <1>16 DEF RestoreDone, Typed, Runs
    <2>3. work' \in [base : Revisions, files : SUBSET Edits]
      <3>1. backup \in Revisions /\ Revision(backup) \in SUBSET Edits
        BY <1>16, LastRevision DEF RestoreDone, Present
      <3>2. work \in [base : Revisions, files : SUBSET Edits]
        BY DEF Typed
      <3>3. CASE work' = [base |-> backup, files |-> Revision(backup)]
        BY <3>1, <3>3
      <3>4. CASE work' = work
        BY <3>2, <3>4
      <3> QED BY <1>16, <3>3, <3>4 DEF RestoreDone
    <2>4. mishaps' \subseteq Kinds /\ count' \in 0 .. MaxMishaps
      BY <1>16, WellType, MishapType DEF RestoreDone, Kinds
    <2> QED BY <1>16, <2>1, <2>2, <2>3, <2>4, SameHistory DEF RestoreDone, Typed, Longer
  <1>17. CASE Bundle
    <2>0. backup' \in 0 .. Public
      BY <1>0, <1>17 DEF Bundle, Typed
    <2>1. run' \in Runs
      BY <1>0, <1>17 DEF Bundle, Goto, Runs, Steps
    <2>2. mishaps' \subseteq Kinds /\ count' \in 0 .. MaxMishaps
      BY <1>17, WellType, MishapType DEF Bundle, Kinds
    <2> QED BY <1>17, <2>0, <2>1, <2>2, SameHistory DEF Bundle, Typed, Longer
  <1>18. CASE Move
    <2>1. run' \in Runs /\ backup' \in 0 .. Public
      BY <1>0, <1>18 DEF Move, Goto, Runs, Steps, Typed
    <2>2. mishaps' \subseteq Kinds /\ count' \in 0 .. MaxMishaps
      BY <1>18, WellType, MishapType DEF Move, Kinds
    <2> QED BY <1>18, <2>1, <2>2, SameHistory DEF Move, Typed, Longer
  <1>19. CASE CommitStep
    <2>1. run' \in Runs
      BY <1>0, <1>19, TailType DEF CommitStep
    <2>2. /\ texts' \subseteq Edits
          /\ project' \in [synced : Revisions, inSync : BOOLEAN, error : BOOLEAN]
      BY <1>0, <1>19, SendType DEF CommitStep
    <2> QED BY <1>19, <2>1, <2>2, SameHistory, WellType DEF CommitStep, Typed, Longer
  <1>20. CASE CommitFails
    <2>1. run' \in Runs
      BY <1>0, <1>20, TailType, ThrowType DEF CommitFails
    <2>2. /\ texts' \subseteq Edits
          /\ project' \in [synced : Revisions, inSync : BOOLEAN, error : BOOLEAN]
      BY <1>0, <1>20, SendType DEF CommitFails, Typed
    <2>3. mishaps' \subseteq Kinds /\ count' \in 0 .. MaxMishaps
      BY <1>20, MishapType DEF CommitFails, Kinds
    <2> QED BY <1>20, <2>1, <2>2, <2>3, SameHistory DEF CommitFails, Typed, Longer
  <1>21. CASE CommitDone
    <2>1. run' \in Runs
      BY <1>0, <1>21 DEF CommitDone, Runs, Steps
    <2> QED BY <1>21, <2>1, SameHistory, WellType DEF CommitDone, stores, Typed, Longer
  <1>22. CASE Close
    <2>1. run' \in Runs
      BY <1>22, IdleType DEF Close
    <2>2. project' \in [synced : Revisions, inSync : BOOLEAN, error : BOOLEAN]
      BY <1>22 DEF Close, Typed, Runs
    <2> QED BY <1>22, <2>1, <2>2, SameHistory, WellType DEF Close, Typed, Longer
  <1>23. CASE Exception
    <2>1. run' \in Runs
      BY <1>0, <1>23, ThrowType DEF Exception
    <2>2. mishaps' \subseteq Kinds /\ count' \in 0 .. MaxMishaps
      BY <1>23, MishapType DEF Exception, Kinds
    <2> QED BY <1>23, <2>1, <2>2, SameHistory DEF Exception, stores, Typed, Longer
  <1>24. CASE Abandon
    <2>1. run' \in Runs
      BY <1>24, IdleType DEF Abandon
    <2>2. mishaps' \subseteq Kinds /\ count' \in 0 .. MaxMishaps
      BY <1>24, MishapType DEF Abandon, Kinds
    <2> QED BY <1>24, <2>1, <2>2, SameHistory DEF Abandon, stores, Typed, Longer
  <1>25. CASE UNCHANGED vars
    BY <1>25, SameHistory DEF vars, stores, Typed, Longer
  <1> QED
    BY <1>1, <1>2, <1>3, <1>4, <1>5, <1>6, <1>7, <1>8, <1>9, <1>10, <1>11, <1>12, <1>13,
       <1>14, <1>15, <1>16, <1>17, <1>18, <1>19, <1>20, <1>21, <1>22, <1>23, <1>24, <1>25
       DEF Next, RunStep
-----------------------------------------------------------------------------
(* What a run holds of the repository is there. *)

\* A run that has ended holds nothing.
LEMMA IdlePresent ==
    ASSUME run' = IdleRun
    PROVE  Present' /\ run'.queue = << >> /\ ~Delivering' /\ ~Reading' /\ ~At("restore")' /\ ~At("complete")'
           /\ ~At("move")' /\ ~At("write")' /\ ~At("send")' /\ ~At("docs")' /\ ~run'.error
  BY DEF IdleRun, Present, Delivering, Reading, At

\* Where an exception takes a run.
LEMMA ThrowIs ==
    ASSUME Typed, NEW r \in Runs, run' = Throw(r)
    PROVE  /\ ~Delivering' /\ ~Reading' /\ ~At("restore")' /\ ~At("move")' /\ ~At("write")'
           /\ ~At("send")' /\ ~At("docs")'
           /\ At("idle")' \/ At("init")' => ~run'.ok
           /\ \A i \in DOMAIN run'.queue : i \in DOMAIN r.queue /\ run'.queue[i] = r.queue[i]
           /\ run'.error = r.error \/ ~run'.error
  BY DEF Throw, IdleRun, Runs, Delivering, Reading, At

\* Where the end of a transaction takes a run.
LEMMA RollbackIs ==
    ASSUME Typed, NEW r \in Runs, NEW b \in BOOLEAN, run' = Rollback(r, b)
    PROVE  /\ ~Delivering' /\ ~Reading' /\ ~At("restore")' /\ ~At("move")' /\ ~At("write")'
           /\ ~At("send")' /\ ~At("docs")'
           /\ At("idle")' \/ At("init")' => ~run'.ok
           /\ \A i \in DOMAIN run'.queue : FALSE
           /\ run'.error = r.error \/ ~run'.error
  BY DEF Rollback, IdleRun, Runs, Delivering, Reading, At

\* What a run holds of the repository stays there.
LEMMA PresentStep ==
    ASSUME Typed, Present, [Next]_vars
    PROVE  Present'
  <1>0. /\ Public \in Nat \ {0} /\ Revisions = 1 .. Public /\ run \in Runs
        /\ project.synced \in Revisions /\ repo \in 0 .. Public /\ backup \in 0 .. Public
    BY LastRevision DEF Typed
  <1>00. history' = history => Revisions' = Revisions
    BY SameHistory
  <1>1. ASSUME NEW e \in ParatextEdits, ParatextUser(e) PROVE Present'
    <2> DEFINE x == Last(history) \cup {e}
    <2>1. x \in SUBSET Edits /\ history' = Append(history, x) /\ history \in Seq(SUBSET Edits)
      BY <1>1, LastRevision DEF ParatextUser, Edits, Typed
    <2> HIDE DEF x
    <2>2. Revisions' = 1 .. Public + 1
      BY <2>1, Appended
    <2>3. \A n \in Revisions : n \in Revisions'
      BY <1>0, <2>2
    <2> QED BY <1>1, <2>3 DEF ParatextUser, Present, Reading, Delivering, At
  <1>2. ASSUME NEW e \in ForgeEdits, ForgeUser(e) PROVE Present'
    BY <1>2, <1>00 DEF ForgeUser, Present, Reading, Delivering, At
  <1>3. CASE Start
    BY <1>0, <1>00, <1>3 DEF Start, Goto, stores, Present, Reading, Delivering, At, Runs
  <1>4. CASE InitSync
    BY <1>0, <1>00, <1>4 DEF InitSync, stores, Present, Reading, Delivering, At, Runs
  <1>5. CASE Denied
    BY <1>0, <1>00, <1>5 DEF Denied, Present, Reading, Delivering, At, Runs
  <1>6. CASE FirstBackup
    BY <1>0, <1>00, <1>6 DEF FirstBackup, Goto, Present, Reading, Delivering, At, Runs
  <1>7. CASE SetRevision
    BY <1>0, <1>00, <1>7 DEF SetRevision, Goto, Present, Reading, Delivering, At, Runs
  <1>8. CASE NoRevision
    BY <1>0, <1>00, <1>8, ThrowIs DEF NoRevision, stores, Present
  <1>9. CASE WriteBooks
    BY <1>0, <1>00, <1>9 DEF WriteBooks, Present, Reading, Delivering, At, Runs
  <1>10. CASE SendReceive
    <2>1. Public' \in Revisions' /\ \A n \in Revisions : n \in Revisions'
      BY <1>10, SharedType DEF SendReceive
    <2>2. repo' \in Revisions'
      BY <1>10, <2>1 DEF SendReceive, Public
    <2> QED BY <1>0, <1>10, <2>1, <2>2 DEF SendReceive, Goto, Present, Reading, Delivering, At, Runs
  <1>11. CASE SendFails
    <2>1. \A n \in Revisions : n \in Revisions'
      BY <1>00, <1>11, SharedType DEF SendFails
    <2> QED BY <1>0, <1>11, <2>1, ThrowIs DEF SendFails, Present
  <1>12. CASE UpdateDocs
    <2>1. \A i \in DOMAIN run'.queue : run'.queue[i] \notin Records
      <3>1. \A i \in DOMAIN run'.queue : \E t \in Texts : run'.queue[i] = Delta(t)
        BY <1>12, UpdateType
      <3>2. \A t \in Texts : Delta(t) \notin Records
        BY DeltaType, DeltaNoRecord
      <3> QED BY <3>1, <3>2
    <2>2. run'.pc = "complete"
      BY <1>0, <1>12, UpdateType DEF Runs
    <2> QED BY <1>0, <1>00, <1>12, <2>1, <2>2 DEF UpdateDocs, stores, Present, Reading, Delivering, At
  <1>13. CASE Complete
    <2>1. repo \in Revisions
      BY <1>13 DEF Complete, Present, Delivering
    <2>2. run'.pc = "bundle"
      BY <1>0, <1>13 DEF Complete, Runs
    <2>3. CASE run.error
      BY <1>0, <1>00, <1>13, <2>1, <2>2, <2>3 DEF Complete, Present, Reading, Delivering, At, Runs
    <2>4. CASE ~run.error
      <3>1. run'.queue = Append(run.queue, [revision |-> repo])
        BY <1>0, <1>13, <2>4 DEF Complete, Runs
      <3>2. run.queue \in Seq(Deltas \cup Records)
        BY <1>0 DEF Runs
      <3>3. \A i \in DOMAIN run'.queue :
               \/ i \in DOMAIN run.queue /\ run'.queue[i] = run.queue[i]
               \/ run'.queue[i] = [revision |-> repo]
        BY <3>1, <3>2
      <3> QED BY <1>00, <1>13, <2>1, <2>2, <3>3 DEF Complete, Present, Reading, Delivering, At
    <2> QED BY <2>3, <2>4
  <1>14. CASE RestoreMove
    BY <1>0, <1>00, <1>14 DEF RestoreMove, Present, Reading, Delivering, At, Runs
  <1>15. CASE RestoreNot
    <2>1. PICK b \in BOOLEAN : run' = Rollback(run, b)
      BY <1>15 DEF RestoreNot
    <2> QED BY <1>0, <1>00, <1>15, <2>1, RollbackIs DEF RestoreNot, stores, Present
  <1>16. CASE RestoreDone
    <2>1. PICK b \in BOOLEAN : run' = Rollback(run, b)
      BY <1>16 DEF RestoreDone
    <2> QED BY <1>0, <1>00, <1>16, <2>1, RollbackIs DEF RestoreDone, Present
  <1>17. CASE Bundle
    BY <1>0, <1>00, <1>17 DEF Bundle, Goto, Present, Reading, Delivering, At, Runs
  <1>18. CASE Move
    BY <1>0, <1>00, <1>18 DEF Move, Goto, Present, Reading, Delivering, At, Runs
  <1>19. CASE CommitStep
    <2>1. run'.queue = Tail(run.queue) /\ run'.pc = "commit"
      BY <1>0, <1>19 DEF CommitStep, At, Runs
    <2>2. \A i \in DOMAIN run'.queue :
             i + 1 \in DOMAIN run.queue /\ run'.queue[i] = run.queue[i + 1]
      BY <1>19, <2>1, TailType DEF CommitStep
    <2> QED BY <1>0, <1>00, <1>19, <2>1, <2>2 DEF CommitStep, Present, Reading, Delivering, At
  <1>20. CASE CommitFails
    <2> DEFINE r == [run EXCEPT !.queue = Tail(@)]
    <2>1. r \in Runs /\ r.queue = Tail(run.queue)
      BY <1>0, <1>20, TailType DEF CommitFails, Runs
    <2>2. \A i \in DOMAIN r.queue :
             i + 1 \in DOMAIN run.queue /\ r.queue[i] = run.queue[i + 1]
      BY <1>20, <2>1, TailType DEF CommitFails
    <2>3. run' = Throw(r) /\ history' = history
      BY <1>20 DEF CommitFails
    <2> HIDE DEF r
    <2>4. /\ ~Delivering' /\ ~Reading' /\ ~At("restore")' /\ ~At("docs")'
          /\ At("idle")' \/ At("init")' => ~run'.ok
          /\ \A i \in DOMAIN run'.queue : i \in DOMAIN r.queue /\ run'.queue[i] = r.queue[i]
      BY <2>1, <2>3, ThrowIs
    <2>5. \A i \in DOMAIN run'.queue :
             i + 1 \in DOMAIN run.queue /\ run'.queue[i] = run.queue[i + 1]
      BY <2>2, <2>4
    <2> QED BY <1>00, <2>3, <2>4, <2>5 DEF Present
  <1>21. CASE CommitDone
    BY <1>0, <1>00, <1>21 DEF CommitDone, stores, Present, Reading, Delivering, At, Runs
  <1>22. CASE Close
    BY <1>22, IdlePresent DEF Close
  <1>23. CASE Exception
    BY <1>0, <1>00, <1>23, ThrowIs DEF Exception, stores, Present
  <1>24. CASE Abandon
    BY <1>24, IdlePresent DEF Abandon
  <1>25. CASE UNCHANGED vars
    BY <1>00, <1>25 DEF vars, stores, Present, Reading, Delivering, At
  <1> QED
    BY <1>1, <1>2, <1>3, <1>4, <1>5, <1>6, <1>7, <1>8, <1>9, <1>10, <1>11, <1>12, <1>13,
       <1>14, <1>15, <1>16, <1>17, <1>18, <1>19, <1>20, <1>21, <1>22, <1>23, <1>24, <1>25
       DEF Next, RunStep

-----------------------------------------------------------------------------
(* The texts have the recorded revision. *)

\* A revision with the edits of the last one goes on from all.
LEMMA GrowsOn ==
    ASSUME Typed, Grows, NEW x \in SUBSET Edits, Last(history) \subseteq x,
           history' = Append(history, x)
    PROVE  Grows'
  <1>1. /\ Public \in Nat /\ Revisions = 1 .. Public /\ Last(history) = Revision(Public)
        /\ Public \in Revisions
    BY LastRevision
  <1>2. history \in Seq(SUBSET Edits)
    BY DEF Typed
  <1>3. /\ Revisions' = 1 .. Public + 1 /\ history'[Public + 1] = x
        /\ \A n \in Revisions : history'[n] = history[n]
    BY <1>2, Appended
  <1>4. \A n \in Revisions : Revision(n) \subseteq x
    BY <1>1 DEF Grows
  <1>5. SUFFICES ASSUME NEW m \in Revisions', NEW n \in Revisions', m <= n
                 PROVE  history'[m] \subseteq history'[n]
    BY DEF Grows, Revision
  <1>6. CASE n \in Revisions
    <2>1. m \in Revisions
      BY <1>1, <1>3, <1>5, <1>6
    <2> QED BY <1>3, <1>5, <1>6, <2>1 DEF Grows, Revision
  <1>7. CASE n = Public + 1
    <2>1. m \in Revisions \/ m = Public + 1
      BY <1>1, <1>3
    <2> QED BY <1>3, <1>4, <1>7, <2>1 DEF Revision
  <1>8. n \in Revisions \/ n = Public + 1
    BY <1>1, <1>3, <1>5
  <1> QED BY <1>6, <1>7, <1>8

\* A send/receive loses no edit of either side.
LEMMA SharedKeeps ==
    ASSUME Typed, Undenied, TextsKept, At("send"), history' = Shared
    PROVE  /\ Grows'
           /\ Last(history) \subseteq Last(history')
           /\ run.fetched \subseteq Last(history')
  <1>1. /\ Grows /\ work.files = run.fetched /\ Revision(work.base) \subseteq run.fetched
        /\ work.base \in Revisions /\ run.fetched \in SUBSET Edits
    BY DEF TextsKept, FromRecorded, Typed, Runs
  <1>2. Revision(work.base) \subseteq Last(history)
    BY <1>1, LastRevision DEF Grows
  <1>3. CASE work.files = Revision(work.base)
    BY <1>1, <1>2, <1>3 DEF Shared, Grows, Revision, Revisions
  <1>4. CASE work.files # Revision(work.base)
    <2> DEFINE x == Merge(Revision(work.base), work.files, Last(history))
    <2>1. history' = Append(history, x)
      BY <1>4 DEF Shared
    <2>2. x \in SUBSET Edits
      BY <1>1, LastRevision, MergeType
    <2>3. Last(history) \subseteq x /\ run.fetched \subseteq x
      BY <1>1, <1>2 DEF Merge
    <2> HIDE DEF x
    <2>4. history \in Seq(SUBSET Edits)
      BY DEF Typed
    <2>5. Last(history') = x
      BY <2>1, <2>2, <2>4, Appended
    <2> QED BY <1>1, <2>1, <2>2, <2>3, <2>5, GrowsOn
  <1> QED BY <1>3, <1>4

\* A queue stays safe when texts are only added to and it is not written.
LEMMA SafeOn ==
    ASSUME Typed, Present, SafeQueue, texts \subseteq texts', run'.queue = run.queue,
           repo' = repo, At("complete")' => At("complete") /\ repo \in Revisions,
           \A n \in Revisions : history'[n] = history[n]
    PROVE  SafeQueue'
  <1>1. \A i \in Nat : Adds(i)' = Adds(i)
    BY DEF Adds
  <1>2. /\ DOMAIN run.queue \subseteq Nat /\ Len(run.queue) \in Nat
    BY DEF Typed, Runs
  <1>3. ASSUME NEW i \in DOMAIN run.queue, run.queue[i] \in Records
        PROVE  history'[run.queue[i].revision] \subseteq texts' \cup Adds(i)
    <2>1. run.queue[i].revision \in Revisions
      BY <1>3 DEF Present
    <2> QED BY <1>3, <2>1 DEF SafeQueue, Revision
  <1>4. At("complete")' => history'[repo] \subseteq texts' \cup Adds(Len(run.queue))
    BY DEF SafeQueue, Revision
  <1>5. \A i \in DOMAIN run.queue : run.queue[i] \in Deltas => run.queue[i].drop = {}
    BY DEF SafeQueue
  <1> QED BY <1>1, <1>2, <1>3, <1>4, <1>5 DEF SafeQueue, Revision

\* What has gone wrong is not forgotten.
LEMMA MishapsGrow ==
    ASSUME [Next]_vars
    PROVE  mishaps \subseteq mishaps' /\ (Undenied' => Undenied) /\ (Backed' => Backed)
  <1>1. mishaps \subseteq mishaps'
    BY DEF Next, RunStep, vars, Well, Mishap, ParatextUser, ForgeUser, Start, InitSync,
           FirstBackup, SetRevision, NoRevision, WriteBooks, SendReceive, UpdateDocs, Complete,
           RestoreMove, RestoreNot, RestoreDone, Bundle, Move, CommitStep, CommitDone, Close,
           Denied, SendFails, CommitFails, Exception, Abandon
  <1> QED BY <1>1 DEF Undenied, Backed

\* A run that neither reads nor delivers says nothing of the repository.
LEMMA Quiet ==
    ASSUME ~Delivering', ~Reading', ~At("write")', ~At("send")', ~At("docs")',
           ~project'.error, ~run'.error, Grows', (Revision(project.synced) \subseteq texts)'
    PROVE  TextsKept'
  BY DEF TextsKept, FromRecorded

\* An operation of a safe queue takes nothing from the texts, and records a
\* revision they have.
LEMMA SendKeeps ==
    ASSUME Typed, Present, FromRecorded, SafeQueue, run.queue # << >>, Send(Head(run.queue)),
           history' = history
    PROVE  /\ texts \subseteq texts' /\ ~project'.error
           /\ Revision(project'.synced) \subseteq texts'
  <1> DEFINE op == run.queue[1]
  <1>1. /\ Head(run.queue) = op /\ 1 \in DOMAIN run.queue /\ op \in Deltas \cup Records
        /\ DOMAIN run.queue \subseteq Nat \ {0}
    BY TailType DEF Typed, Runs
  <1>2. CASE op \in Records
    <2>1. Adds(1) = {}
      BY <1>1, <1>2, DeltaNoRecord DEF Adds
    <2>2. Revision(op.revision) \subseteq texts
      BY <1>1, <1>2, <2>1 DEF SafeQueue
    <2>3. texts' = texts /\ project' = [project EXCEPT !.synced = op.revision]
      BY <1>1, <1>2 DEF Send
    <2> QED BY <2>2, <2>3 DEF Typed, FromRecorded
  <1>3. CASE op \notin Records
    <2>1. op.drop = {} /\ texts' = (texts \ op.drop) \cup op.add /\ project' = project
      BY <1>1, <1>3 DEF Send, SafeQueue
    <2> QED BY <2>1 DEF FromRecorded
  <1> QED BY <1>2, <1>3

\* The rest of a safe queue is safe once its first operation is carried out.
LEMMA SafeTail ==
    ASSUME Typed, Present, FromRecorded, SafeQueue, run.queue # << >>, Send(Head(run.queue)),
           history' = history, run'.queue = Tail(run.queue), ~At("complete")'
    PROVE  SafeQueue'
  <1> DEFINE op == run.queue[1]
  <1>1. /\ Head(run.queue) = op /\ 1 \in DOMAIN run.queue /\ op \in Deltas \cup Records
        /\ DOMAIN run.queue = 1 .. Len(run.queue) /\ Len(run.queue) \in Nat
        /\ DOMAIN run'.queue = 1 .. Len(run.queue) - 1
        /\ \A i \in DOMAIN run'.queue : /\ i + 1 \in DOMAIN run.queue
                                        /\ run'.queue[i] = run.queue[i + 1]
    BY TailType DEF Typed, Runs
  <1>2. ASSUME NEW i \in DOMAIN run'.queue, run'.queue[i] \in Records
        PROVE  Revision(run'.queue[i].revision) \subseteq texts' \cup {e \in Edits :
                    \E j \in DOMAIN run'.queue :
                       j <= i /\ run'.queue[j] \in Deltas /\ e \in run'.queue[j].add}
    <2>1. Revision(run'.queue[i].revision) \subseteq texts \cup Adds(i + 1)
      BY <1>1, <1>2 DEF SafeQueue
    <2>2. ASSUME NEW e \in Adds(i + 1)
          PROVE  \/ e \in texts'
                 \/ \E j \in DOMAIN run'.queue :
                       j <= i /\ run'.queue[j] \in Deltas /\ e \in run'.queue[j].add
      <3>1. PICK j \in DOMAIN run.queue :
                 j <= i + 1 /\ run.queue[j] \in Deltas /\ e \in run.queue[j].add
        BY <2>2 DEF Adds
      <3>2. CASE j = 1
        BY <1>1, <3>1, <3>2, DeltaNoRecord DEF Send
      <3>3. CASE j # 1
        <4>1. j - 1 \in DOMAIN run'.queue /\ j - 1 <= i /\ run'.queue[j - 1] = run.queue[j]
          BY <1>1, <3>1, <3>3
        <4> QED BY <3>1, <4>1
      <3> QED BY <3>2, <3>3
    <2>3. texts \subseteq texts' /\ Adds(i + 1) \subseteq Edits
      BY SendKeeps DEF Adds
    <2> QED BY <2>1, <2>2, <2>3
  <1>3. \A i \in DOMAIN run'.queue : run'.queue[i] \in Deltas => run'.queue[i].drop = {}
    BY <1>1 DEF SafeQueue
  <1> QED BY <1>2, <1>3 DEF SafeQueue, Adds, Revision

\* Every step leaves the texts with the recorded revision.
LEMMA TextsStep ==
    ASSUME Typed, Present, TextsKept, [Next]_vars
    PROVE  TextsKept'
  <1> SUFFICES ASSUME Undenied' PROVE TextsKept'
    BY DEF TextsKept
  <1>a. Undenied /\ FromRecorded /\ (Delivering => SafeQueue)
    BY MishapsGrow DEF TextsKept
  <1>0. /\ Public \in Nat \ {0} /\ Revisions = 1 .. Public /\ run \in Runs
        /\ project.synced \in Revisions /\ repo \in 0 .. Public /\ texts \subseteq Edits
    BY LastRevision DEF Typed
  <1>b. /\ ~project.error /\ ~run.error /\ Grows
        /\ Revision(project.synced) \subseteq texts
    BY <1>a DEF FromRecorded
  <1>c. history' = history =>
            /\ Grows'
            /\ \A n : Revision(n)' = Revision(n)
            /\ \A n \in Revisions : history'[n] = history[n]
    BY <1>b DEF Grows, Revision, Revisions
  <1>d. /\ history' = history /\ texts \subseteq texts' /\ run' = run /\ repo' = repo
        => (Delivering' => SafeQueue')
    BY <1>0, <1>a, <1>c, SafeOn DEF Delivering, At, Present
  <1>1. ASSUME NEW e \in ParatextEdits, ParatextUser(e) PROVE TextsKept'
    <2> DEFINE x == Last(history) \cup {e}
    <2>1. x \in SUBSET Edits /\ history' = Append(history, x) /\ history \in Seq(SUBSET Edits)
          /\ Last(history) \subseteq x
      BY <1>1, LastRevision DEF ParatextUser, Edits, Typed
    <2> HIDE DEF x
    <2>2. Grows'
      BY <1>b, <2>1, GrowsOn
    <2>3. \A n \in Revisions : history'[n] = history[n]
      BY <2>1, Appended
    <2>4. Delivering' => SafeQueue'
      BY <1>1, <1>a, <2>3, SafeOn DEF ParatextUser, Delivering, At, Present
    <2>5. work.base \in Revisions /\ (At("docs") => repo \in Revisions)
      BY DEF Typed, Present
    <2>6. FromRecorded'
      BY <1>0, <1>1, <1>a, <2>2, <2>3, <2>5 DEF ParatextUser, FromRecorded, Revision, Reading, At
    <2> QED BY <2>4, <2>6 DEF TextsKept
  <1>2. ASSUME NEW e \in ForgeEdits, ForgeUser(e) PROVE TextsKept'
    <2>1. Delivering' => SafeQueue'
      BY <1>2, <1>d DEF ForgeUser
    <2>2. FromRecorded'
      BY <1>2, <1>a, <1>c DEF ForgeUser, FromRecorded, Reading, At
    <2> QED BY <2>1, <2>2 DEF TextsKept
  <1>3. CASE Start
    <2>1. run'.pc = "init" /\ run'.error = run.error
      BY <1>0, <1>3 DEF Start, Goto, Runs
    <2> QED BY <1>3, <1>b, <1>c, <2>1, Quiet DEF Start, stores, Delivering, Reading, At
  <1>4. CASE InitSync
    <2>1. run'.pc = "backup" /\ run'.error = project.error /\ run'.synced = project.synced
      BY <1>0, <1>4 DEF InitSync, Runs
    <2> QED BY <1>4, <1>b, <1>c, <2>1 DEF InitSync, stores, TextsKept, FromRecorded, Delivering, Reading, At
  <1>5. CASE Denied
    BY <1>5 DEF Denied, Mishap, Undenied
  <1>6. CASE FirstBackup
    <2>1. run'.pc = "revision" /\ run'.error = run.error /\ run'.synced = run.synced
      BY <1>0, <1>6 DEF FirstBackup, Goto, Runs
    <2> QED BY <1>6, <1>a, <1>b, <1>c, <2>1 DEF FirstBackup, TextsKept, FromRecorded, Delivering, Reading, At
  <1>7. CASE SetRevision
    <2>1. run'.pc = "write" /\ run'.error = run.error /\ run'.synced = run.synced
      BY <1>0, <1>7 DEF SetRevision, Goto, Runs
    <2>2. work'.base = run.synced
      BY <1>7 DEF SetRevision
    <2> QED BY <1>7, <1>a, <1>b, <1>c, <2>1, <2>2
            DEF SetRevision, TextsKept, FromRecorded, Delivering, Reading, At
  <1>8. CASE NoRevision
    BY <1>0, <1>8, <1>b, <1>c, ThrowIs, Quiet DEF NoRevision, stores
  <1>9. CASE WriteBooks
    <2>1. /\ run'.pc = "send" /\ run'.error = run.error /\ run'.synced = run.synced
          /\ run'.fetched = texts
      BY <1>0, <1>9 DEF WriteBooks, Runs
    <2>2. work'.base = work.base /\ work'.files = texts
      BY <1>9 DEF WriteBooks, Typed
    <2>3. work.base = run.synced /\ run.synced = project.synced
      BY <1>9, <1>a DEF WriteBooks, FromRecorded, Reading, At
    <2> QED BY <1>9, <1>b, <1>c, <2>1, <2>2, <2>3
            DEF WriteBooks, TextsKept, FromRecorded, Delivering, Reading, At
  <1>10. CASE SendReceive
    <2>1. /\ run'.pc = "docs" /\ run'.error = run.error /\ run'.synced = run.synced
          /\ run'.fetched = run.fetched
      BY <1>0, <1>10 DEF SendReceive, Goto, Runs
    <2>2. Grows' /\ run.fetched \subseteq Last(history')
      BY <1>10, <1>a, SharedKeeps DEF SendReceive
    <2>3. Last(history') = history'[Len(history')] /\ \A n \in Revisions : history'[n] = history[n]
      BY <1>10, SharedType DEF SendReceive, Public
    <2>4. run.synced = project.synced /\ run.fetched \subseteq texts
      BY <1>10, <1>a DEF SendReceive, FromRecorded, Reading, At
    <2>5. /\ repo' = Len(history') /\ work'.base = Len(history') /\ work'.files = Last(history')
          /\ texts' = texts /\ project' = project
      BY <1>10 DEF SendReceive
    <2> QED BY <1>0, <1>b, <2>1, <2>2, <2>3, <2>4, <2>5
            DEF TextsKept, FromRecorded, Revision, Delivering, Reading, At
  <1>11. CASE SendFails
    <2>1. Grows' /\ \A n \in Revisions : history'[n] = history[n]
      BY <1>11, <1>a, <1>c, SharedKeeps, SharedType DEF SendFails
    <2> QED BY <1>0, <1>11, <1>b, <2>1, ThrowIs, Quiet DEF SendFails, Revision
  <1>12. CASE UpdateDocs
    <2>1. /\ run'.pc = "complete" /\ run'.error = run.error
          /\ run'.queue \in Seq(Deltas)
          /\ \A i \in DOMAIN run'.queue : \E t \in Texts : run'.queue[i] = Delta(t)
          /\ \A t \in Texts : Changed(t) =>
                 \E i \in DOMAIN run'.queue : run'.queue[i] = Delta(t)
      BY <1>0, <1>12, UpdateType DEF Runs
    <2>2. /\ work.files = Revision(repo) /\ run.fetched \subseteq work.files
          /\ run.fetched \subseteq texts /\ work.files \subseteq Edits
      BY <1>12, <1>a DEF UpdateDocs, FromRecorded, At, Typed
    <2>3. \A t \in Texts : Delta(t).drop = {}
      BY <2>2 DEF Delta
    <2>4. \A i \in DOMAIN run'.queue : run'.queue[i].drop = {} /\ run'.queue[i] \notin Records
      BY <2>1, <2>3, DeltaType, DeltaNoRecord
    <2>5. ASSUME NEW e \in work.files, e \notin run.fetched
          PROVE  \E j \in DOMAIN run'.queue : /\ j <= Len(run'.queue) /\ run'.queue[j] \in Deltas
                                               /\ e \in run'.queue[j].add
      <3>1. TextOf[e] \in Texts
        BY <2>2, RepoAssumption
      <3>2. e \in Delta(TextOf[e]).add
        BY <2>5 DEF Delta
      <3>3. PICK j \in DOMAIN run'.queue : run'.queue[j] = Delta(TextOf[e])
        BY <2>1, <3>1, <3>2 DEF Changed
      <3>4. j <= Len(run'.queue) /\ run'.queue[j] \in Deltas
        BY <2>1, <3>3
      <3> QED BY <3>2, <3>3, <3>4
    <2>6. work.files \subseteq texts \cup Adds(Len(run.queue))'
      BY <2>2, <2>5 DEF Adds
    <2>7. SafeQueue'
      BY <1>12, <1>c, <2>2, <2>4, <2>6 DEF SafeQueue, UpdateDocs, stores
    <2> QED BY <1>12, <1>b, <1>c, <2>1, <2>7 DEF UpdateDocs, stores, TextsKept, FromRecorded, Reading, At
  <1>13. CASE Complete
    <2>1. /\ run'.pc = "bundle" /\ run'.error = run.error
          /\ run'.queue = Append(run.queue, [revision |-> repo])
      BY <1>0, <1>b, <1>13 DEF Complete, Runs
    <2>2. /\ SafeQueue /\ Revision(repo) \subseteq texts \cup Adds(Len(run.queue))
      BY <1>13, <1>a DEF Complete, Delivering, SafeQueue
    <2>3. run.queue \in Seq(Deltas \cup Records)
      BY <1>0 DEF Runs
    <2>4. [revision |-> repo] \notin Deltas
      BY <1>0, DeltaNoRecord DEF Records
    <2>5. /\ DOMAIN run.queue \subseteq DOMAIN run'.queue
          /\ \A i \in DOMAIN run.queue : run'.queue[i] = run.queue[i] /\ i \in Nat
          /\ \A i \in DOMAIN run'.queue :
                i \notin DOMAIN run.queue => /\ run'.queue[i] = [revision |-> repo]
                                            /\ i = Len(run.queue) + 1
          /\ Len(run.queue) \in Nat
          /\ \A i \in DOMAIN run.queue : i <= Len(run.queue)
      BY <2>1, <2>3
    <2>6. \A i \in Nat : Adds(i) \subseteq Adds(i)'
      BY <2>5 DEF Adds
    <2>7. \A e \in Adds(Len(run.queue)) : \E j \in DOMAIN run'.queue :
             /\ j <= Len(run.queue) + 1
             /\ run'.queue[j] \in Deltas /\ e \in run'.queue[j].add
      BY <2>5 DEF Adds
    <2>8. ASSUME NEW i \in DOMAIN run'.queue, run'.queue[i] \in Records
          PROVE  Revision(run'.queue[i].revision) \subseteq texts \cup {e \in Edits :
                    \E j \in DOMAIN run'.queue :
                       j <= i /\ run'.queue[j] \in Deltas /\ e \in run'.queue[j].add}
      <3>1. CASE i \in DOMAIN run.queue
        <4>1. Revision(run.queue[i].revision) \subseteq texts \cup Adds(i)
          BY <2>2, <2>5, <2>8, <3>1 DEF SafeQueue
        <4> QED BY <2>5, <2>6, <3>1, <4>1 DEF Adds
      <3>2. CASE i \notin DOMAIN run.queue
        <4>1. run'.queue[i].revision = repo /\ i = Len(run.queue) + 1
          BY <2>5, <3>2
        <4>2. Adds(Len(run.queue)) \subseteq Edits
          BY DEF Adds
        <4> QED BY <2>2, <2>7, <4>1, <4>2
      <3> QED BY <3>1, <3>2
    <2>9. \A i \in DOMAIN run'.queue : run'.queue[i] \in Deltas => run'.queue[i].drop = {}
      BY <2>2, <2>4, <2>5 DEF SafeQueue
    <2>10. SafeQueue'
      BY <1>13, <1>b, <1>c, <2>1, <2>8, <2>9 DEF SafeQueue, Adds, Complete, At
    <2> QED BY <1>13, <1>b, <1>c, <2>1, <2>10 DEF Complete, TextsKept, FromRecorded, Reading, At
  <1>14. CASE RestoreMove
    <2>1. run'.pc = "restore" /\ run'.error = run.error
      BY <1>0, <1>14 DEF RestoreMove, Runs
    <2> QED BY <1>14, <1>b, <1>c, <2>1, Quiet DEF RestoreMove, Delivering, Reading, At
  <1>15. CASE RestoreNot
    <2>1. PICK b \in BOOLEAN : run' = Rollback(run, b)
      BY <1>15 DEF RestoreNot
    <2> QED BY <1>0, <1>15, <1>b, <1>c, <2>1, RollbackIs, Quiet DEF RestoreNot, stores
  <1>16. CASE RestoreDone
    <2>1. PICK b \in BOOLEAN : run' = Rollback(run, b)
      BY <1>16 DEF RestoreDone
    <2> QED BY <1>0, <1>16, <1>b, <1>c, <2>1, RollbackIs, Quiet DEF RestoreDone
  <1>17. CASE Bundle
    <2>1. /\ run'.pc \in {"move", "commit"} /\ run'.error = run.error /\ run'.queue = run.queue
          /\ Delivering
      BY <1>0, <1>17 DEF Bundle, Goto, Runs, Delivering, At
    <2>2. SafeQueue'
      BY <1>17, <1>a, <1>c, <2>1, SafeOn DEF Bundle, At
    <2> QED BY <1>17, <1>b, <1>c, <2>1, <2>2 DEF Bundle, TextsKept, FromRecorded, Reading, At
  <1>18. CASE Move
    <2>1. /\ run'.pc = "commit" /\ run'.error = run.error /\ run'.queue = run.queue
          /\ Delivering
      BY <1>0, <1>18 DEF Move, Goto, Runs, Delivering, At
    <2>2. SafeQueue'
      BY <1>18, <1>a, <1>c, <2>1, SafeOn DEF Move, At
    <2> QED BY <1>18, <1>b, <1>c, <2>1, <2>2 DEF Move, TextsKept, FromRecorded, Reading, At
  <1>19. CASE CommitStep
    <2>1. /\ run'.pc = "commit" /\ run'.error = run.error /\ run'.queue = Tail(run.queue)
          /\ run.queue # << >> /\ Send(Head(run.queue)) /\ Delivering
      BY <1>0, <1>19 DEF CommitStep, Runs, Delivering, At
    <2>2. /\ texts \subseteq texts' /\ ~project'.error
          /\ Revision(project'.synced) \subseteq texts'
      BY <1>19, <1>a, <2>1, SendKeeps DEF CommitStep
    <2>3. SafeQueue'
      BY <1>19, <1>a, <1>c, <2>1, SafeTail DEF CommitStep, At
    <2> QED BY <1>19, <1>b, <1>c, <2>1, <2>2, <2>3 DEF CommitStep, TextsKept, FromRecorded, Reading, At
  <1>20. CASE CommitFails
    <2> DEFINE r == [run EXCEPT !.queue = Tail(@)]
    <2>1. r \in Runs /\ r.error = run.error /\ run' = Throw(r)
      BY <1>0, <1>20, TailType DEF CommitFails, Runs
    <2>2. Delivering /\ run.queue # << >> /\ history' = history
          /\ (Send(Head(run.queue)) \/ UNCHANGED <<texts, project>>)
      BY <1>20 DEF CommitFails, Delivering, At
    <2>3. ~project'.error /\ Revision(project'.synced) \subseteq texts'
      BY <1>a, <1>b, <2>2, SendKeeps
    <2> HIDE DEF r
    <2>4. /\ ~Delivering' /\ ~Reading' /\ ~At("write")' /\ ~At("send")' /\ ~At("docs")'
          /\ ~run'.error
      BY <1>b, <2>1, ThrowIs
    <2> QED BY <1>c, <2>2, <2>3, <2>4, Quiet
  <1>21. CASE CommitDone
    <2>1. run'.pc = "close" /\ run'.error = run.error
      BY <1>0, <1>21 DEF CommitDone, Runs
    <2> QED BY <1>21, <1>b, <1>c, <2>1, Quiet DEF CommitDone, stores, Delivering, Reading, At
  <1>22. CASE Close
    <2>1. project'.error = project.error /\ project'.synced = project.synced
      BY <1>22 DEF Close, Typed
    <2> QED BY <1>22, <1>b, <1>c, <2>1, IdlePresent, Quiet DEF Close
  <1>23. CASE Exception
    BY <1>0, <1>23, <1>b, <1>c, ThrowIs, Quiet DEF Exception, stores
  <1>24. CASE Abandon
    BY <1>24, <1>b, <1>c, IdlePresent, Quiet DEF Abandon, stores
  <1>25. CASE UNCHANGED vars
    <2>1. Delivering' => SafeQueue'
      BY <1>25, <1>d DEF vars, stores
    <2>2. FromRecorded'
      BY <1>25, <1>a, <1>c DEF vars, stores, FromRecorded, Reading, At
    <2> QED BY <2>1, <2>2 DEF TextsKept
  <1> QED
    BY <1>1, <1>2, <1>3, <1>4, <1>5, <1>6, <1>7, <1>8, <1>9, <1>10, <1>11, <1>12, <1>13,
       <1>14, <1>15, <1>16, <1>17, <1>18, <1>19, <1>20, <1>21, <1>22, <1>23, <1>24, <1>25
       DEF Next, RunStep

-----------------------------------------------------------------------------
(* No record is ahead of the repository or of its backup. *)

\* What an operation records is in the repository and in its backup.
LEMMA SendBacked ==
    ASSUME Typed, Present, run.queue # << >>,
           Send(Head(run.queue)) \/ UNCHANGED <<texts, project>>,
           repo # 0 => project.synced <= repo,
           backup # 0 => project.synced <= backup,
           \A i \in DOMAIN run.queue :
              run.queue[i] \in Records =>
                  /\ run.queue[i].revision <= repo
                  /\ backup # 0 => run.queue[i].revision <= backup
    PROVE  /\ repo # 0 => project'.synced <= repo
           /\ backup # 0 => project'.synced <= backup
  <1> DEFINE op == run.queue[1]
  <1>1. Head(run.queue) = op /\ 1 \in DOMAIN run.queue
    BY TailType
  <1>2. CASE Send(op) /\ op \in Records
    <2>1. project'.synced = op.revision
      BY <1>2 DEF Send, Typed
    <2> QED BY <1>1, <1>2, <2>1
  <1>3. CASE Send(op) /\ op \notin Records
    BY <1>3 DEF Send
  <1>4. CASE UNCHANGED <<texts, project>>
    BY <1>4
  <1> QED BY <1>1, <1>2, <1>3, <1>4

\* Every step leaves the recorded revision where it can be restored.
LEMMA RestorableStep ==
    ASSUME Typed, Present, TextsKept, Restorable, [Next]_vars
    PROVE  Restorable'
  <1> SUFFICES ASSUME Backed' PROVE Restorable'
    BY DEF Restorable
  <1>a. Backed /\ ~run.error
    BY MishapsGrow DEF TextsKept, FromRecorded, Backed, Undenied
  <1>b. /\ repo # 0 => project.synced <= repo
        /\ backup # 0 => project.synced <= backup
        /\ At("restore") => project.synced <= run.moved
        /\ Delivering => \A i \in DOMAIN run.queue :
              run.queue[i] \in Records =>
                  /\ run.queue[i].revision <= repo
                  /\ At("commit") /\ backup # 0 => run.queue[i].revision <= backup
        /\ At("move") => backup = 0
    BY <1>a DEF Restorable
  <1>0. /\ Public \in Nat \ {0} /\ Revisions = 1 .. Public /\ run \in Runs
        /\ project.synced \in Revisions /\ repo \in 0 .. Public /\ backup \in 0 .. Public
        /\ run.queue \in Seq(Deltas \cup Records)
    BY LastRevision DEF Typed, Runs
  <1>1. ASSUME NEW e \in ParatextEdits, ParatextUser(e) PROVE Restorable'
    BY <1>1, <1>b DEF ParatextUser, Restorable, Delivering, At
  <1>2. ASSUME NEW e \in ForgeEdits, ForgeUser(e) PROVE Restorable'
    BY <1>2, <1>b DEF ForgeUser, Restorable, Delivering, At
  <1>3. CASE Start
    BY <1>0, <1>3, <1>b DEF Start, Goto, stores, Restorable, Delivering, At, Runs
  <1>4. CASE InitSync
    BY <1>0, <1>4, <1>b DEF InitSync, stores, Restorable, Delivering, At, Runs
  <1>5. CASE Denied
    BY <1>5 DEF Denied, Mishap, Backed
  <1>6. CASE FirstBackup
    <2>1. run'.pc = "revision" /\ backup' \in {repo, backup} /\ repo' = repo /\ project' = project
      BY <1>0, <1>6 DEF FirstBackup, Goto, Runs
    <2> QED BY <1>b, <2>1 DEF Restorable, Delivering, At
  <1>7. CASE SetRevision
    BY <1>0, <1>7, <1>b DEF SetRevision, Goto, Restorable, Delivering, At, Runs
  <1>8. CASE NoRevision
    BY <1>0, <1>8, <1>b, ThrowIs DEF NoRevision, stores, Restorable
  <1>9. CASE WriteBooks
    BY <1>0, <1>9, <1>b DEF WriteBooks, Restorable, Delivering, At, Runs
  <1>10. CASE SendReceive
    <2>1. run'.pc = "docs" /\ project' = project /\ backup' = backup
      BY <1>0, <1>10 DEF SendReceive, Goto, Runs
    <2>2. Public <= Public' /\ Public' \in Nat /\ repo' = Public'
      BY <1>10, SharedType DEF SendReceive, Public
    <2>3. project.synced <= repo'
      BY <1>0, <2>2
    <2> QED BY <1>b, <2>1, <2>3 DEF Restorable, Delivering, At
  <1>11. CASE SendFails
    <2>1. repo' # 0 => project.synced <= repo'
      <3>1. CASE repo' = repo
        BY <1>b, <3>1
      <3>2. CASE repo' = Len(history')
        <4>1. Public <= Public' /\ Public' \in Nat /\ repo' = Public'
          BY <1>0, <1>11, <3>2, SharedType DEF SendFails, Public
        <4> QED BY <1>0, <4>1
      <3> QED BY <1>11, <3>1, <3>2 DEF SendFails
    <2> QED BY <1>0, <1>11, <1>b, <2>1, ThrowIs DEF SendFails, Restorable
  <1>12. CASE UpdateDocs
    <2>1. \A i \in DOMAIN run'.queue : run'.queue[i] \notin Records
      BY <1>12, UpdateType, DeltaType, DeltaNoRecord
    <2>2. run'.pc = "complete"
      BY <1>0, <1>12, UpdateType DEF Runs
    <2> QED BY <1>0, <1>12, <1>b, <2>1, <2>2 DEF UpdateDocs, stores, Restorable, Delivering, At
  <1>13. CASE Complete
    <2>1. run'.pc = "bundle" /\ run'.queue = Append(run.queue, [revision |-> repo])
      BY <1>0, <1>a, <1>13 DEF Complete, Runs
    <2>2. \A i \in DOMAIN run'.queue :
             \/ i \in DOMAIN run.queue /\ run'.queue[i] = run.queue[i]
             \/ run'.queue[i] = [revision |-> repo]
      BY <1>0, <2>1
    <2>3. \A i \in DOMAIN run'.queue : run'.queue[i] \in Records => run'.queue[i].revision <= repo
      BY <1>0, <1>13, <1>b, <2>2 DEF Complete, Delivering
    <2> QED BY <1>13, <1>a, <1>b, <2>1, <2>3 DEF Complete, Restorable, Delivering, At
  <1>14. CASE RestoreMove
    <2>1. run'.pc = "restore" /\ run'.moved = repo /\ repo # 0
      BY <1>0, <1>14 DEF RestoreMove, Runs
    <2> QED BY <1>14, <1>b, <2>1 DEF RestoreMove, Restorable, Delivering, At
  <1>15. CASE RestoreNot
    <2>1. PICK b \in BOOLEAN : run' = Rollback(run, b)
      BY <1>15 DEF RestoreNot
    <2> QED BY <1>0, <1>15, <1>b, <2>1, RollbackIs DEF RestoreNot, stores, Restorable
  <1>16. CASE RestoreDone
    <2>1. PICK b \in BOOLEAN : run' = Rollback(run, b)
      BY <1>16 DEF RestoreDone
    <2>2. repo' \in {backup, run.moved} /\ At("restore")
      BY <1>16 DEF RestoreDone
    <2> QED BY <1>0, <1>16, <1>b, <2>1, <2>2, RollbackIs DEF RestoreDone, Restorable
  <1>17. CASE Bundle
    <2>1. backup' = 0 /\ Goto("move")
      BY <1>17 DEF Bundle, Mishap, Backed
    <2>2. run'.pc = "move" /\ run'.queue = run.queue
      BY <1>0, <2>1 DEF Goto, Runs
    <2> QED BY <1>17, <1>b, <2>1, <2>2 DEF Bundle, Restorable, Delivering, At
  <1>18. CASE Move
    <2>1. backup' = repo /\ Goto("commit")
      BY <1>18 DEF Move, Mishap, Backed
    <2>2. run'.pc = "commit" /\ run'.queue = run.queue
      BY <1>0, <2>1 DEF Goto, Runs
    <2> QED BY <1>18, <1>b, <2>1, <2>2 DEF Move, Restorable, Delivering, At
  <1>19. CASE CommitStep
    <2>1. /\ run'.pc = "commit" /\ run'.queue = Tail(run.queue)
          /\ run.queue # << >> /\ Send(Head(run.queue)) /\ At("commit")
      BY <1>0, <1>19 DEF CommitStep, Runs, At
    <2>2. \A i \in DOMAIN run'.queue :
             i + 1 \in DOMAIN run.queue /\ run'.queue[i] = run.queue[i + 1]
      BY <2>1, TailType
    <2>3. /\ repo # 0 => project'.synced <= repo
          /\ backup # 0 => project'.synced <= backup
      BY <1>b, <2>1, SendBacked DEF Delivering, At
    <2> QED BY <1>19, <1>b, <2>1, <2>2, <2>3 DEF CommitStep, Restorable, Delivering, At
  <1>20. CASE CommitFails
    <2> DEFINE r == [run EXCEPT !.queue = Tail(@)]
    <2>1. r \in Runs /\ run' = Throw(r)
      BY <1>20, TailType DEF CommitFails
    <2>2. /\ At("commit") /\ run.queue # << >>
          /\ (Send(Head(run.queue)) \/ UNCHANGED <<texts, project>>)
      BY <1>20 DEF CommitFails
    <2>3. /\ repo # 0 => project'.synced <= repo
          /\ backup # 0 => project'.synced <= backup
      BY <1>b, <2>2, SendBacked DEF Delivering, At
    <2> HIDE DEF r
    <2>4. ~Delivering' /\ ~At("restore")' /\ ~At("move")'
      BY <2>1, ThrowIs
    <2> QED BY <1>20, <2>3, <2>4 DEF CommitFails, Restorable
  <1>21. CASE CommitDone
    BY <1>0, <1>21, <1>b DEF CommitDone, stores, Restorable, Delivering, At, Runs
  <1>22. CASE Close
    <2>1. project'.synced = project.synced
      BY <1>22 DEF Close, Typed
    <2> QED BY <1>22, <1>b, <2>1, IdlePresent DEF Close, Restorable
  <1>23. CASE Exception
    BY <1>0, <1>23, <1>b, ThrowIs DEF Exception, stores, Restorable
  <1>24. CASE Abandon
    BY <1>24, <1>b, IdlePresent DEF Abandon, stores, Restorable
  <1>25. CASE UNCHANGED vars
    BY <1>25, <1>b DEF vars, stores, Restorable, Delivering, At
  <1> QED
    BY <1>1, <1>2, <1>3, <1>4, <1>5, <1>6, <1>7, <1>8, <1>9, <1>10, <1>11, <1>12, <1>13,
       <1>14, <1>15, <1>16, <1>17, <1>18, <1>19, <1>20, <1>21, <1>22, <1>23, <1>24, <1>25
       DEF Next, RunStep

-----------------------------------------------------------------------------
(* The theorems. *)

\* The initial states satisfy the invariant.
LEMMA Initial ==
    ASSUME Init
    PROVE  IInv
  <1> USE DEF Init
  <1>1. history = << {} >> /\ history \in Seq(SUBSET Edits) /\ Len(history) = 1 /\ history[1] = {}
    OBVIOUS
  <1>2. Revisions = {1} /\ Public = 1
    BY <1>1 DEF Revisions, Public
  <1>3. Typed
    <2>1. << >> \in Seq(Deltas \cup Records)
      OBVIOUS
    <2>2. 0 \in 0 .. 1 /\ 1 \in 0 .. 1 /\ 0 \in 0 .. MaxMishaps
      BY RepoAssumption
    <2>3. run \in Runs
      BY <1>2, <2>1, <2>2 DEF Runs, IdleRun, Steps
    <2> QED BY <1>1, <1>2, <2>2, <2>3 DEF Typed
  <1>4. Present
    BY DEF Present, IdleRun, Reading, Delivering, At
  <1>5. TextsKept
    BY <1>1, <1>2 DEF TextsKept, FromRecorded, Grows, Revision, IdleRun, Reading, Delivering, At
  <1>6. Restorable
    BY DEF Restorable, IdleRun, Delivering, At
  <1> QED BY <1>3, <1>4, <1>5, <1>6 DEF IInv

\* Every step keeps the invariant.
LEMMA Inductive ==
    ASSUME IInv, [Next]_vars
    PROVE  IInv'
  BY TypeStep, PresentStep, TextsStep, RestorableStep DEF IInv

\* The recorded revision is in the repository and in its backup, through any
\* number of failed and abandoned syncs, as long as no backup failed and none
\* was recorded early (ParatextSyncRunner.cs:1765).
THEOREM RecordedCanBeRestored == Spec => []SyncedIsRestorable
  <1>1. Init => IInv
    BY Initial
  <1>2. IInv /\ [Next]_vars => IInv'
    BY Inductive
  <1>3. IInv => SyncedIsRestorable
    BY DEF IInv, Restorable, Backed, SyncedIsRestorable
  <1> QED BY <1>1, <1>2, <1>3, PTL DEF Spec

\* No step of a sync takes an edit out of the texts or out of the last revision
\* of the Paratext server.
THEOREM EditsAreKept == Spec => NoEditReverted
  <1>1. Init => IInv
    BY Initial
  <1>2. IInv /\ [Next]_vars => IInv'
    BY Inductive
  <1> DEFINE Kept == [ "denied" \notin mishaps' =>
                           texts \subseteq texts' /\ Last(history) \subseteq Last(history') ]_vars
  <1>3. IInv /\ [Next]_vars => Kept
    <2> SUFFICES ASSUME Typed, Present, TextsKept, [Next]_vars, Undenied'
                 PROVE  texts \subseteq texts' /\ Last(history) \subseteq Last(history')
      BY DEF IInv, Undenied
    <2>1. Undenied /\ FromRecorded /\ (Delivering => SafeQueue)
      BY MishapsGrow DEF TextsKept
    <2>2. texts \subseteq texts'
      <3>1. CASE CommitStep \/ CommitFails
        <4>1. /\ Delivering /\ run.queue # << >> /\ history' = history
              /\ (Send(Head(run.queue)) \/ UNCHANGED <<texts, project>>)
          BY <3>1 DEF CommitStep, CommitFails, Delivering, At
        <4> QED BY <2>1, <4>1, SendKeeps
      <3>2. CASE ~(CommitStep \/ CommitFails)
        BY <3>2 DEF Next, RunStep, vars, stores, ParatextUser, ForgeUser, Start, InitSync,
             FirstBackup, SetRevision, NoRevision, WriteBooks, SendReceive, UpdateDocs,
             Complete, RestoreMove, RestoreNot, RestoreDone, Bundle, Move, CommitDone, Close,
             Denied, SendFails, Exception, Abandon
      <3> QED BY <3>1, <3>2
    <2>3. Last(history) \subseteq Last(history')
      <3>1. CASE SendReceive \/ SendFails
        <4>1. At("send") /\ (history' = Shared \/ history' = history)
          BY <3>1 DEF SendReceive, SendFails
        <4> QED BY <2>1, <4>1, SharedKeeps
      <3>2. ASSUME NEW e \in ParatextEdits, ParatextUser(e)
            PROVE  Last(history) \subseteq Last(history')
        <4> DEFINE x == Last(history) \cup {e}
        <4>1. /\ x \in SUBSET Edits /\ history' = Append(history, x)
              /\ history \in Seq(SUBSET Edits) /\ Last(history) \subseteq x
          BY <3>2, LastRevision DEF ParatextUser, Edits, Typed
        <4> HIDE DEF x
        <4> QED BY <4>1, Appended
      <3>3. CASE ~(SendReceive \/ SendFails) /\ ~\E e \in ParatextEdits : ParatextUser(e)
        <4>1. history' = history
          BY <3>3 DEF Next, RunStep, vars, stores, ForgeUser, Start, InitSync,
             FirstBackup, SetRevision, NoRevision, WriteBooks, UpdateDocs, Complete,
             RestoreMove, RestoreNot, RestoreDone, Bundle, Move, CommitStep, CommitFails,
             CommitDone, Close, Denied, Exception, Abandon
        <4> QED BY <4>1
      <3> QED BY <3>1, <3>2, <3>3
    <2> QED BY <2>2, <2>3
  <1>4. Kept => [ "denied" \notin mishaps' =>
                     texts \subseteq texts' /\ Last(history) \subseteq Last(history') ]_vars
    OBVIOUS
  <1> QED BY <1>1, <1>2, <1>3, <1>4, PTL DEF Spec, NoEditReverted

-----------------------------------------------------------------------------
(* A project that is marked as in sync between runs is at the last revision *)
(* of its repository, for any edits, texts and any number of exceptions and  *)
(* failed restores.                                                          *)

\* The mishaps the property allows.
Untroubled == mishaps \subseteq {"restore", "exception"}

Failing == At("complete") /\ ~run.ok
Committing == run.pc \in {"bundle", "move", "commit"}
Ending == run.pc \in {"complete", "restore", "close"}

\* The repository is only gone while it is being restored, and only the run of
\* the exception handler restores it.
OneEnd ==
    /\ repo = 0 <=> At("restore")
    /\ run.second => Ending
    /\ run.closed => Ending
    /\ At("complete") => (run.second <=> ~run.ok) /\ (run.ok => ~run.closed)
    /\ At("restore") => run.second /\ run.moved # 0

\* The backup is the recorded revision until the new one is committed; as long
\* as there is none, the repository still is there.
BackupIsRecorded ==
    /\ backup # 0 /\ run.pc \notin {"move", "commit"} => backup = project.synced
    /\ run.pc \in {"idle", "init", "backup", "close"} \/ Failing =>
          backup # 0 \/ repo = project.synced
    /\ run.pc \in {"revision", "write", "send", "docs", "bundle"} \/ (At("complete") /\ run.ok) =>
          backup # 0
    /\ At("commit") => backup = repo

\* The last operation of the queue records what the repository has.
RecordsLast ==
    Committing =>
        \/ run.queue # <<>> /\ run.queue[Len(run.queue)] = [revision |-> repo]
        \/ At("commit") /\ run.queue = <<>> /\ project.synced = repo

\* What a run that ends is going to say of the repository is true of it.
SaysInSync ==
    /\ At("idle") \/ At("init") => run.synced = 0 /\ (project.inSync => repo = project.synced)
    /\ At("complete") /\ run.ok => run.synced = project.synced
    /\ Failing => IF run.closed THEN repo = project.synced
                  ELSE run.synced \in {0, project.synced}
    /\ At("restore") => IF run.closed THEN run.moved = project.synced
                        ELSE run.synced \in {0, project.synced}
    /\ At("close") => run.closed /\ (run.inSync \/ ~run.second => repo = project.synced)

InSync == Untroubled => OneEnd /\ BackupIsRecorded /\ RecordsLast /\ SaysInSync

-----------------------------------------------------------------------------
LEMMA UntroubledStep ==
    ASSUME [Next]_vars, Untroubled'
    PROVE  Untroubled /\ Undenied
  BY MishapsGrow DEF Untroubled, Undenied

\* A mishap of another kind ends the property's promise.
LEMMA OtherMishap ==
    ASSUME NEW kind \in Kinds \ {"restore", "exception"}, Mishap(kind)
    PROVE  ~Untroubled'
  BY DEF Untroubled, Mishap, Kinds

\* The facts of a state that the steps need.
LEMMA Before ==
    ASSUME Typed, TextsKept, InSync, Untroubled, Undenied
    PROVE  /\ run \in Runs /\ run.queue \in Seq(Deltas \cup Records)
           /\ repo \in Nat /\ backup \in Nat /\ project.synced \in Nat \ {0}
           /\ ~run.error
           /\ Reading => run.synced = project.synced
           /\ OneEnd /\ BackupIsRecorded /\ RecordsLast /\ SaysInSync
  BY LastRevision DEF Typed, Runs, TextsKept, FromRecorded, InSync

\* The ends of a queue that grows or is worked off.
LEMMA AppendLast ==
    ASSUME NEW S, NEW q \in Seq(S), NEW x \in S
    PROVE  Append(q, x) # <<>> /\ Append(q, x)[Len(Append(q, x))] = x
  OBVIOUS

\* Working off the head of a queue keeps its last operation.
LEMMA TailLast ==
    ASSUME NEW S, NEW q \in Seq(S), q # <<>>
    PROVE  IF Len(q) = 1 THEN Tail(q) = <<>>
           ELSE Tail(q) # <<>> /\ Tail(q)[Len(Tail(q))] = q[Len(q)]
  <1>1. /\ Tail(q) \in Seq(S) /\ Len(q) \in Nat \ {0} /\ Len(Tail(q)) = Len(q) - 1
        /\ \A i \in 1 .. Len(Tail(q)) : Tail(q)[i] = q[i + 1]
    BY HeadTailProperties
  <1>2. CASE Len(q) = 1
    <2>1. Len(Tail(q)) = 0
      BY <1>1, <1>2
    <2>2. Tail(q) = <<>>
      BY <1>1, <2>1, EmptySeq
    <2> QED BY <1>2, <2>2
  <1>3. CASE Len(q) # 1
    <2>1. Len(Tail(q)) \in 1 .. Len(Tail(q)) /\ Len(Tail(q)) + 1 = Len(q)
      BY <1>1, <1>3
    <2>2. Tail(q) # <<>>
      BY <1>1, <1>3, EmptySeq
    <2> QED BY <1>1, <1>3, <2>1, <2>2
  <1> QED BY <1>2, <1>3

\* What the steps that only go on leave alone.
Fields == <<run.ok, run.second, run.closed, run.synced, run.inSync, run.moved, run.queue>>

\* A step to the next place changes nothing else of a run.
LEMMA Going ==
    ASSUME NEW pc \in Steps, run \in Runs, Goto(pc)
    PROVE  run'.pc = pc /\ UNCHANGED Fields
  BY DEF Goto, Runs, Fields

\* Where an exception takes a run, and what it keeps.
LEMMA Throwing ==
    ASSUME NEW r \in Runs, run' = Throw(r)
    PROVE  IF r.second THEN run'.pc = "idle" /\ ~run'.second /\ ~run'.closed /\ run'.synced = 0
           ELSE /\ run'.pc = "complete" /\ ~run'.ok /\ run'.second
                /\ run'.closed = r.closed /\ run'.synced = r.synced
  BY DEF Throw, IdleRun, Runs

\* Where the end of a transaction takes a run, and what it keeps.
LEMMA RollingBack ==
    ASSUME NEW r \in Runs, NEW b \in BOOLEAN, run' = Rollback(r, b)
    PROVE  IF r.closed THEN run'.pc = "idle" /\ ~run'.second /\ ~run'.closed /\ run'.synced = 0
           ELSE run'.pc = "close" /\ run'.closed /\ run'.inSync = b /\ run'.second = r.second
  BY DEF Rollback, IdleRun, Runs

\* Every step keeps what DataInSync rests on.
LEMMA InSyncStep ==
    ASSUME Typed, Present, TextsKept, InSync, [Next]_vars
    PROVE  InSync'
  <1> SUFFICES ASSUME Untroubled'
               PROVE  OneEnd' /\ BackupIsRecorded' /\ RecordsLast' /\ SaysInSync'
    BY DEF InSync
  <1>a. /\ run \in Runs /\ run.queue \in Seq(Deltas \cup Records)
        /\ repo \in Nat /\ backup \in Nat /\ project.synced \in Nat \ {0}
        /\ ~run.error
        /\ Reading => run.synced = project.synced
        /\ OneEnd /\ BackupIsRecorded /\ RecordsLast /\ SaysInSync
    BY UntroubledStep, Before
  <1> USE <1>a DEF OneEnd, BackupIsRecorded, RecordsLast, SaysInSync, Failing, Committing,
                   Ending, At, Reading, stores, Fields
  <1>1. CASE Start
    <2>1. run'.pc = "init" /\ UNCHANGED Fields
      BY <1>1, Going DEF Start, Steps
    <2> QED BY <1>1, <2>1 DEF Start
  <1>2. CASE InitSync
    <2>1. run'.pc = "backup" /\ UNCHANGED <<run.second, run.closed>>
      BY <1>2 DEF InitSync, Runs
    <2> QED BY <1>2, <2>1 DEF InitSync
  <1>3. CASE FirstBackup
    <2>1. run'.pc = "revision" /\ UNCHANGED <<run.second, run.closed>>
      BY <1>3, Going DEF FirstBackup, Runs, Steps
    <2>2. backup' = IF repo # 0 /\ backup = 0 THEN repo ELSE backup
      BY <1>3, OtherMishap DEF FirstBackup, Kinds
    <2> QED BY <1>3, <2>1, <2>2 DEF FirstBackup
  <1>4. CASE SetRevision
    <2>1. run'.pc = "write" /\ UNCHANGED Fields
      BY <1>4, Going DEF SetRevision, Steps
    <2> QED BY <1>4, <2>1 DEF SetRevision
  <1>5. CASE NoRevision
    BY <1>5, Throwing DEF NoRevision
  <1>6. CASE WriteBooks
    <2>1. run'.pc = "send" /\ UNCHANGED <<run.second, run.closed>>
      BY <1>6 DEF WriteBooks, Runs
    <2> QED BY <1>6, <2>1 DEF WriteBooks
  <1>7. CASE SendReceive
    <2>1. run'.pc = "docs" /\ UNCHANGED Fields
      BY <1>7, Going DEF SendReceive, Steps
    <2>2. repo' # 0
      BY <1>7, SharedType DEF SendReceive
    <2> QED BY <1>7, <2>1, <2>2 DEF SendReceive
  <1>8. CASE SendFails
    <2>1. repo' # 0
      BY <1>8, SharedType DEF SendFails, Typed
    <2> QED BY <1>8, <2>1, Throwing DEF SendFails
  <1>9. CASE UpdateDocs
    <2>1. run'.pc = "complete" /\ run'.ok /\ UNCHANGED <<run.second, run.closed, run.synced>>
      BY <1>9, UpdateType DEF Runs
    <2> QED BY <1>9, <2>1 DEF UpdateDocs
  <1>10. CASE Complete
    <2>1. /\ run'.pc = "bundle" /\ UNCHANGED <<run.second, run.closed>>
          /\ run'.queue = Append(run.queue, [revision |-> repo])
      BY <1>10 DEF Complete, Runs
    <2>2. [revision |-> repo] \in Deltas \cup Records
      BY DEF Records
    <2>3. run'.queue # <<>> /\ run'.queue[Len(run'.queue)] = [revision |-> repo]
      BY <2>1, <2>2, AppendLast
    <2> QED BY <1>10, <2>1, <2>3 DEF Complete
  <1>11. CASE RestoreMove
    <2>1. /\ run'.pc = "restore" /\ run'.moved = repo
          /\ UNCHANGED <<run.second, run.closed, run.synced>>
      BY <1>11 DEF RestoreMove, Runs
    <2> QED BY <1>11, <2>1 DEF RestoreMove
  <1>12. CASE RestoreNot
    BY <1>12, RollingBack DEF RestoreNot
  <1>13. CASE RestoreDone
    <2>1. backup # 0 /\ backup = project.synced
      BY <1>13, LastRevision DEF RestoreDone, Present
    <2> QED BY <1>13, <2>1, RollingBack DEF RestoreDone
  <1>14. CASE Bundle
    <2>1. backup' = 0 /\ run'.pc = "move" /\ UNCHANGED Fields
      BY <1>14, OtherMishap, Going DEF Bundle, Kinds, Steps
    <2> QED BY <1>14, <2>1 DEF Bundle
  <1>15. CASE Move
    <2>1. backup' = repo /\ run'.pc = "commit" /\ UNCHANGED Fields
      BY <1>15, OtherMishap, Going DEF Move, Kinds, Steps
    <2> QED BY <1>15, <2>1 DEF Move
  <1>16. CASE CommitStep
    <2>1. run'.pc = "commit" /\ run'.queue = Tail(run.queue) /\ UNCHANGED <<run.second, run.closed>>
      BY <1>16 DEF CommitStep, Runs
    <2>2. run.queue # <<>> /\ Send(run.queue[1])
      BY <1>16 DEF CommitStep
    <2>3. CASE Len(run.queue) = 1
      <3>1. run.queue[1] = [revision |-> repo] /\ run'.queue = <<>>
        BY <1>16, <2>1, <2>2, <2>3, TailLast DEF CommitStep
      <3>2. run.queue[1] \in Records
        BY <3>1 DEF Records
      <3>3. project'.synced = repo
        BY <2>2, <3>1, <3>2 DEF Send, Typed
      <3> QED BY <1>16, <2>1, <3>1, <3>3 DEF CommitStep
    <2>4. CASE Len(run.queue) # 1
      <3>1. run'.queue # <<>> /\ run'.queue[Len(run'.queue)] = [revision |-> repo]
        <4>1. run.queue[Len(run.queue)] = [revision |-> repo]
          BY <1>16, <2>2 DEF CommitStep
        <4> QED BY <2>1, <2>2, <2>4, <4>1, TailLast
      <3> QED BY <1>16, <2>1, <3>1 DEF CommitStep
    <2> QED BY <2>3, <2>4
  <1>17. CASE CommitDone
    <2>1. run'.pc = "close" /\ run'.closed /\ UNCHANGED <<run.second>>
      BY <1>17 DEF CommitDone, Runs
    <2> QED BY <1>17, <2>1 DEF CommitDone
  <1>18. CASE Close
    <2>1. run'.pc = "idle" /\ ~run'.second /\ ~run'.closed /\ run'.synced = 0
      BY <1>18 DEF Close, IdleRun
    <2>2. project'.synced = project.synced /\ project'.inSync = run.inSync
      BY <1>18 DEF Close, Typed
    <2> QED BY <1>18, <2>1, <2>2 DEF Close
  <1>19. CASE Exception
    <2>1. ~run.second /\ run.pc \notin {"bundle", "move"}
      BY <1>19, OtherMishap DEF Exception, Kinds
    <2>2. run'.pc = "complete" /\ ~run'.ok /\ run'.second /\ UNCHANGED <<run.closed, run.synced>>
      BY <1>19, <2>1, Throwing DEF Exception
    <2> QED BY <1>19, <2>1, <2>2 DEF Exception
  <1>20. CASE Abandon
    BY <1>20, OtherMishap DEF Abandon, Kinds
  <1>21. CASE Denied
    BY <1>21, OtherMishap DEF Denied, Kinds
  <1>22. CASE CommitFails
    BY <1>22, OtherMishap DEF CommitFails, Kinds
  <1>23. CASE (\E e \in ParatextEdits : ParatextUser(e)) \/ (\E e \in ForgeEdits : ForgeUser(e))
    BY <1>23 DEF ParatextUser, ForgeUser
  <1>24. CASE UNCHANGED vars
    BY <1>24 DEF vars
  <1> QED
    BY <1>1, <1>2, <1>3, <1>4, <1>5, <1>6, <1>7, <1>8, <1>9, <1>10, <1>11,
       <1>12, <1>13, <1>14, <1>15, <1>16, <1>17, <1>18, <1>19, <1>20, <1>21,
       <1>22, <1>23, <1>24
       DEF Next, RunStep

-----------------------------------------------------------------------------
\* Sync.cs:18: DataInSync is true when the last public revision of the local
\* repository is the recorded one.  Through any exceptions and failed restores,
\* a project marked so between runs is at that revision.
THEOREM InSyncIsImported == Spec => []InSyncMeansImported
  <1>1. Init => IInv /\ InSync
    <2> SUFFICES ASSUME Init PROVE InSync
      BY Initial
    <2> QED BY DEF Init, InSync, OneEnd, BackupIsRecorded, RecordsLast, SaysInSync, IdleRun,
                   Failing, Committing, Ending, At
  <1>2. IInv /\ InSync /\ [Next]_vars => (IInv /\ InSync)'
    BY Inductive, InSyncStep DEF IInv
  <1>3. IInv /\ InSync => InSyncMeansImported
    BY DEF InSync, Untroubled, SaysInSync, InSyncMeansImported
  <1> QED BY <1>1, <1>2, <1>3, PTL DEF Spec

-----------------------------------------------------------------------------
(* There are no more revisions than edits and mishaps: a sync sends a revision *)
(* only for an edit the server has not got, or because one before it failed.   *)

\* The edits the server has had.
Known == {e \in Edits : \E n \in Revisions : e \in Revision(n)}

\* As many revisions as edits and mishaps account for, with one to spare or not.
Spent == Public <= 1 + Cardinality(Known) + count
Spare == Public <= Cardinality(Known) + count

\* The next run has nothing to send but new edits.
Clean == texts \cap Known = Revision(project.synced)

\* What the queue adds to the texts and takes from them.
Brings == {e \in Edits : \E i \in DOMAIN run.queue :
              run.queue[i] \in Deltas /\ e \in run.queue[i].add}
Takes == {e \in Edits : \E i \in DOMAIN run.queue :
              run.queue[i] \in Deltas /\ e \in run.queue[i].drop}

\* A run works on from the recorded revision, and of what the server knows it
\* has fetched all the texts have.
Faithful ==
    /\ Reading => run.synced = project.synced
    /\ At("write") \/ At("send") => work.base = run.synced
    /\ At("send") => /\ work.files = run.fetched /\ run.fetched \subseteq texts
                     /\ texts \cap Known \subseteq run.fetched
    /\ At("docs") => /\ repo \in Revisions /\ work.files = Revision(repo)
                     /\ texts \cap Known = run.fetched

\* The queue makes of the texts what the repository has, and records that.
Delivers ==
    /\ Takes \cap Revision(repo) = {}
    /\ ((texts \cap Known) \ Takes) \cup Brings = Revision(repo)
    /\ \A i \in DOMAIN run.queue :
          run.queue[i] \in Records => run.queue[i].revision = repo
    /\ At("complete") \/ project.synced = repo
          \/ \E i \in DOMAIN run.queue : run.queue[i] \in Records

\* A run has sent and not yet recorded what it sent.
Sent == At("docs") \/ Delivering

Frugal ==
    /\ Spent
    /\ texts \cap ParatextEdits \subseteq Known
    /\ Faithful
    /\ Delivering => Delivers
    /\ Sent \/ Clean \/ Spare

-----------------------------------------------------------------------------
(* What the server has had. *)

\* It is a finite set with every revision in it.
LEMMA KnownIs ==
    ASSUME Typed
    PROVE  /\ Known \subseteq Edits /\ IsFiniteSet(Known) /\ Cardinality(Known) \in Nat
           /\ \A n \in Revisions : Revision(n) \subseteq Known
           /\ Last(history) \subseteq Known
           /\ Public \in Nat /\ count \in Nat
           /\ project.synced \in Revisions
  <1>1. Known \subseteq Edits
    BY DEF Known
  <1>2. IsFiniteSet(Known) /\ Cardinality(Known) \in Nat
    BY <1>1, RepoAssumption, FS_Subset, FS_CardinalityType
  <1>3. \A n \in Revisions : Revision(n) \subseteq Known
    BY LastRevision DEF Known
  <1> QED BY <1>1, <1>2, <1>3, LastRevision, RepoAssumption DEF Typed

\* It is the same when no revision is added.
LEMMA KnownStays ==
    ASSUME history' = history
    PROVE  /\ Known' = Known /\ Public' = Public /\ Revisions' = Revisions
           /\ Cardinality(Known)' = Cardinality(Known)
           /\ \A n : Revision(n)' = Revision(n)
  <1>1. Revisions' = Revisions /\ Public' = Public /\ \A n : Revision(n)' = Revision(n)
    BY DEF Revisions, Public, Revision
  <1>2. Known' = Known
    BY <1>1 DEF Known
  <1> QED BY <1>1, <1>2

\* A revision that is added brings what it has; if that is new, there is more.
LEMMA KnownGrows ==
    ASSUME Typed, NEW x \in SUBSET Edits, history' = Append(history, x)
    PROVE  /\ Known' = Known \cup x /\ Public' = Public + 1
           /\ Cardinality(Known)' \in Nat /\ Cardinality(Known) <= Cardinality(Known)'
           /\ ~(x \subseteq Known) => Cardinality(Known) + 1 <= Cardinality(Known)'
           /\ \A n \in Revisions : n \in Revisions' /\ Revision(n)' = Revision(n)
           /\ Public' \in Revisions' /\ Revision(Public)' = x /\ Last(history') = x
  <1>1. history \in Seq(SUBSET Edits)
    BY DEF Typed
  <1>2. /\ Public' = Public + 1 /\ Revisions' = 1 .. Public + 1
        /\ \A n \in Revisions : history'[n] = history[n]
        /\ history'[Public + 1] = x /\ Last(history') = x
    BY <1>1, Appended
  <1>3. Public \in Nat \ {0} /\ Revisions = 1 .. Public
    BY LastRevision
  <1>4. /\ \A n \in Revisions : n \in Revisions' /\ history'[n] = history[n]
        /\ Public + 1 \in Revisions'
        /\ \A n \in Revisions' : n \in Revisions \/ n = Public + 1
    <2>1. \A p \in Nat \ {0} : /\ p + 1 \in 1 .. p + 1
                               /\ \A n \in 1 .. p : n \in 1 .. p + 1
                               /\ \A n \in 1 .. p + 1 : n \in 1 .. p \/ n = p + 1
      OBVIOUS
    <2>2. \A n \in Revisions : n \in Revisions'
      BY <1>2, <1>3, <2>1
    <2>3. Public + 1 \in Revisions' /\ \A n \in Revisions' : n \in Revisions \/ n = Public + 1
      BY <1>2, <1>3, <2>1
    <2> QED BY <1>2, <2>2, <2>3
  <1>5. Known' = Known \cup x
    BY <1>2, <1>4 DEF Known, Revision
  <1>6. IsFiniteSet(Known') /\ IsFiniteSet(Known) /\ Cardinality(Known) \in Nat
    <2>1. Known' \subseteq Edits
      BY <1>5, KnownIs
    <2> QED BY <2>1, KnownIs, RepoAssumption, FS_Subset
  <1>7. /\ Cardinality(Known') \in Nat /\ Cardinality(Known) <= Cardinality(Known')
        /\ Known # Known' => Cardinality(Known) < Cardinality(Known')
    BY <1>5, <1>6, FS_CardinalityType, FS_Subset
  <1>8. ~(x \subseteq Known) => Cardinality(Known) + 1 <= Cardinality(Known')
    <2> SUFFICES ASSUME ~(x \subseteq Known) PROVE Cardinality(Known) + 1 <= Cardinality(Known')
      OBVIOUS
    <2>1. Known # Known'
      BY <1>5
    <2> QED BY <1>6, <1>7, <2>1
  <1>9. Revision(Public)' = x
    BY <1>2 DEF Revision
  <1> QED BY <1>2, <1>4, <1>5, <1>7, <1>8, <1>9 DEF Revision

-----------------------------------------------------------------------------
(* The account. *)

\* Without a new revision, a mishap leaves one to spare.
LEMMA Excused ==
    ASSUME Typed, Spent, history' = history, count' = count + 1
    PROVE  Spent' /\ Spare'
  <1> DEFINE c == Cardinality(Known)
  <1>1. c \in Nat /\ Public \in Nat /\ count \in Nat /\ Public <= 1 + c + count
    BY KnownIs DEF Spent
  <1>2. Public' = Public /\ Cardinality(Known)' = c
    BY KnownStays
  <1> HIDE DEF c
  <1>3. Public <= c + count' /\ Public <= 1 + c + count'
    BY <1>1
  <1> QED BY <1>2, <1>3 DEF Spent, Spare

\* Nothing changes when nothing goes wrong.
LEMMA Unexcused ==
    ASSUME Typed, Spent, history' = history, count' = count
    PROVE  Spent' /\ (Spare => Spare')
  <1> DEFINE c == Cardinality(Known)
  <1>1. Public' = Public /\ Cardinality(Known)' = c
    BY KnownStays
  <1> HIDE DEF c
  <1> QED BY <1>1 DEF Spent, Spare, c

\* A step before the sending or after the recording.
LEMMA QuietStep ==
    ASSUME Typed, Frugal, history' = history, texts' = texts,
           project'.synced = project.synced, ~Sent, ~Sent', Faithful',
           count' = count \/ count' = count + 1
    PROVE  Frugal'
  <1>1. Spent' /\ (Spare => Spare')
    BY Excused, Unexcused DEF Frugal
  <1>2. Clean => Clean'
    BY KnownStays DEF Clean
  <1> QED BY <1>1, <1>2, KnownStays DEF Frugal, Sent

\* A run that fails, wherever it was.
LEMMA FailedStep ==
    ASSUME Typed, Frugal, history' = history, texts' \cap ParatextEdits \subseteq Known,
           ~Sent', Faithful', count' = count + 1
    PROVE  Frugal'
  <1>1. Spent' /\ Spare'
    BY Excused DEF Frugal
  <1> QED BY <1>1, KnownStays DEF Frugal, Sent

\* A run that does not read has nothing to be faithful to.
LEMMA NotReading ==
    ASSUME ~Reading'
    PROVE  Faithful' /\ ~At("docs")'
  BY DEF Reading, Faithful, At

-----------------------------------------------------------------------------
(* Sending. *)

\* What a run sends is known then.  A revision with nothing new in it is only
\* sent when there is one to spare.
LEMMA Sending ==
    ASSUME Typed, Frugal, At("send"), history' = Shared
    PROVE  /\ Cardinality(Known)' \in Nat /\ Public' \in Nat
           /\ Public' <= 1 + Cardinality(Known)' + count
           /\ Known \subseteq Known'
           /\ texts \cap Known' = run.fetched
           /\ Public' \in Revisions' /\ Last(history') = Revision(Public)'
           /\ \A n \in Revisions : Revision(n)' = Revision(n)
  <1> DEFINE base == Revision(work.base)
             mine == run.fetched
             c == Cardinality(Known)
             d == Cardinality(Known)'
  <1>1. /\ work.files = mine /\ mine \subseteq texts /\ texts \cap Known \subseteq mine
        /\ base = Revision(project.synced)
    BY DEF Frugal, Faithful, Reading, At
  <1>2. /\ Known \subseteq Edits /\ base \subseteq Known /\ Last(history) \subseteq Known
        /\ c \in Nat /\ Public \in Nat /\ count \in Nat /\ mine \in SUBSET Edits
        /\ Public <= 1 + c + count
    BY <1>1, KnownIs DEF Frugal, Spent, Typed, Runs
  <1>3. CASE mine = base
    <2>1. history' = history
      BY <1>1, <1>3 DEF Shared
    <2>2. /\ Known' = Known /\ Public' = Public /\ d = c /\ Revisions' = Revisions
          /\ \A n : Revision(n)' = Revision(n)
      BY <2>1, KnownStays
    <2>3. Public \in Revisions /\ Last(history) = Revision(Public)
      BY LastRevision
    <2>4. texts \cap Known = mine
      BY <1>1, <1>2, <1>3
    <2>5. Last(history') = Revision(Public)'
      BY <2>1, <2>3 DEF Revision, Public
    <2> HIDE DEF base, mine, c, d
    <2>6. d \in Nat /\ Public' \in Nat /\ Public' <= 1 + d + count
      BY <1>2, <2>2
    <2> QED BY <2>2, <2>3, <2>4, <2>5, <2>6 DEF d, mine
  <1>4. CASE mine # base
    <2> DEFINE x == Merge(base, mine, Last(history))
    <2>1. history' = Append(history, x)
      BY <1>1, <1>4 DEF Shared
    <2>2. x \in SUBSET Edits /\ mine \ base \subseteq x /\ x \subseteq Known \cup mine
      BY <1>2 DEF Merge
    <2> HIDE DEF x
    <2>3. /\ Known' = Known \cup x /\ Public' = Public + 1
          /\ d \in Nat /\ c <= d
          /\ ~(x \subseteq Known) => c + 1 <= d
          /\ \A n \in Revisions : n \in Revisions' /\ Revision(n)' = Revision(n)
          /\ Public' \in Revisions' /\ Revision(Public)' = x /\ Last(history') = x
      BY <2>1, <2>2, KnownGrows
    <2>4. texts \cap Known' = mine
      BY <1>1, <1>2, <2>2, <2>3
    <2>5. x \subseteq Known => Public <= c + count
      <3> SUFFICES ASSUME x \subseteq Known PROVE Spare
        BY DEF Spare
      <3>1. texts \cap Known = mine
        BY <1>1, <1>2, <2>2
      <3>2. ~Clean /\ ~Sent
        BY <1>1, <1>4, <3>1 DEF Clean, Sent, Delivering, At
      <3> QED BY <3>2 DEF Frugal
    <2> HIDE DEF base, mine, c, d
    <2>6. Public' \in Nat /\ Public' <= 1 + d + count
      BY <1>2, <2>3, <2>5
    <2> QED BY <2>3, <2>4, <2>6 DEF d, mine
  <1> QED BY <1>3, <1>4

-----------------------------------------------------------------------------
(* The queue. *)

\* Of the texts, what changes is queued, and nothing else.
LEMMA Queueing ==
    ASSUME Typed, UpdateDocs
    PROVE  /\ Brings' = work.files \ run.fetched
           /\ Takes' = run.fetched \ work.files
           /\ \A i \in DOMAIN run'.queue : run'.queue[i] \notin Records
  <1>1. /\ run'.queue \in Seq(Deltas)
        /\ \A i \in DOMAIN run'.queue : \E t \in Texts : run'.queue[i] = Delta(t)
        /\ \A t \in Texts : Changed(t) =>
              \E i \in DOMAIN run'.queue : run'.queue[i] = Delta(t)
    BY UpdateType
  <1>2. \A i \in DOMAIN run'.queue : run'.queue[i] \in Deltas /\ run'.queue[i] \notin Records
    BY <1>1, DeltaType, DeltaNoRecord
  <1>3. work.files \subseteq Edits /\ run.fetched \subseteq Edits
    BY DEF Typed, Runs
  <1>4. \A t \in Texts : /\ Delta(t).add \subseteq work.files \ run.fetched
                         /\ Delta(t).drop \subseteq run.fetched \ work.files
    BY DEF Delta
  <1>5. ASSUME NEW e \in work.files \ run.fetched PROVE e \in Brings'
    <2>1. TextOf[e] \in Texts /\ e \in Delta(TextOf[e]).add
      BY <1>3, RepoAssumption DEF Delta
    <2>2. PICK i \in DOMAIN run'.queue : run'.queue[i] = Delta(TextOf[e])
      BY <1>1, <2>1 DEF Changed
    <2> QED BY <1>2, <1>3, <2>1, <2>2 DEF Brings
  <1>6. ASSUME NEW e \in run.fetched \ work.files PROVE e \in Takes'
    <2>1. TextOf[e] \in Texts /\ e \in Delta(TextOf[e]).drop
      BY <1>3, RepoAssumption DEF Delta
    <2>2. PICK i \in DOMAIN run'.queue : run'.queue[i] = Delta(TextOf[e])
      BY <1>1, <2>1 DEF Changed
    <2> QED BY <1>2, <1>3, <2>1, <2>2 DEF Takes
  <1>7. Brings' \subseteq work.files \ run.fetched /\ Takes' \subseteq run.fetched \ work.files
    BY <1>1, <1>4 DEF Brings, Takes
  <1> QED BY <1>2, <1>5, <1>6, <1>7

\* The record of a revision changes no text.
LEMMA Recording ==
    ASSUME run \in Runs, NEW r \in Records, run'.queue = Append(run.queue, r)
    PROVE  /\ Brings' = Brings /\ Takes' = Takes
           /\ \A i \in DOMAIN run'.queue :
                 \/ i \in DOMAIN run.queue /\ run'.queue[i] = run.queue[i]
                 \/ run'.queue[i] = r
           /\ \E i \in DOMAIN run'.queue : run'.queue[i] = r
  <1>1. run.queue \in Seq(Deltas \cup Records)
    BY DEF Runs
  <1>2. r \notin Deltas
    BY DeltaNoRecord
  <1>3. /\ \A i \in DOMAIN run.queue : i \in DOMAIN run'.queue /\ run'.queue[i] = run.queue[i]
        /\ \A i \in DOMAIN run'.queue :
              \/ i \in DOMAIN run.queue /\ run'.queue[i] = run.queue[i]
              \/ run'.queue[i] = r
        /\ Len(run.queue) + 1 \in DOMAIN run'.queue /\ run'.queue[Len(run.queue) + 1] = r
    BY <1>1
  <1> QED BY <1>2, <1>3 DEF Brings, Takes

\* The first operation of the queue and the rest.
LEMMA FirstAndRest ==
    ASSUME Typed, run.queue # <<>>, run'.queue = Tail(run.queue), NEW op, op = Head(run.queue)
    PROVE  /\ op \in Deltas \cup Records /\ 1 \in DOMAIN run.queue /\ run.queue[1] = op
           /\ op \in Deltas => /\ Brings = op.add \cup Brings' /\ Takes = op.drop \cup Takes'
                               /\ op.add \subseteq Edits /\ op \notin Records
           /\ op \in Records => Brings = Brings' /\ Takes = Takes'
           /\ \A i \in DOMAIN run'.queue : \E j \in DOMAIN run.queue : run'.queue[i] = run.queue[j]
           /\ \A j \in DOMAIN run.queue : run.queue[j] = op
                  \/ \E i \in DOMAIN run'.queue : run'.queue[i] = run.queue[j]
  <1>1. /\ op \in Deltas \cup Records /\ op = run.queue[1] /\ 1 \in DOMAIN run.queue
        /\ DOMAIN run'.queue = 1 .. Len(run.queue) - 1
        /\ \A i \in DOMAIN run'.queue : /\ i + 1 \in DOMAIN run.queue
                                        /\ run'.queue[i] = run.queue[i + 1]
    BY TailType
  <1>2. run.queue \in Seq(Deltas \cup Records)
    BY DEF Typed, Runs
  <1>3. DOMAIN run.queue = 1 .. Len(run.queue) /\ Len(run.queue) \in Nat
    BY <1>2
  <1>4. ASSUME NEW j \in DOMAIN run.queue, j # 1
        PROVE  j - 1 \in DOMAIN run'.queue /\ run'.queue[j - 1] = run.queue[j]
    <2>1. j - 1 \in DOMAIN run'.queue /\ (j - 1) + 1 = j
      BY <1>1, <1>3, <1>4
    <2> QED BY <1>1, <2>1
  <1>5. \A j \in DOMAIN run.queue : run.queue[j] = op
            \/ \E i \in DOMAIN run'.queue : run'.queue[i] = run.queue[j]
    BY <1>1, <1>4
  <1>6. \A i \in DOMAIN run'.queue : \E j \in DOMAIN run.queue : run'.queue[i] = run.queue[j]
    BY <1>1
  <1>7. op \in Deltas => op.add \subseteq Edits /\ op.drop \subseteq Edits /\ op \notin Records
    BY DeltaNoRecord DEF Deltas
  <1>8. op \in Records => op \notin Deltas
    BY DeltaNoRecord
  <1>9. op \in Deltas => Brings = op.add \cup Brings' /\ Takes = op.drop \cup Takes'
    <2> HIDE DEF Deltas
    <2> QED BY <1>1, <1>5, <1>6, <1>7 DEF Brings, Takes
  <1>10. op \in Records => Brings = Brings' /\ Takes = Takes'
    <2> HIDE DEF Deltas, Records
    <2> QED BY <1>5, <1>6, <1>8 DEF Brings, Takes
  <1> QED BY <1>1, <1>5, <1>6, <1>7, <1>9, <1>10

\* What is delivered is on the way until the queue is empty.
LEMMA Delivery ==
    ASSUME Typed, Present, Delivers, Delivering, ~At("complete"),
           run.queue # <<>>, Send(Head(run.queue)), run'.queue = Tail(run.queue),
           history' = history, repo' = repo, texts \cap ParatextEdits \subseteq Known
    PROVE  Delivers' /\ texts' \cap ParatextEdits \subseteq Known
  <1> DEFINE op == Head(run.queue)
             rev == Revision(repo)
  <1>1. /\ Known' = Known /\ rev' = rev
    BY KnownStays DEF Revision
  <1>2. rev \subseteq Known
    BY KnownIs DEF Present
  <1>3. /\ op \in Deltas \cup Records /\ 1 \in DOMAIN run.queue /\ run.queue[1] = op
        /\ op \in Deltas => /\ Brings = op.add \cup Brings' /\ Takes = op.drop \cup Takes'
                            /\ op.add \subseteq Edits /\ op \notin Records
        /\ op \in Records => Brings = Brings' /\ Takes = Takes'
        /\ \A i \in DOMAIN run'.queue : \E j \in DOMAIN run.queue : run'.queue[i] = run.queue[j]
        /\ \A j \in DOMAIN run.queue : run.queue[j] = op
              \/ \E i \in DOMAIN run'.queue : run'.queue[i] = run.queue[j]
    BY FirstAndRest
  <1>4. /\ Takes \cap rev = {} /\ ((texts \cap Known) \ Takes) \cup Brings = rev
        /\ \A i \in DOMAIN run.queue :
              run.queue[i] \in Records => run.queue[i].revision = repo
        /\ project.synced = repo \/ \E i \in DOMAIN run.queue : run.queue[i] \in Records
    BY DEF Delivers
  <1>5. \A i \in DOMAIN run'.queue : run'.queue[i] \in Records => run'.queue[i].revision = repo
    BY <1>3, <1>4
  <1>6. CASE op \in Records
    <2>1. texts' = texts /\ project'.synced = op.revision
      BY <1>6 DEF Send, Typed
    <2>2. op.revision = repo
      BY <1>3, <1>4, <1>6
    <2> HIDE DEF op, rev
    <2> QED BY <1>1, <1>3, <1>4, <1>5, <1>6, <2>1, <2>2 DEF Delivers, rev
  <1>7. CASE op \in Deltas
    <2>1. texts' = (texts \ op.drop) \cup op.add /\ project' = project
      BY <1>3, <1>7 DEF Send
    <2> HIDE DEF op, rev
    <2>2. op.add \subseteq rev
      BY <1>3, <1>4, <1>7
    <2>3. ((texts' \cap Known) \ Takes') \cup Brings' = rev
      BY <1>2, <1>3, <1>4, <1>7, <2>1, <2>2
    <2>4. texts' \cap ParatextEdits \subseteq Known
      BY <1>2, <2>1, <2>2
    <2>5. project.synced = repo \/ \E i \in DOMAIN run'.queue : run'.queue[i] \in Records
      BY <1>3, <1>4, <1>7
    <2>6. Takes' \cap rev = {}
      BY <1>3, <1>4, <1>7
    <2> QED BY <1>1, <1>5, <2>1, <2>3, <2>4, <2>5, <2>6 DEF Delivers, rev
  <1> QED BY <1>3, <1>6, <1>7

-----------------------------------------------------------------------------
(* The steps. *)

\* Every step keeps the account of the revisions.
LEMMA FrugalStep ==
    ASSUME Typed, Present, Frugal, [Next]_vars
    PROVE  Frugal'
  <1>0. /\ run \in Runs /\ project.synced \in Revisions
        /\ texts \cap ParatextEdits \subseteq Known
        /\ Delivering => Delivers /\ repo \in Revisions
        /\ Spent /\ Faithful
    BY DEF Typed, Frugal, Present
  <1>a. history' = history =>
            /\ Known' = Known /\ Revisions' = Revisions
            /\ \A n : Revision(n)' = Revision(n)
    BY KnownStays
  <1>b. \A kind : Mishap(kind) => count' = count + 1
    BY DEF Mishap
  <1> USE DEF stores, Well
  <1>1. ASSUME NEW e \in ParatextEdits, ParatextUser(e) PROVE Frugal'
    <2> DEFINE x == Last(history) \cup {e}
    <2>1. history' = Append(history, x) /\ x \in SUBSET Edits
      BY <1>1, LastRevision DEF ParatextUser, Edits
    <2>2. /\ UNCHANGED <<texts, project, run, repo, work, count>>
          /\ \A n \in Revisions : e \notin Revision(n)
      BY <1>1 DEF ParatextUser
    <2>3. e \notin Known /\ e \notin texts /\ e \in x /\ x \subseteq Known \cup {e}
      BY <1>0, <2>2, KnownIs DEF Known
    <2> HIDE DEF x
    <2>4. /\ Known' = Known \cup x /\ Public' = Public + 1
          /\ Cardinality(Known)' \in Nat
          /\ Cardinality(Known) + 1 <= Cardinality(Known)'
          /\ \A n \in Revisions : n \in Revisions' /\ Revision(n)' = Revision(n)
      BY <2>1, <2>3, KnownGrows
    <2>5. texts' \cap Known' = texts \cap Known /\ texts' \cap ParatextEdits \subseteq Known'
      BY <1>0, <2>2, <2>3, <2>4
    <2>6. Spent' /\ (Spare => Spare')
      <3> DEFINE c == Cardinality(Known)
                 d == Cardinality(Known)'
      <3>1. c \in Nat /\ d \in Nat /\ c + 1 <= d /\ Public \in Nat /\ count \in Nat
            /\ Public' = Public + 1 /\ count' = count
        BY <2>2, <2>4, KnownIs
      <3>2. Public <= 1 + c + count
        BY <1>0 DEF Spent
      <3>3. Spare => Public <= c + count
        BY DEF Spare
      <3> HIDE DEF c, d
      <3>4. Public' <= 1 + d + count' /\ (Spare => Public' <= d + count')
        BY <3>1, <3>2, <3>3
      <3> QED BY <3>4 DEF Spent, Spare, d
    <2>7. Faithful'
      BY <1>0, <2>2, <2>4, <2>5 DEF Faithful, Reading, At
    <2>8. Delivering' => Delivers'
      BY <1>0, <2>2, <2>4, <2>5 DEF Delivering, Delivers, Brings, Takes, At
    <2>9. Sent' \/ Clean' \/ Spare'
      BY <1>0, <2>2, <2>4, <2>5, <2>6 DEF Frugal, Sent, Delivering, At, Clean
    <2> QED BY <2>5, <2>6, <2>7, <2>8, <2>9 DEF Frugal
  <1>2. ASSUME NEW e \in ForgeEdits, ForgeUser(e) PROVE Frugal'
    <2>1. /\ UNCHANGED <<history, project, run, repo, work, count>>
          /\ texts' = texts \cup {e} /\ e \notin Known
      BY <1>2 DEF ForgeUser, Known
    <2>2. texts' \cap Known = texts \cap Known
      BY <2>1
    <2>3. texts' \cap ParatextEdits \subseteq Known
      BY <1>0, <1>2, <2>1, RepoAssumption
    <2>4. Spent' /\ (Spare => Spare')
      BY <1>0, <2>1, Unexcused
    <2>5. Faithful'
      BY <1>0, <1>a, <2>1, <2>2 DEF Faithful, Reading, At
    <2>6. Delivering' => Delivers'
      BY <1>0, <1>a, <2>1, <2>2 DEF Delivering, Delivers, Brings, Takes, At
    <2>7. Sent' \/ Clean' \/ Spare'
      BY <1>a, <2>1, <2>2, <2>4 DEF Frugal, Sent, Delivering, At, Clean
    <2> QED BY <1>a, <2>1, <2>3, <2>4, <2>5, <2>6, <2>7 DEF Frugal
  <1>3. CASE Start
    <2>1. run'.pc = "init" /\ ~Sent /\ ~Sent' /\ ~Reading'
      BY <1>0, <1>3 DEF Start, Goto, Runs, Sent, Delivering, Reading, At
    <2> QED BY <1>3, <2>1, NotReading, QuietStep DEF Start
  <1>4. CASE InitSync
    <2>1. run'.pc = "backup" /\ run'.synced = project.synced /\ ~Sent /\ ~Sent'
      BY <1>0, <1>4 DEF InitSync, Runs, Sent, Delivering, At
    <2>2. Faithful'
      BY <1>4, <2>1 DEF InitSync, Faithful, At
    <2> QED BY <1>4, <2>1, <2>2, QuietStep DEF InitSync
  <1>5. CASE Denied
    <2>1. ~run.ok
      BY <1>5 DEF Denied, Present
    <2>2. /\ run'.pc = "complete" /\ ~run'.ok /\ project'.synced = project.synced
      BY <1>0, <1>5, <2>1 DEF Denied, Runs, Typed
    <2>3. ~Sent /\ ~Sent' /\ ~Reading'
      BY <1>5, <2>2 DEF Denied, Sent, Delivering, Reading, At
    <2> QED BY <1>5, <1>b, <2>2, <2>3, NotReading, QuietStep DEF Denied
  <1>6. CASE FirstBackup
    <2>1. run'.pc = "revision" /\ run'.synced = run.synced /\ ~Sent /\ ~Sent' /\ At("backup")
      BY <1>0, <1>6 DEF FirstBackup, Goto, Runs, Sent, Delivering, At
    <2>2. Faithful'
      BY <1>0, <1>6, <2>1 DEF FirstBackup, Faithful, Reading, At
    <2> QED BY <1>6, <1>b, <2>1, <2>2, QuietStep DEF FirstBackup
  <1>7. CASE SetRevision
    <2>1. run'.pc = "write" /\ run'.synced = run.synced /\ ~Sent /\ ~Sent' /\ At("revision")
      BY <1>0, <1>7 DEF SetRevision, Goto, Runs, Sent, Delivering, At
    <2>2. Faithful'
      BY <1>0, <1>7, <2>1 DEF SetRevision, Faithful, Reading, At
    <2> QED BY <1>7, <2>1, <2>2, QuietStep DEF SetRevision
  <1>8. CASE NoRevision
    <2>1. ~Sent /\ ~Sent' /\ ~Reading'
      BY <1>0, <1>8, ThrowIs DEF NoRevision, Sent, Delivering, At
    <2> QED BY <1>8, <2>1, NotReading, QuietStep DEF NoRevision
  <1>9. CASE WriteBooks
    <2>1. /\ run'.pc = "send" /\ run'.synced = run.synced /\ run'.fetched = texts
          /\ ~Sent /\ ~Sent' /\ At("write")
      BY <1>0, <1>9 DEF WriteBooks, Runs, Sent, Delivering, At
    <2>2. work'.base = work.base /\ work'.files = texts /\ texts' = texts
      BY <1>9 DEF WriteBooks, Typed
    <2>3. Faithful'
      BY <1>0, <1>9, <2>1, <2>2 DEF WriteBooks, Faithful, Reading, At
    <2> QED BY <1>9, <2>1, <2>3, QuietStep DEF WriteBooks
  <1>10. CASE SendReceive
    <2>1. /\ run'.pc = "docs" /\ run'.synced = run.synced /\ run'.fetched = run.fetched
          /\ At("send")
      BY <1>0, <1>10 DEF SendReceive, Goto, Runs
    <2>2. /\ texts' = texts /\ project' = project /\ count' = count
          /\ repo' = Public' /\ work'.files = Last(history')
      BY <1>10 DEF SendReceive, Public
    <2>3. /\ Public' <= 1 + Cardinality(Known)' + count
          /\ Known \subseteq Known' /\ texts \cap Known' = run.fetched
          /\ Public' \in Revisions' /\ Last(history') = Revision(Public)'
      BY <1>10, Sending DEF SendReceive
    <2>4. Spent'
      BY <2>2, <2>3 DEF Spent
    <2>5. Revision(repo)' = Revision(Public)'
      BY <2>2 DEF Revision
    <2>6. Faithful'
      BY <1>0, <2>1, <2>2, <2>3, <2>5 DEF Faithful, Reading, At
    <2> QED BY <1>0, <2>1, <2>2, <2>3, <2>4, <2>6 DEF Frugal, Sent, Delivering, At
  <1>11. CASE SendFails
    <2>1. ~Sent' /\ ~Reading' /\ texts' = texts /\ count' = count + 1
      BY <1>0, <1>11, <1>b, ThrowIs DEF SendFails, Sent
    <2>2. CASE history' = history
      BY <1>0, <2>1, <2>2, NotReading, FailedStep
    <2>3. CASE history' = Shared
      <3> DEFINE d == Cardinality(Known)'
      <3>1. /\ d \in Nat /\ Public' \in Nat /\ Public' <= 1 + d + count /\ Known \subseteq Known'
        BY <1>11, <2>3, Sending DEF SendFails
      <3>2. count \in Nat
        BY KnownIs
      <3>3. Spent' /\ Spare'
        <4> HIDE DEF d
        <4>1. Public' <= 1 + d + count' /\ Public' <= d + count'
          BY <2>1, <3>1, <3>2
        <4> QED BY <4>1 DEF Spent, Spare, d
      <3> QED BY <1>0, <2>1, <3>1, <3>3, NotReading DEF Frugal, Sent
    <2> QED BY <1>11, <2>2, <2>3 DEF SendFails
  <1>12. CASE UpdateDocs
    <2>1. run'.pc = "complete" /\ run'.ok
      BY <1>0, <1>12, UpdateType DEF Runs
    <2>2. /\ UNCHANGED <<history, texts, repo, project, count>>
          /\ texts \cap Known = run.fetched /\ work.files = Revision(repo)
      BY <1>0, <1>12 DEF UpdateDocs, Faithful
    <2>3. /\ Brings' = work.files \ run.fetched
          /\ Takes' = run.fetched \ work.files
          /\ \A i \in DOMAIN run'.queue : run'.queue[i] \notin Records
      BY <1>12, Queueing
    <2>4. Revision(repo)' = Revision(repo)
      BY <1>a, <2>2
    <2>5. Delivers'
      BY <1>a, <2>1, <2>2, <2>3, <2>4 DEF Delivers, At
    <2>6. Faithful' /\ Sent' /\ Spent'
      BY <1>0, <2>1, <2>2, NotReading, Unexcused DEF Reading, Sent, Delivering, At
    <2> QED BY <1>0, <1>a, <2>2, <2>5, <2>6 DEF Frugal
  <1>13. CASE Complete
    <2>1. /\ run'.pc = "bundle" /\ At("complete") /\ Delivering
          /\ UNCHANGED <<history, texts, repo, count>>
      BY <1>0, <1>13 DEF Complete, Runs, Delivering
    <2>2. Delivers /\ Known' = Known /\ Revision(repo)' = Revision(repo)
      BY <1>0, <1>a, <2>1
    <2>3. ASSUME run.error PROVE Delivers'
      <3>1. project'.synced = repo /\ run'.queue = run.queue
        BY <1>0, <1>13, <2>3 DEF Complete, Runs, Typed
      <3> QED BY <2>1, <2>2, <3>1 DEF Delivers, Brings, Takes
    <2>4. ASSUME ~run.error PROVE Delivers'
      <3> DEFINE r == [revision |-> repo]
      <3>1. r \in Records /\ r.revision = repo
        BY <1>0, <2>1, LastRevision DEF Records
      <3>2. run'.queue = Append(run.queue, r)
        BY <1>0, <1>13, <2>4 DEF Complete, Runs
      <3> HIDE DEF r
      <3>3. /\ Brings' = Brings /\ Takes' = Takes
            /\ \A i \in DOMAIN run'.queue :
                  \/ i \in DOMAIN run.queue /\ run'.queue[i] = run.queue[i]
                  \/ run'.queue[i] = r
            /\ \E i \in DOMAIN run'.queue : run'.queue[i] = r
        BY <1>0, <3>1, <3>2, Recording
      <3>4. /\ \A i \in DOMAIN run'.queue :
                  run'.queue[i] \in Records => run'.queue[i].revision = repo
            /\ \E i \in DOMAIN run'.queue : run'.queue[i] \in Records
        BY <2>2, <3>1, <3>3 DEF Delivers
      <3> QED BY <2>1, <2>2, <3>3, <3>4 DEF Delivers
    <2>5. Delivers'
      BY <2>3, <2>4
    <2>6. Faithful' /\ Sent' /\ Spent'
      BY <1>0, <2>1, NotReading, Unexcused DEF Reading, Sent, Delivering, At
    <2> QED BY <1>0, <2>1, <2>2, <2>5, <2>6 DEF Frugal
  <1>14. CASE RestoreMove
    <2>1. run'.pc = "restore" /\ ~Sent /\ ~Sent' /\ ~Reading'
      BY <1>0, <1>14 DEF RestoreMove, Runs, Sent, Delivering, Reading, At
    <2> QED BY <1>14, <2>1, NotReading, QuietStep DEF RestoreMove
  <1>15. CASE RestoreNot
    <2>1. PICK b \in BOOLEAN : run' = Rollback(run, b)
      BY <1>15 DEF RestoreNot
    <2>2. ~Sent /\ ~Sent' /\ ~Reading'
      BY <1>0, <1>15, <2>1, RollbackIs DEF RestoreNot, Sent, Delivering, At
    <2> QED BY <1>15, <2>2, NotReading, QuietStep DEF RestoreNot
  <1>16. CASE RestoreDone
    <2>1. PICK b \in BOOLEAN : run' = Rollback(run, b)
      BY <1>16 DEF RestoreDone
    <2>2. ~Sent /\ ~Sent' /\ ~Reading'
      BY <1>0, <1>16, <2>1, RollbackIs DEF RestoreDone, Sent, Delivering, At
    <2> QED BY <1>16, <1>b, <2>2, NotReading, QuietStep DEF RestoreDone
  <1>17. CASE Bundle \/ Move
    <2>1. /\ run'.pc \in {"move", "commit"} /\ run'.queue = run.queue
          /\ ~At("complete") /\ Delivering
      BY <1>0, <1>17 DEF Bundle, Move, Goto, Runs, Delivering, At
    <2>2. /\ UNCHANGED <<history, texts, repo, project>>
          /\ count' = count \/ count' = count + 1
      BY <1>17, <1>b DEF Bundle, Move
    <2>3. Delivers'
      BY <1>0, <1>a, <2>1, <2>2 DEF Delivers, Brings, Takes, At
    <2>4. Faithful' /\ Sent' /\ Spent'
      BY <1>0, <2>1, <2>2, NotReading, Excused, Unexcused DEF Reading, Sent, Delivering, At
    <2> QED BY <1>0, <1>a, <2>2, <2>3, <2>4 DEF Frugal
  <1>18. CASE CommitStep
    <2>1. /\ run'.pc = "commit" /\ run'.queue = Tail(run.queue) /\ run.queue # <<>>
          /\ Send(Head(run.queue)) /\ ~At("complete") /\ Delivering
          /\ UNCHANGED <<history, repo, count>>
      BY <1>0, <1>18 DEF CommitStep, Runs, Delivering, At
    <2>2. Delivers' /\ texts' \cap ParatextEdits \subseteq Known
      BY <1>0, <2>1, Delivery
    <2>3. Faithful' /\ Sent' /\ Spent'
      BY <1>0, <2>1, NotReading, Unexcused DEF Reading, Sent, Delivering, At
    <2> QED BY <1>a, <2>1, <2>2, <2>3 DEF Frugal
  <1>19. CASE CommitFails
    <2> DEFINE r == [run EXCEPT !.queue = Tail(@)]
    <2>1. r \in Runs /\ run' = Throw(r) /\ run.queue # <<>> /\ history' = history
          /\ (Send(Head(run.queue)) \/ texts' = texts) /\ Delivering
      BY <1>0, <1>19, TailType DEF CommitFails, Delivering, At
    <2>2. texts' \cap ParatextEdits \subseteq Known
      <3>1. CASE texts' = texts
        BY <1>0, <3>1
      <3>2. CASE Send(Head(run.queue)) /\ Head(run.queue) \in Records
        BY <1>0, <3>2 DEF Send
      <3>3. CASE Send(Head(run.queue)) /\ Head(run.queue) \notin Records
        <4> DEFINE op == run.queue[1]
        <4>1. op = Head(run.queue) /\ 1 \in DOMAIN run.queue /\ op \in Deltas \cup Records
          BY <2>1, TailType
        <4>2. texts' = (texts \ op.drop) \cup op.add /\ op \in Deltas
          BY <3>3, <4>1 DEF Send
        <4>3. op.add \subseteq Brings
          BY <4>1, <4>2 DEF Brings, Deltas
        <4>4. Brings \subseteq Known
          BY <1>0, <2>1, KnownIs DEF Delivers
        <4> QED BY <1>0, <4>2, <4>3, <4>4
      <3> QED BY <2>1, <3>1, <3>2, <3>3
    <2> HIDE DEF r
    <2>3. ~Sent' /\ ~Reading'
      BY <2>1, ThrowIs DEF Sent
    <2> QED BY <1>19, <1>b, <2>1, <2>2, <2>3, NotReading, FailedStep DEF CommitFails
  <1>20. CASE CommitDone
    <2>1. /\ run'.pc = "close" /\ Delivering /\ ~At("complete") /\ run.queue = <<>>
          /\ UNCHANGED <<history, texts, project, count>>
      BY <1>0, <1>20 DEF CommitDone, Runs, Delivering, At
    <2>2. Delivers /\ Brings = {} /\ Takes = {}
      BY <1>0, <2>1 DEF Brings, Takes
    <2>3. Clean
      BY <2>1, <2>2 DEF Delivers, Clean
    <2>4. Clean' /\ Spent' /\ Faithful'
      BY <1>0, <1>a, <2>1, <2>3, NotReading, Unexcused DEF Clean, Reading
    <2> QED BY <1>0, <1>a, <2>1, <2>4 DEF Frugal, Delivering, At
  <1>21. CASE Close
    <2>1. project'.synced = project.synced
      BY <1>21 DEF Close, Typed
    <2>2. ~Sent /\ ~Sent' /\ ~Reading'
      BY <1>21, IdlePresent DEF Close, Sent, Delivering, At
    <2> QED BY <1>21, <2>1, <2>2, NotReading, QuietStep DEF Close
  <1>22. CASE Exception \/ Abandon
    <2>1. ~Sent' /\ ~Reading'
      BY <1>0, <1>22, ThrowIs, IdlePresent DEF Exception, Abandon, Sent
    <2> QED BY <1>0, <1>22, <1>b, <2>1, NotReading, FailedStep DEF Exception, Abandon
  <1>23. CASE UNCHANGED vars
    <2>1. Spent' /\ (Spare => Spare')
      BY <1>0, <1>23, Unexcused DEF vars
    <2>2. Faithful' /\ (Delivering' => Delivers')
      BY <1>0, <1>a, <1>23 DEF vars, Faithful, Reading, Delivering, Delivers, Brings, Takes, At
    <2> QED BY <1>0, <1>a, <1>23, <2>1, <2>2 DEF vars, Frugal, Sent, Delivering, At, Clean
  <1> QED
    BY <1>1, <1>2, <1>3, <1>4, <1>5, <1>6, <1>7, <1>8, <1>9, <1>10, <1>11, <1>12, <1>13,
       <1>14, <1>15, <1>16, <1>17, <1>18, <1>19, <1>20, <1>21, <1>22, <1>23
       DEF Next, RunStep

-----------------------------------------------------------------------------
\* The state is well-typed, and the Paratext server gets no more revisions than
\* there are edits and mishaps: syncs that find nothing new, however often they
\* are repeated, send nothing (SendReceiveAsync after SetRepoToRevision).
THEOREM RevisionsHaveCause == Spec => []TypeOK
  <1>1. Init => IInv /\ Frugal
    <2> SUFFICES ASSUME Init PROVE Frugal
      BY Initial
    <2>1. Typed
      BY Initial DEF IInv
    <2>2. /\ history = << {} >> /\ texts = {} /\ count = 0 /\ project.synced = 1
          /\ run.pc = "idle"
      BY DEF Init, IdleRun
    <2>3. Public = 1 /\ Revision(1) = {}
      BY <2>2 DEF Public, Revision
    <2>4. Spent
      BY <2>1, <2>2, <2>3, KnownIs DEF Spent
    <2>5. Clean /\ Faithful /\ ~Delivering
      BY <2>2, <2>3 DEF Clean, Faithful, Reading, Delivering, At
    <2> QED BY <2>2, <2>4, <2>5 DEF Frugal
  <1>2. IInv /\ Frugal /\ [Next]_vars => (IInv /\ Frugal)'
    BY Inductive, FrugalStep DEF IInv
  <1>3. IInv /\ Frugal => TypeOK
    <2> SUFFICES ASSUME Typed, Spent PROVE TypeOK
      BY DEF IInv, Frugal
    <2> DEFINE c == Cardinality(Known)
               n == Cardinality(Edits)
    <2>1. /\ c \in Nat /\ n \in Nat /\ c <= n
      BY KnownIs, RepoAssumption, FS_Subset, FS_CardinalityType
    <2>2. /\ Public \in Nat \ {0} /\ Public <= 1 + c + count
      BY LastRevision DEF Spent
    <2>3. count \in 0 .. MaxMishaps /\ MaxMishaps \in Nat
      BY RepoAssumption DEF Typed
    <2>4. MostRevisions = 1 + n + MaxMishaps /\ Public = Len(history)
      BY DEF MostRevisions, Public
    <2> HIDE DEF c, n
    <2>5. Len(history) \in 1 .. MostRevisions
      BY <2>1, <2>2, <2>3, <2>4
    <2> QED BY <2>5 DEF Typed, TypeOK, Runs
  <1> QED BY <1>1, <1>2, <1>3, PTL DEF Spec
=============================================================================
