------------------------------ MODULE SyncRepo ------------------------------
(***************************************************************************)
(* What a Paratext sync does with the texts: RunAsync and CompleteSync of  *)
(* ParatextSyncRunner.cs, with the repository operations of                *)
(* ParatextService.cs (SIL.XForge.Scripture/Services).                     *)
(*                                                                         *)
(* A project has three stores that no transaction spans: its texts and its *)
(* project doc in Scripture Forge, a local Mercurial repository with a     *)
(* backup of it, and the repository of the Paratext server.  A run sets    *)
(* the local repository to the revision recorded in the project doc,       *)
(* writes the texts over it, sends and receives, and queues, in the        *)
(* transaction of its Connection, what the received revision changes in    *)
(* the texts and the new revision in the project doc.  The backup is made  *)
(* just before the commit, and restored when the run fails.                *)
(*                                                                         *)
(* A text is the set of its edits: users of both sides only add edits, so  *)
(* that an edit that disappears was reverted by a sync.  The revisions of  *)
(* the Paratext server are in a line, and a repository that has one has    *)
(* all before it.  Runs exclude one another (HangfireMutex).  The project  *)
(* is no resource and has been synced before.                              *)
(***************************************************************************)
EXTENDS Naturals, FiniteSets, SequencesExt

CONSTANTS
    ParatextEdits,  \* edits that users of Paratext make
    ForgeEdits,     \* edits that users of Scripture Forge make
    Texts,          \* the texts of the project
    TextOf,         \* the text an edit is made in
    MaxMishaps      \* bound: how often something goes wrong

Edits == ParatextEdits \cup ForgeEdits

ASSUME RepoAssumption ==
    /\ ParatextEdits \cap ForgeEdits = {}
    /\ IsFiniteSet(Edits)
    /\ IsFiniteSet(Texts)
    /\ TextOf \in [Edits -> Texts]
    /\ MaxMishaps \in Nat

VARIABLES
    history,    \* the revisions of the Paratext server, by the edits they have
    repo,       \* the last revision of the local repository, 0 if it is missing
    work,       \* its working directory: the revision it is set to, its edits
    backup,     \* the last revision of the backup, 0 if there is none
    texts,      \* the edits in the texts of Scripture Forge
    project,    \* Sync of the project doc
    run,        \* RunAsync: where it is, and what it has read
    mishaps,    \* history: the kinds of mishaps there were
    count       \* how many

stores == <<history, repo, work, backup, texts, project>>
vars == <<stores, run, mishaps, count>>

Kinds == {"abandoned", "lost", "denied", "backup", "restore", "commit", "exception"}

Revision(n) == history[n]
Revisions == DOMAIN history
Public == Len(history)

\* An operation queued in the transaction: the delta of a text, or the project
\* doc's op list, which records a revision.
Deltas == [text : Texts, add : SUBSET Edits, drop : SUBSET Edits]
Records == [revision : Nat]

Steps == {"idle", "init", "backup", "revision", "write", "send", "docs", "complete",
          "restore", "bundle", "move", "commit", "close"}

IdleRun == [pc |-> "idle", synced |-> 0, error |-> FALSE, canRollback |-> FALSE,
            fetched |-> {}, queue |-> <<>>, ok |-> FALSE, second |-> FALSE,
            closed |-> FALSE, inSync |-> TRUE, moved |-> 0]

\* Every revision has an edit of its own or was sent by a run that went wrong.
MostRevisions == 1 + Cardinality(Edits) + MaxMishaps

TypeOK ==
    /\ history \in Seq(SUBSET Edits) /\ Len(history) \in 1 .. MostRevisions
    /\ repo \in 0 .. Public
    /\ backup \in 0 .. Public
    /\ work \in [base : Revisions, files : SUBSET Edits]
    /\ texts \subseteq Edits
    /\ project \in [synced : Revisions, inSync : BOOLEAN, error : BOOLEAN]
    /\ run \in [pc : Steps, synced : 0 .. Public, error : BOOLEAN, canRollback : BOOLEAN,
                fetched : SUBSET Edits, queue : Seq(Deltas \cup Records), ok : BOOLEAN,
                second : BOOLEAN, closed : BOOLEAN, inSync : BOOLEAN, moved : 0 .. Public]
    /\ mishaps \subseteq Kinds
    /\ count \in 0 .. MaxMishaps

\* The project has been synced, and has a backup or not yet.
Init ==
    /\ history = << {} >>
    /\ repo = 1
    /\ work = [base |-> 1, files |-> {}]
    /\ backup \in {0, 1}
    /\ texts = {}
    /\ project = [synced |-> 1, inSync |-> TRUE, error |-> FALSE]
    /\ run = IdleRun
    /\ mishaps = {}
    /\ count = 0

-----------------------------------------------------------------------------
At(pc) == run.pc = pc
Goto(pc) == run' = [run EXCEPT !.pc = pc]

Well == UNCHANGED <<mishaps, count>>
Mishap(kind) ==
    /\ count < MaxMishaps
    /\ count' = count + 1
    /\ mishaps' = mishaps \cup {kind}

\* The exception handler: CompleteSync, unless that is what threw.
Throw(r) ==
    IF r.second THEN IdleRun
    ELSE [r EXCEPT !.pc = "complete", !.ok = FALSE, !.second = TRUE]

-----------------------------------------------------------------------------
(* The users. *)

ParatextUser(e) ==
    /\ \A n \in Revisions : e \notin Revision(n)
    /\ history' = Append(history, Last(history) \cup {e})
    /\ UNCHANGED <<repo, work, backup, texts, project, run, mishaps, count>>

\* A user of Scripture Forge edits a text, also while a sync is running.
ForgeUser(e) ==
    /\ e \notin texts
    /\ \A n \in Revisions : e \notin Revision(n)
    /\ texts' = texts \cup {e}
    /\ UNCHANGED <<history, repo, work, backup, project, run, mishaps, count>>

-----------------------------------------------------------------------------
(* RunAsync. *)

Start ==
    /\ At("idle")
    /\ Goto("init")
    /\ UNCHANGED stores /\ Well

\* InitAsync fetches the project doc.
InitSync ==
    /\ At("init")
    /\ run' = [run EXCEPT !.pc = "backup", !.synced = project.synced, !.error = project.error]
    /\ UNCHANGED stores /\ Well

\* The user has lost access to the project.  The error code is an excluded
\* property: it is stored although the run ends with a rollback.
Denied ==
    /\ At("init")
    /\ Mishap("denied")
    /\ project' = [project EXCEPT !.error = TRUE]
    /\ run' = [run EXCEPT !.pc = "complete", !.synced = project.synced, !.error = TRUE]
    /\ UNCHANGED <<history, repo, work, backup, texts>>

\* BackupExists, or else a first BackupRepository, which may fail.
FirstBackup ==
    /\ At("backup")
    /\ \/ /\ backup' = IF repo # 0 /\ backup = 0 THEN repo ELSE backup
          /\ run' = [run EXCEPT !.pc = "revision", !.canRollback = repo # 0]
          /\ Well
       \/ /\ repo # 0 /\ backup = 0
          /\ Mishap("backup")
          /\ Goto("revision")
          /\ UNCHANGED backup
    /\ UNCHANGED <<history, repo, work, texts, project>>

\* Mutants of SetRevision: the repository stays where the last run left it; it
\* is only verified.
RevisionKept ==
    /\ At("revision")
    /\ repo # 0
    /\ Goto("write")
    /\ UNCHANGED stores /\ Well
RevisionVerified ==
    /\ At("revision")
    /\ repo # 0 /\ work.base = run.synced
    /\ Goto("write")
    /\ UNCHANGED stores /\ Well

\* SetRepoToRevision: the repository is set to the recorded revision, whatever
\* an earlier run left there.
SetRevision ==
    /\ At("revision")
    /\ run.synced <= repo
    /\ work' = [base |-> run.synced, files |-> Revision(run.synced)]
    /\ Goto("write")
    /\ UNCHANGED <<history, repo, backup, texts, project>> /\ Well

\* The repository is missing or does not have the recorded revision.
NoRevision ==
    /\ At("revision")
    /\ run.synced > repo
    /\ run' = Throw(run)
    /\ UNCHANGED stores /\ Well

\* GetAndUpdateParatextBooksAndNotes: the texts are fetched and written over
\* the books.  The copies of the connection stay as they are fetched here.
WriteBooks ==
    /\ At("write")
    /\ work' = [work EXCEPT !.files = texts]
    /\ run' = [run EXCEPT !.pc = "send", !.fetched = texts]
    /\ UNCHANGED <<history, repo, backup, texts, project>> /\ Well

Merge(base, mine, theirs) == (theirs \cup (mine \ base)) \ (base \ mine)

\* What the Paratext server has after a send/receive: a new revision if the
\* working directory has changes.
Shared ==
    IF work.files = Revision(work.base) THEN history
    ELSE Append(history, Merge(Revision(work.base), work.files, Last(history)))

\* Mutant of SendReceive: there is a new revision every time.
AlwaysCommits ==
    /\ At("send")
    /\ history' = Append(history, Merge(Revision(work.base), work.files, Last(history)))
    /\ repo' = Len(history')
    /\ work' = [base |-> Len(history'), files |-> Last(history')]
    /\ Goto("docs")
    /\ UNCHANGED <<backup, texts, project>> /\ Well

\* SendReceiveAsync: commit, pull, merge and push, under the server's lock.
SendReceive ==
    /\ At("send")
    /\ history' = Shared
    /\ repo' = Len(history')
    /\ work' = [base |-> Len(history'), files |-> Last(history')]
    /\ Goto("docs")
    /\ UNCHANGED <<backup, texts, project>> /\ Well

\* It fails: with or without having pushed, with or without knowing of it.
SendFails ==
    /\ At("send")
    /\ Mishap("exception")
    /\ history' \in {history, Shared}
    /\ repo' \in {repo, Len(history')}
    /\ run' = Throw(run)
    /\ UNCHANGED <<work, backup, texts, project>>

\* The difference between the fetched text and the received one.
Delta(t) ==
    LET mine == {e \in run.fetched : TextOf[e] = t}
        theirs == {e \in work.files : TextOf[e] = t}
    IN [text |-> t, add |-> theirs \ mine, drop |-> mine \ theirs]

Changed(t) == Delta(t).add \cup Delta(t).drop # {}

\* UpdateDocsAsync: one delta is queued for each text that changes.  The code
\* takes them in the order of the books; nothing depends on that.
UpdateDocs ==
    /\ At("docs")
    /\ \E order \in SetToSeqs({t \in Texts : Changed(t)}) :
          run' = [run EXCEPT !.pc = "complete", !.ok = TRUE,
                             !.queue = [i \in DOMAIN order |-> Delta(order[i])]]
    /\ UNCHANGED stores /\ Well

-----------------------------------------------------------------------------
(* CompleteSync. *)

\* The op list that records the new revision is queued, unless it clears an
\* error code, which is excluded from the transaction: then it is sent now.
Complete ==
    /\ At("complete") /\ run.ok
    /\ IF run.error
       THEN /\ project' = [project EXCEPT !.synced = repo, !.error = FALSE]
            /\ run' = [run EXCEPT !.pc = "bundle", !.synced = repo, !.error = FALSE]
       ELSE /\ run' = [run EXCEPT !.pc = "bundle", !.synced = repo,
                                  !.queue = Append(@, [revision |-> repo])]
            /\ UNCHANGED project
    /\ UNCHANGED <<history, repo, work, backup, texts>> /\ Well

\* A failed run with a backup restores it: the repository is moved away first.
RestoreMove ==
    /\ At("complete") /\ ~run.ok
    /\ run.canRollback /\ repo # 0 /\ backup # 0
    /\ repo' = 0
    /\ run' = [run EXCEPT !.pc = "restore", !.moved = repo]
    /\ UNCHANGED <<history, work, backup, texts, project>> /\ Well

\* Mutant of Rollback: the data counts as in sync, as after a restored backup.
InSyncAssumed(r, inSync) ==
    IF r.closed THEN IdleRun
    ELSE [r EXCEPT !.pc = "close", !.closed = TRUE, !.inSync = TRUE, !.queue = <<>>]

\* Rollback of the transaction; it was closed before when the first call of
\* CompleteSync came that far, and then it throws.
Rollback(r, inSync) ==
    IF r.closed THEN IdleRun
    ELSE [r EXCEPT !.pc = "close", !.closed = TRUE, !.inSync = inSync, !.queue = <<>>]

\* Without one, the data is in sync if the repository still is where it was.
RestoreNot ==
    /\ At("complete") /\ ~run.ok
    /\ ~(run.canRollback /\ repo # 0 /\ backup # 0)
    /\ run' = Rollback(run, repo = run.synced)
    /\ UNCHANGED stores /\ Well

\* The backup is unbundled, its last revision checked out; or that fails and
\* the repository is moved back.
RestoreDone ==
    /\ At("restore")
    /\ \/ /\ repo' = backup
          /\ work' = [base |-> backup, files |-> Revision(backup)]
          /\ run' = Rollback(run, TRUE)
          /\ Well
       \/ /\ Mishap("restore")
          /\ repo' = run.moved
          /\ run' = Rollback(run, run.moved = run.synced)
          /\ UNCHANGED work
    /\ UNCHANGED <<history, backup, texts, project>>

\* Mutant of Bundle: a backup is only made when there is none.
BundleOnce ==
    /\ At("bundle")
    /\ Goto(IF backup = 0 THEN "move" ELSE "commit")
    /\ UNCHANGED stores /\ Well

\* BackupRepository: a new bundle, then the old one is deleted, ...
Bundle ==
    /\ At("bundle")
    /\ \/ backup' = 0 /\ Goto("move") /\ Well
       \/ UNCHANGED backup /\ Goto("commit") /\ Mishap("backup")
    /\ UNCHANGED <<history, repo, work, texts, project>>

\* ... then the new one takes its place.  The sync goes on if this fails.
Move ==
    /\ At("move")
    /\ Goto("commit")
    /\ \/ backup' = repo /\ Well
       \/ UNCHANGED backup /\ Mishap("backup")
    /\ UNCHANGED <<history, repo, work, texts, project>>

\* What a queued operation does to the texts and to the project doc, after
\* whatever users did meanwhile.
Send(op) ==
    IF op \in Records
    THEN /\ project' = [project EXCEPT !.synced = op.revision]
         /\ UNCHANGED texts
    ELSE /\ texts' = (texts \ op.drop) \cup op.add
         /\ UNCHANGED project

CommitStep ==
    /\ At("commit") /\ run.queue # <<>>
    /\ Send(Head(run.queue))
    /\ run' = [run EXCEPT !.queue = Tail(@)]
    /\ UNCHANGED <<history, repo, work, backup>> /\ Well

\* The realtime server fails, before or after it has applied the operation.
CommitFails ==
    /\ At("commit") /\ run.queue # <<>>
    /\ Mishap("commit")
    /\ Send(Head(run.queue)) \/ UNCHANGED <<texts, project>>
    /\ run' = Throw([run EXCEPT !.queue = Tail(@)])
    /\ UNCHANGED <<history, repo, work, backup>>

CommitDone ==
    /\ At("commit") /\ run.queue = <<>>
    /\ run' = [run EXCEPT !.pc = "close", !.closed = TRUE, !.inSync = TRUE]
    /\ UNCHANGED stores /\ Well

\* The last update, outside the transaction.
Close ==
    /\ At("close")
    /\ project' = [project EXCEPT !.inSync = run.inSync]
    /\ run' = IdleRun
    /\ UNCHANGED <<history, repo, work, backup, texts>> /\ Well

-----------------------------------------------------------------------------
\* Any other exception.  Two kinds matter more: one in the second CompleteSync
\* ends the run, and one after the backup leaves it ahead of the project doc.
Exception ==
    /\ run.pc \in {"init", "backup", "revision", "write", "docs", "complete", "bundle",
                   "move", "close"}
    /\ Mishap(IF run.second THEN "abandoned"
              ELSE IF run.pc \in {"bundle", "move"} THEN "commit" ELSE "exception")
    /\ run' = Throw(run)
    /\ UNCHANGED stores

\* The server dies, or the run is cancelled: CompleteSync then throws in its
\* first query.  Nothing is restored; the next run finds everything as it is,
\* the repository moved away if it was being restored.
Abandon ==
    /\ ~At("idle")
    /\ Mishap(IF At("restore") THEN "lost" ELSE "abandoned")
    /\ run' = IdleRun
    /\ UNCHANGED stores

RunStep ==
    \/ Start \/ InitSync \/ FirstBackup \/ SetRevision \/ NoRevision \/ WriteBooks
    \/ SendReceive \/ UpdateDocs \/ Complete \/ RestoreMove \/ RestoreNot \/ RestoreDone
    \/ Bundle \/ Move \/ CommitStep \/ CommitDone \/ Close

Next ==
    \/ \E e \in ParatextEdits : ParatextUser(e)
    \/ \E e \in ForgeEdits : ForgeUser(e)
    \/ RunStep
    \/ Denied \/ SendFails \/ CommitFails \/ Exception \/ Abandon

Spec == Init /\ [][Next]_vars

\* Syncs are requested again and again, and a run goes on while it lives.
FairSpec == Spec /\ WF_vars(RunStep)

-----------------------------------------------------------------------------
(* Properties. *)

\* No sync takes back what a user wrote, in Scripture Forge or in Paratext: not
\* with users editing during the sync, nor after runs that were abandoned or
\* failed at any step and left the three stores apart.  It takes
\* SetRepoToRevision at the start of every run (ParatextSyncRunner.cs:205), and
\* that the recorded revision is committed after the texts.
NoEditReverted ==
    [][ "denied" \notin mishaps' =>
            texts \subseteq texts' /\ Last(history) \subseteq Last(history') ]_vars

\* The revision recorded in the project doc is in the repository, and in the
\* backup a failed run restores: "the restored repo can be assumed to be at the
\* revision recorded in the project doc" (ParatextSyncRunner.cs:1765).  That
\* needs backups that do not fail and no early record.
SyncedIsRestorable ==
    mishaps \cap {"denied", "backup"} = {} =>
        /\ repo # 0 => project.synced <= repo
        /\ backup # 0 => project.synced <= backup

\* Sync.cs:18: DataInSync is true when the last public revision of the local
\* repository is the recorded one.  A project marked so after a run is, unless
\* a run was abandoned or failed between its backup and the end of its commit.
InSyncMeansImported ==
    mishaps \subseteq {"restore", "exception"} =>
        (At("idle") /\ project.inSync => repo = project.synced)

\* Every edit arrives on the other side in the end, when syncs are repeated and
\* only exceptions and abandoned runs got in their way: not a restore cut short,
\* nor a backup that is older than the recorded revision.
EditsArrive ==
    [](mishaps \cap {"denied", "backup", "lost"} = {}) =>
        \A e \in Edits :
            (e \in texts \cup Last(history)) ~> (e \in texts \cap Last(history))

\* Sync.cs:12: SyncedToRepositoryVersion is the commit "the SF project was last
\* successfully synchronized with".  Between runs, the texts have what it has.
SyncedIsImported == At("idle") => Revision(project.synced) \subseteq texts
=============================================================================
