# Verification of Scripture Forge (web-xforge)

TLA+ modules of the parts of Scripture Forge where concurrency, failure and ordering
decide whether users' work survives: on the backend the Paratext sync from its queue to
its commit, the job mutex below it, the realtime connection it writes through and the
queue of draft builds; in the client the offline documents, the live queries and the
recordings. TLC checks small instances, TLAPS proves what holds for all.

Paths are relative to `src/src/`; `Services/` is `SIL.XForge.Scripture/Services/` and
`xforge-common/` is `SIL.XForge.Scripture/ClientApp/src/xforge-common/`.

## 1. The system

Scripture Forge is three programs and four stores.

- The **Angular client** (`SIL.XForge.Scripture/ClientApp`). It edits documents through
  ShareDB over a web socket, keeps them in IndexedDB for offline use, and calls the
  backend over JSON-RPC and HTTP.
- The **ASP.NET backend** (`SIL.XForge`, `SIL.XForge.Scripture`). Controllers call
  services; long work is done by **Hangfire** jobs in the same process, whose states are
  stored in MongoDB. It talks to Paratext (registry, Mercurial send/receive server), to
  Serval (machine translation) and to Auth0.
- The **Node realtime server** (`RealtimeServer`). ShareDB over MongoDB; web sockets for
  clients; the backend starts it and calls it through Jering.Javascript.NodeJS.
- Stores: the ShareDB documents (texts, project docs, questions, notes), plain MongoDB
  collections (project secrets, user secrets, sync metrics, site config), the local
  Mercurial repositories with one backup each, and the Paratext server's repository.
  **No transaction spans any two of them.**

### 1.1 Components

| Component | State | Operations | Hard behaviour | What makes it correct | Here |
| --- | --- | --- | --- | --- | --- |
| Job mutex, `Services/MutexAttribute.cs` | a set of owner job ids per method, `MutexAttempt` per job | `OnStateElection`, `OnStateApplied`, called by Hangfire | two workers at once; outer transaction lost after the set was written; server crash; deleted jobs | one job at a time in Processing; no owner is left behind; every job ends | `HangfireMutex`, `ExclusiveExecution` |
| Sync queue, `Services/SyncService.cs` | `Sync.QueuedCount` of the project doc, `JobIds` and `SyncMetricsIds` of the project secret, the jobs | `SyncAsync`, `CancelSyncAsync` | two documents and the job storage, written one after the other, beside runs, cancels, crashes and throws | the count and the lists are the syncs under way; the syncing display ends; a target runs after its source | `SyncQueue` |
| Sync runner, `Services/ParatextSyncRunner.cs` | what a run has read, a transaction | `RunAsync`, `CompleteSync` | users edit both sides during a sync; it fails or is abandoned anywhere, and is run again | no edit is reverted; the recorded revision can be restored; edits arrive | `SyncRepo`; its bookkeeping in `SyncQueue` |
| Repository operations, `Services/ParatextService.cs`, `HgWrapper.cs` | local repository, working directory, backup bundle | set to revision, send/receive, back up, restore | each is several file operations | as above | `SyncRepo` |
| Rest of the Paratext service | - | registry, books, notes, settings | - | - | no |
| Backend connection and documents, `SIL.XForge/Realtime/Connection.cs`, `Document.cs` | cached copies, transaction flag, excluded properties, queue | begin, exclude, commit, roll back; create, fetch, submit, replace, delete | operations of a transaction are sent one by one, with others writing between; refused ops, lost answers; stale copies | a copy predicts what a commit makes; nothing of a transaction outlives it | `Connection` |
| Realtime server, backend calls, `RealtimeServer/common/index.ts` | documents; one ShareDB `Doc` per connection and document | `createDoc`, `fetchDoc`, `submitOp`, `replaceDoc`, `deleteDoc` | a replacement is computed from a doc that is as old as the connection's last call | as above | `Connection` |
| Realtime server: services and permissions | - | `allowRead`, `allowUpdate`, ... | - (pure functions of one op and one document) | every op of a submission is allowed | no |
| Realtime server: migrations | schema versions | run at start | data conversion | - | no |
| Realtime server process management | a node process | start, stop, restart | an operation whose answer is lost | - | its effects: `Connection`, `SyncRepo` |
| Offline documents, `xforge-common/models/realtime-doc.ts`, `sharedb-realtime-remote-store.ts`, `realtime.service.ts`, `indexeddb-offline-store.ts` | document in memory, ops in flight and pending, record in IndexedDB | open, submit, update the record, send, reconnect, load the record | several updates of the record in flight; an op sent before the page was closed and again after it; lost answers, refused ops | each op is applied once; no recorded edit is lost; edits arrive | `OfflineDoc` |
| Live queries, `xforge-common/models/realtime-query.ts` | result arrays, counts and subscriptions of documents | local query, remote query, insert, remove, move, dispose | results change while inserted documents are loading | what is shown is counted and heard; results are the last ones | `RealtimeQuery` |
| Draft build queue, `Services/MachineApiService.cs`, `MachineProjectService.cs`, `MachineBackgroundService.cs` | `PreTranslationQueuedAt`, `PreTranslationJobId` of the project secret, Serval's builds, `LastFinishedBuildId`, `PreTranslationsRetrieved` | request, cancel, build job, poll, retrieve | claims and cancels that cross; abandoned claims; crashes between processing and recording | a build on its way has the claim; no claim is kept; texts of finished builds arrive | `DraftBuild`, `FinishedBuilds` |
| Project service, `Services/SFProjectService.cs` | project docs, secrets, share keys | add, delete, invite, share | a delete beside a sync; positions in an array that shifts | - | no |
| File service, `xforge-common/file.service.ts`, `models/project-data-doc.ts`, `file-offline-data.ts` | record in IndexedDB, url in the document, file on the server | upload, find, delete, `syncFiles` when online | `syncFiles` works off a list it read once, beside the user and beside itself; any request fails | no recording is lost, no url is dead, no deleted file stays | `FileService` |
| Retrying request, `xforge-common/retrying-request.service.ts` | status | invoke, cancel, retry on reconnect | one loop over one request, nothing persisted | - | no |
| Text and notes conversion | - | USX to delta and back | in the data | - | no |
| Users and authentication | - | Auth0, single writes | - | - | no |
| User interface | - | shows `QueuedCount`, `DataInSync` | - | relies on `CountIsPending`, `SpinnerEnds`, `InSyncMeansImported` | no |

### 1.2 How they interact

    SyncAsync --schedules/enqueues--> Hangfire --elects/applies--> MutexAttribute
        |                                 |
        | QueuedCount, JobIds             | runs
        v                                 v
    project doc, project secret <---- RunAsync ----> local repository, backup
        ^                                 |               |
        | shown by clients                | Connection    | send/receive
        |                                 v               v
    clients --ShareDB--> realtime server (texts)    Paratext server

`SyncAsync` counts and lists jobs in two documents before it enqueues them. Hangfire
asks `MutexAttribute` before each run. A run reads the project doc and secret, works on
the repository, and queues its changes of the texts in a transaction of its
`Connection`, while users go on editing through their own. At its end it takes itself
off the count and the lists. A cancel deletes the listed jobs and resets the count. A
request for a draft claims the project in its secret, schedules syncs and, after them,
the build job; the job uploads the project to Serval and clears the claim; a poller sees
that Serval has finished and enqueues the job that retrieves the texts. In the client an
edit goes to the document in memory, to the record in IndexedDB and over the web socket,
in this order only when nothing is lost; queries keep and drop the documents that
components show; recordings go by HTTP, with their url in a document. `PROJECT.json`
lists the hazards of this traffic, each at its line; what follows says which property
meets which.

## 2. The modules

| Module | Models | Composes |
| --- | --- | --- |
| `ExclusiveExecution` | what the mutex promises, an abstract lock | - |
| `HangfireMutex` | `MutexAttribute.cs` over Hangfire's job states | `ExclusiveExecution`, by a refinement |
| `SyncQueue` | `SyncService.cs`, bookkeeping of `ParatextSyncRunner.cs` | `HangfireMutex`: its actions are this module's job engine |
| `SyncRepo` | `RunAsync`, `CompleteSync` and the repository | - |
| `Connection` | `Connection.cs`, `Document.cs`, `index.ts` | - |
| `OfflineDoc` | `realtime-doc.ts` with its remote and offline stores | - |
| `RealtimeQuery` | `realtime-query.ts` | - |
| `FileService` | `file.service.ts` | - |
| `DraftBuild` | request, cancel and build job of a draft | - |
| `FinishedBuilds` | poller of finished builds, retrieval of their texts | put beside `DraftBuild` by `MCDrafts` |
| `HangfireMutexProofs`, `SyncQueueProofs`, `SyncRepoProofs`, `ConnectionProofs`, `OfflineDocProofs`, `RealtimeQueryProofs`, `FileServiceProofs`, `DraftBuildProofs` | theorems and proofs | each extends its module, the last `MCDrafts` |
| `MC...` | the instances TLC checks | |

Some definitions stand next to a variant whose comment calls it a mutant: the same
operation with a plausible bug. Nothing uses them; they are there to show, one for each
property, that the property notices such a bug when the variant is put in place of the
operation.

### 2.1 HangfireMutex

`jobState`, `attempts` and `retries` are Hangfire's job record. `owners` is the resource
set of the storage. `electing` are jobs that `OnStateElection` has let in while the
outer state transaction is still to be committed, and `workers` the jobs a worker has
taken. They are kept apart because everything that can go wrong lies between them:
the set is written in a local transaction of its own.

`ElectPermit`, `ElectBlocked` and `ElectTimeout` are the three outcomes of
`OnStateElection`; `OwnersAfterApply` is `OnStateApplied`, which is part of every state
change (`Transition`). `StartProcessing` commits the elected state, and `LoseProcessing`
and `LoseFinish` lose it, before or after the callback ran. `Crash` takes the workers
and leaves the storage.

`MutexAttribute` inherits from `DisableConcurrentExecutionAttribute` a second lock
(`MutexAttribute.cs:22-31`): a worker whose job is Processing takes it in `OnPerforming`
and gives it back in `OnPerformed`. It is left out. It never lets anybody in; it makes a
worker wait, for a day at most, and throw then, which is a `Fail`. So a job in `workers`
may be waiting there rather than in its method, and the properties are about the state
Processing, which is what the filter decides, and not about the method.

What Hangfire does is external and taken from how `src/` uses it: a job in Processing
whose worker died is fetched again; `AutomaticRetry` reschedules a job that threw; a
deleted job's worker is told by its cancellation token, later. Each election of a job is
made under Hangfire's lock of that job, so that a job is not elected twice at a time and
not deleted while it is being elected.

### 2.2 SyncQueue

Each call of `SyncAsync` is a list of its writing steps (`Plan`), so that everything
else may happen between any two of them: schedule the jobs, count them, list them,
enqueue the first. `RequestFault` is an exception between two steps, with the clean-up
of `SyncService.cs:303` that deletes the jobs and leaves counts and ids. A run is
`FetchDoc`, `FetchSecret` (what it read is what it later acts on), `Complete`, `Unlist`,
`Close`, `Uncount`, `StoreMetrics`, in the order of `CompleteSync`; `RunFault` is an
exception in any of them, and the second call of `CompleteSync` it leads to.
`CancelSyncAsync` is read, delete one job after the other, clear the lists, reset the
count, then the same for the source. `Crash` ends calls and runs alike.

The job engine is `HangfireMutex` with its actions `Create`, `Enqueue`, `Elect`,
`StartProcessing`, `Finish`, `Fail`, `Abandon`, `Delete` and `Crash`; lost outer
transactions are left to the run `mutex`. Continuations start when their parent
Succeeded or is Deleted: `OnAnyFinishedState` means final states, and Failed is none for
Hangfire. As the inherited lock is left out, two runs of a project may overlap here after
a crash where in the code one waits for the other: what holds here holds there.

`NoCancel` and `NoFaults` say that no cancel has begun and no exception was thrown; the
properties that a cancel or an exception breaks are stated until then.

Left out: the content of sync metrics, and the SMT build job that `SyncAsync` may
append.

### 2.3 SyncRepo

`history` is the line of revisions on the Paratext server, each the set of edits it has.
`repo` and `backup` are the last revision of the local repository and of its backup (0:
missing), `work` the working directory. `texts` and `project` are the documents of
Scripture Forge, `run` what `RunAsync` knows, with the queue of its transaction.
`mishaps` records which kinds of things went wrong, so that a property can name the ones
it holds without.

A text is the set of edits in it, and users of both sides only add edits. So an edit
that disappears was reverted by a sync, which is the worst that can happen here, and a
delta is a pair of sets to add and to drop, computed from the texts as fetched
(`WriteBooks`) and applied to the texts as they are (`CommitStep`). `Changed` picks the
texts that get a delta; `UpdateDocs` queues them in any order, as the code goes through
the books of a project in the order of its project doc. `Merge` is Mercurial's three-way
merge for such sets.

The steps are those of the code: `SetRevision` puts the repository to the revision the
project doc records, whatever an earlier run left there; the texts are written over it;
send/receive commits, merges and pushes under the server's lock; deltas are queued; the
recorded revision is queued or, if the op list clears an excluded property, sent at once
(`Complete`); the backup is deleted and replaced (`Bundle`, `Move`); the queue is
committed op by op; or the backup is restored (`RestoreMove`, `RestoreDone`).
`Exception`, `SendFails`, `CommitFails`, `Denied` and `Abandon` may interrupt any of it.
A cancelled run is abandoned: the `CompleteSync` of its exception handler meets the same
token in its first query.

Left out: first syncs, resources, draft changesets, questions, notes, biblical terms and
roles. All but the first two go through the same transaction in the same way.

### 2.4 Connection

`server` has the documents, `mirror` this connection's ShareDB `Doc` of each, `local`
the cached `Document.Data`, and `isTransaction`, `excluded` and `queued` are the fields
of `Connection.cs`. `Accepts` and `Effect` are what `index.ts` does with one operation:
a submit is applied to the current document, a replace becomes the difference between
the mirror and the new data, and both fail without a loaded mirror. Data, ops, `Apply`,
`Diff` and `Paths` are parameters, so that the module says nothing of JSON0 or rich text
but that a difference leads where it should.

`Commit` is `CommitStart`, one `CommitStep` for each operation, `CommitDone`, or
`CommitThrow`, where the operation is off the queue whether or not it was carried out.
Other connections write at any time (`OtherWrite`). A connection is used by one task
that awaits each call. Deletions by other connections are left out: two syncs of a
project exclude one another.

`fresh` is a history variable: the documents for which nothing has come between.

### 2.5 OfflineDoc

A document lives three times. `log` is what the server has applied; `doc` is the open
page: ShareDB's version, what it shows (`data`), the ops in flight and pending, whether
it is subscribed, and the transactions IndexedDB has yet to do, in order (`puts`);
`record` is `RealtimeOfflineData` in IndexedDB. `UpdateOfflineData` is the guard and the
write of `realtime-doc.ts:210`, and is part of every action in which the code calls it:
an edit (`Submit`), a remote op, an acknowledgement, and `Flush`, which
`realtime.service.ts:51` calls before an op is sent. `LoadOfflineData` restores version,
data and pending ops, numbered as they were, when a page is opened again. `Close` takes
all but the record, `Disconnect` what is on the `wire`, and `Refuse` is an op the server
rejects.

ShareDB is external: its client numbers an op when it sends it and sends it again after
a reconnect, under the same connection id for as long as the page is open; its server
takes an op with the number of one it has for a repetition and only answers; a client
knows an op it hears for its own by that number. Ops are identities, so transforming and
composing them is not modelled.

Left out: creating, deleting and disposing of a document, `checkExists`, a put that
IndexedDB aborts for lack of space, and cleaning up: a refused op stays in the record
until something else changes it.

### 2.6 RealtimeQuery

`docs` are the results a query shows, `calls` the calls of `onChange` (from
`localQuery`, `onReady` or `remoteChanges$`) that are under way, each with what it has
still to do. A call compares, removes and moves at once (`OnChange` with
`RemoveAndMove`), then for each run of insertions counts the documents (`BeginInsert`),
waits for them to load, and splices them in where it has computed them to go (`Splice`);
nothing keeps two calls apart. `count` is `subscribeQueryCount` of every document and
`heard` the subscriptions of its changes, of which `mapped` are those the query still
knows. What the results are is left open, and `arraydiff` is known by its use: removals,
moves, then insertions.

Left out: queries for a count, `fetch` without subscribing, parameters, sorting.

### 2.7 FileService

For each recording: `server`, the file; `url`, what the document says; `store`, the one
record IndexedDB has for it, a recording to upload, a deletion to send or a copy. `act`
is the user's `uploadFile` or `deleteFile` under way, `fetching` a download for the
cache, `sync` the runs of `syncFiles`: each reads the list of records once (`SyncFiles`)
and works it off, every request being one step at the server and one when its answer is
in. `onlineStatus$` emits for the window's event and for the web socket, so that two
runs may overlap. `Drop`, `Close` and refused requests are the mishaps.

`excused` collects for each recording which of six things has happened to it: `failed`
(an upload failed in `syncFiles`), `overtaken` (a recording was made or removed while
`syncFiles` or a download was at work on the one before it), `left` (an upload that went
through left an older upload or deletion of the same file on record, which `syncFiles`
still works off), `orphaned` (a deletion found an upload on record and took it to mean
that the server has no file), `refused` (a refused request, made again only when the
client comes online once more) and `interrupted` (the page was closed during an
operation). Each property names those it holds without.

Assumptions: a read of IndexedDB and the write after it with no request between are one
step; a user waits for one operation on a recording before the next; one client. Left
out: training data, archived questions, downloads for the user, storage quotas.

### 2.8 DraftBuild and FinishedBuilds

`queued` is whose claim `PreTranslationQueuedAt` is and whether it is older than
`QueuedBuildStaleThreshold`, `jobId` is `PreTranslationJobId`. A request reads the
abandoned job id, claims by one conditional update (`Claim` or `Refuse`), deletes the
abandoned job, checks Serval, schedules, and stores its job's id; `RequestFails` and
`Release` are its catch block, which unsets the claim whosever it is, and `ReleaseFails`
that block's own exception. The syncs a build waits for are part of its job. A cancel
reads, deletes the job it has found, unsets the claim, and asks Serval to cancel.

The job begins, uploads and starts the build (`StartBuild`), or finds that Serval has one
already (`refused`), and clears the claim (`ClearQueued`, `Clear`); when it fails it
clears the claim and reports (`ReportError`). It has not ended then: until the email is
out, the method has returned and Hangfire has committed Succeeded (`Finish`), a crash or
an exception makes Hangfire run it again (`FinishFails`, `Crash`), without a claim.
`Notice` is the worker of a deleted job that sees its token.

`excused` names the requests that lost their claim although they went on. There are five
ways: a cancel clears the claim of a request whose job id it has not read; a request that
fails late releases a claim that is no longer its own; a stale claim is taken over from
one that is still at work; the worker of a build that has lost its claim clears another's;
and a job is run again after it has cleared its claim. `takenOver` is a history variable:
a stale claim was taken over.

`FinishedBuilds` goes on from there: Serval finishes builds (`BuildEnds`); the poller
processes the next one (`Process`), which enqueues a retrieval when it is a completed
build, and then records it (`Record`); a retrieval marks the texts as not retrieved,
stores them, marks them as retrieved, or skips when the mark says another one is at work
(`Skip`).

The two have no state in common past the end of a build. `MCDrafts` puts them into one
instance in which a behaviour is of one part and the other rests.

Left out: build configuration, corpora, the error message, quotas, what emails say,
applying drafts, and the deletion of the project during a build, with the branch of
`MachineProjectService.cs:213-221` that ends a job whose project is gone.

## 3. What the runs check

Eight runs pass and explore every state of their instance. Deadlock is not checked in
any: when all jobs, calls or edits of an instance are done, or its queue is full and the
commit was left by its caller, the system may stop. A run that ends in a violation stops
at the first state that shows it.

| Run | Instance | States | Checks |
| --- | --- | --- | --- |
| `mutex` | 3 jobs, unlimited attempts, 1 retry, any job deleted at any time, 1 crash, 1 lost commit | 39 732 | `TypeOK`, `OneOwner`, `ProcessingExcludes`, `OwnerIsAlive`, `PermitIsKept`, `ImplementsExclusiveExecution`, `EveryJobEnds` |
| `mutex_restart` | 2 jobs, 1 crash | | violates `BlockedAfterRestart` |
| `queue` | a sync of a daughter with its source beside a sync of that source, with 1 exception in `SyncAsync` and 1 in a run; or beside a cancel of both; 1 retry, 1 crash | 499 330 | `TypeOK`, `CountIsPending`, `IdsArePending`, `MetricIdsArePending`, `TargetAfterSource`, `SpinnerEnds` |
| `conn` | one document of two properties with values 0 and 1, queue of 2, any writes by others | 235 342 | `TypeOK`, `CopyPredicts`, `NothingLeft` |
| `repo` | two texts, two edits in Paratext, one in Scripture Forge, two mishaps, with or without a backup at the start | 180 748 | `TypeOK`, `SyncedIsRestorable`, `InSyncMeansImported`, `NoEditReverted`, `EditsArrive` |
| `repo_denied` | as `repo` | | violates `SyncedIsImported` |
| `offline` | two edits of the user, one of another, two openings of the page, one lost connection or refused op, a page that is closed at any time | 992 419 | `TypeOK`, `AppliedOnce`, `DataIsVersionAndPending`, `NoEditForgotten`, `EditsArrive` |
| `query` | two queries over two documents, four calls of `onChange`; queries and documents symmetric | 202 681 | `TypeOK`, `CountIsHeld`, `ShowsResults`, `HearsWhatItShows` |
| `files` | one recording made up to twice, two runs of `syncFiles`, one mishap | 364 876 | `TypeOK`, `LocalIsStored`, `ServerHasFile`, `NothingResurrected`, `UploadsArrive`, `DeletionsArrive` |
| `files_lost` | one recording, one run of `syncFiles`, one mishap | | violates `OfflineIsUploaded` |
| `drafts` | two requests, a cancel, one fault; or three builds, two faults | 155 375 | `TypesOK`, `BuildHasClaim`, `ClaimIsGivenBack`, `DraftsArrive` |
| `drafts_invisible` | two requests, a cancel, no fault | | violates `NoInvisibleBuild` |

### 3.1 What the properties say

- **One job at a time in Processing.** `OneOwner` holds through everything.
  `ProcessingExcludes` holds until a server dies or a commit is lost; `PermitIsKept` is
  the action property behind it. A deleted job has left Processing, although its worker
  goes on until it polls its token: the next job is let in, and its worker waits for the
  inherited lock (section 2.1), of which the properties say nothing. `OwnerIsAlive` says
  that no job that ended holds the others up. `ImplementsExclusiveExecution` is the
  refinement of the abstract lock, for as long as nothing was disturbed, and with the
  fairness below `EveryJobEnds` is progress.
- **The records of the queue.** Without faults `CountIsPending` and `IdsArePending`
  equate the count and the length of the list with the syncs that are counted and
  listed, at every step of every call and run. The count is exact although a run decides
  by a count it read at its start, because no job is enqueued before it is counted; the
  list is as long as it should be because the mutex keeps two runs of a project apart
  between reading its first id and taking it off. With crashes, exceptions and retries,
  `MetricIdsArePending` still keeps ids of ended syncs out, and
  `TargetAfterSource` holds for all orders of timers, continuations and retries. Both
  are stated until a cancel begins: deleting the source's job sets the target's going at
  once, beside the worker of the source and beside the `SyncAsync` that has yet to list
  it. `SpinnerEnds` says that the syncing display ends. It excludes an exception in
  `SyncAsync` or in a run's bookkeeping and a cancel cut short, because after each of
  these only a (second) cancel by a user repairs the count.
- **Users' edits in a sync.** `NoEditReverted` is the property of the sync: no step
  takes an edit out of the texts or out of the server's last revision, with users
  editing during the sync and after two failed or abandoned runs that left the stores at
  different revisions. It holds because every run begins by setting the repository to
  the recorded revision and because that revision is committed after the texts;
  `repo_denied` is what happens when it is not. `SyncedIsRestorable` and
  `InSyncMeansImported` are what `ParatextSyncRunner.cs:1765` and `Sync.cs:18` assume,
  each with the mishaps under which they fail named in its antecedent. `EditsArrive` is
  progress: every edit reaches the other side. It excludes a restore cut short, after
  which there is no repository and every later run throws in `SetRepoToRevision`, before
  the step that would clone one; and failed backups, after which a restore may put back
  a revision older than the recorded one, so that later runs cannot be set to it.
- **Copies.** `CopyPredicts`: the cached copy of a fresh document is the server's with
  the queue applied. A document stops being fresh when another connection writes, a
  fetch forgets queued changes, an op list is sent past a queued one on the same
  property, or a transaction is rolled back or fails. Every reader of a document inside
  a transaction (the sync computes its deltas from copies) relies on it. `NothingLeft`:
  queue and exclusions end with the transaction.
- **Edits in the client.** `AppliedOnce`: the server's log has an edit twice only if the
  client sent it without putting its number into the record. `DataIsVersionAndPending`
  relates the three places: what the page shows, and what it would show from the record,
  is the server's document at some version and the edits still to be sent.
  `NoEditForgotten`: once recorded, an edit is applied, refused or still recorded,
  whenever the page is closed. `EditsArrive` is progress.
- **Live results.** `CountIsHeld`: as long as a query was not disposed of in the middle
  of a call, the counts of documents, by which they are unsubscribed and disposed of,
  are those of the queries that show them or are about to. `ShowsResults`: a call during
  which no other was under way leaves exactly its results. `HearsWhatItShows`: a shown
  document's changes are heard.
- **Recordings.** `LocalIsStored`: a recording that is only on this client is in
  IndexedDB to be uploaded. `ServerHasFile`: a server url leads to a file.
  `NothingResurrected`: what waits for upload is what the document has. `UploadsArrive`
  and `DeletionsArrive` are progress. The causes each excludes are in its antecedent
  (section 2.7).
- **Drafts.** `BuildHasClaim`: a request that goes on after its claim, or a build on its
  way to Serval, has the claim, so that there is never a second one. The five races that
  break it are named in `excused` (section 2.8), and none of them happens before a cancel
  has cleared the fields, a stale claim was taken over, or something failed
  (`Disturbed`). What the code promises in one sentence, `NoInvisibleBuild`, is more and
  is violated (section 3.2). `ClaimIsGivenBack`: no claim stays but one that grows stale,
  whose job was deleted, or whose request died or could not release it. `DraftsArrive`:
  the texts of every completed build, or of a later one, arrive, through crashes between
  processing and recording.

### 3.2 Disagreements with the documentation

Four runs end in a violation, each of a sentence in the repository; `PROJECT.json`
quotes them under "findings".

- `mutex_restart`: a job fetched again after its server died goes from Processing to
  Processing. `OnStateApplied` tests the old state only and removes the id that
  `OnStateElection` has just added, so a restarted job is Processing without the mutex,
  and the next job is let into Processing beside it. `MutexAttribute.cs:17-18` names this
  very case and says that it "will be blocked and rescheduled". It is neither: its worker
  is kept waiting by the inherited lock instead, which still keeps the two methods apart.
- `repo_denied`: after a run that was denied access, the next run's op list both records
  the new revision and clears `LastSyncErrorCode`, an excluded property; the whole list
  is sent at once, before the texts. If the commit then fails, the project records a
  revision its texts do not have, and the sync after that removes them on the Paratext
  server as if users had deleted them.
- `files_lost`: `syncFiles` uploads a recording that was made offline with `uploadFile`,
  which on a failed request stores the recording again and returns a local url.
  `syncFiles` takes the url for success and deletes the record (`file.service.ts:314`),
  where `file.service.ts:84-85` promises an upload at the next connection.
- `drafts_invisible`: a cancel that comes while a request is still scheduling finds no
  job id to delete, and clears the timestamp all the same (`MachineApiService.cs:857`).
  The request goes on and schedules its build; until Serval has it, the next request sees
  it neither in the project secret nor on Serval. `MachineApiService.cs:3344-3346` says
  that "no build can be invisible to both checks". The other four races of section 2.8
  break the promise as well.

### 3.3 Known limits of the code

Met while modelling; each is in a model as the code does it, and no run is spent on it.

- A run removes `JobIds.First()` (`ParatextSyncRunner.cs:1972`), not its own id. When
  jobs run in another order than they were listed in, the id of a queued job goes, so
  that a cancel does not delete it (`SFProjectSecret.cs:9`). The number of ids stays
  right: `IdsArePending`.
- A job created with `ContinueJobWith(ParentJobId)` is enqueued at once
  (`SyncService.cs:297`), without regard to its parent (`SyncConfig.cs:9`). The theorems
  about `SyncQueue` therefore assume that no request names a parent.
- `updateOfflineData` before an op is sent is not forced (`realtime.service.ts:51`): for
  a document nobody is subscribed to nothing is written, and after the page is closed
  the op is sent under another number and applied twice. `exposed` names these ops; the
  comment at `sharedb-realtime-remote-store.ts:31-41` has idempotence in mind.
- A crash during a retrieval leaves `PreTranslationsRetrieved` false, which later
  retrievals take for another process at work (`MachineApiService.cs:3025-3027`):
  `Stuck` in `DraftsArrive`.
- The `Mutex` attribute of the build job is on `IMachineProjectService.cs:14`, and the
  job is enqueued through the class (`MachineProjectService.cs:122-124` remarks on
  this), so that builds are not excluded from one another. `DraftBuild` has no mutex.
- An owner of the mutex that was lost and is then deleted before it runs stays in the set,
  as only a job that leaves Processing is taken out (`MutexAttribute.cs:124-125`): no
  other job is let in again. `OwnerIsAlive` excludes a deleted owner once something was
  lost, `EveryJobEnds` every such behaviour.
- An exception in `SyncAsync` after it has counted deletes the jobs and leaves the count
  (`SyncService.cs:303`): the project looks as if it were syncing until somebody cancels.
- A cancel beside `SyncAsync`: a job that it sets going may return before `SyncAsync` has
  listed its metrics id, which then stays listed (`MetricIdsArePending`).
- A request for a draft that fails late, and the worker of a build that has lost its
  claim, unset `PreTranslationQueuedAt` whosever it is (`MachineApiService.cs:3384`,
  `MachineProjectService.cs:632`): after a cancel or a takeover that is another request's.
- A build job that is run again after it has cleared its claim, because the server died
  or the email threw before Hangfire had committed its end, uploads and starts a build
  without a claim (`MachineProjectService.cs:644`).
- A query that is disposed of in the middle of a call leaves counts behind (`torn` in
  `RealtimeQuery`).

### 3.4 Bounds

- *Jobs.* Two jobs contend for the mutex, and a third is needed to be blocked while
  another is let in, and to tell "remove my id" from "clear the set". One crash and one
  lost commit give every position of either and both together; a second of a kind meets
  a state the first can already produce (a set with a job that does not run, or without
  one that does).
- *Queue.* The two requests share the source project: that project's count and list are
  written by two calls and two runs, and three jobs compete for the mutex. One fault of
  each kind, in any order, at any step. A cancel is explored beside one request and a
  crash, where it can meet every step of the call and of both runs; a second request
  beside a cancel, and a cancel beside exceptions, are not explored.
- *Repository.* Two texts are needed for a commit that stops between them; two edits on
  the Paratext side, in different texts, for a receive of both and for one that comes
  late. Two mishaps give a run that goes wrong after one that went wrong; the instance
  was also checked once with three mishaps, and once with two edits in Scripture Forge,
  each about 1.1 million states, without a difference.
- *Connection.* Documents do not influence one another but by their place in the queue,
  so one document with two properties is enough to have op lists that overlap, commute
  or name an excluded property; a queue of two has a first and a later operation.
- *Offline documents.* Two edits give one in flight and one pending, and two puts in the
  queue of IndexedDB; the other user's edit moves the version between them; two pages
  are one that is closed and one that starts from its record.
- *Queries.* Two queries share a document's count; two documents are a run of
  insertions, a move, or a removal beside an insertion; four calls allow two of each
  query, overlapping in every order, or four of one.
- *Recordings.* Recordings with different ids meet only in the list of `syncFiles`. Two
  recordings are one and the one that replaces it. By hand: three recordings (1.86
  million states), and two recordings with two mishaps and one run of `syncFiles` (221
  thousand states).
- *Drafts.* Two requests, a cancel and one fault are the actors of every race named
  above; the requests are alike, so `r1` comes first. By hand the inductive invariant and
  `BuildHasClaim` were checked with two faults and the requests in any order (508 955
  states). Three builds are one that is retrieved, one that arrives meanwhile, and one
  after it.
- `MaxQueued`, `MaxCrashes`, `MaxLosses`, `MaxRequestFaults`, `MaxRunFaults`,
  `MaxMishaps`, `MaxEdits`, `MaxPages`, `MaxChanges`, `MaxRecordings`, `MaxBuilds` and
  `MaxFaults` are bounds of the models. `MaxAttempts` and `MaxRetries` are the code's,
  with small values.

### 3.5 Fairness

- `HangfireMutex`: weak fairness of `Enqueue`, `Elect`, `StartProcessing` and `Leave`
  for each job. Hangfire's schedulers and workers poll for as long as a server lives,
  and a method on a thread is taken to return or throw: a sync that hangs for ever would
  keep the mutex, as the attribute has no timeout for its owner. A worker that waits for
  the inherited lock gets it when the job before it ends, or throws.
- `SyncQueue`: the same, and a call or run that has begun goes on until it ends or its
  server dies. No fairness for requests, cancels, faults or crashes to happen. A
  scheduled job is not due while its `SyncAsync` call is under way: the delay of five
  minutes is there for that (`SyncService.cs:91-93`).
- `SyncRepo`: weak fairness of `RunStep`, in which all normal steps and the start of a
  run are together: syncs are requested again and again, and a run goes on while it
  lives. Edits and mishaps are not fair. A fair step may still be a failed one only when
  a mishap is left.
- `OfflineDoc`: weak fairness of `Progress`: pages are opened, the socket reconnects,
  IndexedDB works its queue off, messages arrive. Users, other clients and mishaps are
  not in it.
- `FileService`: weak fairness of `Progress`: the connection comes back, the page is
  opened again, requests are answered or fail, `syncFiles` goes on.
- `DraftBuild` and `FinishedBuilds`: weak fairness of the steps of each request and each
  job, its end included, of the cancel, of Serval's end of a build, of the poller, which
  runs for as long as the server does, and of the retrieval. None for the user, the faults, or a claim to
  grow stale.

## 4. What is proved

TLAPS proves these for every value of the constants (jobs, projects, edits, requests,
bounds), from the named assumptions on them (`MutexAssumption`, `QueueAssumption`,
`RepoAssumption`, `ConnectionAssumption`, `OfflineAssumption`, `QueryAssumption`,
`FileAssumption`, `DraftAssumption`, `BuildsAssumption`); where a theorem assumes more
it is said below. Each inductive invariant was first checked by TLC.

**HangfireMutexProofs.** The inductive invariant is

    IInv == TypeOK /\ OneOwner /\ ElectingOwns /\ WorkersRun /\ ProcessingOwns /\ OwnerIsAlive

`OneOwner` alone does not say that a job that is let in is an owner (`ElectingOwns`),
nor that what a worker has taken is Processing or Deleted (`WorkersRun`); without these a
job could start that nobody knows of. `ProcessingOwns` is the strengthening that the
exclusion rests on: as long as nothing was disturbed, to be Processing is to own the
mutex and to be with a worker, and an owner is either being elected or Processing. With
`OneOwner` it gives the exclusion at once.

- `TypeCorrect`, `MutexHasOneOwner`, `MutualExclusion`, `OwnersAreAlive`: `TypeOK`,
  `OneOwner`, `ProcessingExcludes` and `OwnerIsAlive` are invariants of `Spec`.
- `PermitsAreKept`: `Spec => PermitIsKept`, each action in turn under `IInv`.
- `Refinement`: `Spec` implements `ExclusiveExecution` with nothing running from the
  first crash or lost commit on: each action starts one execution when there is none,
  ends the only one, or leaves them as they are. An execution is a job in Processing
  with a worker.

**SyncQueueProofs.** All but the last part is under `Standalone` (nobody cancels, no request names a parent job):

    IInv == Standalone /\ Shapes /\ Plans /\ Waiting /\ Executed /\ Ordered /\ Metrics

`TargetAfterSource` speaks of running jobs only. It is kept by what holds before: while
`SyncAsync` is not done its jobs are Absent, Scheduled or Awaiting (`Waiting`), because
no timer fires before (`Plans` says that the enqueuing is the last step); the target's
job leaves Awaiting only when the source's has Succeeded or is Deleted and the call is
over, so that no later step can revive the source's (`Ordered`); and only jobs in
Processing are executed (`Executed`). `Metrics` follows an id from its listing to the
`Unlist` of the run that has seen it.

- `TargetFollowsSource`: `TargetAfterSource`, for any number of requests, crashes,
  exceptions and retries.
- `MetricIdsAreOfPending`: `MetricIdsArePending`.
- `CountsArePending`: `CountIsPending`; `IdsAreOfPending`: `IdsArePending`, both from
  `IInv /\ Kept`. The count needs no mutex: it rests on the order of `SyncAsync`, which
  counts a sync before it can start, so that every run has read a positive count
  (`Straight`) and takes its own one off (`Counts`). The list does need the mutex: a run
  takes off the id that was first when it read the list, and that is still the first one
  only because no other run is between reading and removing (`OneRuns`, `Lists`). What
  it leaves may be its own id and not another sync's, but they are as many.

`QueueTypeCorrect` proves `TypeOK` without `Standalone`, for any cancels and parent jobs
and any finite number of requests (`IsFiniteSet(Requests)`; without it a cardinality
bounds nothing), from

    Forms /\ ListedOnce /\ Bounded /\ Reads

A call has left the end of its plan (`Forms`), so that it lists each job once and no id
is in a list twice (`ListedOnce`). A count is at most the number of syncs that were
counted in. It can fall below zero, because runs test a count they have read earlier and
a cancel resets it meanwhile, but never below minus the number of jobs: to take one off,
a run must have read a positive count in this execution (`CountsItself`), and it does it
once, because the transaction is then closed (`Bounded`).

**SyncRepoProofs.** `IInv == Typed /\ Present /\ TextsKept /\ Restorable`. `TextsKept`
is why a sync reverts nothing: revisions only grow, the texts have the recorded
revision, a run works on from exactly that revision (`FromRecorded`), what it received
has all it fetched, so that no delta drops anything, and when the record of a revision
comes up in the queue, the texts with the deltas before it have that revision
(`SafeQueue`). `Restorable` bounds the recorded revision by repository, backup and
queue.

- `EditsAreKept`: `Spec => NoEditReverted`, for any edits, texts and number of mishaps.
- `RecordedCanBeRestored`: `SyncedIsRestorable`.

Its last part adds `InSync`: as long as only exceptions and failed restores happened,
the run that ends a sync is the only one that restores (`OneEnd`), the backup is the
recorded revision until the new one is committed (`BackupIsRecorded`), the last queued
operation is the record (`RecordsLast`), and what a run is going to say is true
(`SaysInSync`).

- `InSyncIsImported`: `InSyncMeansImported`.

`RevisionsHaveCause` proves `TypeOK`, whose bound on the history says that there are no
more revisions than edits and mishaps: repeated syncs that find nothing new send
nothing. It keeps an account (`Frugal`). Before a run sends, the texts have of what the
server knows just the recorded revision (`Clean`), or there is a revision to spare
(`Spare`), so that one without a new edit is paid for (`Sending`). What is delivered
makes the texts what the repository has, for any kind of mishap (`Delivers`), hence a
run without one ends `Clean` again; a run that fails pays with its mishap (`Excused`).

**ConnectionProofs.** `IInv == TypeOK /\ MirrorKnown /\ NothingLeft`. `TypeOK` is not
inductive: a submit is applied to the server's document and needs it to be there, while
the code tests the mirror. `MirrorKnown` says that what a mirror has the server has; it
needs that others do not delete.

- `TypeCorrect`: copies, mirrors and documents hold data or nothing, and a commit is
  under way only in a transaction.
- `TransactionsEnd`: `NothingLeft`, for any queue length, which is what TLC's bound of
  two cannot show.
- `CopiesPredict`: `CopyPredicts`, under `Commute`: op lists on different properties
  make the same in either order. The code compares whole paths
  (`Connection.cs:433-446`), so `Commute` also says that no path an op list names lies
  inside another's. The invariant is `IInv /\ Predicted`: `CopyPredicts` speaks of what
  the queue makes of the server's document, but a queued replacement is computed from
  the mirror, so that mirror and server have to agree now and after the queue (`Right`).
  Underneath are four lemmas on what a queue makes of a document: one operation more
  (`AfterAppend`, for what is queued), the first one first (`AfterFirst`, for what is
  sent), none for it (`AfterOthers`), and an op list that goes ahead of all of it
  (`AfterOvertaken`, for an excluded property).

**OfflineDocProofs.** `IInv == StoreType /\ Server /\ Stored /\ DocInv(doc) /\
Flushed(doc)`, from `OfflineAssumption` alone. An edit is in many places at once: on the
page, in the record, in puts on their way to the record, in what waits for such a put to
be sent, on the wire, in the log. `View` is what is true of the record, of each put and
of the page alike: each edit is pending once, only the first may have been sent, the
data are a version of the server and the pending ops, the server has not applied these
within that version (`Ahead`) and knows them by their numbers (`Known`). `Outgoing` ties
an op that waits for a put to the puts after it; without it a page could close between
the two and send the edit under another number. `Numbers` says that a number is one
edit's. `Budget` bounds the numbers a page gives by the edits it has seen.

- `EditsAppliedOnce`: `AppliedOnce`. The exception, edits in `exposed`, are those sent
  without their number in the record.
- `NoEditIsForgotten`: `NoEditForgotten`, for edits that were once in the record.
- `PageShowsVersionAndPending`: `DataIsVersionAndPending`.
- `PageTypeCorrect`: `TypeOK`, which here says that a page is not ahead of the server,
  has one op in flight and numbers no more ops than its user makes.

**RealtimeQueryProofs.** `IInv == Typed /\ Hears /\ Quiet /\ Counted /\ \A q \in Queries
: Shows(q)`, from `QueryAssumption` alone. A document that `onInsert` waits for has been
told already but is not in `docs`; so what a query has of it (`Has`) is its places in
`docs` and the calls that wait for it, and every step of a query changes that and the
document's count alike (`Moved`). A removal takes at most one subscription of a document
but all its places, which is why a query that removes what another call put in twice is
not deaf to it (`Hears`). Both need no word about order, so calls may overlap at will.
`Quiet` says that a query disposed of in good order does nothing more. `Shows` needs the
order: with one call at work, `docs` is the results without the runs to come (`Kept`,
`Waited`), and the first of these is put in its place by `splice` because all before it
is there (`SplicedInPlace`). What `arraydiff` inserts are runs apart from one another,
each at its place in the results, of just the documents that miss (`InsertionsAre`).

- `CountsAreHeld`: `CountIsHeld`, with the exception its `torn` makes (section 2.6).
- `HearsShown`: `HearsWhatItShows`; `ShowsLast`: `ShowsResults`.
- `QueryTypeCorrect`: `TypeOK`; a subscription below zero would be one taken off twice,
  so it needs `MappedHears`: each entry of `docSubscriptions` hears its document.

**FileServiceProofs.** `IInv` is `Types`, `FileInv(f)` for every file and `RunInv(s)`
for every run of `syncFiles`. The promises are about url, record and server; what keeps
them is what the steps under way know: recordings are numbered as they are made
(`Numbered`), a recording uploaded for the first time is in no list of a run of
`syncFiles` (`Older`), what was posted is on the server when it is put into the url
(`PostedIsThere`, `SyncedIsThere`), and `deleteFile` has taken url and record away
before it calls the server (`NothingToKeep`).

- `RecordingsAreKept`: `LocalIsStored`; `UrlsLeadToFiles`: `ServerHasFile`;
  `RemovedStaysRemoved`: `NothingResurrected`. Each has the exceptions `excused` names
  (section 2.7), and no others, however many runs of `syncFiles` overlap.
- `FilesTypeCorrect`: `TypeOK`.

**DraftBuildProofs.** `IInv == TypeOK /\ CancelType /\ Scheduled /\ Claimed /\ Deleted
/\ HoldersClaim /\ Undisturbed`. `HoldersClaim` is `BuildHasClaim` also for a job that
Serval has got or that has failed, as Hangfire may run it again; it is kept because a
claim is taken over only when stale and its job is deleted first (`Claimed`), and because
a cancel that unsets it has deleted its job (`Deleted`). `Undisturbed` says what there is
before the first cancel, takeover or fault: nobody is excused, whoever has claimed has
the claim until giving it back, and a request that gives it back has scheduled no job.

- `BuildsHaveClaim`: `BuildHasClaim`, for any number of requests and faults.
- `DraftTypeCorrect`: the types.
- `DraftsTypeCorrect`: `TypesOK` of `MCDrafts`, the types of both parts. In its bound on
  the retrievals pending there is a promise: a build is put into the queue a second time
  only for a crash or a failed call. It is inductive with `Tally`: what is pending is at
  most what was recorded, one for each fault, and one if a build was processed and not
  yet recorded.

`PullFirst`, `PullKeeps` and the lemmas on `After` and `Kept` are inductions over a queue or a list.
The library's induction theorems take an operator, which the provers cannot instantiate;
these are made with sets instead: the indices for which the claim fails have a least one
(`WFMin` of the library), or a set that has 0 and with each number the next has them all
(`NumbersOf`, `NumbersFrom`), and the function a recursive definition chooses is shown to exist first.

Only model-checked: all liveness (`EveryJobEnds`, `SpinnerEnds`, `EditsArrive` twice,
`UploadsArrive`, `DeletionsArrive`, `ClaimIsGivenBack`, `DraftsArrive`), which is out of
the prover's reach.

## 5. What is not modelled

- Conversions of texts and notes, the permission rules of the realtime server, language
  tables and quality checks: pure functions, whose difficulty is in the data.
- Migrations, which run alone at the start, before there is anything to run beside them.
- The rest of the Paratext service, users and authentication, and most of the project
  service: calls to other services and single writes. Two check-then-act sequences in
  `SFProjectService.cs` were read and are not modelled: a project deleted when it does
  not look as if it were syncing, and a share key updated by the position it had when
  the secret was read.
- Retrying requests: one loop over one request, nothing kept.
- The user interface, by far most of the repository's lines: components, dialogs, the
  text editor and tables. They show what the modelled parts keep.
- Inside the modelled parts: first syncs, resources, questions, notes and terms of a
  sync; creation and deletion of offline documents; storage quotas; training data files;
  the configuration of builds and applying drafts.
- Two requests for one document from two browsers of one user, and an IndexedDB shared
  by two open pages.

Open, in the order of what they would add: the deletion of a project beside its sync and
its build, over `SyncQueue` and `DraftBuild`; creation and deletion of offline
documents; first syncs in `SyncRepo`.
