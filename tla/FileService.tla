----------------------------- MODULE FileService -----------------------------
(***************************************************************************)
(* FileService (xforge-common/file.service.ts): recordings attached to the *)
(* answers, comments and questions of community checking.                  *)
(*                                                                         *)
(* A recording is a file on the server, named after its data id, and a url *)
(* in the real-time document.  IndexedDB has at most one record for a data *)
(* id: a recording to upload, a deletion to send, or a copy of what the    *)
(* server has.  While the client is offline the url is a local blob url    *)
(* and the record is all there is of the recording; syncFiles works the    *)
(* records off when the client comes online.                               *)
(*                                                                         *)
(* A request is one step at the server and one when its answer is in.  A   *)
(* read of IndexedDB and the write that follows it with no request between *)
(* them are one step.  A server url stands for the recording it was made   *)
(* for.  One client is modelled, and a user waits for one operation on a   *)
(* recording before the next on the same one.                              *)
(***************************************************************************)
EXTENDS Naturals, FiniteSets

CONSTANTS
    Files,          \* the data ids
    Syncs,          \* bound: runs of syncFiles at the same time
    MaxRecordings,  \* bound: recordings a user makes
    MaxMishaps      \* bound: lost connections, refused requests, closed pages

ASSUME FileAssumption ==
    /\ MaxRecordings \in Nat
    /\ MaxMishaps \in Nat

VARIABLES
    online,     \* OnlineStatusService.isOnline
    open,       \* the page is open
    due,        \* emissions of onlineStatus$ that syncFiles has yet to see
    server,     \* the recording the server has for each data id
    kept,       \* alwaysKeepFileOffline: the recordings of questions themselves
    url,        \* the url in the document
    gone,       \* the answer or comment itself is deleted
    store,      \* FileOfflineData in IndexedDB
    act,        \* the user's uploadFile or deleteFile under way
    fetching,   \* the url findOrUpdateCache is downloading
    sync,       \* the runs of syncFiles
    recorded,   \* recordings made so far
    mishaps,    \* mishaps so far
    excused     \* what has happened to a data id that breaks the promises below

vars == <<kept, online, open, due, server, url, gone, store, act, fetching, sync,
          recorded, mishaps, excused>>

Recordings == 1 .. MaxRecordings
Nothing == 0

NoUrl == [at |-> "nowhere", of |-> Nothing]
Local(b) == [at |-> "local", of |-> b]
Server(b) == [at |-> "server", of |-> b]

NoRecord == [kind |-> "none", of |-> Nothing]
Upload(b) == [kind |-> "upload", of |-> b]
Deletion(b) == [kind |-> "deletion", of |-> b]   \* the code's record does not say of what
Copy(b) == [kind |-> "copy", of |-> b]

Idle == [pc |-> "idle", of |-> Nothing]
NoEntry == <<Nothing, NoRecord>>
NoSync == [pc |-> "idle", list |-> {}, now |-> NoEntry]

Causes == {"failed", "overtaken", "left", "orphaned", "refused", "interrupted"}

TypeOK ==
    /\ online \in BOOLEAN /\ open \in BOOLEAN
    /\ due \in 0 .. 2
    /\ kept \subseteq Files
    /\ server \in [Files -> Recordings \cup {Nothing}]
    /\ url \in [Files -> {NoUrl} \cup {Local(b) : b \in Recordings} \cup {Server(b) : b \in Recordings}]
    /\ gone \in [Files -> BOOLEAN]
    /\ store \in [Files -> {NoRecord} \cup {Upload(b) : b \in Recordings}
                    \cup {Deletion(b) : b \in Recordings} \cup {Copy(b) : b \in Recordings}]
    /\ \A f \in Files : act[f].pc \in {"idle", "post", "posted", "cache", "delete", "deleted"}
    /\ fetching \in [Files -> Recordings \cup {Nothing}]
    /\ \A s \in Syncs : sync[s].pc \in {"idle", "next", "delete", "deleted", "post", "posted", "cache"}
    /\ recorded \in 0 .. MaxRecordings
    /\ mishaps \in 0 .. MaxMishaps
    /\ excused \in [Files -> SUBSET Causes]

Init ==
    /\ online = FALSE
    /\ open = TRUE
    /\ due = 0
    /\ kept \in SUBSET Files
    /\ server = [f \in Files |-> Nothing]
    /\ url = [f \in Files |-> NoUrl]
    /\ gone = [f \in Files |-> FALSE]
    /\ store = [f \in Files |-> NoRecord]
    /\ act = [f \in Files |-> Idle]
    /\ fetching = [f \in Files |-> Nothing]
    /\ sync = [s \in Syncs |-> NoSync]
    /\ recorded = 0
    /\ mishaps = 0
    /\ excused = [f \in Files |-> {}]

-----------------------------------------------------------------------------
(* Building blocks. *)

Excuse(f, causes) == excused' = [excused EXCEPT ![f] = @ \cup causes]

\* Mutant of Uncached: the record is emptied, not removed.
Emptied(f) == [store[f] EXCEPT !.kind = IF @ = "deletion" THEN @ ELSE "none"]

\* findOrUpdateCache without a url: a pending deletion stays.
Uncached(f) == IF store[f].kind = "deletion" THEN store[f] ELSE NoRecord

\* A request that is under way fails: the connection is lost, or, while the
\* client is online, the server refuses it.
Fails(refused) ==
    \/ ~online /\ ~refused /\ UNCHANGED mishaps
    \/ /\ online /\ refused
       /\ mishaps < MaxMishaps
       /\ mishaps' = mishaps + 1

\* A refused request is made again only after another online event.
Refusal(refused) == IF refused THEN {"refused"} ELSE {}

\* The connection as such: emissions of onlineStatus$ start syncFiles, one for
\* the window's event and one for the web socket.
Drop ==
    /\ online
    /\ mishaps < MaxMishaps
    /\ mishaps' = mishaps + 1
    /\ online' = FALSE
    /\ UNCHANGED <<kept, open, due, server, url, gone, store, act, fetching, sync, recorded, excused>>

Reconnect ==
    /\ ~online
    /\ online' = TRUE
    /\ due' = IF open THEN 2 ELSE 0
    /\ UNCHANGED <<kept, open, server, url, gone, store, act, fetching, sync, recorded, mishaps, excused>>

\* The page is closed or reloaded; IndexedDB and the document survive.
Close ==
    /\ open
    /\ mishaps < MaxMishaps
    /\ mishaps' = mishaps + 1
    /\ open' = FALSE
    /\ due' = 0
    /\ act' = [f \in Files |-> Idle]
    /\ fetching' = [f \in Files |-> Nothing]
    /\ sync' = [s \in Syncs |-> NoSync]
    /\ excused' = [f \in Files |-> IF act[f] = Idle THEN excused[f] ELSE excused[f] \cup {"interrupted"}]
    /\ UNCHANGED <<kept, online, server, url, gone, store, recorded>>

Reopen ==
    /\ ~open
    /\ open' = TRUE
    /\ due' = IF online THEN 2 ELSE 0
    /\ UNCHANGED <<kept, online, server, url, gone, store, act, fetching, sync, recorded, mishaps, excused>>

-----------------------------------------------------------------------------
(* uploadFile, called when the user saves a recording. *)

\* onlineCacheFile: the file is downloaded and stored, or that fails silently.
Downloaded(f, b) ==
    {store} \cup IF online THEN {[store EXCEPT ![f] = Copy(b)]} ELSE {}

\* Mutant of StoreUpload: a record of the data id is not written over.
StoredOnce(f, b) ==
    /\ store' = [store EXCEPT ![f] = IF @ = NoRecord THEN Upload(b) ELSE @]
    /\ url' = [url EXCEPT ![f] = Local(b)]

\* Offline: the recording is put into IndexedDB, the document gets a local url.
StoreUpload(f, b) ==
    /\ store' = [store EXCEPT ![f] = Upload(b)]
    /\ url' = [url EXCEPT ![f] = Local(b)]

UploadFile(f) ==
    /\ open /\ ~gone[f]
    /\ act[f] = Idle
    /\ recorded < MaxRecordings
    /\ recorded' = recorded + 1
    /\ IF online
       THEN act' = [act EXCEPT ![f] = [pc |-> "post", of |-> recorded']] /\ UNCHANGED <<store, url>>
       ELSE StoreUpload(f, recorded') /\ UNCHANGED act
    /\ UNCHANGED <<kept, online, open, due, server, gone, fetching, sync, mishaps, excused>>

\* The server writes the file over the one it had for the data id.
Post(f) ==
    /\ act[f].pc = "post"
    /\ online
    /\ server' = [server EXCEPT ![f] = act[f].of]
    /\ act' = [act EXCEPT ![f].pc = "posted"]
    /\ UNCHANGED <<kept, online, open, due, url, gone, store, fetching, sync, recorded, mishaps, excused>>

\* An upload that goes through does not remove an older upload or deletion of the
\* same file from IndexedDB: syncFiles will still work it off.
LeftBehind(record) == IF record.kind \in {"upload", "deletion"} THEN {"left"} ELSE {}

\* The answer is in: a file that is kept offline is downloaded, then the document
\* gets the server's url.
Posted(f) ==
    /\ act[f].pc = "posted"
    /\ online
    /\ IF f \in kept
       THEN act' = [act EXCEPT ![f].pc = "cache"] /\ UNCHANGED <<url, excused>>
       ELSE /\ act' = [act EXCEPT ![f] = Idle]
            /\ url' = [url EXCEPT ![f] = Server(act[f].of)]
            /\ Excuse(f, LeftBehind(store[f]))
    /\ UNCHANGED <<kept, online, open, due, server, gone, store, fetching, sync, recorded, mishaps>>

PostFails(f, refused) ==
    /\ act[f].pc = "post" \/ (act[f].pc = "posted" /\ ~refused)
    /\ Fails(refused)
    /\ StoreUpload(f, act[f].of)
    /\ act' = [act EXCEPT ![f] = Idle]
    /\ Excuse(f, Refusal(refused))
    /\ UNCHANGED <<kept, online, open, due, server, gone, fetching, sync, recorded>>

\* The download that follows, which may fail silently.
CacheUploaded(f) ==
    /\ act[f].pc = "cache"
    /\ store' \in Downloaded(f, act[f].of)
    /\ url' = [url EXCEPT ![f] = Server(act[f].of)]
    /\ act' = [act EXCEPT ![f] = Idle]
    /\ Excuse(f, LeftBehind(store'[f]))
    /\ UNCHANGED <<kept, online, open, due, server, gone, fetching, sync, recorded, mishaps>>

-----------------------------------------------------------------------------
(* deleteFile, called after the url is taken out of the document. *)

\* Mutants of DeletionOffline: a recording that waits for upload is left; no deletion
\* is kept.
UploadKept(f, b) == [store EXCEPT ![f] = IF @.kind = "upload" THEN @ ELSE Deletion(b)]
NotKept(f, b) == [store EXCEPT ![f] = NoRecord]

\* What is left of a deletion that could not be sent: nothing for a recording that
\* was never uploaded, else a record of the deletion.
DeletionOffline(f, b) ==
    [store EXCEPT ![f] = IF store[f].kind = "upload" THEN NoRecord ELSE Deletion(b)]

\* An upload on record is taken to mean that the server has no file, but it may
\* have an older one, or this one if only the answer was lost.
Orphan(f) ==
    IF store[f].kind = "upload" /\ server[f] # Nothing THEN {"orphaned"} ELSE {}

\* Mutant of DeleteFile: the document keeps the url of the file that is deleted.
UrlLeft(f, whole) ==
    /\ open /\ online
    /\ act[f] = Idle
    /\ url[f] # NoUrl
    /\ store' = [store EXCEPT ![f] = Uncached(f)]
    /\ act' = [act EXCEPT ![f] = [pc |-> "delete", of |-> url[f].of]]
    /\ UNCHANGED <<kept, online, open, due, server, url, gone, fetching, sync, recorded, mishaps, excused>>

\* The recording is reset, or the whole answer or comment is deleted.
DeleteFile(f, whole) ==
    /\ open
    /\ act[f] = Idle
    /\ url[f] # NoUrl
    /\ whole => f \notin kept
    /\ url' = [url EXCEPT ![f] = NoUrl]
    /\ gone' = [gone EXCEPT ![f] = whole]
    /\ IF online
       THEN /\ store' = [store EXCEPT ![f] = Uncached(f)]
            /\ act' = [act EXCEPT ![f] = [pc |-> "delete", of |-> url[f].of]]
            /\ UNCHANGED excused
       ELSE /\ store' = DeletionOffline(f, url[f].of)
            /\ Excuse(f, Orphan(f))
            /\ UNCHANGED act
    /\ UNCHANGED <<kept, online, open, due, server, fetching, sync, recorded, mishaps>>

OnlineDeleteFile(f) ==
    /\ act[f].pc = "delete"
    /\ online
    /\ server' = [server EXCEPT ![f] = Nothing]
    /\ act' = [act EXCEPT ![f].pc = "deleted"]
    /\ UNCHANGED <<kept, online, open, due, url, gone, store, fetching, sync, recorded, mishaps, excused>>

Deleted(f) ==
    /\ act[f].pc = "deleted"
    /\ online
    /\ act' = [act EXCEPT ![f] = Idle]
    /\ UNCHANGED <<kept, online, open, due, server, url, gone, store, fetching, sync, recorded, mishaps, excused>>

DeleteFails(f, refused) ==
    /\ act[f].pc = "delete" \/ (act[f].pc = "deleted" /\ ~refused)
    /\ Fails(refused)
    /\ store' = DeletionOffline(f, act[f].of)
    /\ act' = [act EXCEPT ![f] = Idle]
    /\ Excuse(f, Refusal(refused) \cup Orphan(f))
    /\ UNCHANGED <<kept, online, open, due, server, url, gone, fetching, sync, recorded>>

-----------------------------------------------------------------------------
(* findOrUpdateCache, called when a document or its offline copy is refreshed. *)

\* No url: what is stored is removed.
RemoveCached(f) ==
    /\ open
    /\ url[f] = NoUrl
    /\ Uncached(f) # store[f]
    /\ store' = [store EXCEPT ![f] = Uncached(f)]
    /\ UNCHANGED <<kept, online, open, due, server, url, gone, act, fetching, sync, recorded, mishaps, excused>>

\* A server url that the record does not have.
UpdateCache(f) ==
    /\ open /\ online
    /\ fetching[f] = Nothing
    /\ url[f].at = "server"
    /\ store[f] # Copy(url[f].of)
    /\ fetching' = [fetching EXCEPT ![f] = url[f].of]
    /\ UNCHANGED <<kept, online, open, due, server, url, gone, store, act, sync, recorded, mishaps, excused>>

\* The download is in, and is stored over whatever is there by now.
OnlineCacheFile(f) ==
    /\ fetching[f] # Nothing
    /\ online
    /\ server[f] # Nothing
    /\ store' = [store EXCEPT ![f] = Copy(fetching[f])]
    /\ fetching' = [fetching EXCEPT ![f] = Nothing]
    /\ Excuse(f, IF store[f].kind \in {"upload", "deletion"} THEN {"overtaken"} ELSE {})
    /\ UNCHANGED <<kept, online, open, due, server, url, gone, act, sync, recorded, mishaps>>

CacheFails(f) ==
    /\ fetching[f] # Nothing
    /\ \/ ~online \/ server[f] = Nothing
    /\ fetching' = [fetching EXCEPT ![f] = Nothing]
    /\ UNCHANGED <<kept, online, open, due, server, url, gone, store, act, sync, recorded, mishaps, excused>>

-----------------------------------------------------------------------------
(* syncFiles. *)

\* The run goes on with the next record of its list, or ends.
Proceed(s) ==
    sync' = [sync EXCEPT ![s] = IF @.list = {} THEN NoSync
                                ELSE [@ EXCEPT !.pc = "next", !.now = NoEntry]]

FileOf(s) == sync[s].now[1]
RecordOf(s) == sync[s].now[2]

\* Somebody has changed the recording since the list was read.
Overtaken(s) ==
    LET f == FileOf(s)
    IN  \/ store[f] # RecordOf(s)
        \/ act[f] # Idle
        \/ RecordOf(s).kind = "deletion" /\ url[f] # NoUrl

Stale(s) == IF Overtaken(s) THEN {"overtaken"} ELSE {}

\* An online event: all records are read at once.
SyncFiles(s) ==
    /\ open
    /\ due > 0
    /\ sync[s] = NoSync
    /\ due' = due - 1
    /\ LET list == {<<f, store[f]>> : f \in {g \in Files : store[g].kind \in {"upload", "deletion"}}}
       IN  sync' = [sync EXCEPT ![s] = IF list = {} THEN NoSync ELSE [@ EXCEPT !.pc = "next", !.list = list]]
    /\ UNCHANGED <<kept, online, open, server, url, gone, store, act, fetching, recorded, mishaps, excused>>

\* The next record: the document of an upload is fetched first, which waits for
\* the connection.
TakeNext(s) ==
    /\ sync[s].pc = "next"
    /\ \E entry \in sync[s].list :
         /\ entry[2].kind = "upload" => online
         /\ sync' = [sync EXCEPT ![s] = [pc |-> IF entry[2].kind = "deletion" THEN "delete" ELSE "post",
                                         list |-> @.list \ {entry}, now |-> entry]]
    /\ UNCHANGED <<kept, online, open, due, server, url, gone, store, act, fetching, recorded, mishaps, excused>>

\* A pending deletion reaches the server, whatever has been uploaded since.
SyncDelete(s) ==
    /\ sync[s].pc = "delete"
    /\ online
    /\ server' = [server EXCEPT ![FileOf(s)] = Nothing]
    /\ sync' = [sync EXCEPT ![s].pc = "deleted"]
    /\ Excuse(FileOf(s), Stale(s))
    /\ UNCHANGED <<kept, online, open, due, url, gone, store, act, fetching, recorded, mishaps>>

\* Its answer is in: the record is removed, whatever it is by now.
SyncDeleted(s) ==
    /\ sync[s].pc = "deleted"
    /\ online
    /\ store' = [store EXCEPT ![FileOf(s)] = NoRecord]
    /\ Excuse(FileOf(s), Stale(s))
    /\ Proceed(s)
    /\ UNCHANGED <<kept, online, open, due, server, url, gone, act, fetching, recorded, mishaps>>

\* The exception ends the run; what is left of its list waits for another one.
SyncDeleteFails(s, refused) ==
    /\ sync[s].pc = "delete" \/ (sync[s].pc = "deleted" /\ ~refused)
    /\ Fails(refused)
    /\ sync' = [sync EXCEPT ![s] = NoSync]
    /\ excused' = [f \in Files |->
         IF refused /\ f \in {FileOf(s)} \cup {entry[1] : entry \in sync[s].list}
         THEN excused[f] \cup {"refused"} ELSE excused[f]]
    /\ UNCHANGED <<kept, online, open, due, server, url, gone, store, act, fetching, recorded>>

SyncPost(s) ==
    /\ sync[s].pc = "post"
    /\ online
    /\ server' = [server EXCEPT ![FileOf(s)] = RecordOf(s).of]
    /\ sync' = [sync EXCEPT ![s].pc = "posted"]
    /\ Excuse(FileOf(s), Stale(s))
    /\ UNCHANGED <<kept, online, open, due, url, gone, store, act, fetching, recorded, mishaps>>

\* updateFileUrl, when the document still has the answer or comment.
UrlSet(f, u) == IF gone[f] THEN url ELSE [url EXCEPT ![f] = u]

\* Mutant of SyncPosted: the document keeps its local url.
UrlKept(s) ==
    /\ sync[s].pc = "posted"
    /\ online
    /\ store' = [store EXCEPT ![FileOf(s)] = NoRecord]
    /\ Excuse(FileOf(s), Stale(s))
    /\ Proceed(s)
    /\ UNCHANGED <<kept, online, open, due, server, url, gone, act, fetching, recorded, mishaps>>

\* The answer is in: the document gets the url and the record is removed, unless
\* the file is kept, when it is downloaded first.
SyncPosted(s) ==
    /\ sync[s].pc = "posted"
    /\ online
    /\ Excuse(FileOf(s), Stale(s))
    /\ IF FileOf(s) \in kept
       THEN sync' = [sync EXCEPT ![s].pc = "cache"] /\ UNCHANGED <<url, store>>
       ELSE /\ url' = UrlSet(FileOf(s), Server(RecordOf(s).of))
            /\ store' = [store EXCEPT ![FileOf(s)] = NoRecord]
            /\ Proceed(s)
    /\ UNCHANGED <<kept, online, open, due, server, gone, act, fetching, recorded, mishaps>>

SyncCache(s) ==
    /\ sync[s].pc = "cache"
    /\ store' \in Downloaded(FileOf(s), RecordOf(s).of)
    /\ url' = UrlSet(FileOf(s), Server(RecordOf(s).of))
    /\ Excuse(FileOf(s), Stale(s) \cup LeftBehind(store'[FileOf(s)]))
    /\ Proceed(s)
    /\ UNCHANGED <<kept, online, open, due, server, gone, act, fetching, recorded, mishaps>>

\* The upload fails: uploadFile stores the recording once more and returns a
\* local url, and syncFiles, which takes that for success, removes the record
\* unless the file is kept.
SyncPostFails(s, refused) ==
    /\ sync[s].pc = "post" \/ (sync[s].pc = "posted" /\ ~refused)
    /\ Fails(refused)
    /\ store' = [store EXCEPT ![FileOf(s)] = IF FileOf(s) \in kept THEN RecordOf(s) ELSE NoRecord]
    /\ url' = UrlSet(FileOf(s), Local(RecordOf(s).of))
    /\ Excuse(FileOf(s), Stale(s) \cup Refusal(refused)
                         \cup (IF FileOf(s) \in kept THEN {} ELSE {"failed"}))
    /\ Proceed(s)
    /\ UNCHANGED <<kept, online, open, due, server, gone, act, fetching, recorded>>

-----------------------------------------------------------------------------
Operation(f) ==
    \/ Post(f) \/ Posted(f) \/ CacheUploaded(f)
    \/ OnlineDeleteFile(f) \/ Deleted(f)
    \/ PostFails(f, FALSE) \/ DeleteFails(f, FALSE)

SyncStep(s) ==
    \/ SyncFiles(s) \/ TakeNext(s)
    \/ SyncDelete(s) \/ SyncDeleted(s) \/ SyncDeleteFails(s, FALSE)
    \/ SyncPost(s) \/ SyncPosted(s) \/ SyncCache(s) \/ SyncPostFails(s, FALSE)

Progress ==
    \/ Reconnect \/ Reopen
    \/ \E f \in Files : Operation(f)
    \/ \E s \in Syncs : SyncStep(s)

Next ==
    \/ Progress
    \/ Drop \/ Close
    \/ \E f \in Files : UploadFile(f) \/ RemoveCached(f)
    \/ \E f \in Files : UpdateCache(f) \/ OnlineCacheFile(f) \/ CacheFails(f)
    \/ \E f \in Files, whole \in BOOLEAN : DeleteFile(f, whole)
    \/ \E f \in Files : PostFails(f, TRUE) \/ DeleteFails(f, TRUE)
    \/ \E s \in Syncs : SyncDeleteFails(s, TRUE) \/ SyncPostFails(s, TRUE)

Spec == Init /\ [][Next]_vars

\* Connections come back, pages are opened again, requests are answered or fail.
FairSpec == Spec /\ WF_vars(Progress)

-----------------------------------------------------------------------------
(* Properties. *)

Unexcused(f, causes) == excused[f] \cap causes = {}

\* A recording that is only on this client is in IndexedDB to be uploaded: the
\* two ways to lose it are an upload that fails in syncFiles, and a recording
\* that is made while syncFiles or a download is at work on the one before it.
LocalIsStored ==
    \A f \in Files : url[f].at = "local" /\ Unexcused(f, {"failed", "overtaken"}) =>
        store[f] = Upload(url[f].of)

\* A server url in the document leads to a file: a pending deletion never takes
\* away what has been recorded since, unless it overtakes it.
ServerHasFile ==
    \A f \in Files : url[f].at = "server" /\ Unexcused(f, {"overtaken", "left"}) => server[f] # Nothing

\* What waits for upload is what the document has: a recording that was removed
\* or replaced is not uploaded, and its url not set, when the connection is back.
NothingResurrected ==
    \A f \in Files : store[f].kind = "upload" /\ Unexcused(f, {"overtaken", "left"}) =>
        url[f] = Local(store[f].of)

\* Recordings made offline reach the server and the document, and the record goes.
UploadsArrive ==
    \A f \in Files : url[f].at = "local" ~> url[f].at # "local" \/ excused[f] # {}

\* A recording that is removed from the document is removed from the server.
DeletionsArrive ==
    \A f \in Files : url[f] = NoUrl ~> server[f] = Nothing \/ url[f] # NoUrl \/ excused[f] # {}

\* file.service.ts:84-85: "if offline, stores the file in IndexedDB and uploads
\* next time there is a valid connection".
OfflineIsUploaded ==
    \A f \in Files : url[f].at = "local" /\ Unexcused(f, {"overtaken"}) => store[f] = Upload(url[f].of)
=============================================================================
