-------------------------- MODULE FileServiceProofs --------------------------
(***************************************************************************)
(* Proofs about FileService: type correctness, and what the client keeps   *)
(* of a recording, for any number of files, recordings, runs of syncFiles  *)
(* and mishaps.                                                            *)
(***************************************************************************)
EXTENDS FileService, TLAPS

Uploads == {Upload(b) : b \in Recordings}
Deletions == {Deletion(b) : b \in Recordings}
Records == {NoRecord} \cup Uploads \cup Deletions \cup {Copy(b) : b \in Recordings}
Urls == {NoUrl} \cup {Local(b) : b \in Recordings} \cup {Server(b) : b \in Recordings}

Uploading == {"post", "posted", "cache"}
Deleting == {"delete", "deleted"}

PlainType ==
    /\ online \in BOOLEAN /\ open \in BOOLEAN
    /\ due \in 0 .. 2
    /\ kept \subseteq Files
    /\ server \in [Files -> Recordings \cup {Nothing}]
    /\ gone \in [Files -> BOOLEAN]
    /\ fetching \in [Files -> Recordings \cup {Nothing}]
    /\ recorded \in 0 .. MaxRecordings
    /\ mishaps \in 0 .. MaxMishaps

StoreType == store \in [Files -> Records]
UrlType == url \in [Files -> Urls]
ExcusedType == excused \in [Files -> SUBSET Causes]

\* A step of uploadFile or deleteFile, or of syncFiles, is about a recording.
ActType ==
    /\ act \in [Files -> [pc : {"idle"} \cup Uploading \cup Deleting, of : Recordings \cup {Nothing}]]
    /\ \A f \in Files : act[f].pc = "idle" => act[f] = Idle
    /\ \A f \in Files : act[f].pc # "idle" => act[f].of \in Recordings

SyncRecord ==
    [pc : {"idle", "next"} \cup Uploading \cup Deleting,
     list : SUBSET (Files \X (Uploads \cup Deletions)),
     now : (Files \X (Uploads \cup Deletions)) \cup {NoEntry}]

SyncType ==
    /\ sync \in [Syncs -> SyncRecord]
    /\ \A s \in Syncs : sync[s].pc \in Uploading => sync[s].now \in Files \X Uploads
    /\ \A s \in Syncs : sync[s].pc \in Deleting => sync[s].now \in Files \X Deletions

Types == PlainType /\ StoreType /\ UrlType /\ ExcusedType /\ ActType /\ SyncType

\* What is deleted as a whole has no url, is never kept and gets no upload.
GoneIsGone(f) ==
    gone[f] => url[f] = NoUrl /\ f \notin kept /\ act[f].pc \notin Uploading

\* While deleteFile is at work there is no url and nothing to upload.
NothingToKeep(f) ==
    act[f].pc \in Deleting /\ "overtaken" \notin excused[f] =>
        url[f] = NoUrl /\ store[f].kind # "upload"

\* Recordings are numbered as they are made, and one that is being uploaded for the
\* first time is not stored yet.
Numbered(f) ==
    /\ store[f].kind = "upload" => store[f].of <= recorded
    /\ act[f].pc \in Uploading => act[f].of <= recorded /\ store[f] # Upload(act[f].of)

\* The server has what uploadFile has posted.
PostedIsThere(f) ==
    act[f].pc \in {"posted", "cache"} /\ "overtaken" \notin excused[f] => server[f] # Nothing

\* The three promises, one file at a time.
Stored(f) ==
    url[f].at = "local" /\ "failed" \notin excused[f] /\ "overtaken" \notin excused[f] =>
        store[f] = Upload(url[f].of)

HasFile(f) ==
    url[f].at = "server" /\ "overtaken" \notin excused[f] /\ "left" \notin excused[f] =>
        server[f] # Nothing

Wanted(f) ==
    store[f].kind = "upload" /\ "overtaken" \notin excused[f] /\ "left" \notin excused[f] =>
        url[f] = Local(store[f].of)

FileInv(f) ==
    /\ GoneIsGone(f) /\ NothingToKeep(f) /\ Numbered(f) /\ PostedIsThere(f)
    /\ Stored(f) /\ HasFile(f) /\ Wanted(f)

\* No run of syncFiles has the recording that is being uploaded for the first time.
Older(entry) ==
    /\ entry[2].kind = "upload" => entry[2].of <= recorded
    /\ act[entry[1]].pc \in Uploading => entry[2] # Upload(act[entry[1]].of)

\* The server has what a run of syncFiles has posted, unless it has been overtaken.
SyncedIsThere(s) ==
    /\ sync[s].pc \in {"posted", "cache"} /\ store[FileOf(s)] = RecordOf(s) /\ act[FileOf(s)] = Idle
    /\ "overtaken" \notin excused[FileOf(s)] /\ "left" \notin excused[FileOf(s)]
    => server[FileOf(s)] # Nothing

RunInv(s) ==
    /\ \A entry \in sync[s].list : Older(entry)
    /\ sync[s].pc \in Uploading \cup Deleting => Older(sync[s].now)
    /\ SyncedIsThere(s)

IInv == Types /\ (\A f \in Files : FileInv(f)) /\ (\A s \in Syncs : RunInv(s))
-----------------------------------------------------------------------------
(* Records, urls and the steps. *)

\* The kind of a record says what it is.
LEMMA RecordKinds ==
    ASSUME NEW x \in Records
    PROVE  /\ x.kind = "upload" <=> x \in Uploads
           /\ x.kind = "deletion" <=> x \in Deletions
           /\ x.kind = "upload" => x = Upload(x.of)
           /\ x # NoRecord => x.of \in Recordings
           /\ x.of \in Recordings \cup {Nothing}
  BY DEF Records, Uploads, Deletions, NoRecord, Upload, Deletion, Copy, Nothing

\* And so does that of a url.
LEMMA UrlKinds ==
    ASSUME NEW u \in Urls
    PROVE  /\ u.at = "local" => u = Local(u.of)
           /\ u.at = "server" => u = Server(u.of)
           /\ u.at = "nowhere" <=> u = NoUrl
           /\ u.at \in {"local", "server", "nowhere"}
           /\ u # NoUrl => u.of \in Recordings
           /\ u.of \in Recordings \cup {Nothing}
  BY DEF Urls, NoUrl, Local, Server, Nothing

\* What a recording makes.
LEMMA Makes ==
    ASSUME NEW b \in Recordings
    PROVE  /\ Upload(b) \in Uploads /\ Upload(b) \in Records /\ Deletion(b) \in Deletions
           /\ Deletion(b) \in Records /\ Copy(b) \in Records /\ NoRecord \in Records
           /\ Local(b) \in Urls /\ Server(b) \in Urls /\ NoUrl \in Urls
           /\ Upload(b).kind = "upload" /\ Upload(b).of = b
           /\ Deletion(b).kind = "deletion" /\ Deletion(b).of = b
           /\ Copy(b).kind = "copy" /\ Copy(b).of = b
           /\ Local(b).at = "local" /\ Local(b).of = b
           /\ Server(b).at = "server" /\ Server(b).of = b
  BY DEF Records, Urls, Uploads, Deletions, NoRecord, Upload, Deletion, Copy, NoUrl, Local,
         Server

\* No url and no record.
LEMMA Nones ==
    /\ NoUrl \in Urls /\ NoUrl.at = "nowhere" /\ NoUrl.of = Nothing
    /\ NoRecord \in Records /\ NoRecord.kind = "none" /\ NoRecord.of = Nothing
  BY DEF Records, Urls, NoUrl, NoRecord

\* The type invariant is what the parts say.
LEMMA TypesAreOK == ASSUME Types PROVE TypeOK
  BY DEF TypeOK, Types, PlainType, StoreType, UrlType, ExcusedType, ActType, SyncType,
         SyncRecord, Records, Urls, Uploads, Deletions, Uploading, Deleting

\* Every step is one of these.
LEMMA Steps ==
    ASSUME [Next]_vars
    PROVE  \/ Drop \/ Reconnect \/ Close \/ Reopen \/ UNCHANGED vars
           \/ \E f \in Files :
                \/ Post(f) \/ Posted(f) \/ CacheUploaded(f) \/ OnlineDeleteFile(f) \/ Deleted(f)
                \/ UploadFile(f) \/ RemoveCached(f) \/ UpdateCache(f) \/ OnlineCacheFile(f)
                \/ CacheFails(f)
                \/ \E whole \in BOOLEAN : DeleteFile(f, whole)
                \/ \E refused \in BOOLEAN : PostFails(f, refused) \/ DeleteFails(f, refused)
           \/ \E s \in Syncs :
                \/ SyncFiles(s) \/ TakeNext(s) \/ SyncDelete(s) \/ SyncDeleted(s)
                \/ SyncPost(s) \/ SyncPosted(s) \/ SyncCache(s)
                \/ \E refused \in BOOLEAN : SyncDeleteFails(s, refused) \/ SyncPostFails(s, refused)
  BY Zenon DEF Next, Progress, Operation, SyncStep
-----------------------------------------------------------------------------
(* Each step preserves each part of the invariant. *)

\* What a run of syncFiles is at work on.
LEMMA Taken ==
    ASSUME SyncType, NEW s \in Syncs
    PROVE  /\ sync[s].pc \in Uploading =>
                /\ FileOf(s) \in Files /\ RecordOf(s) \in Uploads
                /\ RecordOf(s).of \in Recordings /\ RecordOf(s) = Upload(RecordOf(s).of)
           /\ sync[s].pc \in Deleting =>
                /\ FileOf(s) \in Files /\ RecordOf(s) \in Deletions
                /\ RecordOf(s) \notin Uploads
  BY DEF SyncType, FileOf, RecordOf, Uploads, Deletions, Upload, Deletion

\* The next step of a run.
LEMMA ProceedType ==
    ASSUME SyncType, NEW s \in Syncs, Proceed(s)
    PROVE  SyncType'
  <1>1. NoSync \in SyncRecord
    BY DEF NoSync, SyncRecord
  <1>2. [sync[s] EXCEPT !.pc = "next", !.now = NoEntry] \in SyncRecord
    BY DEF SyncType, SyncRecord
  <1>3. "next" \notin Uploading \cup Deleting /\ "idle" \notin Uploading \cup Deleting
    BY DEF Uploading, Deleting
  <1> QED
    BY <1>1, <1>2, <1>3 DEF SyncType, SyncRecord, Proceed, NoSync

\* syncFiles has read the records.
LEMMA ListType ==
    ASSUME StoreType, SyncType, NEW s \in Syncs, SyncFiles(s)
    PROVE  SyncType'
  <1> DEFINE list == {<<f, store[f]>> : f \in {g \in Files : store[g].kind \in {"upload", "deletion"}}}
  <1>1. list \in SUBSET (Files \X (Uploads \cup Deletions))
    BY RecordKinds DEF StoreType
  <1>2. sync' = [sync EXCEPT ![s] = IF list = {} THEN NoSync
                                   ELSE [@ EXCEPT !.pc = "next", !.list = list]]
    BY DEF SyncFiles
  <1>3. "next" \notin Uploading \cup Deleting /\ "idle" \notin Uploading \cup Deleting
    BY DEF Uploading, Deleting
  <1> HIDE DEF list
  <1>4. NoSync \in SyncRecord
    BY DEF NoSync, SyncRecord
  <1>5. /\ [sync[s] EXCEPT !.pc = "next", !.list = list] \in SyncRecord
        /\ [sync[s] EXCEPT !.pc = "next", !.list = list].pc = "next"
    BY <1>1 DEF SyncType, SyncRecord
  <1> QED
    BY <1>2, <1>3, <1>4, <1>5 DEF SyncType, NoSync, SyncRecord

\* syncFiles takes a record of its list.
LEMMA TakeType ==
    ASSUME SyncType, NEW s \in Syncs, TakeNext(s)
    PROVE  SyncType'
  <1>1. PICK entry \in sync[s].list :
          sync' = [sync EXCEPT ![s] = [pc |-> IF entry[2].kind = "deletion" THEN "delete" ELSE "post",
                                       list |-> @.list \ {entry}, now |-> entry]]
    BY DEF TakeNext
  <1>2. /\ entry \in Files \X (Uploads \cup Deletions)
        /\ entry[2].kind = "deletion" => entry \in Files \X Deletions
        /\ entry[2].kind # "deletion" => entry \in Files \X Uploads
    BY DEF SyncType, SyncRecord, Uploads, Deletions, Upload, Deletion
  <1>3. [pc |-> IF entry[2].kind = "deletion" THEN "delete" ELSE "post",
         list |-> sync[s].list \ {entry}, now |-> entry] \in SyncRecord
    BY <1>2 DEF SyncRecord, SyncType, Uploading, Deleting
  <1>4. "delete" \in Deleting /\ "post" \in Uploading /\ Uploading \cap Deleting = {}
    BY DEF Uploading, Deleting
  <1> QED
    BY <1>1, <1>2, <1>3, <1>4 DEF SyncRecord, SyncType

\* Every step preserves the types.
LEMMA TypeStep ==
    ASSUME Types, [Next]_vars
    PROVE  Types'
  <1> USE FileAssumption DEF Types
  <1>1. CASE Drop
    <2>1. mishaps' \in 0 .. MaxMishaps
      BY <1>1 DEF Drop, PlainType
    <2>2. PlainType'
      BY <1>1, <2>1, Zenon DEF Drop, PlainType
    <2> QED
      BY <1>1, <2>1, <2>2 DEF Drop, StoreType, UrlType, ActType, SyncType, ExcusedType
  <1>2. CASE Reconnect
    <2>1. PlainType'
      BY <1>2 DEF Reconnect, PlainType, Recordings, Nothing
    <2> QED
      BY <1>2, <2>1 DEF Reconnect, StoreType, UrlType, ActType, SyncType, ExcusedType
  <1>3. CASE Close
    <2>1. mishaps' \in 0 .. MaxMishaps
      BY <1>3 DEF Close, PlainType
    <2>2. due' \in 0 .. 2
      BY <1>3 DEF Close, PlainType
    <2>3. PlainType'
      BY <1>3, <2>1, <2>2, Zenon DEF Close, PlainType
    <2>4. ActType'
      BY <1>3 DEF Close, ActType, Uploading, Deleting, Idle, Nothing
    <2>5. SyncType'
      BY <1>3
         DEF Close, SyncType, SyncRecord, Uploading, Deleting, NoSync, NoEntry,
             FileOf, RecordOf
    <2>6. ExcusedType'
      BY <1>3 DEF Close, ExcusedType, Causes
    <2> QED
      BY <1>3, <2>1, <2>2, <2>3, <2>4, <2>5, <2>6 DEF Close, StoreType, UrlType
  <1>4. CASE Reopen
    <2>1. PlainType'
      BY <1>4 DEF Reopen, PlainType, Recordings, Nothing
    <2> QED
      BY <1>4, <2>1 DEF Reopen, StoreType, UrlType, ActType, SyncType, ExcusedType
  <1>5. ASSUME NEW f \in Files, Post(f) PROVE Types'
    <2>1. PlainType'
      BY <1>5 DEF Post, PlainType, ActType, Uploading, Deleting, Recordings, Nothing
    <2>2. ActType'
      BY <1>5 DEF Post, ActType, Uploading, Deleting, Idle, Nothing
    <2> QED
      BY <1>5, <2>1, <2>2 DEF Post, StoreType, UrlType, SyncType, ExcusedType
  <1>6. ASSUME NEW f \in Files, Posted(f) PROVE Types'
    <2>1. UrlType'
      BY <1>6, Makes DEF Posted, UrlType, ActType, Uploading
    <2>2. ActType'
      BY <1>6 DEF Posted, ActType, Uploading, Deleting, Idle, Nothing
    <2>3. ExcusedType'
      BY <1>6 DEF Posted, Excuse, LeftBehind, ExcusedType, Causes
    <2> QED
      BY <1>6, <2>1, <2>2, <2>3 DEF Posted, PlainType, StoreType, SyncType
  <1>7. ASSUME NEW f \in Files, CacheUploaded(f) PROVE Types'
    <2>1. StoreType'
      BY <1>7, Makes DEF CacheUploaded, Downloaded, StoreType, ActType, Uploading
    <2>2. UrlType'
      BY <1>7, Makes DEF CacheUploaded, UrlType, ActType, Uploading
    <2>3. ActType'
      BY <1>7 DEF CacheUploaded, ActType, Uploading, Deleting, Idle, Nothing
    <2>4. ExcusedType'
      BY <1>7 DEF CacheUploaded, Excuse, LeftBehind, ExcusedType, Causes
    <2> QED
      BY <1>7, <2>1, <2>2, <2>3, <2>4 DEF CacheUploaded, PlainType, SyncType
  <1>8. ASSUME NEW f \in Files, OnlineDeleteFile(f) PROVE Types'
    <2>1. PlainType'
      BY <1>8 DEF OnlineDeleteFile, PlainType, Recordings, Nothing
    <2>2. ActType'
      BY <1>8 DEF OnlineDeleteFile, ActType, Uploading, Deleting, Idle, Nothing
    <2> QED
      BY <1>8, <2>1, <2>2
         DEF OnlineDeleteFile, StoreType, UrlType, SyncType, ExcusedType
  <1>9. ASSUME NEW f \in Files, Deleted(f) PROVE Types'
    <2>1. ActType'
      BY <1>9 DEF Deleted, ActType, Uploading, Deleting, Idle, Nothing
    <2> QED
      BY <1>9, <2>1 DEF Deleted, PlainType, StoreType, UrlType, SyncType, ExcusedType
  <1>10. ASSUME NEW f \in Files, UploadFile(f) PROVE Types'
    <2>1. PlainType'
      BY <1>10 DEF UploadFile, PlainType, Recordings, Nothing
    <2>2. StoreType'
      BY <1>10, Makes DEF UploadFile, StoreUpload, StoreType, PlainType, Recordings
    <2>3. UrlType'
      BY <1>10, Makes DEF UploadFile, StoreUpload, UrlType, PlainType, Recordings
    <2>4. online => recorded' \in Recordings
      BY <1>10 DEF UploadFile, PlainType, Recordings
    <2>5. ActType'
      BY <1>10, <2>4
         DEF UploadFile, StoreUpload, ActType, Uploading, Deleting, Idle, Nothing
    <2> QED
      BY <1>10, <2>1, <2>2, <2>3, <2>4, <2>5 DEF UploadFile, SyncType, ExcusedType
  <1>11. ASSUME NEW f \in Files, RemoveCached(f) PROVE Types'
    <2>1. StoreType'
      BY <1>11, Nones DEF RemoveCached, Uncached, StoreType
    <2> QED
      BY <1>11, <2>1
         DEF RemoveCached, PlainType, UrlType, ActType, SyncType, ExcusedType
  <1>12. ASSUME NEW f \in Files, UpdateCache(f) PROVE Types'
    <2>1. PlainType'
      BY <1>12, UrlKinds DEF UpdateCache, PlainType, UrlType, Recordings, Nothing
    <2> QED
      BY <1>12, <2>1 DEF UpdateCache, StoreType, UrlType, ActType, SyncType, ExcusedType
  <1>13. ASSUME NEW f \in Files, OnlineCacheFile(f) PROVE Types'
    <2>1. PlainType'
      BY <1>13 DEF OnlineCacheFile, PlainType, Recordings, Nothing
    <2>2. StoreType'
      BY <1>13, Makes DEF OnlineCacheFile, StoreType, PlainType, Nothing
    <2>3. ExcusedType'
      BY <1>13 DEF OnlineCacheFile, Excuse, ExcusedType, Causes
    <2> QED
      BY <1>13, <2>1, <2>2, <2>3 DEF OnlineCacheFile, UrlType, ActType, SyncType
  <1>14. ASSUME NEW f \in Files, CacheFails(f) PROVE Types'
    <2>1. PlainType'
      BY <1>14 DEF CacheFails, PlainType, Recordings, Nothing
    <2> QED
      BY <1>14, <2>1 DEF CacheFails, StoreType, UrlType, ActType, SyncType, ExcusedType
  <1>15. ASSUME NEW f \in Files, NEW whole \in BOOLEAN, DeleteFile(f, whole) PROVE Types'
    <2>1. PlainType'
      BY <1>15 DEF DeleteFile, PlainType, Recordings, Nothing
    <2>2. StoreType'
      BY <1>15, Makes, Nones, UrlKinds
         DEF DeleteFile, Uncached, DeletionOffline, StoreType, UrlType
    <2>3. UrlType'
      BY <1>15, Nones DEF DeleteFile, UrlType
    <2>4. ActType'
      BY <1>15, UrlKinds
         DEF DeleteFile, ActType, UrlType, Uploading, Deleting, Idle, Nothing
    <2>5. ExcusedType'
      BY <1>15 DEF DeleteFile, Excuse, Orphan, ExcusedType, Causes
    <2> QED
      BY <1>15, <2>1, <2>2, <2>3, <2>4, <2>5 DEF DeleteFile, SyncType
  <1>16. ASSUME NEW f \in Files, NEW refused \in BOOLEAN, PostFails(f, refused) PROVE Types'
    <2>1. PlainType'
      BY <1>16 DEF PostFails, Fails, PlainType, Recordings, Nothing
    <2>2. StoreType'
      BY <1>16, Makes DEF PostFails, StoreUpload, StoreType, ActType, Uploading
    <2>3. UrlType'
      BY <1>16, Makes DEF PostFails, StoreUpload, UrlType, ActType, Uploading
    <2>4. ActType'
      BY <1>16 DEF PostFails, ActType, Uploading, Deleting, Idle, Nothing
    <2>5. ExcusedType'
      BY <1>16 DEF PostFails, Excuse, Refusal, ExcusedType, Causes
    <2> QED
      BY <1>16, <2>1, <2>2, <2>3, <2>4, <2>5 DEF PostFails, SyncType
  <1>17. ASSUME NEW f \in Files, NEW refused \in BOOLEAN, DeleteFails(f, refused) PROVE Types'
    <2>1. PlainType'
      BY <1>17 DEF DeleteFails, Fails, PlainType, Recordings, Nothing
    <2>2. StoreType'
      BY <1>17, Makes, Nones
         DEF DeleteFails, DeletionOffline, StoreType, ActType, Deleting
    <2>3. ActType'
      BY <1>17 DEF DeleteFails, ActType, Uploading, Deleting, Idle, Nothing
    <2>4. ExcusedType'
      BY <1>17 DEF DeleteFails, Excuse, Refusal, Orphan, ExcusedType, Causes
    <2> QED
      BY <1>17, <2>1, <2>2, <2>3, <2>4 DEF DeleteFails, UrlType, SyncType
  <1>18. ASSUME NEW s \in Syncs, SyncFiles(s) PROVE Types'
    <2>1. PlainType'
      BY <1>18 DEF SyncFiles, PlainType, Recordings, Nothing
    <2>2. SyncType'
      BY <1>18, ListType
    <2> QED
      BY <1>18, <2>1, <2>2 DEF SyncFiles, StoreType, UrlType, ActType, ExcusedType
  <1>19. ASSUME NEW s \in Syncs, TakeNext(s) PROVE Types'
    <2>1. SyncType'
      BY <1>19, TakeType
    <2> QED
      BY <1>19, <2>1 DEF TakeNext, PlainType, StoreType, UrlType, ActType, ExcusedType
  <1>20. ASSUME NEW s \in Syncs, SyncDelete(s) PROVE Types'
    <2>1. PlainType'
      BY <1>20
         DEF SyncDelete, PlainType, SyncType, FileOf, Deleting, Recordings, Nothing
    <2>2. SyncType'
      BY <1>20
         DEF SyncDelete, SyncType, SyncRecord, Uploading, Deleting, NoSync, NoEntry,
             FileOf, RecordOf
    <2>3. ExcusedType'
      BY <1>20 DEF SyncDelete, Excuse, Stale, ExcusedType, Causes
    <2> QED
      BY <1>20, <2>1, <2>2, <2>3 DEF SyncDelete, StoreType, UrlType, ActType
  <1>21. ASSUME NEW s \in Syncs, SyncDeleted(s) PROVE Types'
    <2>1. StoreType'
      BY <1>21, Taken, Makes, Nones DEF SyncDeleted, StoreType, Uploading, Deleting
    <2>2. SyncType'
      BY <1>21, ProceedType DEF SyncDeleted
    <2>3. ExcusedType'
      BY <1>21 DEF SyncDeleted, Excuse, Stale, ExcusedType, Causes
    <2> QED
      BY <1>21, <2>1, <2>2, <2>3 DEF SyncDeleted, PlainType, UrlType, ActType
  <1>22. ASSUME NEW s \in Syncs, SyncPost(s) PROVE Types'
    <2>1. PlainType'
      BY <1>22
         DEF SyncPost, PlainType, SyncType, Uploading, Deleting, Uploads, Upload,
             FileOf, RecordOf, Recordings, Nothing
    <2>2. SyncType'
      BY <1>22
         DEF SyncPost, SyncType, SyncRecord, Uploading, Deleting, NoSync, NoEntry,
             FileOf, RecordOf
    <2>3. ExcusedType'
      BY <1>22 DEF SyncPost, Excuse, Stale, ExcusedType, Causes
    <2> QED
      BY <1>22, <2>1, <2>2, <2>3 DEF SyncPost, StoreType, UrlType, ActType
  <1>23. ASSUME NEW s \in Syncs, SyncPosted(s) PROVE Types'
    <2>1. StoreType'
      BY <1>23, Taken, Makes, Nones DEF SyncPosted, StoreType, Uploading, Deleting
    <2>2. UrlType'
      BY <1>23, Taken, Makes, Nones DEF SyncPosted, UrlSet, UrlType, Uploading, Deleting
    <2>3. SyncType'
      BY <1>23, ProceedType DEF SyncPosted, SyncType, SyncRecord, Uploading, Deleting
    <2>4. ExcusedType'
      BY <1>23 DEF SyncPosted, Excuse, Stale, ExcusedType, Causes
    <2> QED
      BY <1>23, <2>1, <2>2, <2>3, <2>4 DEF SyncPosted, PlainType, ActType
  <1>24. ASSUME NEW s \in Syncs, SyncCache(s) PROVE Types'
    <2>1. StoreType'
      BY <1>24, Taken, Makes DEF SyncCache, Downloaded, StoreType, Uploading, Deleting
    <2>2. UrlType'
      BY <1>24, Taken, Makes, Nones DEF SyncCache, UrlSet, UrlType, Uploading, Deleting
    <2>3. SyncType'
      BY <1>24, ProceedType DEF SyncCache
    <2>4. ExcusedType'
      BY <1>24 DEF SyncCache, Excuse, Stale, LeftBehind, ExcusedType, Causes
    <2> QED
      BY <1>24, <2>1, <2>2, <2>3, <2>4 DEF SyncCache, PlainType, ActType
  <1>25. ASSUME NEW s \in Syncs, NEW refused \in BOOLEAN, SyncDeleteFails(s, refused) PROVE Types'
    <2>1. PlainType'
      BY <1>25 DEF SyncDeleteFails, Fails, PlainType, Recordings, Nothing
    <2>2. SyncType'
      BY <1>25
         DEF SyncDeleteFails, SyncType, SyncRecord, Uploading, Deleting, NoSync,
             NoEntry, FileOf, RecordOf
    <2>3. ExcusedType'
      BY <1>25 DEF SyncDeleteFails, ExcusedType, Causes
    <2> QED
      BY <1>25, <2>1, <2>2, <2>3 DEF SyncDeleteFails, StoreType, UrlType, ActType
  <1>26. ASSUME NEW s \in Syncs, NEW refused \in BOOLEAN, SyncPostFails(s, refused) PROVE Types'
    <2>1. PlainType'
      BY <1>26 DEF SyncPostFails, Fails, PlainType, Recordings, Nothing
    <2>2. StoreType'
      BY <1>26, Taken, Makes, Nones DEF SyncPostFails, StoreType, Uploading, Deleting
    <2>3. UrlType'
      BY <1>26, Taken, Makes, Nones
         DEF SyncPostFails, UrlSet, UrlType, Uploading, Deleting
    <2>4. SyncType'
      BY <1>26, ProceedType DEF SyncPostFails
    <2>5. ExcusedType'
      BY <1>26 DEF SyncPostFails, Excuse, Stale, Refusal, ExcusedType, Causes
    <2> QED
      BY <1>26, <2>1, <2>2, <2>3, <2>4, <2>5 DEF SyncPostFails, ActType
  <1>27. CASE UNCHANGED vars
    BY <1>27 DEF vars, PlainType, StoreType, UrlType, ExcusedType, ActType, SyncType
  <1> QED
    BY Steps, <1>1, <1>2, <1>3, <1>4, <1>5, <1>6, <1>7, <1>8, <1>9, <1>10, <1>11,
       <1>12, <1>13, <1>14, <1>15, <1>16, <1>17, <1>18, <1>19, <1>20, <1>21, <1>22,
       <1>23, <1>24, <1>25, <1>26, <1>27, Zenon

-----------------------------------------------------------------------------
(* What a step leaves alone. *)

\* A file that a step has nothing to do with.
Quiet(f) ==
    /\ store'[f] = store[f] /\ url'[f] = url[f] /\ server'[f] = server[f]
    /\ act'[f] = act[f] /\ gone'[f] = gone[f] /\ excused[f] \subseteq excused'[f]

\* A file of which no run of syncFiles can be about to say that the server has it.
Settled(f) ==
    \/ store'[f] = store[f] /\ act'[f] = act[f] /\ server'[f] = server[f]
       /\ excused[f] \subseteq excused'[f]
    \/ "overtaken" \in excused'[f] \/ "left" \in excused'[f]
    \/ server'[f] # Nothing
    \/ act'[f] # Idle
    \/ store'[f].kind # "upload"
    \/ store'[f].of > recorded
    \/ act[f].pc \in Uploading /\ store'[f] = Upload(act[f].of)

\* An upload that begins is of a new recording.
Ages(f) ==
    act'[f].pc \in Uploading =>
        \/ act[f].pc \in Uploading /\ act'[f].of = act[f].of
        \/ act'[f].of > recorded

Onward == kept' = kept /\ recorded' \in Nat /\ recorded \in Nat /\ recorded <= recorded'

\* Numbers can be compared.
LEMMA Numbers ==
    ASSUME Types, NEW f \in Files
    PROVE  /\ store[f] \in Records /\ url[f] \in Urls /\ store[f].of \in Nat /\ url[f].of \in Nat
           /\ act[f].of \in Nat /\ recorded \in Nat
  BY FileAssumption, RecordKinds, UrlKinds
     DEF Types, PlainType, StoreType, UrlType, ActType, Recordings, Nothing

\* Nothing changes for such a file ...
LEMMA QuietFile ==
    ASSUME Types, NEW f \in Files, FileInv(f), Quiet(f), Onward
    PROVE  FileInv(f)'
  <1>1. Numbered(f)'
    BY Numbers DEF FileInv, Quiet, Onward, Numbered
  <1> QED
    BY <1>1 DEF FileInv, Quiet, Onward, GoneIsGone, NothingToKeep, PostedIsThere, Stored,
                HasFile, Wanted

\* ... and none for a run that does not take the step.
LEMMA QuietRun ==
    ASSUME Types, NEW s \in Syncs, RunInv(s), sync'[s] = sync[s], Onward,
           \A f \in Files : Ages(f) /\ Settled(f)
    PROVE  RunInv(s)'
  <1>1. ASSUME NEW e \in Files \X (Uploads \cup Deletions), Older(e)
        PROVE  Older(e)'
    <2>1. e[1] \in Files /\ e[2].of \in Nat
      BY DEF Uploads, Deletions, Upload, Deletion, Recordings
    <2>2. Ages(e[1])
      BY <2>1
    <2> QED
      BY <1>1, <2>1, <2>2 DEF Older, Ages, Onward, Upload
  <1>2. \A e \in sync[s].list : e \in Files \X (Uploads \cup Deletions)
    BY DEF Types, SyncType, SyncRecord
  <1>3. sync[s].pc \in Uploading \cup Deleting => sync[s].now \in Files \X (Uploads \cup Deletions)
    BY DEF Types, SyncType
  <1>4. SyncedIsThere(s)'
    <2>1. FileOf(s)' = FileOf(s) /\ RecordOf(s)' = RecordOf(s)
      BY DEF FileOf, RecordOf
    <2>2. SUFFICES ASSUME sync[s].pc \in {"posted", "cache"}
                   PROVE  SyncedIsThere(s)'
      BY DEF SyncedIsThere
    <2>3. FileOf(s) \in Files /\ RecordOf(s).kind = "upload" /\ RecordOf(s).of \in Nat
      BY <2>2, Taken DEF Types, Uploading, Upload, Recordings
    <2>4. RecordOf(s).of <= recorded
      BY <2>2, <2>3 DEF RunInv, Older, RecordOf, Uploading
    <2>5. act[FileOf(s)].pc \in Uploading => RecordOf(s) # Upload(act[FileOf(s)].of)
      BY <2>2 DEF RunInv, Older, RecordOf, FileOf, Uploading
    <2>6. ~ RecordOf(s).of > recorded
      BY <2>3, <2>4 DEF Onward
    <2> QED
      BY <2>1, <2>3, <2>5, <2>6 DEF RunInv, SyncedIsThere, Settled
  <1> QED
    BY <1>1, <1>2, <1>3, <1>4 DEF RunInv

\* A step of the user's operation on one file.
LEMMA UserStep ==
    ASSUME IInv, Types', NEW f \in Files, Onward, sync' = sync, FileInv(f)', Ages(f),
           Settled(f), \A g \in Files \ {f} : Quiet(g)
    PROVE  IInv'
  <1>1. \A g \in Files : Quiet(g) => Ages(g) /\ Settled(g)
    BY DEF Quiet, Ages, Settled
  <1>2. \A g \in Files : Ages(g) /\ Settled(g)
    BY <1>1
  <1>3. \A g \in Files : FileInv(g)'
    BY QuietFile DEF IInv
  <1> QED
    BY <1>2, <1>3, QuietRun DEF IInv

\* A step of a run of syncFiles, which is about one file.
LEMMA RunStep ==
    ASSUME IInv, Types', NEW s \in Syncs, NEW f \in Files, Onward, act' = act,
           \A t \in Syncs \ {s} : sync'[t] = sync[t], FileInv(f)', RunInv(s)',
           Settled(f), \A g \in Files \ {f} : Quiet(g)
    PROVE  IInv'
  <1>1. \A g \in Files : Ages(g) /\ Settled(g)
    BY DEF Ages, Quiet, Settled
  <1>2. \A g \in Files : FileInv(g)'
    BY QuietFile DEF IInv
  <1> QED
    BY <1>1, <1>2, QuietRun DEF IInv

-----------------------------------------------------------------------------
(* What a step does to the file it is about. *)

\* The server has a new recording.
LEMMA PostStep ==
    ASSUME IInv, Types', NEW f \in Files, Post(f)
    PROVE  IInv'
  <1>1. Onward /\ sync' = sync
    BY FileAssumption DEF Post, Onward, IInv, Types, PlainType
  <1>2. \A g \in Files \ {f} : Quiet(g)
    BY DEF Post, Quiet, IInv, Types, ActType, PlainType
  <1>3. /\ act[f].pc = "post"
        /\ act'[f].pc = "posted"
        /\ act'[f].of = act[f].of
        /\ server'[f] # Nothing
        /\ store'[f] = store[f] /\ url'[f] = url[f] /\ gone'[f] = gone[f] /\ excused'[f] = excused[f]
    BY DEF Post, IInv, Types, ActType, PlainType, Uploading, Recordings, Nothing
  <1>4. FileInv(f) /\ act[f].of \in Nat /\ (act[f].pc # "idle" => act[f].of \in Recordings)
    BY Numbers DEF IInv, Types, ActType
  <1>5. FileInv(f)'
    <2>1. Numbered(f)'
      BY <1>1, <1>3, <1>4, Makes, Nones, Numbers
         DEF FileInv, Numbered, IInv, Onward, Uploading, Deleting, Idle, Nothing
    <2> QED
      BY <1>1, <1>3, <1>4, <2>1, Makes, Nones
         DEF FileInv, GoneIsGone, NothingToKeep, PostedIsThere, Stored, HasFile,
             Wanted, Onward, Uploading, Deleting, Idle
  <1>6. Ages(f) /\ Settled(f)
    BY <1>1, <1>3, <1>4, Makes, Nones
       DEF Ages, Settled, FileInv, NothingToKeep, PostedIsThere, Onward, Uploading,
           Deleting, Idle
  <1> QED
    BY <1>1, <1>2, <1>5, <1>6, UserStep

\* Its answer is in: the document gets the url, or the file is downloaded first.
LEMMA PostedStep ==
    ASSUME IInv, Types', NEW f \in Files, Posted(f)
    PROVE  IInv'
  <1>1. Onward /\ sync' = sync
    BY FileAssumption DEF Posted, Onward, IInv, Types, PlainType
  <1>2. \A g \in Files \ {f} : Quiet(g)
    BY DEF Posted, Excuse, Quiet, IInv, Types, UrlType, ActType, ExcusedType
  <1>3. /\ act[f].pc = "posted"
        /\ store'[f] = store[f] /\ server'[f] = server[f] /\ gone'[f] = gone[f]
        /\ f \in kept =>
             /\ act'[f].pc = "cache"
             /\ act'[f].of = act[f].of
             /\ url'[f] = url[f]
             /\ excused'[f] = excused[f]
        /\ f \notin kept =>
             /\ act'[f] = Idle
             /\ url'[f] = Server(act[f].of)
             /\ excused'[f] = excused[f] \cup LeftBehind(store[f])
    BY DEF Posted, Excuse, IInv, Types, UrlType, ActType, ExcusedType
  <1>4. FileInv(f) /\ act[f].of \in Nat /\ (act[f].pc # "idle" => act[f].of \in Recordings)
    BY Numbers DEF IInv, Types, ActType
  <1>5. FileInv(f)'
    <2>1. Numbered(f)'
      BY <1>1, <1>3, <1>4, Makes, Nones, Numbers
         DEF FileInv, Numbered, IInv, Onward, Uploading, Deleting, Idle, Nothing
    <2> QED
      BY <1>1, <1>3, <1>4, <2>1, Makes, Nones
         DEF FileInv, GoneIsGone, NothingToKeep, PostedIsThere, Stored, HasFile,
             Wanted, Onward, Uploading, Deleting, Idle, LeftBehind
  <1>6. Ages(f) /\ Settled(f)
    BY <1>1, <1>3, <1>4, Makes, Nones
       DEF Ages, Settled, FileInv, NothingToKeep, PostedIsThere, Onward, Uploading,
           Deleting, Idle, LeftBehind
  <1> QED
    BY <1>1, <1>2, <1>5, <1>6, UserStep

\* A kept recording is downloaded, or not.
LEMMA CacheUploadedStep ==
    ASSUME IInv, Types', NEW f \in Files, CacheUploaded(f)
    PROVE  IInv'
  <1>1. Onward /\ sync' = sync
    BY FileAssumption DEF CacheUploaded, Onward, IInv, Types, PlainType
  <1>2. \A g \in Files \ {f} : Quiet(g)
    BY DEF CacheUploaded, Downloaded, Excuse, Quiet, IInv, Types, StoreType, UrlType,
           ActType, ExcusedType
  <1>3. /\ act[f].pc = "cache"
        /\ store'[f] \in {store[f], Copy(act[f].of)}
        /\ url'[f] = Server(act[f].of)
        /\ act'[f] = Idle
        /\ excused'[f] = excused[f] \cup LeftBehind(store'[f])
        /\ server'[f] = server[f] /\ gone'[f] = gone[f]
    BY DEF CacheUploaded, Downloaded, Excuse, IInv, Types, StoreType, UrlType,
           ActType, ExcusedType
  <1>4. FileInv(f) /\ act[f].of \in Nat /\ (act[f].pc # "idle" => act[f].of \in Recordings)
    BY Numbers DEF IInv, Types, ActType
  <1>5. FileInv(f)'
    <2>1. Numbered(f)'
      BY <1>1, <1>3, <1>4, Makes, Nones, Numbers
         DEF FileInv, Numbered, IInv, Onward, Uploading, Deleting, Idle, Nothing
    <2> QED
      BY <1>1, <1>3, <1>4, <2>1, Makes, Nones, RecordKinds, Numbers
         DEF FileInv, GoneIsGone, NothingToKeep, PostedIsThere, Stored, HasFile,
             Wanted, Onward, Uploading, Deleting, Idle, LeftBehind
  <1>6. Ages(f) /\ Settled(f)
    BY <1>1, <1>3, <1>4, Makes, Nones
       DEF Ages, Settled, FileInv, NothingToKeep, PostedIsThere, Onward, Uploading,
           Deleting, Idle, LeftBehind
  <1> QED
    BY <1>1, <1>2, <1>5, <1>6, UserStep

\* The server has deleted a file, which no url leads to.
LEMMA OnlineDeleteFileStep ==
    ASSUME IInv, Types', NEW f \in Files, OnlineDeleteFile(f)
    PROVE  IInv'
  <1>1. Onward /\ sync' = sync
    BY FileAssumption DEF OnlineDeleteFile, Onward, IInv, Types, PlainType
  <1>2. \A g \in Files \ {f} : Quiet(g)
    BY DEF OnlineDeleteFile, Quiet, IInv, Types, ActType, PlainType
  <1>3. /\ act[f].pc = "delete"
        /\ act'[f].pc = "deleted"
        /\ act'[f].of = act[f].of
        /\ store'[f] = store[f] /\ url'[f] = url[f] /\ gone'[f] = gone[f] /\ excused'[f] = excused[f]
    BY DEF OnlineDeleteFile, IInv, Types, ActType, PlainType
  <1>4. FileInv(f) /\ act[f].of \in Nat /\ (act[f].pc # "idle" => act[f].of \in Recordings)
    BY Numbers DEF IInv, Types, ActType
  <1>5. FileInv(f)'
    <2>1. Numbered(f)'
      BY <1>1, <1>3, <1>4, Makes, Nones, Numbers
         DEF FileInv, Numbered, IInv, Onward, Uploading, Deleting, Idle, Nothing
    <2> QED
      BY <1>1, <1>3, <1>4, <2>1, Makes, Nones
         DEF FileInv, GoneIsGone, NothingToKeep, PostedIsThere, Stored, HasFile,
             Wanted, Onward, Uploading, Deleting, Idle
  <1>6. Ages(f) /\ Settled(f)
    BY <1>1, <1>3, <1>4, Makes, Nones
       DEF Ages, Settled, FileInv, NothingToKeep, PostedIsThere, Onward, Uploading,
           Deleting, Idle
  <1> QED
    BY <1>1, <1>2, <1>5, <1>6, UserStep

\* Its answer is in.
LEMMA DeletedStep ==
    ASSUME IInv, Types', NEW f \in Files, Deleted(f)
    PROVE  IInv'
  <1>1. Onward /\ sync' = sync
    BY FileAssumption DEF Deleted, Onward, IInv, Types, PlainType
  <1>2. \A g \in Files \ {f} : Quiet(g)
    BY DEF Deleted, Quiet, IInv, Types, ActType
  <1>3. /\ act[f].pc = "deleted"
        /\ act'[f] = Idle
        /\ store'[f] = store[f] /\ url'[f] = url[f] /\ server'[f] = server[f] /\ gone'[f] = gone[f] /\ excused'[f] = excused[f]
    BY DEF Deleted, IInv, Types, ActType
  <1>4. FileInv(f) /\ act[f].of \in Nat /\ (act[f].pc # "idle" => act[f].of \in Recordings)
    BY Numbers DEF IInv, Types, ActType
  <1>5. FileInv(f)'
    <2>1. Numbered(f)'
      BY <1>1, <1>3, <1>4, Makes, Nones, Numbers
         DEF FileInv, Numbered, IInv, Onward, Uploading, Deleting, Idle, Nothing
    <2> QED
      BY <1>1, <1>3, <1>4, <2>1, Makes, Nones
         DEF FileInv, GoneIsGone, NothingToKeep, PostedIsThere, Stored, HasFile,
             Wanted, Onward, Uploading, Deleting, Idle
  <1>6. Ages(f) /\ Settled(f)
    BY <1>1, <1>3, <1>4, Makes, Nones
       DEF Ages, Settled, FileInv, NothingToKeep, PostedIsThere, Onward, Uploading,
           Deleting, Idle
  <1> QED
    BY <1>1, <1>2, <1>5, <1>6, UserStep

\* The user saves a recording, the newest one.
LEMMA UploadFileStep ==
    ASSUME IInv, Types', NEW f \in Files, UploadFile(f)
    PROVE  IInv'
  <1>1. Onward /\ sync' = sync
    BY FileAssumption DEF UploadFile, Onward, IInv, Types, PlainType
  <1>2. \A g \in Files \ {f} : Quiet(g)
    BY DEF UploadFile, StoreUpload, Quiet, IInv, Types, StoreType, UrlType, ActType
  <1>3. /\ ~gone[f] /\ act[f] = Idle /\ recorded' = recorded + 1 /\ recorded' \in Recordings
        /\ server'[f] = server[f] /\ gone'[f] = gone[f] /\ excused'[f] = excused[f]
        /\ online =>
             /\ act'[f].pc = "post"
             /\ act'[f].of = recorded'
             /\ store'[f] = store[f]
             /\ url'[f] = url[f]
        /\ ~online =>
             /\ act'[f] = act[f]
             /\ store'[f] = Upload(recorded')
             /\ url'[f] = Local(recorded')
    BY FileAssumption
       DEF UploadFile, StoreUpload, IInv, Types, StoreType, UrlType, ActType,
           PlainType, Recordings
  <1>4. FileInv(f) /\ act[f].of \in Nat /\ (act[f].pc # "idle" => act[f].of \in Recordings)
    BY Numbers DEF IInv, Types, ActType
  <1>5. FileInv(f)'
    <2>1. Numbered(f)'
      BY <1>1, <1>3, <1>4, Makes, Nones, Numbers
         DEF FileInv, Numbered, IInv, Onward, Uploading, Deleting, Idle, Nothing
    <2> QED
      BY <1>1, <1>3, <1>4, <2>1, Makes, Nones
         DEF FileInv, GoneIsGone, NothingToKeep, PostedIsThere, Stored, HasFile,
             Wanted, Onward, Uploading, Deleting, Idle
  <1>6. Ages(f) /\ Settled(f)
    BY <1>1, <1>3, <1>4, Makes, Nones
       DEF Ages, Settled, FileInv, NothingToKeep, PostedIsThere, Onward, Uploading,
           Deleting, Idle
  <1> QED
    BY <1>1, <1>2, <1>5, <1>6, UserStep

\* A copy that no url leads to is removed.
LEMMA RemoveCachedStep ==
    ASSUME IInv, Types', NEW f \in Files, RemoveCached(f)
    PROVE  IInv'
  <1>1. Onward /\ sync' = sync
    BY FileAssumption DEF RemoveCached, Onward, IInv, Types, PlainType
  <1>2. \A g \in Files \ {f} : Quiet(g)
    BY DEF RemoveCached, Uncached, Quiet, IInv, Types, StoreType
  <1>3. /\ url[f] = NoUrl
        /\ store'[f] = NoRecord
        /\ url'[f] = url[f] /\ act'[f] = act[f] /\ server'[f] = server[f] /\ gone'[f] = gone[f] /\ excused'[f] = excused[f]
    BY DEF RemoveCached, Uncached, IInv, Types, StoreType
  <1>4. FileInv(f) /\ act[f].of \in Nat /\ (act[f].pc # "idle" => act[f].of \in Recordings)
    BY Numbers DEF IInv, Types, ActType
  <1>5. FileInv(f)'
    <2>1. Numbered(f)'
      BY <1>1, <1>3, <1>4, Makes, Nones, Numbers
         DEF FileInv, Numbered, IInv, Onward, Uploading, Deleting, Idle, Nothing
    <2> QED
      BY <1>1, <1>3, <1>4, <2>1, Makes, Nones
         DEF FileInv, GoneIsGone, NothingToKeep, PostedIsThere, Stored, HasFile,
             Wanted, Onward, Uploading, Deleting, Idle
  <1>6. Ages(f) /\ Settled(f)
    BY <1>1, <1>3, <1>4, Makes, Nones
       DEF Ages, Settled, FileInv, NothingToKeep, PostedIsThere, Onward, Uploading,
           Deleting, Idle
  <1> QED
    BY <1>1, <1>2, <1>5, <1>6, UserStep

\* A download begins.
LEMMA UpdateCacheStep ==
    ASSUME IInv, Types', NEW f \in Files, UpdateCache(f)
    PROVE  IInv'
  <1>1. Onward /\ sync' = sync
    BY FileAssumption DEF UpdateCache, Onward, IInv, Types, PlainType
  <1>2. \A g \in Files : Quiet(g)
    BY DEF UpdateCache, Quiet
  <1>3. FileInv(f)' /\ Ages(f)
    BY <1>1, <1>2, QuietFile DEF IInv, Quiet, Ages
  <1> QED
    BY <1>1, <1>2, <1>3, UserStep DEF Quiet, Settled

\* A download is in; it may overtake an upload that has yet to be sent.
LEMMA OnlineCacheFileStep ==
    ASSUME IInv, Types', NEW f \in Files, OnlineCacheFile(f)
    PROVE  IInv'
  <1>1. Onward /\ sync' = sync
    BY FileAssumption DEF OnlineCacheFile, Onward, IInv, Types, PlainType
  <1>2. \A g \in Files \ {f} : Quiet(g)
    BY DEF OnlineCacheFile, Excuse, Quiet, IInv, Types, StoreType, ExcusedType
  <1>3. /\ fetching[f] \in Recordings
        /\ store'[f] = Copy(fetching[f])
        /\ excused[f] \subseteq excused'[f]
        /\ store[f].kind = "upload" => "overtaken" \in excused'[f]
        /\ url'[f] = url[f] /\ act'[f] = act[f] /\ server'[f] = server[f] /\ gone'[f] = gone[f]
    BY DEF OnlineCacheFile, Excuse, IInv, Types, StoreType, ExcusedType, PlainType, Nothing
  <1>4. store'[f].kind = "copy"
    BY <1>3, Makes
  <1>5. store[f] = Upload(url[f].of) => store[f].kind = "upload"
    BY DEF Upload
  <1>6. act[f].pc \in Uploading => store'[f] # Upload(act[f].of)
    BY <1>4 DEF Upload
  <1>7. FileInv(f)'
    BY <1>1, <1>3, <1>4, <1>5, <1>6, Numbers
       DEF IInv, FileInv, GoneIsGone, NothingToKeep, Numbered, PostedIsThere, Stored, HasFile,
           Wanted, Onward
  <1>8. Ages(f) /\ Settled(f)
    BY <1>3, <1>4 DEF Ages, Settled
  <1> QED
    BY <1>1, <1>2, <1>7, <1>8, UserStep

\* A download fails.
LEMMA CacheFailsStep ==
    ASSUME IInv, Types', NEW f \in Files, CacheFails(f)
    PROVE  IInv'
  <1>1. Onward /\ sync' = sync
    BY FileAssumption DEF CacheFails, Onward, IInv, Types, PlainType
  <1>2. \A g \in Files : Quiet(g)
    BY DEF CacheFails, Quiet
  <1>3. FileInv(f)' /\ Ages(f)
    BY <1>1, <1>2, QuietFile DEF IInv, Quiet, Ages
  <1> QED
    BY <1>1, <1>2, <1>3, UserStep DEF Quiet, Settled

\* The user deletes a recording: no url, and nothing to upload, is left.
LEMMA DeleteFileStep ==
    ASSUME IInv, Types', NEW f \in Files, NEW whole \in BOOLEAN, DeleteFile(f, whole)
    PROVE  IInv'
  <1>1. Onward /\ sync' = sync
    BY FileAssumption DEF DeleteFile, Onward, IInv, Types, PlainType
  <1>2. \A g \in Files \ {f} : Quiet(g)
    BY DEF DeleteFile, Uncached, DeletionOffline, Excuse, Quiet, IInv, Types, StoreType,
           UrlType, ActType, PlainType, ExcusedType
  <1>3. gone'[f] => f \notin kept
    <2>1. gone'[f] = whole
      BY DEF DeleteFile, IInv, Types, PlainType
    <2> QED
      BY <2>1, Zenon DEF DeleteFile
  <1>4. url'[f] = NoUrl
    BY DEF DeleteFile, IInv, Types, UrlType
  <1>5. store'[f].kind # "upload"
    <2>1. store'[f] \in {store[f], NoRecord, Deletion(url[f].of)}
      BY DEF DeleteFile, Uncached, DeletionOffline, IInv, Types, StoreType
    <2>2. store'[f] = store[f] => store[f].kind # "upload"
      BY Nones DEF DeleteFile, Uncached, DeletionOffline, Deletion, IInv, Types, StoreType
    <2> QED
      BY <2>1, <2>2, Nones DEF Deletion
  <1>6. act'[f].pc \notin Uploading
    <2>1. act'[f] \in {Idle, [pc |-> "delete", of |-> url[f].of]}
      BY DEF DeleteFile, IInv, Types, ActType
    <2> QED
      BY <2>1 DEF Idle, Uploading
  <1>7. FileInv(f)'
    <2>1. url'[f].at = "nowhere"
      BY <1>4, Nones
    <2> QED
      BY <1>1, <1>3, <1>4, <1>5, <1>6, <2>1
         DEF FileInv, GoneIsGone, NothingToKeep, Numbered, PostedIsThere, Stored, HasFile,
             Wanted, Onward, Uploading
  <1>8. Ages(f) /\ Settled(f)
    BY <1>5, <1>6 DEF Ages, Settled
  <1> QED
    BY <1>1, <1>2, <1>7, <1>8, UserStep

\* The recording could not be sent and is stored.
LEMMA PostFailsStep ==
    ASSUME IInv, Types', NEW f \in Files, NEW refused \in BOOLEAN, PostFails(f, refused)
    PROVE  IInv'
  <1>1. Onward /\ sync' = sync
    BY FileAssumption DEF PostFails, Onward, IInv, Types, PlainType
  <1>2. \A g \in Files \ {f} : Quiet(g)
    BY DEF PostFails, StoreUpload, Excuse, Quiet, IInv, Types, StoreType, UrlType,
           ActType, ExcusedType
  <1>3. /\ act[f].pc \in Uploading
        /\ store'[f] = Upload(act[f].of)
        /\ url'[f] = Local(act[f].of)
        /\ act'[f] = Idle
        /\ excused[f] \subseteq excused'[f]
        /\ server'[f] = server[f] /\ gone'[f] = gone[f]
    BY DEF PostFails, StoreUpload, Excuse, IInv, Types, StoreType, UrlType, ActType,
           ExcusedType, Uploading
  <1>4. FileInv(f) /\ act[f].of \in Nat /\ (act[f].pc # "idle" => act[f].of \in Recordings)
    BY Numbers DEF IInv, Types, ActType
  <1>5. FileInv(f)'
    <2>1. Numbered(f)'
      BY <1>1, <1>3, <1>4, Makes, Nones, Numbers
         DEF FileInv, Numbered, IInv, Onward, Uploading, Deleting, Idle, Nothing
    <2> QED
      BY <1>1, <1>3, <1>4, <2>1, Makes, Nones
         DEF FileInv, GoneIsGone, NothingToKeep, PostedIsThere, Stored, HasFile,
             Wanted, Onward, Uploading, Deleting, Idle
  <1>6. Ages(f) /\ Settled(f)
    BY <1>1, <1>3, <1>4, Makes, Nones
       DEF Ages, Settled, FileInv, NothingToKeep, PostedIsThere, Onward, Uploading,
           Deleting, Idle
  <1> QED
    BY <1>1, <1>2, <1>5, <1>6, UserStep

\* The deletion could not be sent and is stored.
LEMMA DeleteFailsStep ==
    ASSUME IInv, Types', NEW f \in Files, NEW refused \in BOOLEAN, DeleteFails(f, refused)
    PROVE  IInv'
  <1>1. Onward /\ sync' = sync
    BY FileAssumption DEF DeleteFails, Onward, IInv, Types, PlainType
  <1>2. \A g \in Files \ {f} : Quiet(g)
    BY DEF DeleteFails, DeletionOffline, Excuse, Quiet, IInv, Types, StoreType,
           ActType, ExcusedType
  <1>3. /\ act[f].pc \in Deleting
        /\ store'[f] \in {NoRecord, Deletion(act[f].of)}
        /\ act'[f] = Idle
        /\ excused[f] \subseteq excused'[f]
        /\ url'[f] = url[f] /\ server'[f] = server[f] /\ gone'[f] = gone[f]
    BY DEF DeleteFails, DeletionOffline, Excuse, IInv, Types, StoreType, ActType,
           ExcusedType, Deleting
  <1>4. FileInv(f) /\ act[f].of \in Nat /\ (act[f].pc # "idle" => act[f].of \in Recordings)
    BY Numbers DEF IInv, Types, ActType
  <1>5. FileInv(f)'
    <2>1. Numbered(f)'
      BY <1>1, <1>3, <1>4, Makes, Nones, Numbers
         DEF FileInv, Numbered, IInv, Onward, Uploading, Deleting, Idle, Nothing
    <2> QED
      BY <1>1, <1>3, <1>4, <2>1, Makes, Nones
         DEF FileInv, GoneIsGone, NothingToKeep, PostedIsThere, Stored, HasFile,
             Wanted, Onward, Uploading, Deleting, Idle
  <1>6. Ages(f) /\ Settled(f)
    BY <1>1, <1>3, <1>4, Makes, Nones
       DEF Ages, Settled, FileInv, NothingToKeep, PostedIsThere, Onward, Uploading,
           Deleting, Idle
  <1> QED
    BY <1>1, <1>2, <1>5, <1>6, UserStep

-----------------------------------------------------------------------------
(* What a step of syncFiles does. *)

-----------------------------------------------------------------------------
(* What a step of syncFiles does. *)

\* Nothing is excused twice over, and what is not overtaken is as it was read.
LEMMA Excused ==
    ASSUME Types, NEW f \in Files, NEW causes, Excuse(f, causes)
    PROVE  /\ excused'[f] = excused[f] \cup causes
           /\ \A g \in Files \ {f} : excused'[g] = excused[g]
           /\ \A g \in Files : excused[g] \subseteq excused'[g]
  BY DEF Excuse, Types, ExcusedType

LEMMA NotStale ==
    ASSUME NEW s \in Syncs, "overtaken" \notin Stale(s)
    PROVE  /\ store[FileOf(s)] = RecordOf(s)
           /\ act[FileOf(s)] = Idle
           /\ RecordOf(s).kind = "deletion" => url[FileOf(s)] = NoUrl
  BY DEF Stale, Overtaken

\* A step that is about no file.
LEMMA RunOnly ==
    ASSUME IInv, Types', NEW s \in Syncs, Onward, \A g \in Files : Quiet(g),
           \A t \in Syncs \ {s} : sync'[t] = sync[t], RunInv(s)'
    PROVE  IInv'
  <1>1. \A g \in Files : Ages(g) /\ Settled(g) /\ FileInv(g)'
    BY QuietFile DEF IInv, Ages, Quiet, Settled
  <1> QED
    BY <1>1, QuietRun DEF IInv

\* The records that are left are no younger.
LEMMA OlderStays ==
    ASSUME NEW e, Older(e), act' = act, recorded' = recorded
    PROVE  Older(e)'
  BY DEF Older

LEMMA ProceedRun ==
    ASSUME Types, NEW s \in Syncs, RunInv(s), Proceed(s), act' = act, recorded' = recorded
    PROVE  /\ RunInv(s)'
           /\ \A t \in Syncs \ {s} : sync'[t] = sync[t]
  <1>1. sync'[s].list \subseteq sync[s].list /\ sync'[s].pc \in {"idle", "next"}
    BY DEF Proceed, Types, SyncType, SyncRecord, NoSync
  <1>2. \A t \in Syncs \ {s} : sync'[t] = sync[t]
    BY DEF Proceed, Types, SyncType
  <1> QED
    BY <1>1, <1>2, OlderStays DEF RunInv, SyncedIsThere, Uploading, Deleting

\* syncFiles reads the records.
LEMMA SyncFilesStep ==
    ASSUME IInv, Types', NEW s \in Syncs, SyncFiles(s)
    PROVE  IInv'
  <1>1. Onward /\ (\A g \in Files : Quiet(g)) /\ \A t \in Syncs \ {s} : sync'[t] = sync[t]
    BY FileAssumption DEF SyncFiles, Onward, Quiet, IInv, Types, PlainType, SyncType
  <1>2. \A e \in sync'[s].list : \E f \in Files : e = <<f, store[f]>>
    BY DEF SyncFiles, NoSync, IInv, Types, SyncType, SyncRecord
  <1>3. sync'[s].pc \in {"idle", "next"}
    BY DEF SyncFiles, NoSync, IInv, Types, SyncType, SyncRecord
  <1>4. \A f \in Files : Older(<<f, store[f]>>)
    BY DEF IInv, FileInv, Numbered, Older
  <1>5. act' = act /\ recorded' = recorded
    BY DEF SyncFiles
  <1>6. RunInv(s)'
    BY <1>2, <1>3, <1>4, <1>5, OlderStays DEF RunInv, SyncedIsThere, Uploading, Deleting
  <1> QED
    BY <1>1, <1>6, RunOnly

\* It takes a record.
LEMMA TakeNextStep ==
    ASSUME IInv, Types', NEW s \in Syncs, TakeNext(s)
    PROVE  IInv'
  <1>1. Onward /\ (\A g \in Files : Quiet(g)) /\ \A t \in Syncs \ {s} : sync'[t] = sync[t]
    BY FileAssumption DEF TakeNext, Onward, Quiet, IInv, Types, PlainType, SyncType
  <1>2. PICK e \in sync[s].list :
          sync' = [sync EXCEPT ![s] = [pc |-> IF e[2].kind = "deletion" THEN "delete" ELSE "post",
                                       list |-> @.list \ {e}, now |-> e]]
    BY DEF TakeNext
  <1>3. /\ sync'[s].now = e /\ sync'[s].pc \in {"delete", "post"}
        /\ sync'[s].list \subseteq sync[s].list
    BY <1>2 DEF IInv, Types, SyncType
  <1>4. act' = act /\ recorded' = recorded
    BY DEF TakeNext
  <1>5. RunInv(s)'
    BY <1>3, <1>4, OlderStays DEF IInv, RunInv, SyncedIsThere
  <1> QED
    BY <1>1, <1>5, RunOnly

\* The server has deleted: nothing that is still wanted, unless it is overtaken.
LEMMA SyncDeleteStep ==
    ASSUME IInv, Types', NEW s \in Syncs, SyncDelete(s)
    PROVE  IInv'
  <1>1. PICK f \in Files : f = FileOf(s) /\ RecordOf(s).kind = "deletion"
    BY Taken DEF SyncDelete, IInv, Types, Deleting, Deletions, Deletion
  <1>2. Onward /\ act' = act /\ recorded' = recorded
    BY FileAssumption DEF SyncDelete, Onward, IInv, Types, PlainType
  <1>3. excused'[f] = excused[f] \cup Stale(s) /\ \A g \in Files : excused[g] \subseteq excused'[g]
    BY <1>1, Excused DEF SyncDelete, IInv
  <1>4. "overtaken" \notin excused'[f] => act[f] = Idle /\ url[f] = NoUrl /\ store[f].kind = "deletion"
    BY <1>1, <1>3, NotStale
  <1>5. /\ store' = store /\ url' = url /\ act' = act /\ gone' = gone
        /\ \A g \in Files \ {f} : server'[g] = server[g]
    BY <1>1 DEF SyncDelete, IInv, Types, PlainType
  <1>6. /\ sync'[s].pc = "deleted" /\ sync'[s].list = sync[s].list /\ sync'[s].now = sync[s].now
        /\ \A t \in Syncs \ {s} : sync'[t] = sync[t]
    BY DEF SyncDelete, IInv, Types, SyncType, SyncRecord
  <1>7. \A g \in Files \ {f} : Quiet(g)
    BY <1>3, <1>5 DEF Quiet
  <1>8. FileInv(f)'
    BY <1>1, <1>2, <1>3, <1>4, <1>5, Nones
       DEF IInv, FileInv, GoneIsGone, NothingToKeep, Numbered, PostedIsThere, Stored, HasFile,
           Wanted, Onward, Idle
  <1>9. Settled(f)
    BY <1>1, <1>4, <1>5 DEF Settled
  <1>10. RunInv(s)'
    BY <1>2, <1>6, OlderStays DEF IInv, RunInv, SyncedIsThere, SyncDelete, Deleting
  <1> QED
    BY <1>1, <1>2, <1>6, <1>7, <1>8, <1>9, <1>10, RunStep

\* The record of a deletion is removed.
LEMMA SyncDeletedStep ==
    ASSUME IInv, Types', NEW s \in Syncs, SyncDeleted(s)
    PROVE  IInv'
  <1>1. PICK f \in Files : f = FileOf(s) /\ RecordOf(s).kind = "deletion"
    BY Taken DEF SyncDeleted, IInv, Types, Deleting, Deletions, Deletion
  <1>2. Onward /\ act' = act /\ recorded' = recorded
    BY FileAssumption DEF SyncDeleted, Onward, IInv, Types, PlainType
  <1>3. excused'[f] = excused[f] \cup Stale(s) /\ \A g \in Files : excused[g] \subseteq excused'[g]
    BY <1>1, Excused DEF SyncDeleted, IInv
  <1>4. "overtaken" \notin excused'[f] => act[f] = Idle /\ url[f] = NoUrl
    BY <1>1, <1>3, NotStale
  <1>5. /\ url' = url /\ act' = act /\ gone' = gone /\ server' = server
        /\ store'[f] = NoRecord /\ \A g \in Files \ {f} : store'[g] = store[g]
    BY <1>1 DEF SyncDeleted, IInv, Types, StoreType
  <1>6. RunInv(s)' /\ \A t \in Syncs \ {s} : sync'[t] = sync[t]
    BY <1>2, ProceedRun DEF SyncDeleted, IInv
  <1>7. \A g \in Files \ {f} : Quiet(g)
    BY <1>3, <1>5 DEF Quiet
  <1>8. NoRecord.kind = "none" /\ NoRecord # Upload(act[f].of) /\ NoUrl.at = "nowhere"
    BY DEF NoRecord, Upload, NoUrl
  <1>9. FileInv(f)'
    BY <1>1, <1>2, <1>3, <1>4, <1>5, <1>8
       DEF IInv, FileInv, GoneIsGone, NothingToKeep, Numbered, PostedIsThere, Stored, HasFile,
           Wanted, Onward, Idle
  <1>10. Settled(f)
    BY <1>5, <1>8 DEF Settled
  <1> QED
    BY <1>1, <1>2, <1>6, <1>7, <1>9, <1>10, RunStep

\* The server has a recording that syncFiles posts.
LEMMA SyncPostStep ==
    ASSUME IInv, Types', NEW s \in Syncs, SyncPost(s)
    PROVE  IInv'
  <1>1. PICK f \in Files : f = FileOf(s) /\ RecordOf(s).of \in Recordings
    BY Taken DEF SyncPost, IInv, Types, Uploading
  <1>2. Onward /\ act' = act /\ recorded' = recorded
    BY FileAssumption DEF SyncPost, Onward, IInv, Types, PlainType
  <1>3. \A g \in Files : excused[g] \subseteq excused'[g]
    BY <1>1, Excused DEF SyncPost, IInv
  <1>4. /\ store' = store /\ url' = url /\ act' = act /\ gone' = gone
        /\ server'[f] # Nothing /\ \A g \in Files \ {f} : server'[g] = server[g]
    BY <1>1 DEF SyncPost, IInv, Types, PlainType, Recordings, Nothing
  <1>5. /\ sync'[s].pc = "posted" /\ sync'[s].list = sync[s].list /\ sync'[s].now = sync[s].now
        /\ \A t \in Syncs \ {s} : sync'[t] = sync[t]
    BY DEF SyncPost, IInv, Types, SyncType, SyncRecord
  <1>6. \A g \in Files \ {f} : Quiet(g)
    BY <1>3, <1>4 DEF Quiet
  <1>7. FileInv(f)'
    BY <1>1, <1>2, <1>3, <1>4
       DEF IInv, FileInv, GoneIsGone, NothingToKeep, Numbered, PostedIsThere, Stored, HasFile,
           Wanted, Onward
  <1>8. Settled(f)
    BY <1>4 DEF Settled
  <1>9. RunInv(s)'
    BY <1>1, <1>2, <1>4, <1>5, OlderStays
       DEF IInv, RunInv, SyncedIsThere, SyncPost, Uploading, FileOf
  <1> QED
    BY <1>1, <1>2, <1>5, <1>6, <1>7, <1>8, <1>9, RunStep

\* Its answer is in.
LEMMA SyncPostedStep ==
    ASSUME IInv, Types', NEW s \in Syncs, SyncPosted(s)
    PROVE  IInv'
  <1>1. PICK f \in Files : /\ f = FileOf(s) /\ RecordOf(s).of \in Recordings
                           /\ RecordOf(s).kind = "upload"
    BY Taken DEF SyncPosted, IInv, Types, Uploading, Upload
  <1>2. Onward /\ act' = act /\ recorded' = recorded
    BY FileAssumption DEF SyncPosted, Onward, IInv, Types, PlainType
  <1>3. excused'[f] = excused[f] \cup Stale(s) /\ \A g \in Files : excused[g] \subseteq excused'[g]
    BY <1>1, Excused DEF SyncPosted, IInv
  <1>4. server' = server /\ act' = act /\ gone' = gone
    BY DEF SyncPosted
  <1>5. CASE f \in kept
    <2>1. store' = store /\ url' = url
      BY <1>1, <1>5 DEF SyncPosted
    <2>2. \A g \in Files : Quiet(g)
      BY <1>3, <1>4, <2>1 DEF Quiet
    <2>3. /\ sync'[s].pc = "cache" /\ sync'[s].list = sync[s].list /\ sync'[s].now = sync[s].now
          /\ \A t \in Syncs \ {s} : sync'[t] = sync[t]
      BY <1>1, <1>5 DEF SyncPosted, IInv, Types, SyncType, SyncRecord
    <2>4. RunInv(s)'
      BY <1>1, <1>2, <1>3, <1>4, <2>1, <2>3, OlderStays
         DEF IInv, RunInv, SyncedIsThere, SyncPosted, Uploading, FileOf, RecordOf
    <2> QED
      BY <1>2, <2>2, <2>3, <2>4, RunOnly
  <1>6. CASE f \notin kept
    <2>1. /\ store'[f] = NoRecord /\ \A g \in Files \ {f} : store'[g] = store[g]
          /\ gone[f] => url' = url
          /\ ~gone[f] => url'[f] = Server(RecordOf(s).of)
          /\ \A g \in Files \ {f} : url'[g] = url[g]
      BY <1>1, <1>6 DEF SyncPosted, UrlSet, IInv, Types, StoreType, UrlType
    <2>2. RunInv(s)' /\ \A t \in Syncs \ {s} : sync'[t] = sync[t]
      BY <1>1, <1>2, <1>6, ProceedRun DEF SyncPosted, IInv
    <2>3. \A g \in Files \ {f} : Quiet(g)
      BY <1>3, <1>4, <2>1 DEF Quiet
    <2>4. /\ NoRecord.kind = "none" /\ NoRecord # Upload(act[f].of) /\ NoUrl.at = "nowhere"
          /\ Server(RecordOf(s).of).at = "server"
      BY DEF NoRecord, Upload, NoUrl, Server
    <2>5. "overtaken" \notin excused'[f] =>
            act[f] = Idle /\ ("left" \notin excused'[f] => server[f] # Nothing)
      <3>1. "overtaken" \notin excused'[f] => store[f] = RecordOf(s) /\ act[f] = Idle
        BY <1>1, <1>3, NotStale
      <3> QED
        BY <1>1, <1>3, <3>1 DEF IInv, RunInv, SyncedIsThere, SyncPosted
    <2>6. FileInv(f)'
      BY <1>1, <1>2, <1>3, <1>4, <2>1, <2>4, <2>5
         DEF IInv, FileInv, GoneIsGone, NothingToKeep, Numbered, PostedIsThere, Stored,
             HasFile, Wanted, Onward, Idle, Deleting
    <2>7. Settled(f)
      BY <2>1, <2>4 DEF Settled
    <2> QED
      BY <1>1, <1>2, <2>2, <2>3, <2>6, <2>7, RunStep
  <1> QED
    BY <1>5, <1>6

\* A kept recording is downloaded.
LEMMA SyncCacheStep ==
    ASSUME IInv, Types', NEW s \in Syncs, SyncCache(s)
    PROVE  IInv'
  <1>1. PICK f \in Files : /\ f = FileOf(s) /\ RecordOf(s).of \in Recordings
                           /\ RecordOf(s).kind = "upload"
    BY Taken DEF SyncCache, IInv, Types, Uploading, Upload
  <1>2. Onward /\ act' = act /\ recorded' = recorded
    BY FileAssumption DEF SyncCache, Onward, IInv, Types, PlainType
  <1>3. /\ excused'[f] = excused[f] \cup Stale(s) \cup LeftBehind(store'[f])
        /\ \A g \in Files : excused[g] \subseteq excused'[g]
    BY <1>1, Excused DEF SyncCache, IInv
  <1>4. server' = server /\ act' = act /\ gone' = gone
    BY DEF SyncCache
  <1>5. /\ store'[f] \in {store[f], Copy(RecordOf(s).of)}
        /\ \A g \in Files \ {f} : store'[g] = store[g]
        /\ gone[f] => url' = url
        /\ ~gone[f] => url'[f] = Server(RecordOf(s).of)
        /\ \A g \in Files \ {f} : url'[g] = url[g]
    BY <1>1 DEF SyncCache, Downloaded, UrlSet, IInv, Types, StoreType, UrlType
  <1>6. RunInv(s)' /\ \A t \in Syncs \ {s} : sync'[t] = sync[t]
    BY <1>2, ProceedRun DEF SyncCache, IInv
  <1>7. \A g \in Files \ {f} : Quiet(g)
    BY <1>3, <1>4, <1>5 DEF Quiet
  <1>8. /\ Copy(RecordOf(s).of).kind = "copy" /\ Copy(RecordOf(s).of) # Upload(act[f].of)
        /\ NoUrl.at = "nowhere" /\ Server(RecordOf(s).of).at = "server"
    BY DEF Copy, Upload, NoUrl, Server
  <1>9. "overtaken" \notin excused'[f] =>
          act[f] = Idle /\ ("left" \notin excused'[f] => server[f] # Nothing)
    <2>1. "overtaken" \notin excused'[f] => store[f] = RecordOf(s) /\ act[f] = Idle
      BY <1>1, <1>3, NotStale
    <2> QED
      BY <1>1, <1>3, <2>1 DEF IInv, RunInv, SyncedIsThere, SyncCache
  <1>10. "left" \notin excused'[f] => store'[f].kind # "upload"
    BY <1>3 DEF LeftBehind
  <1>11. FileInv(f)'
    BY <1>1, <1>2, <1>3, <1>4, <1>5, <1>8, <1>9, <1>10
       DEF IInv, FileInv, GoneIsGone, NothingToKeep, Numbered, PostedIsThere, Stored,
           HasFile, Wanted, Onward, Idle, Deleting
  <1>12. Settled(f)
    BY <1>10 DEF Settled
  <1> QED
    BY <1>1, <1>2, <1>6, <1>7, <1>11, <1>12, RunStep

\* A deletion fails: the run is over.
LEMMA SyncDeleteFailsStep ==
    ASSUME IInv, Types', NEW s \in Syncs, NEW refused \in BOOLEAN, SyncDeleteFails(s, refused)
    PROVE  IInv'
  <1>1. Onward
    BY FileAssumption DEF SyncDeleteFails, Onward, IInv, Types, PlainType
  <1>2. \A g \in Files : Quiet(g)
    BY DEF SyncDeleteFails, Quiet
  <1>3. sync' = [sync EXCEPT ![s] = NoSync]
    BY DEF SyncDeleteFails
  <1>4. RunInv(s)' /\ \A t \in Syncs \ {s} : sync'[t] = sync[t]
    BY <1>3 DEF IInv, Types, SyncType, NoSync, RunInv, SyncedIsThere, Uploading, Deleting
  <1> QED
    BY <1>1, <1>2, <1>4, RunOnly

\* An upload fails: the recording is stored, or taken out, once more.
LEMMA SyncPostFailsStep ==
    ASSUME IInv, Types', NEW s \in Syncs, NEW refused \in BOOLEAN, SyncPostFails(s, refused)
    PROVE  IInv'
  <1>1. PICK f \in Files : /\ f = FileOf(s) /\ RecordOf(s).of \in Recordings
                           /\ RecordOf(s) = Upload(RecordOf(s).of)
    BY Taken DEF SyncPostFails, IInv, Types, Uploading
  <1>2. Onward /\ act' = act /\ recorded' = recorded
    BY FileAssumption DEF SyncPostFails, Onward, IInv, Types, PlainType
  <1>3. /\ Stale(s) \subseteq excused'[f] /\ (f \notin kept => "failed" \in excused'[f])
        /\ \A g \in Files : excused[g] \subseteq excused'[g]
    BY <1>1, Excused DEF SyncPostFails, IInv
  <1>4. server' = server /\ act' = act /\ gone' = gone
    BY DEF SyncPostFails
  <1>5. /\ f \in kept => store'[f] = RecordOf(s)
        /\ f \notin kept => store'[f] = NoRecord
        /\ \A g \in Files \ {f} : store'[g] = store[g]
        /\ gone[f] => url' = url
        /\ ~gone[f] => url'[f] = Local(RecordOf(s).of)
        /\ \A g \in Files \ {f} : url'[g] = url[g]
    BY <1>1 DEF SyncPostFails, UrlSet, IInv, Types, StoreType, UrlType
  <1>6. RunInv(s)' /\ \A t \in Syncs \ {s} : sync'[t] = sync[t]
    BY <1>2, ProceedRun DEF SyncPostFails, IInv
  <1>7. \A g \in Files \ {f} : Quiet(g)
    BY <1>3, <1>4, <1>5 DEF Quiet
  <1>8. /\ NoRecord.kind = "none" /\ NoRecord # Upload(act[f].of) /\ NoUrl.at = "nowhere"
        /\ Local(RecordOf(s).of).at = "local" /\ Local(RecordOf(s).of).of = RecordOf(s).of
    BY DEF NoRecord, Upload, NoUrl, Local
  <1>9. "overtaken" \notin excused'[f] => store[f] = RecordOf(s) /\ act[f] = Idle
    BY <1>1, <1>3, NotStale
  <1>10. /\ RecordOf(s).kind = "upload" => RecordOf(s).of <= recorded
         /\ act[f].pc \in Uploading => RecordOf(s) # Upload(act[f].of)
    BY <1>1 DEF IInv, RunInv, Older, SyncPostFails, Uploading, FileOf, RecordOf
  <1>11. FileInv(f)'
    BY <1>1, <1>2, <1>3, <1>4, <1>5, <1>8, <1>9, <1>10
       DEF IInv, FileInv, GoneIsGone, NothingToKeep, Numbered, PostedIsThere, Stored,
           HasFile, Wanted, Onward, Idle, Deleting
  <1>12. Settled(f)
    BY <1>3, <1>4, <1>5, <1>8, <1>9 DEF Settled
  <1> QED
    BY <1>1, <1>2, <1>6, <1>7, <1>11, <1>12, RunStep

-----------------------------------------------------------------------------
(* The connection and the page. *)

\* The connection comes and goes, and so does the page.
LEMMA ConnectionStep ==
    ASSUME IInv, Types', Drop \/ Reconnect \/ Reopen \/ UNCHANGED vars
    PROVE  IInv'
  <1>1. Onward
    BY FileAssumption DEF Drop, Reconnect, Reopen, vars, Onward, IInv, Types, PlainType
  <1>2. sync' = sync /\ \A g \in Files : Quiet(g)
    BY DEF Drop, Reconnect, Reopen, vars, Quiet
  <1>3. \A g \in Files : Ages(g) /\ Settled(g) /\ FileInv(g)'
    BY <1>1, <1>2, QuietFile DEF IInv, Ages, Quiet, Settled
  <1> QED
    BY <1>1, <1>2, <1>3, QuietRun DEF IInv

\* Closing the page interrupts everything.
LEMMA CloseStep ==
    ASSUME IInv, Types', Close
    PROVE  IInv'
  <1>1. Onward
    BY FileAssumption DEF Close, Onward, IInv, Types, PlainType
  <1>2. ASSUME NEW f \in Files
        PROVE  FileInv(f)'
    <2>1. /\ store' = store /\ url' = url /\ server' = server /\ gone' = gone
          /\ act'[f] = Idle /\ excused[f] \subseteq excused'[f]
      BY DEF Close
    <2>2. Numbered(f)'
      BY <1>1, <2>1, Numbers DEF Close, IInv, FileInv, Numbered, Idle, Uploading
    <2> QED
      BY <1>1, <2>1, <2>2
         DEF IInv, FileInv, GoneIsGone, NothingToKeep, PostedIsThere, Stored, HasFile,
             Wanted, Onward, Idle, Uploading, Deleting
  <1>3. \A s \in Syncs : RunInv(s)'
    BY DEF Close, NoSync, RunInv, SyncedIsThere, Uploading, Deleting
  <1> QED
    BY <1>2, <1>3 DEF IInv

-----------------------------------------------------------------------------
(* The invariant, and what it gives. *)

\* Nothing is recorded yet.
LEMMA InitInv ==
    ASSUME Init
    PROVE  IInv
  <1>1. Types
    <2>1. PlainType
      <3>1. recorded \in 0 .. MaxRecordings /\ mishaps \in 0 .. MaxMishaps /\ due \in 0 .. 2
        BY FileAssumption DEF Init
      <3> QED
        BY <3>1, Zenon DEF Init, PlainType
    <2>2. StoreType /\ UrlType /\ ExcusedType
      BY Nones DEF Init, StoreType, UrlType, ExcusedType
    <2>3. ActType
      BY DEF Init, ActType, Idle, Uploading, Deleting
    <2>4. SyncType
      BY DEF Init, SyncType, SyncRecord, NoSync, Uploading, Deleting
    <2> QED
      BY <2>1, <2>2, <2>3, <2>4 DEF Types
  <1>2. \A f \in Files : FileInv(f)
    BY Nones
       DEF Init, FileInv, GoneIsGone, NothingToKeep, Numbered, PostedIsThere, Stored, HasFile,
           Wanted, Idle, Uploading, Deleting
  <1>3. \A s \in Syncs : RunInv(s)
    BY DEF Init, NoSync, RunInv, SyncedIsThere, Uploading, Deleting
  <1> QED
    BY <1>1, <1>2, <1>3 DEF IInv

\* Every step preserves the invariant.
LEMMA NextInv ==
    ASSUME IInv, [Next]_vars
    PROVE  IInv'
  <1>1. Types'
    BY TypeStep DEF IInv
  <1>2. ASSUME NEW f \in Files,
               \/ Post(f) \/ Posted(f) \/ CacheUploaded(f) \/ OnlineDeleteFile(f) \/ Deleted(f)
               \/ UploadFile(f) \/ RemoveCached(f) \/ UpdateCache(f) \/ OnlineCacheFile(f)
               \/ CacheFails(f)
        PROVE  IInv'
    BY <1>1, <1>2, PostStep, PostedStep, CacheUploadedStep, OnlineDeleteFileStep, DeletedStep,
       UploadFileStep, RemoveCachedStep, UpdateCacheStep, OnlineCacheFileStep, CacheFailsStep
  <1>3. ASSUME NEW f \in Files, NEW b \in BOOLEAN,
               DeleteFile(f, b) \/ PostFails(f, b) \/ DeleteFails(f, b)
        PROVE  IInv'
    BY <1>1, <1>3, DeleteFileStep, PostFailsStep, DeleteFailsStep
  <1>4. ASSUME NEW s \in Syncs,
               \/ SyncFiles(s) \/ TakeNext(s) \/ SyncDelete(s) \/ SyncDeleted(s)
               \/ SyncPost(s) \/ SyncPosted(s) \/ SyncCache(s)
        PROVE  IInv'
    BY <1>1, <1>4, SyncFilesStep, TakeNextStep, SyncDeleteStep, SyncDeletedStep, SyncPostStep,
       SyncPostedStep, SyncCacheStep
  <1>5. ASSUME NEW s \in Syncs, NEW refused \in BOOLEAN,
               SyncDeleteFails(s, refused) \/ SyncPostFails(s, refused)
        PROVE  IInv'
    BY <1>1, <1>5, SyncDeleteFailsStep, SyncPostFailsStep
  <1>6. CASE Drop \/ Reconnect \/ Close \/ Reopen \/ UNCHANGED vars
    BY <1>1, <1>6, ConnectionStep, CloseStep
  <1> QED
    BY Steps, <1>2, <1>3, <1>4, <1>5, <1>6, Zenon

\* The promises of each file are those of all.
LEMMA Promises ==
    ASSUME IInv
    PROVE  TypeOK /\ LocalIsStored /\ ServerHasFile /\ NothingResurrected
  <1>1. \A f \in Files :
          /\ Unexcused(f, {"failed", "overtaken"}) <=>
               "failed" \notin excused[f] /\ "overtaken" \notin excused[f]
          /\ Unexcused(f, {"overtaken", "left"}) <=>
               "overtaken" \notin excused[f] /\ "left" \notin excused[f]
    BY DEF Unexcused
  <1> QED
    BY <1>1, TypesAreOK
       DEF IInv, FileInv, Stored, HasFile, Wanted, LocalIsStored, ServerHasFile,
           NothingResurrected

\* The invariant holds throughout.
LEMMA Invariance == Spec => []IInv
  <1>1. Init => IInv
    BY InitInv
  <1>2. IInv /\ [Next]_vars => IInv'
    BY NextInv
  <1> QED
    BY <1>1, <1>2, PTL DEF Spec

\* The state of the file service is well-typed.
THEOREM FilesTypeCorrect == Spec => []TypeOK
  BY Invariance, Promises, PTL

\* For any number of files, recordings, runs of syncFiles and mishaps: a recording
\* that is only on this client is in IndexedDB to be uploaded, unless its upload
\* failed in syncFiles or it was made while the one before it was still at work.
THEOREM RecordingsAreKept == Spec => []LocalIsStored
  BY Invariance, Promises, PTL

\* A server url in the document leads to a file, unless a deletion from before has
\* been overtaken or an older record was left behind.
THEOREM UrlsLeadToFiles == Spec => []ServerHasFile
  BY Invariance, Promises, PTL

\* What waits for upload is what the document has, with the same exceptions.
THEOREM RemovedStaysRemoved == Spec => []NothingResurrected
  BY Invariance, Promises, PTL
=============================================================================
