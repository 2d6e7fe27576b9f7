----------------------------- MODULE OfflineDoc -----------------------------
(***************************************************************************)
(* How the edits of a browser survive being offline: RealtimeDoc and the   *)
(* ShareDB adapters of xforge-common (models/realtime-doc.ts,              *)
(* sharedb-realtime-remote-store.ts, realtime.service.ts and               *)
(* indexeddb-offline-store.ts of the ClientApp).                           *)
(*                                                                         *)
(* A document lives three times: as the log of the server, as the document *)
(* in the memory of an open page (its version, what it shows, the ops in   *)
(* flight and pending), and as a record of IndexedDB, by which its edits   *)
(* outlive the page.  updateOfflineData writes the record, which is a      *)
(* queue of transactions, and loadOfflineData reads it.  An op is numbered *)
(* (src, seq) when it is sent; the server takes an op with a number it has *)
(* seen for a repetition.                                                  *)
(*                                                                         *)
(* An op is an identity, and transforming it does not change it.  ShareDB  *)
(* is not part of the repository: what its client (versions, flush, the    *)
(* resending after a reconnect, the rollback of a refused op) and its      *)
(* server (the log, the test for repetitions, the answers) do is what the  *)
(* adapters expect of it.  A connection keeps its id, the src of its ops,  *)
(* for as long as the page is open.  One document that exists on the       *)
(* server, one page at a time.                                             *)
(***************************************************************************)
EXTENDS Naturals, FiniteSets, SequencesExt

CONSTANTS
    MaxEdits,      \* bound: how many edits this browser's user makes
    RemoteEdits,   \* the edits of all others
    MaxPages,      \* bound: how often the page is opened
    MaxMishaps     \* bound: how often the connection is lost or an op refused

Edits == 1 .. MaxEdits   \* in the order they are made

ASSUME OfflineAssumption ==
    /\ MaxEdits \in Nat \ {0}
    /\ IsFiniteSet(RemoteEdits)
    /\ Edits \cap RemoteEdits = {}
    /\ MaxPages \in Nat \ {0}
    /\ MaxMishaps \in Nat

VARIABLES
    log,       \* the server: the ops it has applied, an op's version its place
    wire,      \* the messages with an op that are on their way to the server
    record,    \* IndexedDB: the record of the document
    doc,       \* the open page: RealtimeDoc and the ShareDB document
    kept,      \* history: the edits that have been in the record
    exposed,   \* history: the edits sent without an update of the record
    refused,   \* history: the edits the server has refused
    count      \* how often the page was opened, and how many mishaps there were

vars == <<log, wire, record, doc, kept, exposed, refused, count>>

Ids == Edits \cup RemoteEdits
Op(id, src, seq) == [id |-> id, src |-> src, seq |-> seq]
Srcs == 0 .. MaxPages           \* a page's connection; 0: not set, or another browser
Seqs == 0 .. MaxEdits
Ops == [id : Ids, src : Srcs, seq : Seqs]
Version == Len(log)
IdsOf(ops) == {ops[i].id : i \in DOMAIN ops}

NoRecord == [v |-> 0, data |-> {}, pendingOps |-> <<>>, there |-> FALSE]
Records == [v : Nat, data : SUBSET Ids, pendingOps : Seq(Ops), there : BOOLEAN]

ClosedPage ==
    [open |-> FALSE, counted |-> FALSE, ready |-> FALSE,
     connected |-> FALSE, wants |-> FALSE, stream |-> FALSE, from |-> 0,
     subscribedState |-> FALSE, loaded |-> FALSE, version |-> 0, data |-> {},
     inflight |-> <<>>, pending |-> <<>>, seq |-> 1, reply |-> "none",
     saved |-> FALSE, offlineSnapshotVersion |-> 0, fresh |-> {}, puts |-> <<>>, out |-> {}]

TypeOK ==
    /\ log \in Seq(Ops)
    /\ wire \subseteq [op : Ops, v : 0 .. Version, live : BOOLEAN]
    /\ record \in Records
    /\ doc \in [open : BOOLEAN, counted : BOOLEAN, ready : BOOLEAN,
                connected : BOOLEAN, wants : BOOLEAN, stream : BOOLEAN, from : 0 .. Version,
                subscribedState : BOOLEAN, loaded : BOOLEAN, version : 0 .. Version,
                data : SUBSET Ids, inflight : Seq(Ops), pending : Seq(Ops),
                seq : 1 .. MaxEdits + 1,
                reply : {"none", "applied", "refused"},
                saved : BOOLEAN, offlineSnapshotVersion : 0 .. Version,
                fresh : SUBSET Edits, puts : Seq(Records),
                out : SUBSET [op : Ops, v : 0 .. Version, after : Nat, stored : BOOLEAN]]
    /\ Len(doc.inflight) <= 1
    /\ kept \subseteq Edits /\ exposed \subseteq Edits /\ refused \subseteq Edits
    /\ count \in [pages : 0 .. MaxPages, mishaps : 0 .. MaxMishaps]

Init ==
    /\ log = <<>>
    /\ wire = {}
    /\ record = NoRecord
    /\ doc = ClosedPage
    /\ kept = {} /\ exposed = {} /\ refused = {}
    /\ count = [pages |-> 0, mishaps |-> 0]

-----------------------------------------------------------------------------
(* The document in memory: what its methods make of a document d. *)

Page == count.pages

Subscribed(d) == d.subscribedState \/ d.counted

\* Mutant of PendingOps: the op in flight has no src yet.
WithoutSrc(d) == d.inflight \o d.pending

\* SharedbRealtimeDocAdapter.pendingOps: the op in flight first, which has its
\* seq already and gets its src here.
PendingOps(d) ==
    [i \in DOMAIN d.inflight |->
        IF d.inflight[i].src = 0 THEN [d.inflight[i] EXCEPT !.src = Page] ELSE d.inflight[i]]
    \o d.pending

UpdateNeeded(d, force) ==
    /\ d.loaded
    /\ force \/ Subscribed(d)
    /\ ~ (PendingOps(d) = <<>> /\ d.saved /\ d.version = d.offlineSnapshotVersion)

\* updateOfflineData: the put is issued, nobody but beforeSendOp awaits it.
UpdateOfflineData(d, force) ==
    IF UpdateNeeded(d, force)
    THEN [d EXCEPT !.saved = TRUE, !.offlineSnapshotVersion = d.version,
                   !.puts = Append(@, [v |-> d.version, data |-> d.data,
                                       pendingOps |-> PendingOps(d), there |-> TRUE])]
    ELSE d

\* ShareDB's flush: the first pending op is numbered, unless it is already, and
\* given to the socket, whose send first awaits updateOfflineData.  Only then
\* does ShareDB set the src of its own copy.
Flush(d) ==
    IF ~ d.connected \/ ~ d.loaded \/ d.inflight # <<>> \/ d.pending = <<>> THEN d
    ELSE LET op == Head(d.pending)
             new == op.seq = 0
             sent == [op EXCEPT !.seq = IF new THEN d.seq ELSE @]
             numbered == [sent EXCEPT !.src = IF @ = 0 THEN Page ELSE @]
             d1 == [d EXCEPT !.pending = Tail(@), !.inflight = <<sent>>,
                             !.seq = IF new THEN @ + 1 ELSE @]
             d2 == UpdateOfflineData(d1, FALSE)
             stored == UpdateNeeded(d1, FALSE)
         IN [d2 EXCEPT !.inflight = <<numbered>>,
                       !.out = @ \cup {[op |-> numbered, v |-> d.version, stored |-> stored,
                                        after |-> IF stored THEN Len(d2.puts) ELSE 0]}]

\* The op in flight is done with: the next is sent, and its callbacks and, when
\* no other is pending, idle$ update the record.  A restored op has no callbacks.
Settled(d, callback) ==
    LET d1 == Flush([d EXCEPT !.inflight = <<>>, !.reply = "none"]) IN
    IF callback \/ PendingOps(d1) = <<>> THEN UpdateOfflineData(d1, FALSE) ELSE d1

-----------------------------------------------------------------------------
(* The page. *)

\* SharedbRealtimeRemoteStore.init waits until it is known whether there is a
\* connection.  The document is subscribed to by itself, or is in the results of
\* a query (onAddedToSubscribeQuery), which counts before anything is loaded.
Open(query, online) ==
    /\ ~ doc.open
    /\ Page < MaxPages
    /\ count' = [count EXCEPT !.pages = @ + 1]
    /\ doc' = [ClosedPage EXCEPT !.open = TRUE, !.counted = query, !.connected = online]
    /\ UNCHANGED <<log, wire, record, kept, exposed, refused>>

\* Mutants of LoadOfflineData: the restored ops are not flushed, or forgotten, or
\* the record is taken to be a version ahead.
Restored(ops, ahead) ==
    /\ doc.open /\ ~ doc.ready
    /\ LET d == [doc EXCEPT !.ready = TRUE, !.wants = TRUE] IN
       doc' = IF ~ record.there THEN d
              ELSE [d EXCEPT !.loaded = TRUE, !.version = record.v, !.data = record.data,
                             !.saved = TRUE, !.offlineSnapshotVersion = record.v + ahead,
                             !.pending = ops]
    /\ UNCHANGED <<log, wire, record, kept, exposed, refused, count>>
LoadUnflushed == Restored(record.pendingOps, 0)
LoadForgetful == Restored(<<>>, 0)
LoadAhead == Restored(record.pendingOps, 1)

\* loadFromOfflineStore, from the answer of IndexedDB on: ingestSnapshot, then
\* updatePendingOps, which flushes.  What follows it is the adapter's subscribe,
\* or for a query an update of the record.
LoadOfflineData ==
    /\ doc.open /\ ~ doc.ready
    /\ LET d == [doc EXCEPT !.ready = TRUE, !.wants = TRUE]
           loaded == Flush([d EXCEPT !.loaded = TRUE, !.version = record.v,
                                     !.data = record.data, !.saved = TRUE,
                                     !.offlineSnapshotVersion = record.v,
                                     !.pending = record.pendingOps])
       IN doc' = IF ~ record.there THEN d
                 ELSE IF d.counted THEN UpdateOfflineData(loaded, FALSE)
                 ELSE loaded
    /\ UNCHANGED <<log, wire, record, kept, exposed, refused, count>>

\* An edit of which nothing is left when its page dies may be made again.
Made(e) == e \in IdsOf(log) \cup kept \cup doc.data \cup refused \cup {m.op.id : m \in wire}

\* submit: the op is pending, the record is updated by force, and ShareDB flushes
\* at the next tick.
Submit(e) ==
    /\ doc.loaded
    /\ ~ Made(e) /\ \A f \in Edits : f < e => Made(f)
    /\ LET d == [doc EXCEPT !.data = @ \cup {e}, !.fresh = @ \cup {e},
                            !.pending = Append(@, Op(e, 0, 0))]
       IN doc' = Flush(UpdateOfflineData(d, TRUE))
    /\ UNCHANGED <<log, wire, record, kept, exposed, refused, count>>

\* onRemovedFromSubscribeQuery: the last query that had the document in its
\* results is disposed of, and with it what the server sends for it.
LeaveQuery ==
    /\ doc.ready /\ doc.counted
    /\ doc' = [UpdateOfflineData(doc, FALSE) EXCEPT
                   !.counted = FALSE, !.wants = FALSE, !.stream = FALSE, !.from = 0]
    /\ UNCHANGED <<log, wire, record, kept, exposed, refused, count>>

\* The page is closed, or crashes: what IndexedDB has not done is not done.
Close ==
    /\ doc.open
    /\ Page < MaxPages
    /\ doc' = ClosedPage
    /\ wire' = {[m EXCEPT !.live = FALSE] : m \in wire}
    /\ UNCHANGED <<log, record, kept, exposed, refused, count>>

-----------------------------------------------------------------------------
(* IndexedDB and the socket. *)

\* Mutant of PutDone: the transactions end in any order.
PutUnordered ==
    \E i \in DOMAIN doc.puts :
        /\ record' = doc.puts[i]
        /\ kept' = kept \cup IdsOf(doc.puts[i].pendingOps)
        /\ doc' = [doc EXCEPT !.puts = RemoveAt(@, i)]
        /\ UNCHANGED <<log, wire, exposed, refused, count>>

\* IndexedDB runs the transactions on a store in the order they were made.
PutDone ==
    /\ doc.puts # <<>>
    /\ record' = Head(doc.puts)
    /\ kept' = kept \cup IdsOf(Head(doc.puts).pendingOps)
    /\ doc' = [doc EXCEPT !.puts = Tail(@),
                          !.out = {[m EXCEPT !.after = IF @ = 0 THEN 0 ELSE @ - 1] : m \in @}]
    /\ UNCHANGED <<log, wire, exposed, refused, count>>

\* ShareDBWebsocketAdapter.send after beforeSendOp: a socket that is not open
\* drops the message, as maxEnqueuedMessages is 0.
SendOp(m) ==
    /\ m \in doc.out
    /\ m.after = 0
    /\ doc' = [doc EXCEPT !.out = @ \ {m}]
    /\ IF doc.connected
       THEN /\ wire' = wire \cup {[op |-> m.op, v |-> m.v, live |-> TRUE]}
            /\ exposed' = IF m.stored THEN exposed ELSE exposed \cup {m.op.id}
       ELSE UNCHANGED <<wire, exposed>>
    /\ UNCHANGED <<log, record, kept, refused, count>>

\* The op in flight becomes the first that is pending again.
Disconnect ==
    /\ doc.connected
    /\ count.mishaps < MaxMishaps
    /\ count' = [count EXCEPT !.mishaps = @ + 1]
    /\ wire' = {[m EXCEPT !.live = FALSE] : m \in wire}
    /\ doc' = [doc EXCEPT !.connected = FALSE, !.stream = FALSE, !.from = 0, !.reply = "none",
                          !.pending = doc.inflight \o @, !.inflight = <<>>]
    /\ UNCHANGED <<log, record, kept, exposed, refused>>

\* Flushing comes before subscribing.
Connect ==
    /\ doc.open /\ ~ doc.connected
    /\ doc' = Flush([doc EXCEPT !.connected = TRUE])
    /\ UNCHANGED <<log, wire, record, kept, exposed, refused, count>>

-----------------------------------------------------------------------------
(* The server. *)

OtherUser(r) ==
    /\ r \notin IdsOf(log)
    /\ log' = Append(log, Op(r, 0, 0))
    /\ UNCHANGED <<wire, record, doc, kept, exposed, refused, count>>

\* A repetition: an op with its number is among those after the message's version.
Repeats(m) ==
    \E n \in m.v + 1 .. Version : log[n].src = m.op.src /\ log[n].seq = m.op.seq

\* The answer reaches the page if the connection is still the one.
Answer(m, reply) ==
    IF m.live /\ doc.inflight = <<m.op>> THEN [doc EXCEPT !.reply = reply] ELSE doc

Receive(m) ==
    /\ m \in wire
    /\ wire' = wire \ {m}
    /\ log' = IF Repeats(m) THEN log ELSE Append(log, m.op)
    /\ doc' = Answer(m, "applied")
    /\ UNCHANGED <<record, kept, exposed, refused, count>>

\* A repetition is answered before the rights of the user are looked at.
Refuse(m) ==
    /\ m \in wire
    /\ ~ Repeats(m)
    /\ count.mishaps < MaxMishaps
    /\ count' = [count EXCEPT !.mishaps = @ + 1]
    /\ refused' = refused \cup {m.op.id}
    /\ wire' = wire \ {m}
    /\ doc' = Answer(m, "refused")
    /\ UNCHANGED <<log, record, kept, exposed>>

\* A message of a connection that was lost.
Lose(m) ==
    /\ m \in wire
    /\ ~ m.live
    /\ wire' = wire \ {m}
    /\ UNCHANGED <<log, record, doc, kept, exposed, refused, count>>

\* The server has the subscription: from here on it sends the ops it applies,
\* after those the page has missed.
Subscribe ==
    /\ doc.connected /\ doc.wants /\ doc.loaded /\ ~ doc.stream
    /\ doc' = [doc EXCEPT !.stream = TRUE, !.from = Version]
    /\ UNCHANGED <<log, wire, record, kept, exposed, refused, count>>

\* The answer to adapter.subscribe, after the ops that were missed, sets
\* subscribedState; ShareDB emits 'no write pending' if that is so.
SubscribeAnswered ==
    /\ doc.stream /\ ~ doc.counted /\ ~ doc.subscribedState
    /\ doc.version >= doc.from
    /\ LET d == [doc EXCEPT !.subscribedState = TRUE] IN
       doc' = IF PendingOps(d) = <<>> THEN UpdateOfflineData(d, FALSE) ELSE d
    /\ UNCHANGED <<log, wire, record, kept, exposed, refused, count>>

\* There was no record: the answer, or the result of the query, is a snapshot.
LoadSnapshot ==
    /\ doc.connected /\ doc.wants /\ ~ doc.loaded
    /\ doc' = UpdateOfflineData(
                  [doc EXCEPT !.loaded = TRUE, !.version = Version, !.data = IdsOf(log),
                              !.stream = TRUE, !.from = Version,
                              !.subscribedState = ~ doc.counted], FALSE)
    /\ UNCHANGED <<log, wire, record, kept, exposed, refused, count>>

NextOp == log[doc.version + 1]

\* The page is sent the op after its version: it is subscribed, or the ops up to
\* its own precede the answer to it.
Sent ==
    /\ doc.connected /\ doc.loaded
    /\ doc.version < Version
    /\ doc.stream \/ doc.reply = "applied"

IsOwn(op) ==
    doc.inflight # <<>> /\ doc.inflight[1].src = op.src /\ doc.inflight[1].seq = op.seq

\* remoteChanges$: an op of another client.
RemoteOp ==
    /\ Sent /\ ~ IsOwn(NextOp)
    /\ doc' = UpdateOfflineData([doc EXCEPT !.version = @ + 1, !.data = @ \cup {NextOp.id}], FALSE)
    /\ UNCHANGED <<log, wire, record, kept, exposed, refused, count>>

Acknowledged ==
    /\ Sent /\ IsOwn(NextOp)
    /\ doc' = Settled([doc EXCEPT !.version = @ + 1], NextOp.id \in doc.fresh)
    /\ UNCHANGED <<log, wire, record, kept, exposed, refused, count>>

\* ShareDB undoes the op; submitOp rejects, so that only idle$ is left to update
\* the record.
RolledBack ==
    /\ doc.reply = "refused"
    /\ doc' = Settled([doc EXCEPT !.data = @ \ IdsOf(doc.inflight)], FALSE)
    /\ UNCHANGED <<log, wire, record, kept, exposed, refused, count>>

-----------------------------------------------------------------------------
Next ==
    \/ \E query, online \in BOOLEAN : Open(query, online)
    \/ LoadOfflineData
    \/ \E e \in Edits : Submit(e)
    \/ LeaveQuery
    \/ Close
    \/ PutDone
    \/ \E m \in doc.out : SendOp(m)
    \/ Disconnect
    \/ Connect
    \/ \E r \in RemoteEdits : OtherUser(r)
    \/ \E m \in wire : Receive(m) \/ Refuse(m) \/ Lose(m)
    \/ Subscribe
    \/ SubscribeAnswered
    \/ LoadSnapshot
    \/ RemoteOp
    \/ Acknowledged
    \/ RolledBack

Spec == Init /\ [][Next]_vars

\* What IndexedDB, the socket, the server and the browser do unasked, and the
\* user's coming back to the document: one of it happens if any of it can.
\* (As every run is finite, nothing more is needed.)
Progress ==
    \/ \E query, online \in BOOLEAN : Open(query, online)
    \/ LoadOfflineData \/ PutDone \/ Connect
    \/ \E m \in doc.out : SendOp(m)
    \/ \E m \in wire : Receive(m)
    \/ RemoteOp \/ Acknowledged \/ RolledBack

FairSpec == Spec /\ WF_vars(Progress)

-----------------------------------------------------------------------------
(* Properties. *)

\* An edit is in the log twice only if the client has sent it without putting
\* its number into the record first: every other op is recognised when it is
\* sent again, by the same page or by a later one that found it in the record,
\* whatever was lost and whenever the page was closed.
AppliedOnce ==
    \A i, j \in DOMAIN log : i # j /\ log[i].id = log[j].id => log[i].id \in exposed

Prefix(v) == IdsOf(SubSeq(log, 1, v))

\* What the page shows, and what it would show again from the record, is the
\* server's document at some version and the edits that are still to be sent.
\* (Of edits that may be applied twice data cannot say how often it has them.)
DataIsVersionAndPending ==
    LET Same(data, v, ops) == data \ exposed = (Prefix(v) \cup IdsOf(ops)) \ exposed IN
    /\ doc.loaded => Same(doc.data, doc.version, doc.inflight \o doc.pending)
    /\ record.there => Same(record.data, record.v, record.pendingOps)

\* An edit that was once in the record is applied, refused, or still to be found
\* in the record: closing the page at any moment does not lose it.
NoEditForgotten ==
    \A e \in kept \ refused : e \in IdsOf(log) \cup IdsOf(record.pendingOps)

\* Every edit that got into the record is refused or reaches the server, however
\* often the page is closed or the connection lost on the way.
EditsArrive == []<>(kept \subseteq IdsOf(log) \cup refused)
=============================================================================
