----------------------------- MODULE Connection -----------------------------
(***************************************************************************)
(* A backend connection to the realtime server and its documents:          *)
(* Connection.cs and Document.cs (SIL.XForge/Realtime).                    *)
(*                                                                         *)
(* A connection caches one Document per id.  Inside a transaction creates, *)
(* submits, replaces and deletes are queued and only change the cached     *)
(* copy; CommitTransactionAsync sends them one after the other.  An op     *)
(* list that names an excluded property is sent at once.                   *)
(*                                                                         *)
(* The realtime server (RealtimeServer/common/index.ts) keeps a mirror of  *)
(* each document for each connection, a ShareDB client Doc that is as new  *)
(* as the connection's last call.  An op goes through the mirror and is    *)
(* applied to the current document, after whatever others sent meanwhile;  *)
(* a replacement becomes the difference from the mirror.                   *)
(*                                                                         *)
(* A caller awaits each call, so that no other call of this connection     *)
(* comes between the steps of a commit.  Other connections create and      *)
(* change documents; deletions by others are left out.                     *)
(***************************************************************************)
EXTENDS Naturals, SequencesExt

CONSTANTS
    Docs,            \* document ids
    Data,            \* what a document may hold
    Ops,             \* op lists (JSON0) and deltas (rich text)
    Absent,          \* no document; a Document that is not loaded
    Apply(_, _),     \* ApplyOp: the data an op makes of some data
    Diff(_, _),      \* json0OtDiff, Delta.diff: the ops from one data to another
    Paths(_),        \* the property paths an op list names, {} for a delta
    MaxQueued        \* bound: the length of the queue

ASSUME ConnectionAssumption ==
    /\ Absent \notin Data
    /\ \A data \in Data, op \in Ops : Apply(data, op) \in Data
    /\ \A from, to \in Data :
        from # to => Diff(from, to) \in Ops /\ Apply(from, Diff(from, to)) = to
    /\ MaxQueued \in Nat

VARIABLES
    server,         \* the documents of the realtime server
    mirror,         \* this connection's documents in the realtime server
    local,          \* Document.Data of this connection's documents
    isTransaction,  \* _isTransaction
    excluded,       \* _excludedProperties
    queued,         \* _queuedOperations
    committing,     \* the loop of CommitTransactionAsync is under way
    fresh           \* history: documents nothing came between (see CopyPredicts)

connVars == <<server, mirror, local, isTransaction, excluded, queued, committing, fresh>>

AllPaths == UNION {Paths(op) : op \in Ops}

Entries ==
    [action : {"create", "replace"}, doc : Docs, arg : Data]
        \cup [action : {"submit"}, doc : Docs, arg : Ops]
        \cup [action : {"delete"}, doc : Docs]

TypeOK ==
    /\ server \in [Docs -> Data \cup {Absent}]
    /\ mirror \in [Docs -> Data \cup {Absent}]
    /\ local \in [Docs -> Data \cup {Absent}]
    /\ isTransaction \in BOOLEAN
    /\ excluded \subseteq AllPaths
    /\ queued \in Seq(Entries)
    /\ committing \in BOOLEAN
    /\ committing => isTransaction
    /\ fresh \subseteq Docs

Init ==
    /\ server \in [Docs -> Data \cup {Absent}]
    /\ mirror = [d \in Docs |-> Absent]
    /\ local = [d \in Docs |-> Absent]
    /\ isTransaction = FALSE
    /\ excluded = {}
    /\ queued = <<>>
    /\ committing = FALSE
    /\ fresh = {}

-----------------------------------------------------------------------------
(* What the realtime server does with an operation. *)

\* A document and its mirror.  What an operation makes of both, ...
Seen(d) == [mirror |-> mirror[d], server |-> server[d]]
Both(data) == [mirror |-> data, server |-> data]
Effect(e, seen) ==
    CASE e.action = "create" -> Both(e.arg)
      [] e.action = "submit" -> Both(Apply(seen.server, e.arg))
      [] e.action = "delete" -> Both(Absent)
      [] e.action = "replace" /\ e.arg = seen.mirror -> seen
      [] OTHER -> Both(Apply(seen.server, Diff(seen.mirror, e.arg)))

\* ... and when it is refused.
Accepts(e, seen) ==
    IF e.action = "create" THEN seen = Both(Absent) ELSE seen.mirror # Absent

\* The server carries out e.
Carry(e) ==
    /\ Accepts(e, Seen(e.doc))
    /\ LET after == Effect(e, Seen(e.doc))
       IN /\ server' = [server EXCEPT ![e.doc] = after.server]
          /\ mirror' = [mirror EXCEPT ![e.doc] = after.mirror]

Queued(d) == {i \in DOMAIN queued : queued[i].doc = d}

\* Does op list op overtake a queued operation that it does not commute with?
Overtakes(d, op) ==
    \E i \in Queued(d) :
        queued[i].action = "submit" => Paths(queued[i].arg) \cap Paths(op) # {}

-----------------------------------------------------------------------------
(* The transaction. *)

Begin ==
    /\ ~isTransaction
    /\ isTransaction' = TRUE
    /\ UNCHANGED <<server, mirror, local, excluded, queued, committing, fresh>>

Exclude(path) ==
    /\ isTransaction /\ ~committing
    /\ excluded' = excluded \cup {path}
    /\ UNCHANGED <<server, mirror, local, isTransaction, queued, committing, fresh>>

\* Mutant of Rollback: the queue is left to the next transaction.
QueueKept ==
    /\ isTransaction /\ ~committing
    /\ excluded' = {}
    /\ isTransaction' = FALSE
    /\ UNCHANGED <<server, mirror, local, queued, committing, fresh>>

\* The documents keep what was rolled back in their copies.
Rollback ==
    /\ isTransaction /\ ~committing
    /\ excluded' = {}
    /\ queued' = <<>>
    /\ isTransaction' = FALSE
    /\ fresh' = {d \in fresh : Queued(d) = {}}
    /\ UNCHANGED <<server, mirror, local, committing>>

\* Mutant of CommitStart: the transaction is closed before its queue is sent.
ClosedFirst ==
    /\ isTransaction /\ ~committing
    /\ committing' = TRUE
    /\ isTransaction' = FALSE
    /\ UNCHANGED <<server, mirror, local, excluded, queued, fresh>>

CommitStart ==
    /\ isTransaction /\ ~committing
    /\ committing' = TRUE
    /\ UNCHANGED <<server, mirror, local, isTransaction, excluded, queued, fresh>>

\* Mutant of CommitStep: the queue is a stack.
CommitLast ==
    /\ committing /\ queued # <<>>
    /\ Carry(Last(queued))
    /\ queued' = Front(queued)
    /\ UNCHANGED <<local, isTransaction, excluded, committing, fresh>>

\* One queued operation is sent.
CommitStep ==
    /\ committing /\ queued # <<>>
    /\ Carry(Head(queued))
    /\ queued' = Tail(queued)
    /\ UNCHANGED <<local, isTransaction, excluded, committing, fresh>>

\* The server refuses or fails, or its answer is lost: the operation is gone
\* from the queue, the rest of it and the transaction are left to the caller.
CommitThrow ==
    /\ committing /\ queued # <<>>
    /\ committing' = FALSE
    /\ queued' = Tail(queued)
    /\ fresh' = fresh \ {Head(queued).doc}
    /\ Carry(Head(queued)) \/ UNCHANGED <<server, mirror>>
    /\ UNCHANGED <<local, isTransaction, excluded>>

CommitDone ==
    /\ committing /\ queued = <<>>
    /\ excluded' = {}
    /\ isTransaction' = FALSE
    /\ committing' = FALSE
    /\ UNCHANGED <<server, mirror, local, queued, fresh>>

-----------------------------------------------------------------------------
(* The operations of Document. *)

\* FetchAsync: the copy becomes the server's document, without what is queued.
Fetch(d) ==
    /\ ~committing
    /\ mirror' = [mirror EXCEPT ![d] = server[d]]
    /\ local' = [local EXCEPT ![d] = server[d]]
    /\ fresh' = IF Queued(d) = {} THEN fresh \cup {d} ELSE fresh \ {d}
    /\ UNCHANGED <<server, isTransaction, excluded, queued, committing>>

\* GetAndFetchDocsAsync does not refresh the copy of a document it has cached.
FetchUncached(d) ==
    \/ local[d] = Absent /\ Fetch(d)
    \/ /\ ~committing
       /\ mirror' = [mirror EXCEPT ![d] = server[d]]
       /\ UNCHANGED <<server, local, isTransaction, excluded, queued, committing, fresh>>

\* What an operation makes of the copy in a transaction.
CopyAfter(e) ==
    CASE e.action = "submit" -> Apply(local[e.doc], e.arg)
      [] e.action = "delete" -> Absent
      [] OTHER -> e.arg

\* A queued operation changes the copy, which stays as fresh as it was.
Enqueue(e) ==
    /\ isTransaction
    /\ Len(queued) < MaxQueued
    /\ queued' = Append(queued, e)
    /\ local' = [local EXCEPT ![e.doc] = CopyAfter(e)]
    /\ UNCHANGED <<server, mirror, fresh>>

\* Outside a transaction it is sent, and the copy is the mirror's answer.
Send(e) ==
    /\ ~isTransaction
    /\ Carry(e)
    /\ local' = [local EXCEPT ![e.doc] = mirror'[e.doc]]
    /\ fresh' = IF mirror'[e.doc] = server'[e.doc] THEN fresh \cup {e.doc} ELSE fresh
    /\ UNCHANGED queued

\* CreateAsync, SubmitOpAsync, ReplaceAsync, DeleteAsync: all but the first are
\* called on a loaded document only.
Write(e) ==
    /\ ~committing
    /\ e.action # "create" => local[e.doc] # Absent
    /\ Enqueue(e) \/ Send(e)
    /\ UNCHANGED <<isTransaction, excluded, committing>>

\* Mutant of SubmitExcluded: the copy becomes the server's answer.
AnswerTaken(d, op) ==
    /\ isTransaction /\ ~committing
    /\ local[d] # Absent
    /\ Paths(op) \cap excluded # {}
    /\ Carry([action |-> "submit", doc |-> d, arg |-> op])
    /\ local' = [local EXCEPT ![d] = mirror'[d]]
    /\ fresh' = IF Overtakes(d, op) THEN fresh \ {d} ELSE fresh
    /\ UNCHANGED <<isTransaction, excluded, queued, committing>>

\* SubmitOpAsync of an op list that names an excluded property: all of it is
\* sent at once, the copy gets the op without asking the server.
SubmitExcluded(d, op) ==
    /\ isTransaction /\ ~committing
    /\ local[d] # Absent
    /\ Paths(op) \cap excluded # {}
    /\ Carry([action |-> "submit", doc |-> d, arg |-> op])
    /\ local' = [local EXCEPT ![d] = Apply(@, op)]
    /\ fresh' = IF Overtakes(d, op) THEN fresh \ {d} ELSE fresh
    /\ UNCHANGED <<isTransaction, excluded, queued, committing>>

\* SubmitOpAsync.
Submit(d, op) ==
    IF isTransaction /\ Paths(op) \cap excluded # {}
    THEN SubmitExcluded(d, op)
    ELSE Write([action |-> "submit", doc |-> d, arg |-> op])

\* FetchOrCreateAsync.
FetchOrCreate(d, data) ==
    \/ server[d] # Absent /\ Fetch(d)
    \/ server[d] = Absent /\ Write([action |-> "create", doc |-> d, arg |-> data])

\* Another connection creates or changes a document.
OtherWrite(d, data) ==
    /\ server[d] # data
    /\ server' = [server EXCEPT ![d] = data]
    /\ fresh' = fresh \ {d}
    /\ UNCHANGED <<mirror, local, isTransaction, excluded, queued, committing>>

-----------------------------------------------------------------------------
Transact ==
    \/ Begin \/ Rollback \/ CommitStart \/ CommitStep \/ CommitThrow \/ CommitDone
    \/ \E path \in AllPaths : Exclude(path)

Use(d) ==
    \/ Fetch(d) \/ FetchUncached(d)
    \/ \E op \in Ops : Submit(d, op)
    \/ \E data \in Data : FetchOrCreate(d, data)
    \/ \E action \in {"create", "replace"}, data \in Data :
            Write([action |-> action, doc |-> d, arg |-> data])
    \/ Write([action |-> "delete", doc |-> d])

Next ==
    \/ Transact
    \/ \E d \in Docs : Use(d)
    \/ \E d \in Docs, data \in Data : OtherWrite(d, data)

Spec == Init /\ [][Next]_connVars

-----------------------------------------------------------------------------
(* Properties. *)

\* What the operations of q will make of document d, seen as it is, ...
After(d, seen, q) ==
    LET path[i \in 0 .. Len(q)] ==
            IF i = 0 THEN seen
            ELSE IF q[i].doc = d THEN Effect(q[i], path[i - 1]) ELSE path[i - 1]
    IN path[Len(q)]

\* ... and what the queued ones will make of the server's document.
Committed(d) == After(d, Seen(d), queued).server

\* What a connection sees is what it will have written: the copy of a document
\* is the server's document with the queued operations applied, so that after a
\* commit both agree.  It holds until something comes between: a fetch that
\* forgets the queued operations, an op list sent past a queued one on the same
\* property, another connection, a rollback or a failed commit.
CopyPredicts == \A d \in fresh : local[d] = Committed(d)

\* Nothing of a transaction outlives it: neither queued operations, which the
\* next commit would send, nor exclusions, which "you will need to call again"
\* (Connection.cs:257).
NothingLeft == ~isTransaction => queued = <<>> /\ excluded = {} /\ ~committing
=============================================================================
