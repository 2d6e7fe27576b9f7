---------------------------- MODULE RealtimeQuery ----------------------------
(***************************************************************************)
(* The live queries of a browser: RealtimeQuery of xforge-common/models    *)
(* (realtime-query.ts) of the ClientApp, with what RealtimeService and     *)
(* RealtimeDoc keep for it.                                                *)
(*                                                                         *)
(* The results of a query come from IndexedDB (localQuery, at first and    *)
(* after every local change to a document of the collection) and from the  *)
(* server (onReady, remoteChanges$).  Either way onChange makes docs equal *)
(* to them, by the differences that arraydiff finds, and it waits for each *)
(* run of inserted documents to be loaded before it puts them in their     *)
(* place.  Nothing keeps two calls of onChange apart.                      *)
(*                                                                         *)
(* What the results are is left open: any documents in any order.  What    *)
(* arraydiff returns is known from its use: removals, then moves, then     *)
(* insertions, each at its index in the array as it is by then.            *)
(***************************************************************************)
EXTENDS Integers, FiniteSets, SequencesExt, FiniteSetsExt

CONSTANTS
    Queries,     \* RealtimeQuery objects on the same collection
    Docs,        \* its documents
    MaxChanges   \* bound: how many calls of onChange there are

ASSUME QueryAssumption ==
    /\ IsFiniteSet(Queries) /\ IsFiniteSet(Docs)
    /\ MaxChanges \in Nat

VARIABLES
    stage,     \* subscribe: "new", "local" until localQuery is done, then "subscribed"
    ready,     \* the adapter has the results of the server
    disposed,  \* isDisposed
    docs,      \* _docs
    mapped,    \* docSubscriptions: the documents with an entry that is not unsubscribed
    calls,     \* the calls of localQuery and onChange that are under way
    count,     \* RealtimeDoc.subscribeQueryCount of every document
    heard,     \* how many subscriptions of remoteChanges$ each query has to a document
    changes,   \* how many calls of onChange there were
    last,      \* history: the results of the last call
    alone,     \* history: no other call was under way since the last one began
    torn       \* history: the query was disposed of with calls under way or not ready

vars == <<stage, ready, disposed, docs, mapped, calls, count, heard, changes, last, alone, torn>>

\* Results of a query: documents in some order.
Results == {s \in SeqOf(Docs, Cardinality(Docs)) : IsInjective(s)}

Runs == [index : 1 .. Cardinality(Docs), ids : Results]
Calls == [kind : {"subscribe", "local", "ready", "remote"}, step : {"query", "insert"},
          todo : SUBSET Runs]

TypeOK ==
    /\ stage \in [Queries -> {"new", "local", "subscribed"}]
    /\ ready \in [Queries -> BOOLEAN]
    /\ disposed \in [Queries -> BOOLEAN]
    /\ docs \in [Queries -> Seq(Docs)]
    /\ mapped \in [Queries -> SUBSET Docs]
    /\ calls \in [Queries -> Seq(Calls)]
    /\ count \in [Docs -> Int]
    /\ heard \in [Queries -> [Docs -> Nat]]
    /\ changes \in 0 .. MaxChanges
    /\ last \in [Queries -> Results]
    /\ alone \in [Queries -> BOOLEAN]
    /\ torn \subseteq Queries

Init ==
    /\ stage = [q \in Queries |-> "new"]
    /\ ready = [q \in Queries |-> FALSE]
    /\ disposed = [q \in Queries |-> FALSE]
    /\ docs = [q \in Queries |-> <<>>]
    /\ mapped = [q \in Queries |-> {}]
    /\ calls = [q \in Queries |-> <<>>]
    /\ count = [d \in Docs |-> 0]
    /\ heard = [q \in Queries |-> [d \in Docs |-> 0]]
    /\ changes = 0
    /\ last = [q \in Queries |-> <<>>]
    /\ alone = [q \in Queries |-> FALSE]
    /\ torn = {}

Occurrences(s, d) == Cardinality({i \in DOMAIN s : s[i] = d})

-----------------------------------------------------------------------------
(* onChange.  A query s is taken apart from the others: its docs, its       *)
(* subscriptions and the counts of the documents, as they are changed.      *)

Of(q) == [docs |-> docs[q], mapped |-> mapped[q], heard |-> heard[q], count |-> count]

Becomes(q, s) ==
    /\ docs' = [docs EXCEPT ![q] = s.docs]
    /\ mapped' = [mapped EXCEPT ![q] = s.mapped]
    /\ heard' = [heard EXCEPT ![q] = s.heard]
    /\ count' = s.count

\* The documents of ids that are in have, in the order of ids.
Kept(ids, have) ==
    LET path[i \in 0 .. Len(ids)] ==
            IF i = 0 THEN <<>>
            ELSE IF ids[i] \in have THEN Append(path[i - 1], ids[i]) ELSE path[i - 1]
    IN path[Len(ids)]

\* Mutants of RemoveAndMove: removed documents are not told, or their
\* subscription is taken to be there.
RemoveUntold(s, ids) ==
    [s EXCEPT !.docs = Kept(ids, ToSet(s.docs))]
RemoveUnmapped(s, ids) ==
    LET kept == Kept(ids, ToSet(s.docs))
        gone == [d \in Docs |-> Occurrences(s.docs, d) - Occurrences(kept, d)]
    IN [s EXCEPT !.docs = kept,
                 !.heard = [d \in Docs |-> @[d] - gone[d]],
                 !.count = [d \in Docs |-> @[d] - gone[d]]]

\* The removals and moves of arraydiff leave the documents that are in the new
\* results, in their order there, and of each a single one.
RemoveAndMove(s, ids) ==
    LET kept == Kept(ids, ToSet(s.docs))
        gone == [d \in Docs |-> Occurrences(s.docs, d) - Occurrences(kept, d)]
        out == {d \in Docs : gone[d] > 0}
    IN [docs |-> kept,
        mapped |-> s.mapped \ out,
        heard |-> [d \in Docs |-> s.heard[d] - IF d \in out \cap s.mapped THEN 1 ELSE 0],
        count |-> [d \in Docs |-> s.count[d] - gone[d]]]

\* The insertions: every run of results that are not in docs, with its place.
Insertions(have, ids) ==
    LET new(i) == ids[i] \notin ToSet(have)
        firsts == {i \in DOMAIN ids : new(i) /\ (i = 1 \/ ~ new(i - 1))}
        end(i) == Max({j \in DOMAIN ids : \A k \in i .. j : new(k)})
    IN {[index |-> i, ids |-> SubSeq(ids, i, end(i))] : i \in firsts}

\* They are made from the first to the last.
First(todo) == CHOOSE run \in todo : \A other \in todo : run.index <= other.index

\* Mutant of BeginInsert: an entry that is overwritten is unsubscribed.
InsertOverwriting(s, run) ==
    [s EXCEPT !.mapped = @ \cup ToSet(run.ids),
              !.heard = [d \in Docs |-> IF d \in ToSet(run.ids) THEN 1 ELSE @[d]],
              !.count = [d \in Docs |-> @[d] + Occurrences(run.ids, d)]]

\* onInsert up to its await: the documents count the query, and it listens to
\* them.  An entry of docSubscriptions is overwritten, not unsubscribed.
BeginInsert(s, run) ==
    [s EXCEPT !.mapped = @ \cup ToSet(run.ids),
              !.heard = [d \in Docs |-> @[d] + Occurrences(run.ids, d)],
              !.count = [d \in Docs |-> @[d] + Occurrences(run.ids, d)]]

\* Mutant of Splice: the documents are appended.
Appended(s, run) == s \o run.ids

\* splice: an index beyond the end is the end.
Splice(s, run) ==
    LET before == IF run.index > Len(s) + 1 THEN Len(s) ELSE run.index - 1
    IN SubSeq(s, 1, before) \o run.ids \o SubSeq(s, before + 1, Len(s))

\* The call at place i of calls[q], or a new one at the end, has todo left.
Proceed(q, i, kind, todo) ==
    IF todo = {}
    THEN /\ calls' = [calls EXCEPT ![q] = IF i \in DOMAIN @ THEN RemoveAt(@, i) ELSE @]
         /\ stage' = IF kind = "subscribe" THEN [stage EXCEPT ![q] = "subscribed"] ELSE stage
    ELSE LET call == [kind |-> kind, step |-> "insert", todo |-> todo] IN
         /\ calls' = [calls EXCEPT ![q] = IF i \in DOMAIN @ THEN ReplaceAt(@, i, call)
                                          ELSE Append(@, call)]
         /\ UNCHANGED stage

Inserting(q) == {i \in DOMAIN calls[q] : calls[q][i].step = "insert"}

\* onChange up to the first insertion, or to its end if there is none.
OnChange(q, i, kind, ids) ==
    LET todo == Insertions(docs[q], ids)
        left == RemoveAndMove(Of(q), ids)
    IN /\ changes < MaxChanges
       /\ changes' = changes + 1
       /\ Becomes(q, IF todo = {} THEN left ELSE BeginInsert(left, First(todo)))
       /\ Proceed(q, i, kind, todo)
       /\ last' = [last EXCEPT ![q] = ids]
       /\ alone' = [alone EXCEPT ![q] = Inserting(q) = {}]

\* The documents of a run are loaded: it is put in its place, the next begins.
InsertDone(q, i) ==
    /\ i \in Inserting(q)
    /\ LET call == calls[q][i]
           s == [Of(q) EXCEPT !.docs = Splice(@, First(call.todo))]
           todo == call.todo \ {First(call.todo)}
       IN /\ Becomes(q, IF todo = {} THEN s ELSE BeginInsert(s, First(todo)))
          /\ Proceed(q, i, call.kind, todo)
    /\ UNCHANGED <<ready, disposed, changes, last, alone, torn>>

-----------------------------------------------------------------------------
(* What calls it. *)

Query(q, kind) ==
    calls' = [calls EXCEPT ![q] = Append(@, [kind |-> kind, step |-> "query", todo |-> {}])]

\* subscribe: localQuery, and only when its onChange is done the adapter's
\* subscribe and RealtimeService.onQuerySubscribe.
Subscribe(q) ==
    /\ stage[q] = "new"
    /\ stage' = [stage EXCEPT ![q] = "local"]
    /\ Query(q, "subscribe")
    /\ UNCHANGED <<ready, disposed, docs, mapped, count, heard, changes, last, alone, torn>>

\* RealtimeService.onLocalDocUpdate calls localUpdate of the queries it knows,
\* which are those that are subscribed and not disposed of.
LocalUpdate(q) ==
    /\ stage[q] = "subscribed" /\ ~ disposed[q]
    /\ Len(calls[q]) + changes < MaxChanges
    /\ Query(q, "local")
    /\ UNCHANGED <<stage, ready, disposed, docs, mapped, count, heard, changes, last, alone, torn>>

\* IndexedDB has run the query of localQuery.
StoreAnswers(q, i, ids) ==
    /\ i \in DOMAIN calls[q] /\ calls[q][i].step = "query"
    /\ OnChange(q, i, calls[q][i].kind, ids)
    /\ UNCHANGED <<ready, disposed, torn>>

\* onReady: the adapter has its first results.
OnReady(q, ids) ==
    /\ stage[q] = "subscribed" /\ ~ disposed[q] /\ ~ ready[q]
    /\ ready' = [ready EXCEPT ![q] = TRUE]
    /\ OnChange(q, Len(calls[q]) + 1, "ready", ids)
    /\ UNCHANGED <<disposed, torn>>

\* The server has sent other results.
RemoteChange(q, ids) ==
    /\ ready[q] /\ ~ disposed[q]
    /\ OnChange(q, Len(calls[q]) + 1, "remote", ids)
    /\ UNCHANGED <<ready, disposed, torn>>

\* dispose, by manageQuery when the query is ready or after five seconds.
\* Calls that are under way go on.
Dispose(q) ==
    /\ stage[q] = "subscribed" /\ ~ disposed[q]
    /\ disposed' = [disposed EXCEPT ![q] = TRUE]
    /\ heard' = [heard EXCEPT ![q] = [d \in Docs |-> @[d] - IF d \in mapped[q] THEN 1 ELSE 0]]
    /\ count' = IF ready[q] THEN [d \in Docs |-> count[d] - Occurrences(docs[q], d)] ELSE count
    /\ torn' = IF calls[q] = <<>> /\ ready[q] THEN torn ELSE torn \cup {q}
    /\ mapped' = [mapped EXCEPT ![q] = {}]
    /\ UNCHANGED <<stage, ready, docs, calls, changes, last, alone>>

-----------------------------------------------------------------------------
Next ==
    \E q \in Queries :
        \/ Subscribe(q)
        \/ LocalUpdate(q)
        \/ \E i \in DOMAIN calls[q], ids \in Results : StoreAnswers(q, i, ids)
        \/ \E ids \in Results : OnReady(q, ids) \/ RemoteChange(q, ids)
        \/ \E i \in DOMAIN calls[q] : InsertDone(q, i)
        \/ Dispose(q)

Spec == Init /\ [][Next]_vars

-----------------------------------------------------------------------------
(* Properties. *)

\* Where a query has a document: the places in its docs, ...
Places(q, d) == {i \in DOMAIN docs[q] : docs[q][i] = d}

\* ... and the calls that wait for it, which have told it that it is in docs.
Awaiting(q, d) == {i \in Inserting(q) : d \in ToSet(First(calls[q][i].todo).ids)}

\* A document counts every query that has it in its results, as often as it has
\* it there or waits for it, whatever calls of onChange overlap and whatever
\* order documents are loaded in: as long as no query was disposed of in the
\* middle of a call or before the server answered.
CountIsHeld ==
    torn = {} => \A d \in Docs :
        LET living == {q \in Queries : ~ disposed[q]}
        IN count[d] = Cardinality(UNION {{q} \X Places(q, d) : q \in living})
                      + Cardinality(UNION {{q} \X Awaiting(q, d) : q \in living})

\* When a call ran without another beside it, its results are what is shown,
\* also when earlier calls that overlapped left duplicates or other documents.
ShowsResults ==
    \A q \in Queries : alone[q] /\ Inserting(q) = {} => docs[q] = last[q]

\* No query is ever deaf to a document that it shows.
HearsWhatItShows ==
    \A q \in Queries : ~ disposed[q] => \A d \in ToSet(docs[q]) : heard[q][d] > 0
=============================================================================
