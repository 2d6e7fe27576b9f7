--------------------------- MODULE OfflineDocProofs ---------------------------
(***************************************************************************)
(* Proofs about OfflineDoc: what a page and its record know of the edits   *)
(* of its user, for any number of edits, other users' edits, pages and     *)
(* mishaps.                                                                *)
(***************************************************************************)
EXTENDS OfflineDoc, SequenceTheorems, FiniteSetTheorems, TLAPS

\* The ops of a document, the one in flight first.
All(d) == d.inflight \o d.pending

\* What a page has is like a record that it could write.
Current(d) == [v |-> d.version, data |-> d.data, pendingOps |-> All(d), there |-> TRUE]

\* The ops that have left the browser.
OpsIn(ops) == {ops[i] : i \in DOMAIN ops}
Gone == OpsIn(log) \cup {m.op : m \in wire}

SameNumber(a, b) == a.src = b.src /\ a.seq = b.seq

-----------------------------------------------------------------------------
(* Types. *)

Messages == [op : Ops, v : 0 .. Version, live : BOOLEAN]
Sends == [op : Ops, v : 0 .. Version, after : Nat, stored : BOOLEAN]

DocType(d) ==
    d \in [open : BOOLEAN, counted : BOOLEAN, ready : BOOLEAN,
           connected : BOOLEAN, wants : BOOLEAN, stream : BOOLEAN, from : 0 .. Version,
           subscribedState : BOOLEAN, loaded : BOOLEAN, version : 0 .. Version,
           data : SUBSET Ids, inflight : Seq(Ops), pending : Seq(Ops),
           seq : 1 .. MaxEdits + 1,
           reply : {"none", "applied", "refused"},
           saved : BOOLEAN, offlineSnapshotVersion : 0 .. Version,
           fresh : SUBSET Edits, puts : Seq(Records),
           out : SUBSET Sends]

StoreType ==
    /\ log \in Seq(Ops)
    /\ wire \subseteq Messages
    /\ record \in Records
    /\ kept \subseteq Edits /\ exposed \subseteq Edits /\ refused \subseteq Edits
    /\ count \in [pages : 0 .. MaxPages, mishaps : 0 .. MaxMishaps]

\* How far a page has come.
Shape(d) ==
    /\ d.inflight # <<>> => Len(d.inflight) = 1 /\ d.inflight[1].seq # 0
    /\ d.inflight # <<>> \/ d.reply # "none" => d.connected
    /\ d.reply # "none" => d.inflight # <<>>
    /\ d.reply = "refused" => d.inflight[1].id \in refused
    /\ d.loaded \/ d.wants => d.ready
    /\ d.ready /\ ~ d.loaded => ~ record.there
    /\ ~ d.loaded => /\ All(d) = <<>> /\ d.puts = <<>> /\ d.out = {}
                      /\ d.seq = 1 /\ d.data = {} /\ d.version = 0
    /\ IF d.open THEN Page # 0 ELSE d = ClosedPage

\* What can be sent has been.
Flushed(d) == d.connected /\ d.loaded /\ d.inflight = <<>> => d.pending = <<>>

-----------------------------------------------------------------------------
(* Views: the record, what is on its way to it, and what the page has. *)

\* Each edit is pending once, only the first op may have been sent, and what the
\* user sees is a version of the server and these ops.
Once(ops) == \A i, j \in DOMAIN ops : ops[i].id = ops[j].id => i = j
OnlyFirstSent(ops) == \A i \in DOMAIN ops : ops[i].seq # 0 => i = 1
Seen(w, op) == op.id \in Edits /\ op.id \in w.data \cup refused

Plain(w) ==
    /\ Once(w.pendingOps) /\ OnlyFirstSent(w.pendingOps)
    /\ \A op \in OpsIn(w.pendingOps) : Seen(w, op)
    /\ w.v <= Version
    /\ w.data \ exposed = (Prefix(w.v) \cup IdsOf(w.pendingOps)) \ exposed

\* The server has not applied an op within that version ...
Ahead(op, v) ==
    \A n \in DOMAIN log : op.seq # 0 /\ SameNumber(log[n], op) => n > v

\* ... and knows it by its number.
Known(op) ==
    \A a \in Gone : a.id = op.id /\ op.id \notin exposed => a = op

Recognised(w) == \A op \in OpsIn(w.pendingOps) : Ahead(op, w.v) /\ Known(op)

\* No edit that was in the record is missing.
Holds(ids, w) == ids \subseteq IdsOf(w.pendingOps) \cup IdsOf(log) \cup refused

View(w) == Plain(w) /\ Recognised(w) /\ Holds(kept, w)

-----------------------------------------------------------------------------
(* What is on its way to the record and to the socket. *)

Puts(d) ==
    /\ \A i \in DOMAIN d.puts : View(d.puts[i]) /\ d.puts[i].there
    /\ \A i \in DOMAIN d.puts : Holds(IdsOf(d.puts[i].pendingOps), Current(d))
    /\ \A i, j \in DOMAIN d.puts : i <= j => Holds(IdsOf(d.puts[i].pendingOps), d.puts[j])

\* An op with the id is this one.
Only(op, w) == \A a \in OpsIn(w.pendingOps) : a.id = op.id => a = op

Outgoing(d) ==
    /\ \A m \in d.out :
          /\ m.op.seq # 0 /\ Ahead(m.op, m.v) /\ Known(m.op)
          /\ m.op.id \in d.data \cup refused
          /\ m.after <= Len(d.puts)
          /\ Only(m.op, Current(d))
          /\ m.stored => \A i \in DOMAIN d.puts : i >= m.after => Only(m.op, d.puts[i])
          /\ m.stored /\ m.after = 0 => Only(m.op, record)
    /\ \A m, k \in d.out : m.op.id = k.op.id => m.op = k.op

\* The numbers of ops.
AllOps(d) ==
    Gone \cup OpsIn(record.pendingOps) \cup OpsIn(All(d)) \cup {m.op : m \in d.out}
    \cup UNION {OpsIn(d.puts[i].pendingOps) : i \in DOMAIN d.puts}

Issued(op, d) ==
    /\ op.seq = 0 <=> op.src = 0
    /\ op.seq # 0 => op.id \in Edits
    /\ op.src <= Page
    /\ d.open /\ op.src = Page => op.seq < d.seq

Numbers(d) ==
    /\ \A a \in AllOps(d) : Issued(a, d)
    /\ \A a, b \in AllOps(d) : a.seq # 0 /\ SameNumber(a, b) => a = b

\* A page numbers an edit once.
ToNumber(d) == {op.id : op \in {a \in OpsIn(d.pending) : a.seq = 0}}
Numbered(d) == ((IdsOf(log) \cup kept \cup d.data \cup refused) \cap Edits) \ ToNumber(d)
Budget(d) == d.seq <= Cardinality(Numbered(d)) + 1

-----------------------------------------------------------------------------
(* The server and the record. *)

Server ==
    /\ \A i, j \in DOMAIN log : log[i].seq # 0 /\ SameNumber(log[i], log[j]) => i = j
    /\ \A i, j \in DOMAIN log : log[i].seq = 0 /\ log[i].id = log[j].id => i = j
    /\ \A a, b \in Gone : a.id = b.id /\ a.id \notin exposed => a = b
    /\ \A m \in wire : m.op.seq # 0 /\ Ahead(m.op, m.v)
    /\ \A i \in DOMAIN log : log[i].seq = 0 <=> log[i].id \in RemoteEdits

Stored ==
    /\ View(record)
    /\ IdsOf(record.pendingOps) \subseteq kept
    /\ ~ record.there => record = NoRecord /\ kept = {}

\* What the page shows and has to send.
Shown(d) ==
    Plain(Current(d)) /\ Recognised(Current(d)) /\ (d.loaded => Holds(kept, Current(d)))

DocInv(d) ==
    /\ DocType(d) /\ Shape(d) /\ Shown(d)
    /\ Puts(d) /\ Outgoing(d) /\ Numbers(d) /\ Budget(d)

IInv == StoreType /\ Server /\ Stored /\ DocInv(doc) /\ Flushed(doc)

-----------------------------------------------------------------------------
(* Sequences of ops. *)

\* Leaves of the proofs that see the assumption on the constants through these only.
LEMMA OfflineConstants ==
    /\ MaxEdits \in Nat \ {0} /\ MaxPages \in Nat \ {0} /\ MaxMishaps \in Nat
    /\ Edits \subseteq Ids /\ RemoteEdits \subseteq Ids
    /\ \A r \in RemoteEdits : r \notin Edits
    BY OfflineAssumption DEF Ids

\* What the op in flight and those that are pending are together.
LEMMA SentAndPending ==
    ASSUME NEW d, d.inflight \in Seq(Ops), d.pending \in Seq(Ops),
           d.inflight # <<>> => Len(d.inflight) = 1
    PROVE  /\ All(d) \in Seq(Ops)
           /\ d.inflight = <<>> => All(d) = d.pending
           /\ d.inflight # <<>> =>
                All(d) # <<>> /\ All(d)[1] = d.inflight[1] /\ Tail(All(d)) = d.pending
<1>1. All(d) \in Seq(Ops)
    BY ConcatProperties DEF All
<1>2. d.inflight = <<>> => All(d) = d.pending
    BY ConcatEmptySeq DEF All
<1>3. d.inflight # <<>> =>
        All(d) # <<>> /\ All(d)[1] = d.inflight[1] /\ Tail(All(d)) = d.pending
    <2> SUFFICES ASSUME d.inflight # <<>>
                 PROVE  All(d) # <<>> /\ All(d)[1] = d.inflight[1]
                        /\ Tail(All(d)) = d.pending
        OBVIOUS
    <2>1. Len(d.inflight) = 1
        OBVIOUS
    <2>2. Len(d.pending) \in Nat
        BY LenProperties
    <2>3. /\ Len(All(d)) = Len(d.inflight) + Len(d.pending)
          /\ \A i \in 1 .. Len(d.inflight) + Len(d.pending) :
                All(d)[i] = IF i <= Len(d.inflight) THEN d.inflight[i]
                            ELSE d.pending[i - Len(d.inflight)]
        BY ConcatProperties, Zenon DEF All
    <2>4. /\ Len(All(d)) = Len(d.pending) + 1
          /\ All(d)[1] = d.inflight[1]
          /\ \A i \in 1 .. Len(d.pending) : All(d)[i + 1] = d.pending[i]
        BY <2>1, <2>2, <2>3
    <2>5. All(d) # <<>>
        BY <2>2, <2>4, EmptySeq
    <2>6. /\ Tail(All(d)) \in Seq(Ops) /\ Len(Tail(All(d))) = Len(d.pending)
          /\ \A i \in 1 .. Len(d.pending) : Tail(All(d))[i] = d.pending[i]
        BY <1>1, <2>2, <2>4, <2>5, HeadTailProperties
    <2>7. Tail(All(d)) = d.pending
        BY <2>6, SeqEqual
    <2> QED
        BY <2>4, <2>5, <2>7
<1> QED
    BY <1>1, <1>2, <1>3

\* The ops of a sequence and their ids.
LEMMA Members ==
    ASSUME NEW ops \in Seq(Ops)
    PROVE  /\ DOMAIN ops = 1 .. Len(ops) /\ Len(ops) \in Nat
           /\ \A i \in 1 .. Len(ops) : ops[i] \in Ops /\ ops[i] \in OpsIn(ops)
                                       /\ ops[i].id \in IdsOf(ops)
           /\ \A a \in OpsIn(ops) : \E i \in 1 .. Len(ops) : a = ops[i]
           /\ \A e \in IdsOf(ops) : \E i \in 1 .. Len(ops) : e = ops[i].id
           /\ OpsIn(ops) \subseteq Ops /\ IdsOf(ops) \subseteq Ids
<1>1. DOMAIN ops = 1 .. Len(ops) /\ Len(ops) \in Nat
    BY LenProperties
<1>2. \A i \in 1 .. Len(ops) : ops[i] \in Ops
    BY ElementOfSeq
<1>3. \A op \in Ops : op.id \in Ids
    BY DEF Ops
<1>4. /\ \A i \in 1 .. Len(ops) : ops[i] \in OpsIn(ops) /\ ops[i].id \in IdsOf(ops)
      /\ \A a \in OpsIn(ops) : \E i \in 1 .. Len(ops) : a = ops[i]
      /\ \A e \in IdsOf(ops) : \E i \in 1 .. Len(ops) : e = ops[i].id
    BY <1>1, Zenon DEF OpsIn, IdsOf
<1>5. OpsIn(ops) \subseteq Ops /\ IdsOf(ops) \subseteq Ids
    BY <1>2, <1>3, <1>4, Zenon
<1> QED
    BY <1>1, <1>2, <1>4, <1>5, Zenon

\* An op more.
LEMMA OneMore ==
    ASSUME NEW ops \in Seq(Ops), NEW op \in Ops
    PROVE  /\ Append(ops, op) \in Seq(Ops)
           /\ OpsIn(Append(ops, op)) = OpsIn(ops) \cup {op}
           /\ IdsOf(Append(ops, op)) = IdsOf(ops) \cup {op.id}
<1>1. /\ Append(ops, op) \in Seq(Ops) /\ Len(Append(ops, op)) = Len(ops) + 1
      /\ \A i \in 1 .. Len(ops) : Append(ops, op)[i] = ops[i]
      /\ Append(ops, op)[Len(ops) + 1] = op
    BY AppendProperties
<1>2. /\ DOMAIN Append(ops, op) = 1 .. Len(ops) + 1
      /\ DOMAIN ops = 1 .. Len(ops) /\ Len(ops) \in Nat
    BY <1>1, LenProperties
<1>3. \A i \in 1 .. Len(ops) + 1 : i \in 1 .. Len(ops) \/ i = Len(ops) + 1
    BY <1>2
<1>4. 1 .. Len(ops) \subseteq 1 .. Len(ops) + 1 /\ Len(ops) + 1 \in 1 .. Len(ops) + 1
    BY <1>2
<1>5. OpsIn(Append(ops, op)) = OpsIn(ops) \cup {op}
    BY <1>1, <1>2, <1>3, <1>4 DEF OpsIn
<1>6. IdsOf(Append(ops, op)) = IdsOf(ops) \cup {op.id}
    BY <1>1, <1>2, <1>3, <1>4 DEF IdsOf
<1> QED
    BY <1>1, <1>5, <1>6

\* The first op and the others.
LEMMA FirstAndRest ==
    ASSUME NEW ops \in Seq(Ops), ops # <<>>
    PROVE  /\ Head(ops) = ops[1] /\ ops[1] \in Ops /\ Tail(ops) \in Seq(Ops)
           /\ OpsIn(ops) = {ops[1]} \cup OpsIn(Tail(ops))
           /\ IdsOf(ops) = {ops[1].id} \cup IdsOf(Tail(ops))
<1>1. /\ Tail(ops) \in Seq(Ops) /\ Len(Tail(ops)) = Len(ops) - 1
      /\ \A i \in 1 .. Len(Tail(ops)) : Tail(ops)[i] = ops[i + 1]
    BY HeadTailProperties
<1>2. /\ DOMAIN ops = 1 .. Len(ops) /\ DOMAIN Tail(ops) = 1 .. Len(ops) - 1
      /\ Len(ops) \in Nat \ {0}
    BY <1>1, LenProperties, EmptySeq
<1>3. \A i \in 1 .. Len(ops) : i = 1 \/ (i - 1 \in 1 .. Len(ops) - 1 /\ (i - 1) + 1 = i)
    BY <1>2
<1>4. 1 \in 1 .. Len(ops) /\ \A i \in 1 .. Len(ops) - 1 : i + 1 \in 1 .. Len(ops)
    BY <1>2
<1>5. OpsIn(ops) = {ops[1]} \cup OpsIn(Tail(ops))
    <2>1. ASSUME NEW a \in OpsIn(ops), a # ops[1]
          PROVE  a \in OpsIn(Tail(ops))
        <3>1. PICK i \in 1 .. Len(ops) : a = ops[i]
            BY <1>2 DEF OpsIn
        <3>2. i - 1 \in 1 .. Len(ops) - 1 /\ (i - 1) + 1 = i
            BY <1>3, <2>1, <3>1
        <3>3. a = Tail(ops)[i - 1]
            BY <1>1, <3>1, <3>2
        <3> QED
            BY <1>2, <3>2, <3>3 DEF OpsIn
    <2>2. ops[1] \in OpsIn(ops) /\ \A a \in OpsIn(Tail(ops)) : a \in OpsIn(ops)
        BY <1>1, <1>2, <1>4 DEF OpsIn
    <2> QED
        BY <2>1, <2>2
<1>6. IdsOf(ops) = {ops[1].id} \cup IdsOf(Tail(ops))
    <2>1. ASSUME NEW e \in IdsOf(ops), e # ops[1].id
          PROVE  e \in IdsOf(Tail(ops))
        <3>1. PICK i \in 1 .. Len(ops) : e = ops[i].id
            BY <1>2 DEF IdsOf
        <3>2. i - 1 \in 1 .. Len(ops) - 1 /\ (i - 1) + 1 = i
            BY <1>3, <2>1, <3>1
        <3>3. e = Tail(ops)[i - 1].id
            BY <1>1, <3>1, <3>2
        <3> QED
            BY <1>2, <3>2, <3>3 DEF IdsOf
    <2>2. ops[1].id \in IdsOf(ops) /\ \A e \in IdsOf(Tail(ops)) : e \in IdsOf(ops)
        BY <1>1, <1>2, <1>4 DEF IdsOf
    <2> QED
        BY <2>1, <2>2
<1> QED
    BY <1>1, <1>2, <1>4, <1>5, <1>6, ElementOfSeq

\* A version more has the op at its place more.
LEMMA PrefixGrows ==
    ASSUME log \in Seq(Ops), NEW v \in Nat, v < Version
    PROVE  Prefix(v + 1) = Prefix(v) \cup {log[v + 1].id}
<1>1. /\ Len(log) \in Nat /\ \A i \in 1 .. Len(log) : log[i] \in Ops
    BY LenProperties, ElementOfSeq
<1>2. ASSUME NEW n \in 0 .. Version
      PROVE  Prefix(n) = {log[i].id : i \in 1 .. n}
    <2>1. /\ SubSeq(log, 1, n) \in Seq(Ops) /\ Len(SubSeq(log, 1, n)) = n
          /\ \A i \in 1 .. n : SubSeq(log, 1, n)[i] = log[i]
        BY <1>1, SubSeqProperties DEF Version
    <2> QED
        BY <2>1, LenProperties DEF Prefix, IdsOf
<1>3. Prefix(v) = {log[i].id : i \in 1 .. v} /\ Prefix(v + 1) = {log[i].id : i \in 1 .. v + 1}
    BY <1>1, <1>2 DEF Version
<1>4. \A i \in 1 .. v + 1 : i \in 1 .. v \/ i = v + 1
    OBVIOUS
<1>5. 1 .. v \subseteq 1 .. v + 1 /\ v + 1 \in 1 .. v + 1
    OBVIOUS
<1> QED
    BY <1>3, <1>4, <1>5

\* The ops after the first have not been sent, and are other edits.
LEMMA RestIsPlain ==
    ASSUME NEW ops \in Seq(Ops), ops # <<>>, Once(ops), OnlyFirstSent(ops)
    PROVE  /\ Once(Tail(ops)) /\ OnlyFirstSent(Tail(ops))
           /\ \A a \in OpsIn(Tail(ops)) : a.seq = 0 /\ a.id # ops[1].id
<1>1. /\ Tail(ops) \in Seq(Ops) /\ Len(Tail(ops)) = Len(ops) - 1
      /\ \A i \in 1 .. Len(Tail(ops)) : Tail(ops)[i] = ops[i + 1]
    BY HeadTailProperties
<1>2. /\ DOMAIN ops = 1 .. Len(ops) /\ DOMAIN Tail(ops) = 1 .. Len(ops) - 1
      /\ Len(ops) \in Nat \ {0}
    BY <1>1, LenProperties, EmptySeq
<1>3. 1 \in 1 .. Len(ops) /\ \A i \in 1 .. Len(ops) - 1 : i + 1 \in 1 .. Len(ops) /\ i + 1 # 1
    BY <1>2
<1>4. \A i \in DOMAIN Tail(ops) :
          Tail(ops)[i] = ops[i + 1] /\ i + 1 \in DOMAIN ops /\ i + 1 # 1
    BY <1>1, <1>2, <1>3
<1>5. \A i \in DOMAIN Tail(ops) : Tail(ops)[i].seq = 0 /\ Tail(ops)[i].id # ops[1].id
    BY <1>2, <1>3, <1>4 DEF Once, OnlyFirstSent
<1>6. \A i, j \in DOMAIN Tail(ops) : i + 1 = j + 1 => i = j
    BY <1>2
<1>7. Once(Tail(ops))
    BY <1>4, <1>6 DEF Once
<1>8. OnlyFirstSent(Tail(ops))
    BY <1>5 DEF OnlyFirstSent
<1> QED
    BY <1>5, <1>7, <1>8 DEF OpsIn

\* An op takes the place of the first that is the same edit.
LEMMA FirstReplaced ==
    ASSUME NEW ops \in Seq(Ops), ops # <<>>, Once(ops), OnlyFirstSent(ops),
           NEW all \in Seq(Ops), all # <<>>, Tail(all) = Tail(ops), all[1].id = ops[1].id
    PROVE  /\ Once(all) /\ OnlyFirstSent(all)
           /\ OpsIn(all) = {all[1]} \cup OpsIn(Tail(ops))
           /\ IdsOf(all) = IdsOf(ops)
<1>1. /\ OpsIn(all) = {all[1]} \cup OpsIn(Tail(ops))
      /\ IdsOf(all) = IdsOf(ops)
    BY FirstAndRest
<1>2. Len(all) = Len(ops) /\ \A i \in 2 .. Len(ops) : all[i] = ops[i]
    <2>1. /\ Len(Tail(ops)) = Len(ops) - 1
          /\ \A i \in 1 .. Len(Tail(ops)) : Tail(ops)[i] = ops[i + 1]
        BY HeadTailProperties
    <2>2. /\ Len(Tail(ops)) = Len(all) - 1
          /\ \A i \in 1 .. Len(Tail(ops)) : Tail(ops)[i] = all[i + 1]
        BY HeadTailProperties
    <2>3. Len(ops) \in Nat /\ Len(all) \in Nat
        BY LenProperties
    <2>4. Len(all) = Len(ops)
        BY <2>1, <2>2, <2>3
    <2>5. ASSUME NEW i \in 2 .. Len(ops) PROVE all[i] = ops[i]
        <3>1. i - 1 \in 1 .. Len(Tail(ops)) /\ (i - 1) + 1 = i
            BY <2>1, <2>3
        <3> QED
            BY <2>1, <2>2, <3>1
    <2> QED
        BY <2>4, <2>5
<1>3. /\ DOMAIN ops = 1 .. Len(ops) /\ DOMAIN all = 1 .. Len(ops) /\ Len(ops) \in Nat
    BY <1>2, LenProperties
<1>4. \A i \in DOMAIN ops : i = 1 \/ i \in 2 .. Len(ops)
    BY <1>3
<1>5. \A i \in DOMAIN all : i \in DOMAIN ops /\ all[i].id = ops[i].id
    BY <1>2, <1>3, <1>4
<1>6. Once(all)
    BY <1>5 DEF Once
<1>7. OnlyFirstSent(all)
    BY <1>2, <1>3, <1>4 DEF OnlyFirstSent
<1> QED
    BY <1>1, <1>6, <1>7

\* A new edit comes last.
LEMMA LastAdded ==
    ASSUME NEW ops \in Seq(Ops), NEW op \in Ops,
           Once(ops), OnlyFirstSent(ops), op.id \notin IdsOf(ops), op.seq = 0
    PROVE  Once(Append(ops, op)) /\ OnlyFirstSent(Append(ops, op))
<1>1. /\ Append(ops, op) \in Seq(Ops) /\ Len(Append(ops, op)) = Len(ops) + 1
      /\ \A i \in 1 .. Len(ops) : Append(ops, op)[i] = ops[i]
      /\ Append(ops, op)[Len(ops) + 1] = op
    BY AppendProperties
<1>2. /\ DOMAIN Append(ops, op) = 1 .. Len(ops) + 1
      /\ DOMAIN ops = 1 .. Len(ops) /\ Len(ops) \in Nat
    BY <1>1, LenProperties
<1>3. \A i \in 1 .. Len(ops) + 1 : i \in 1 .. Len(ops) \/ i = Len(ops) + 1
    BY <1>2
<1>4. \A i \in 1 .. Len(ops) : Append(ops, op)[i].id # op.id
    BY <1>1, <1>2 DEF IdsOf
<1>5. Once(Append(ops, op))
    BY <1>1, <1>2, <1>3, <1>4 DEF Once
<1>6. OnlyFirstSent(Append(ops, op))
    BY <1>1, <1>2, <1>3 DEF OnlyFirstSent
<1> QED
    BY <1>5, <1>6

-----------------------------------------------------------------------------
(* The page: what its methods do to what the invariant says of it. *)

\* What the proofs use of the types.
LEMMA Typed ==
    ASSUME StoreType
    PROVE  /\ Version \in Nat
           /\ \A i \in 1 .. Version : log[i] \in Ops
           /\ DOMAIN log = 1 .. Version
           /\ record.pendingOps \in Seq(Ops) /\ record.v \in Nat /\ record.data \in SUBSET Ids
           /\ Page \in 0 .. MaxPages
<1>1. /\ Version \in Nat /\ DOMAIN log = 1 .. Version
      /\ \A i \in 1 .. Version : log[i] \in Ops
    BY LenProperties, ElementOfSeq DEF StoreType, Version
<1>2. /\ record.pendingOps \in Seq(Ops) /\ record.v \in Nat /\ record.data \in SUBSET Ids
    BY DEF StoreType, Records
<1>3. Page \in 0 .. MaxPages
    BY DEF StoreType, Page
<1> QED
    BY <1>1, <1>2, <1>3

\* What a typed page is made of.
LEMMA PageTyped ==
    ASSUME StoreType, NEW d, DocType(d), Shape(d)
    PROVE  /\ d.inflight \in Seq(Ops) /\ d.pending \in Seq(Ops) /\ d.puts \in Seq(Records)
           /\ d.version \in 0 .. Version /\ d.version \in Nat /\ d.data \in SUBSET Ids
           /\ d.out \in SUBSET Sends
           /\ d.seq \in 1 .. MaxEdits + 1
           /\ d.inflight # <<>> => Len(d.inflight) = 1 /\ d.inflight[1].seq # 0
           /\ All(d) \in Seq(Ops)
           /\ Current(d) \in Records
           /\ DOMAIN d.puts = 1 .. Len(d.puts) /\ Len(d.puts) \in Nat
           /\ \A i \in 1 .. Len(d.puts) : d.puts[i] \in Records
<1>1. /\ d.inflight \in Seq(Ops) /\ d.pending \in Seq(Ops) /\ d.puts \in Seq(Records)
      /\ d.version \in 0 .. Version /\ d.data \in SUBSET Ids
      /\ d.out \in SUBSET Sends
      /\ d.seq \in 1 .. MaxEdits + 1
    BY DEF DocType
<1>2. d.inflight # <<>> => Len(d.inflight) = 1 /\ d.inflight[1].seq # 0
    BY DEF Shape
<1>3. All(d) \in Seq(Ops)
    BY <1>1, <1>2, SentAndPending
<1>4. d.version \in Nat
    BY <1>1, Typed
<1>5. Current(d) \in Records
    BY <1>1, <1>3, <1>4 DEF Current, Records
<1>6. /\ DOMAIN d.puts = 1 .. Len(d.puts) /\ Len(d.puts) \in Nat
      /\ \A i \in 1 .. Len(d.puts) : d.puts[i] \in Records
    BY <1>1, LenProperties, ElementOfSeq
<1> QED
    BY <1>1, <1>2, <1>3, <1>4, <1>5, <1>6

\* The op in flight has its src already.
LEMMA PendingIsAll ==
    ASSUME StoreType, NEW d, DocType(d), Shape(d), Numbers(d)
    PROVE  PendingOps(d) = All(d)
<1>1. ASSUME NEW i \in DOMAIN d.inflight PROVE d.inflight[i].src # 0
    <2>1. d.inflight # <<>> /\ i = 1
        BY PageTyped, LenProperties, EmptySeq
    <2>2. d.inflight[1] \in OpsIn(All(d)) /\ d.inflight[1].seq # 0
        BY <2>1, PageTyped, SentAndPending, FirstAndRest
    <2>3. Issued(d.inflight[1], d)
        BY <2>2 DEF Numbers, AllOps
    <2> QED
        BY <2>1, <2>2, <2>3 DEF Issued
<1>2. [i \in DOMAIN d.inflight |->
          IF d.inflight[i].src = 0 THEN [d.inflight[i] EXCEPT !.src = Page] ELSE d.inflight[i]]
      = [i \in DOMAIN d.inflight |-> d.inflight[i]]
    BY <1>1
<1>3. d.inflight = [i \in DOMAIN d.inflight |-> d.inflight[i]]
    BY PageTyped, LenProperties
<1> QED
    BY <1>2, <1>3 DEF PendingOps, All

\* Only these parts of a page matter to the rest of the invariant.
SamePart(d, e) ==
    /\ e.open = d.open /\ e.loaded = d.loaded /\ e.version = d.version /\ e.data = d.data
    /\ e.inflight = d.inflight /\ e.pending = d.pending /\ e.seq = d.seq
    /\ e.puts = d.puts /\ e.out = d.out

Rest(d) == Shown(d) /\ Puts(d) /\ Outgoing(d) /\ Numbers(d) /\ Budget(d)

\* ... so that the rest of it holds of a page with the same parts.
LEMMA SamePartSameRest ==
    ASSUME NEW d, NEW e, SamePart(d, e), Rest(d)
    PROVE  Rest(e)
<1>1. All(e) = All(d)
    BY DEF SamePart, All
<1>2. Current(e) = Current(d)
    BY <1>1 DEF SamePart, Current
<1>3. AllOps(e) = AllOps(d)
    BY <1>1 DEF SamePart, AllOps
<1>4. \A a : Issued(a, d) => Issued(a, e)
    BY DEF SamePart, Issued
<1>5. Numbers(e)
    BY <1>3, <1>4, Zenon DEF Rest, Numbers
<1>6. Shown(e)
    BY <1>2 DEF SamePart, Rest, Shown
<1>7. Puts(e)
    BY <1>2 DEF SamePart, Rest, Puts
<1>8. Outgoing(e)
    BY <1>2 DEF SamePart, Rest, Outgoing
<1>9. Budget(e)
    BY DEF SamePart, Rest, Budget, Numbered, ToNumber
<1> QED
    BY <1>5, <1>6, <1>7, <1>8, <1>9 DEF Rest

\* A page that sees to fewer ops.
LEMMA FewerNumbers ==
    ASSUME NEW d, NEW e, Numbers(d), AllOps(e) \subseteq AllOps(d),
           e.open = d.open, e.seq = d.seq
    PROVE  Numbers(e)
<1>1. \A a : Issued(a, d) => Issued(a, e)
    BY DEF Issued
<1> QED
    BY <1>1, Zenon DEF Numbers

\* A put more.
LEMMA PutMore ==
    ASSUME NEW puts \in Seq(Records), NEW r \in Records
    PROVE  /\ Append(puts, r) \in Seq(Records) /\ Len(Append(puts, r)) = Len(puts) + 1
           /\ Len(puts) \in Nat
           /\ \A i \in DOMAIN Append(puts, r) :
                 \/ i \in DOMAIN puts /\ i <= Len(puts) /\ Append(puts, r)[i] = puts[i]
                 \/ i = Len(puts) + 1 /\ Append(puts, r)[i] = r
<1>1. /\ Append(puts, r) \in Seq(Records) /\ Len(Append(puts, r)) = Len(puts) + 1
      /\ \A i \in 1 .. Len(puts) : Append(puts, r)[i] = puts[i]
      /\ Append(puts, r)[Len(puts) + 1] = r
    BY AppendProperties
<1>2. /\ DOMAIN Append(puts, r) = 1 .. Len(puts) + 1
      /\ DOMAIN puts = 1 .. Len(puts) /\ Len(puts) \in Nat
    BY <1>1, LenProperties
<1>3. \A i \in 1 .. Len(puts) + 1 :
          (i \in 1 .. Len(puts) /\ i <= Len(puts)) \/ i = Len(puts) + 1
    BY <1>2
<1> QED
    BY <1>1, <1>2, <1>3

\* Every op that is somewhere is an op.
LEMMA AllOpsTyped ==
    ASSUME StoreType, NEW d, DocType(d), Shape(d), NEW a \in AllOps(d)
    PROVE  a \in Ops /\ a.seq \in Nat /\ a.src \in Nat
<1>1. a \in Ops
    <2>1. \A op \in Gone : op \in Ops
        BY Members DEF StoreType, Gone, Messages
    <2>2. \A op \in OpsIn(record.pendingOps) : op \in Ops
        BY Typed, Members
    <2>3. \A op \in OpsIn(All(d)) : op \in Ops
        BY PageTyped, Members
    <2>4. \A m \in d.out : m.op \in Ops
        BY PageTyped DEF Sends
    <2>5. ASSUME NEW i \in DOMAIN d.puts PROVE OpsIn(d.puts[i].pendingOps) \subseteq Ops
        <3>1. d.puts[i].pendingOps \in Seq(Ops)
            BY PageTyped DEF Records
        <3> QED
            BY <3>1, Members
    <2> QED
        BY <2>1, <2>2, <2>3, <2>4, <2>5 DEF AllOps
<1>2. \A op \in Ops : op.seq \in Nat /\ op.src \in Nat
    BY OfflineConstants DEF Ops, Srcs, Seqs
<1> QED
    BY <1>1, <1>2

(* updateOfflineData *)

Wrote(d) ==
    [d EXCEPT !.saved = TRUE, !.offlineSnapshotVersion = d.version, !.puts = Append(@, Current(d))]

\* updateOfflineData writes the record or does nothing.
LEMMA UpdateIs ==
    ASSUME StoreType, NEW d, DocType(d), Shape(d), Numbers(d), NEW force
    PROVE  /\ UpdateNeeded(d, force) => d.loaded /\ UpdateOfflineData(d, force) = Wrote(d)
           /\ ~ UpdateNeeded(d, force) => UpdateOfflineData(d, force) = d
<1>1. PendingOps(d) = All(d)
    BY PendingIsAll
<1>2. d.puts \in Seq(Records)
    BY PageTyped
<1> QED
    BY <1>1, <1>2 DEF UpdateNeeded, UpdateOfflineData, Wrote, Current

\* The parts of a page that has written the record.
LEMMA WroteIs ==
    ASSUME NEW d, DocType(d)
    PROVE  /\ Wrote(d).open = d.open /\ Wrote(d).loaded = d.loaded
           /\ Wrote(d).version = d.version /\ Wrote(d).data = d.data
           /\ Wrote(d).inflight = d.inflight /\ Wrote(d).pending = d.pending
           /\ Wrote(d).seq = d.seq /\ Wrote(d).out = d.out
           /\ Wrote(d).connected = d.connected /\ Wrote(d).reply = d.reply
           /\ Wrote(d).ready = d.ready /\ Wrote(d).wants = d.wants
           /\ Wrote(d).puts = Append(d.puts, Current(d))
           /\ All(Wrote(d)) = All(d) /\ Current(Wrote(d)) = Current(d)
<1>1. /\ Wrote(d).open = d.open /\ Wrote(d).loaded = d.loaded
      /\ Wrote(d).version = d.version /\ Wrote(d).data = d.data
      /\ Wrote(d).inflight = d.inflight /\ Wrote(d).pending = d.pending
      /\ Wrote(d).seq = d.seq /\ Wrote(d).out = d.out
      /\ Wrote(d).connected = d.connected /\ Wrote(d).reply = d.reply
      /\ Wrote(d).ready = d.ready /\ Wrote(d).wants = d.wants
      /\ Wrote(d).puts = Append(d.puts, Current(d))
    BY DEF Wrote, DocType
<1>2. All(Wrote(d)) = All(d)
    BY <1>1 DEF All
<1>3. Current(Wrote(d)) = Current(d)
    BY <1>1, <1>2 DEF Current
<1> QED
    BY <1>1, <1>2, <1>3

\* The page writes down what it has.
LEMMA WroteKeeps ==
    ASSUME StoreType, NEW d, DocInv(d), d.loaded
    PROVE  DocInv(Wrote(d))
<1> USE DEF DocInv
<1>1. /\ Append(d.puts, Current(d)) \in Seq(Records)
      /\ Len(Append(d.puts, Current(d))) = Len(d.puts) + 1
      /\ Len(d.puts) \in Nat
      /\ \A i \in DOMAIN Wrote(d).puts :
            \/ i \in DOMAIN d.puts /\ i <= Len(d.puts) /\ Wrote(d).puts[i] = d.puts[i]
            \/ i = Len(d.puts) + 1 /\ Wrote(d).puts[i] = Current(d)
    <2>1. d.puts \in Seq(Records) /\ Current(d) \in Records
        BY PageTyped
    <2>2. Wrote(d).puts = Append(d.puts, Current(d))
        BY WroteIs
    <2> QED
        BY <2>1, <2>2, PutMore
<1>2. DocType(Wrote(d))
    BY <1>1, PageTyped DEF DocType, Wrote
<1>3. Shape(Wrote(d))
    <2>1. Wrote(d).open
        BY WroteIs DEF Shape, ClosedPage
    <2> QED
        BY <2>1, WroteIs DEF Shape
<1>4. Shown(Wrote(d))
    BY WroteIs DEF Shown
<1>5. Puts(Wrote(d))
    <2>1. View(Current(d)) /\ Current(d).there
        BY DEF Shown, View, Current
    <2>2. \A i \in DOMAIN Wrote(d).puts : View(Wrote(d).puts[i]) /\ Wrote(d).puts[i].there
        BY <1>1, <2>1 DEF Puts
    <2>3. Holds(IdsOf(Current(d).pendingOps), Current(d))
        BY DEF Holds
    <2>4. \A i \in DOMAIN Wrote(d).puts :
              Holds(IdsOf(Wrote(d).puts[i].pendingOps), Current(d))
        BY <1>1, <2>3 DEF Puts
    <2>5. \A i, j \in DOMAIN Wrote(d).puts :
              i <= j => Holds(IdsOf(Wrote(d).puts[i].pendingOps), Wrote(d).puts[j])
        BY <1>1, <2>4 DEF Puts
    <2> QED
        BY <2>2, <2>4, <2>5, WroteIs DEF Puts
<1>6. Outgoing(Wrote(d))
    <2>1. ASSUME NEW m \in d.out
          PROVE  /\ m.after <= Len(Wrote(d).puts)
                 /\ m.stored => \A i \in DOMAIN Wrote(d).puts :
                                    i >= m.after => Only(m.op, Wrote(d).puts[i])
        <3>1. /\ m.after <= Len(d.puts) /\ m.after \in Nat
              /\ Only(m.op, Current(d))
              /\ m.stored => \A i \in DOMAIN d.puts : i >= m.after => Only(m.op, d.puts[i])
            BY PageTyped DEF Outgoing, Sends
        <3> QED
            BY <1>1, <3>1, WroteIs
    <2> QED
        BY <2>1, WroteIs DEF Outgoing
<1>7. Numbers(Wrote(d))
    <2>1. ASSUME NEW i \in DOMAIN Wrote(d).puts, NEW a \in OpsIn(Wrote(d).puts[i].pendingOps)
          PROVE  a \in AllOps(d)
        BY <1>1, <2>1 DEF AllOps, Current
    <2>2. AllOps(Wrote(d)) \subseteq AllOps(d)
        BY <2>1, WroteIs DEF AllOps
    <2> QED
        BY <2>2, WroteIs, FewerNumbers
<1>8. Budget(Wrote(d))
    BY WroteIs DEF Budget, Numbered, ToNumber
<1> QED
    BY <1>2, <1>3, <1>4, <1>5, <1>6, <1>7, <1>8

\* It may write it down.
LEMMA UpdateKeeps ==
    ASSUME StoreType, NEW d, DocInv(d), NEW force
    PROVE  /\ DocInv(UpdateOfflineData(d, force))
           /\ Flushed(d) => Flushed(UpdateOfflineData(d, force))
<1>1. ~ UpdateNeeded(d, force) => UpdateOfflineData(d, force) = d
    BY UpdateIs DEF DocInv
<1>2. UpdateNeeded(d, force) =>
        /\ DocInv(UpdateOfflineData(d, force))
        /\ Flushed(d) => Flushed(UpdateOfflineData(d, force))
    BY UpdateIs, WroteKeeps, WroteIs DEF DocInv, Flushed
<1> QED
    BY <1>1, <1>2

(* ShareDB's flush: the first op is numbered ... *)

CanFlush(d) == d.connected /\ d.loaded /\ d.inflight = <<>> /\ d.pending # <<>>

First(d) == d.pending[1]
New(d) == First(d).seq = 0
Number(d) == IF New(d) THEN Op(First(d).id, Page, d.seq) ELSE First(d)
Taken(d) ==
    [d EXCEPT !.pending = Tail(@), !.inflight = <<Number(d)>>,
              !.seq = IF New(d) THEN @ + 1 ELSE @]

\* What is known of the op that is to be sent.
LEMMA FirstIs ==
    ASSUME StoreType, NEW d, DocInv(d), CanFlush(d)
    PROVE  /\ d.pending \in Seq(Ops) /\ d.pending # <<>> /\ All(d) = d.pending
           /\ Head(d.pending) = First(d) /\ First(d) \in Ops
           /\ Tail(d.pending) \in Seq(Ops)
           /\ OpsIn(d.pending) = {First(d)} \cup OpsIn(Tail(d.pending))
           /\ IdsOf(d.pending) = {First(d).id} \cup IdsOf(Tail(d.pending))
           /\ Once(d.pending) /\ OnlyFirstSent(d.pending)
           /\ \A a \in OpsIn(Tail(d.pending)) : a.seq = 0 /\ a.id # First(d).id
           /\ First(d) \in AllOps(d) /\ Issued(First(d), d)
           /\ First(d).id \in Edits /\ First(d).id \in d.data \cup refused
           /\ Ahead(First(d), d.version) /\ Known(First(d))
           /\ Issued(First(d), d) /\ First(d).seq = 0 <=> First(d).src = 0
<1>1. /\ d.pending \in Seq(Ops) /\ d.pending # <<>> /\ All(d) = d.pending
    BY PageTyped, SentAndPending DEF DocInv, CanFlush
<1>2. /\ Head(d.pending) = First(d) /\ First(d) \in Ops /\ Tail(d.pending) \in Seq(Ops)
      /\ OpsIn(d.pending) = {First(d)} \cup OpsIn(Tail(d.pending))
      /\ IdsOf(d.pending) = {First(d).id} \cup IdsOf(Tail(d.pending))
    BY <1>1, FirstAndRest DEF First
<1>3. Plain(Current(d)) /\ Recognised(Current(d)) /\ Current(d).pendingOps = d.pending
      /\ Current(d).data = d.data /\ Current(d).v = d.version
    BY <1>1 DEF DocInv, Shown, Current
<1>4. Once(d.pending) /\ OnlyFirstSent(d.pending)
    BY <1>3 DEF Plain
<1>5. \A a \in OpsIn(Tail(d.pending)) : a.seq = 0 /\ a.id # First(d).id
    BY <1>1, <1>4, RestIsPlain DEF First
<1>6. /\ First(d).id \in Edits /\ First(d).id \in d.data \cup refused
      /\ Ahead(First(d), d.version) /\ Known(First(d))
    BY <1>2, <1>3 DEF Plain, Recognised, Seen
<1>7. First(d) \in AllOps(d)
    BY <1>1, <1>2 DEF AllOps
<1>8. Issued(First(d), d)
    BY <1>7 DEF DocInv, Numbers
<1>9. First(d).seq = 0 <=> First(d).src = 0
    BY <1>8 DEF Issued
<1> QED
    BY <1>1, <1>2, <1>4, <1>5, <1>6, <1>7, <1>8, <1>9

\* There is a number left for it.
LEMMA NumberLeft ==
    ASSUME StoreType, NEW d, DocInv(d), CanFlush(d), New(d)
    PROVE  /\ d.seq \in 1 .. MaxEdits
           /\ ToNumber(d) = {First(d).id} \cup ToNumber(Taken(d))
           /\ First(d).id \notin ToNumber(Taken(d))
           /\ Budget(Taken(d))
<1>1. /\ Taken(d).pending = Tail(d.pending) /\ Taken(d).data = d.data
      /\ Taken(d).seq = d.seq + 1
    BY DEF Taken, DocInv, DocType
<1>2. ToNumber(d) = {First(d).id} \cup ToNumber(Taken(d))
    BY <1>1, FirstIs DEF ToNumber, New
<1>3. First(d).id \notin ToNumber(Taken(d))
    BY <1>1, FirstIs DEF ToNumber
<1>4. /\ Numbered(Taken(d)) = Numbered(d) \cup {First(d).id}
      /\ First(d).id \notin Numbered(d)
    BY <1>1, <1>2, <1>3, FirstIs DEF Numbered
<1>5. IsFiniteSet(Edits) /\ Cardinality(Edits) = MaxEdits
    BY OfflineConstants, FS_Interval DEF Edits
<1>6. Numbered(d) \in SUBSET Edits /\ Numbered(Taken(d)) \in SUBSET Edits
    BY DEF Numbered
<1>7. /\ IsFiniteSet(Numbered(d))
      /\ Cardinality(Numbered(Taken(d))) <= MaxEdits
    BY <1>5, <1>6, FS_Subset
<1>8. Cardinality(Numbered(Taken(d))) = Cardinality(Numbered(d)) + 1
    BY <1>4, <1>7, FS_AddElement
<1>9. Cardinality(Numbered(d)) \in Nat
    BY <1>7, FS_CardinalityType
<1>10. d.seq <= Cardinality(Numbered(d)) + 1 /\ d.seq \in 1 .. MaxEdits + 1
    BY PageTyped DEF DocInv, Budget
<1>11. d.seq \in 1 .. MaxEdits
    BY <1>7, <1>8, <1>9, <1>10, OfflineConstants
<1>12. Budget(Taken(d))
    BY <1>1, <1>8, <1>9, <1>10 DEF Budget
<1> QED
    BY <1>2, <1>3, <1>11, <1>12

\* A number that is not in use, or the one the op has.
LEMMA NumberIs ==
    ASSUME StoreType, Server, NEW d, DocInv(d), CanFlush(d)
    PROVE  /\ Number(d) \in Ops /\ Number(d).id = First(d).id /\ Number(d).seq # 0
           /\ ~ New(d) => Number(d) = First(d)
           /\ New(d) => \A a \in AllOps(d) : ~ SameNumber(a, Number(d))
           /\ Ahead(Number(d), d.version) /\ Known(Number(d))
<1>1. CASE ~ New(d)
    BY <1>1, FirstIs DEF Number, New
<1>2. CASE New(d)
    <2>1. Number(d) = Op(First(d).id, Page, d.seq)
        BY <1>2 DEF Number
    <2>2. /\ Number(d).id = First(d).id /\ Number(d).src = Page /\ Number(d).seq = d.seq
          /\ d.seq \in 1 .. MaxEdits
        BY <1>2, <2>1, NumberLeft DEF Op
    <2>3. Number(d) \in Ops /\ Number(d).seq # 0
        BY <2>1, <2>2, FirstIs, Typed, OfflineConstants DEF Op, Ops, Srcs, Seqs
    <2>4. d.open
        BY DEF DocInv, Shape, CanFlush, ClosedPage
    <2>5. ASSUME NEW a \in AllOps(d), SameNumber(a, Number(d)) PROVE FALSE
        <3>1. a.src = Page /\ a.seq = d.seq
            BY <2>2, <2>5 DEF SameNumber
        <3>2. a.seq < d.seq
            BY <2>4, <3>1 DEF DocInv, Numbers, Issued
        <3> QED
            BY <2>2, <3>1, <3>2
    <2>6. Ahead(Number(d), d.version)
        <3>1. \A n \in DOMAIN log : log[n] \in AllOps(d)
            BY DEF AllOps, Gone, OpsIn
        <3> QED
            BY <2>5, <3>1 DEF Ahead
    <2>7. ASSUME NEW a \in Gone, a.id = First(d).id, First(d).id \notin exposed PROVE FALSE
        <3>1. a = First(d) /\ a.seq = 0
            BY <1>2, <2>7, FirstIs DEF Known, New
        <3>2. \A m \in wire : m.op.seq # 0
            BY DEF Server
        <3>3. PICK i \in DOMAIN log : a = log[i]
            BY <2>7, <3>1, <3>2 DEF Gone, OpsIn
        <3>4. a.id \in RemoteEdits
            BY <3>1, <3>3 DEF Server
        <3> QED
            BY <2>7, <3>4, FirstIs, OfflineConstants
    <2>8. Known(Number(d))
        BY <2>2, <2>7 DEF Known
    <2> QED
        BY <1>2, <2>2, <2>3, <2>5, <2>6, <2>8
<1> QED
    BY <1>1, <1>2

\* The parts of a page whose first op is in flight.
LEMMA TakenIs ==
    ASSUME StoreType, Server, NEW d, DocInv(d), CanFlush(d)
    PROVE  /\ Taken(d).open = d.open /\ Taken(d).loaded = d.loaded
           /\ Taken(d).version = d.version /\ Taken(d).data = d.data
           /\ Taken(d).inflight = <<Number(d)>> /\ Taken(d).pending = Tail(d.pending)
           /\ Taken(d).seq = (IF New(d) THEN d.seq + 1 ELSE d.seq)
           /\ Taken(d).out = d.out /\ Taken(d).puts = d.puts
           /\ Taken(d).connected = d.connected /\ Taken(d).reply = d.reply
           /\ Taken(d).ready = d.ready /\ Taken(d).wants = d.wants
           /\ Taken(d).inflight \in Seq(Ops)
           /\ All(Taken(d)) \in Seq(Ops) /\ All(Taken(d)) # <<>>
           /\ All(Taken(d))[1] = Number(d) /\ Tail(All(Taken(d))) = Tail(d.pending)
<1>1. /\ Taken(d).open = d.open /\ Taken(d).loaded = d.loaded
      /\ Taken(d).version = d.version /\ Taken(d).data = d.data
      /\ Taken(d).inflight = <<Number(d)>> /\ Taken(d).pending = Tail(d.pending)
      /\ Taken(d).seq = (IF New(d) THEN d.seq + 1 ELSE d.seq)
      /\ Taken(d).out = d.out /\ Taken(d).puts = d.puts
      /\ Taken(d).connected = d.connected /\ Taken(d).reply = d.reply
      /\ Taken(d).ready = d.ready /\ Taken(d).wants = d.wants
    BY DEF Taken, DocInv, DocType
<1>2. /\ <<Number(d)>> \in Seq(Ops) /\ Len(<<Number(d)>>) = 1 /\ <<Number(d)>> # <<>>
      /\ <<Number(d)>>[1] = Number(d)
    BY NumberIs
<1>3. Tail(d.pending) \in Seq(Ops)
    BY FirstIs
<1>4. /\ All(Taken(d)) \in Seq(Ops) /\ All(Taken(d)) # <<>>
      /\ All(Taken(d))[1] = Number(d) /\ Tail(All(Taken(d))) = Tail(d.pending)
    BY <1>1, <1>2, <1>3, SentAndPending
<1> QED
    BY <1>1, <1>2, <1>4

\* The number is in use from here on.
LEMMA TakenNumbers ==
    ASSUME StoreType, Server, NEW d, DocInv(d), CanFlush(d)
    PROVE  Numbers(Taken(d))
<1>1. AllOps(Taken(d)) \subseteq AllOps(d) \cup {Number(d)}
    <2>1. OpsIn(All(Taken(d))) = {Number(d)} \cup OpsIn(Tail(d.pending))
        <3>1. /\ All(Taken(d)) \in Seq(Ops) /\ All(Taken(d)) # <<>>
              /\ All(Taken(d))[1] = Number(d) /\ Tail(All(Taken(d))) = Tail(d.pending)
            BY TakenIs, Zenon
        <3>2. OpsIn(All(Taken(d))) = {All(Taken(d))[1]} \cup OpsIn(Tail(All(Taken(d))))
            BY <3>1, FirstAndRest, Zenon
        <3> QED
            BY <3>1, <3>2, Zenon
    <2>2. OpsIn(Tail(d.pending)) \subseteq OpsIn(All(d))
        BY FirstIs
    <2> QED
        BY <2>1, <2>2, TakenIs DEF AllOps
<1>2. CASE ~ New(d)
    <2>1. AllOps(Taken(d)) \subseteq AllOps(d)
        BY <1>1, <1>2, NumberIs, FirstIs
    <2> QED
        BY <1>2, <2>1, TakenIs, FewerNumbers DEF DocInv
<1>3. CASE New(d)
    <2>1. d.seq \in 1 .. MaxEdits /\ Taken(d).seq = d.seq + 1
        BY <1>3, NumberLeft, TakenIs
    <2>2. d.open /\ Page # 0
        BY DEF DocInv, Shape, CanFlush, ClosedPage
    <2>3. ASSUME NEW a \in AllOps(d) PROVE Issued(a, Taken(d))
        <3>1. Issued(a, d)
            BY DEF DocInv, Numbers
        <3>2. d.open /\ a.src = Page => a.seq < d.seq + 1
            <4>1. ASSUME d.open, a.src = Page PROVE a.seq < d.seq
                BY <3>1, <4>1 DEF Issued
            <4>2. a.seq \in Nat
                BY AllOpsTyped DEF DocInv
            <4> QED
                BY <4>1, <4>2, <2>1
        <3> QED
            BY <2>1, <3>1, <3>2, TakenIs DEF Issued
    <2>4. Issued(Number(d), Taken(d))
        <3>1. /\ Number(d).id \in Edits /\ Number(d).src = Page /\ Number(d).seq = d.seq
            BY <1>3, FirstIs DEF Number, Op
        <3> QED
            BY <2>1, <2>2, <3>1, Typed DEF Issued
    <2>5. \A a \in AllOps(d) : ~ SameNumber(a, Number(d)) /\ ~ SameNumber(Number(d), a)
        BY <1>3, NumberIs DEF SameNumber
    <2> QED
        BY <1>1, <2>3, <2>4, <2>5 DEF DocInv, Numbers
<1> QED
    BY <1>2, <1>3

\* The first op is given its number and taken to be sent.
LEMMA TakenKeeps ==
    ASSUME StoreType, Server, NEW d, DocInv(d), CanFlush(d)
    PROVE  DocInv(Taken(d))
<1> DEFINE all == All(Taken(d))
<1>1. /\ Once(all) /\ OnlyFirstSent(all)
      /\ OpsIn(all) = {Number(d)} \cup OpsIn(Tail(d.pending))
      /\ IdsOf(all) = IdsOf(All(d))
    <2>1. /\ all \in Seq(Ops) /\ all # <<>>
          /\ all[1] = Number(d) /\ Tail(all) = Tail(d.pending)
        BY TakenIs, Zenon
    <2>2. /\ d.pending \in Seq(Ops) /\ d.pending # <<>> /\ All(d) = d.pending
          /\ Once(d.pending) /\ OnlyFirstSent(d.pending)
        BY FirstIs, Zenon
    <2>3. all[1].id = d.pending[1].id
        BY <2>1, NumberIs DEF First
    <2>4. /\ Once(all) /\ OnlyFirstSent(all)
          /\ OpsIn(all) = {all[1]} \cup OpsIn(Tail(d.pending))
          /\ IdsOf(all) = IdsOf(d.pending)
        BY <2>1, <2>2, <2>3, FirstReplaced, Zenon
    <2> QED
        BY <2>1, <2>2, <2>4, Zenon
<1>2. /\ Current(Taken(d)).pendingOps = all /\ Current(Taken(d)).data = d.data
      /\ Current(Taken(d)).v = d.version /\ Current(d).pendingOps = All(d)
      /\ Current(d).data = d.data /\ Current(d).v = d.version
    BY TakenIs DEF Current
<1>3. OpsIn(Tail(d.pending)) \subseteq OpsIn(All(d))
    BY FirstIs
<1>4. DocType(Taken(d))
    <2>1. /\ Taken(d).pending \in Seq(Ops) /\ Taken(d).inflight \in Seq(Ops)
        <3>1. Taken(d).pending = Tail(d.pending) /\ Taken(d).inflight \in Seq(Ops)
            BY TakenIs, Zenon
        <3>2. Tail(d.pending) \in Seq(Ops)
            BY FirstIs, Zenon
        <3> QED
            BY <3>1, <3>2, Zenon
    <2>2. Taken(d).seq \in 1 .. MaxEdits + 1
        <3>1. d.seq \in 1 .. MaxEdits + 1
            BY PageTyped DEF DocInv
        <3> QED
            BY <3>1, NumberLeft, TakenIs, OfflineConstants
    <2> QED
        BY <2>1, <2>2, TakenIs DEF DocInv, DocType, Taken
<1>5. Shape(Taken(d))
    <2>1. d.reply = "none" /\ d.open
        BY DEF DocInv, Shape, CanFlush, ClosedPage
    <2>2. Taken(d).inflight[1].seq # 0 /\ Len(Taken(d).inflight) = 1
        <3>1. Taken(d).inflight = <<Number(d)>> /\ Number(d).seq # 0
            BY TakenIs, NumberIs, Zenon
        <3> QED
            BY <3>1
    <2> QED
        BY <2>1, <2>2, TakenIs DEF DocInv, Shape, CanFlush
<1>6. Shown(Taken(d))
    <2>1. Plain(Current(Taken(d)))
        <3>1. \A op \in OpsIn(all) : Seen(Current(Taken(d)), op)
            BY <1>1, <1>2, <1>3, FirstIs, NumberIs DEF DocInv, Shown, Plain, Seen
        <3> QED
            BY <1>1, <1>2, <3>1 DEF DocInv, Shown, Plain
    <2>2. Recognised(Current(Taken(d)))
        BY <1>1, <1>2, <1>3, NumberIs DEF DocInv, Shown, Recognised
    <2>3. d.loaded => Holds(kept, Current(Taken(d)))
        BY <1>1, <1>2 DEF DocInv, Shown, Holds
    <2> QED
        BY <2>1, <2>2, <2>3, TakenIs DEF Shown
<1>7. Puts(Taken(d))
    BY <1>1, <1>2, TakenIs DEF DocInv, Puts, Holds
<1>8. Outgoing(Taken(d))
    <2>1. ASSUME NEW m \in d.out PROVE Only(m.op, Current(Taken(d)))
        <3>1. Only(m.op, Current(d)) /\ m.op.seq # 0
            BY DEF DocInv, Outgoing
        <3>2. First(d).id = m.op.id => First(d) = m.op
            BY <1>2, <3>1, FirstIs DEF Only
        <3> QED
            BY <1>1, <1>2, <1>3, <3>1, <3>2, NumberIs DEF Only, New
    <2> QED
        BY <2>1, TakenIs DEF DocInv, Outgoing
<1>9. Budget(Taken(d))
    <2>1. CASE ~ New(d)
        <3>1. ToNumber(Taken(d)) = ToNumber(d)
            <4>1. /\ Taken(d).pending = Tail(d.pending)
                  /\ OpsIn(d.pending) = {First(d)} \cup OpsIn(Tail(d.pending))
                BY TakenIs, FirstIs, Zenon
            <4> QED
                BY <2>1, <4>1 DEF ToNumber, New
        <3> QED
            BY <2>1, <3>1, TakenIs DEF DocInv, Budget, Numbered
    <2> QED
        BY <2>1, NumberLeft
<1> QED
    BY <1>4, <1>5, <1>6, <1>7, <1>8, <1>9, TakenNumbers DEF DocInv

(* ... the record is written, and the message is given to the socket. *)

Given(d) == UpdateOfflineData(Taken(d), FALSE)
Message(d) ==
    [op |-> Number(d), v |-> d.version, stored |-> UpdateNeeded(Taken(d), FALSE),
     after |-> IF UpdateNeeded(Taken(d), FALSE) THEN Len(Given(d).puts) ELSE 0]
Posted(d) == [Given(d) EXCEPT !.out = @ \cup {Message(d)}]

\* Flush does nothing, or it takes, writes and gives the op to the socket.
LEMMA FlushIs ==
    ASSUME StoreType, Server, NEW d, DocInv(d)
    PROVE  /\ ~ CanFlush(d) => Flush(d) = d
           /\ CanFlush(d) => Flush(d) = Posted(d)
<1>1. ~ CanFlush(d) => Flush(d) = d
    BY DEF CanFlush, Flush
<1>2. ASSUME CanFlush(d) PROVE Flush(d) = Posted(d)
    <2> USE <1>2
    <2> DEFINE op == Head(d.pending)
               sent == [op EXCEPT !.seq = IF op.seq = 0 THEN d.seq ELSE @]
               numbered == [sent EXCEPT !.src = IF @ = 0 THEN Page ELSE @]
               d1 == [d EXCEPT !.pending = Tail(@), !.inflight = <<sent>>,
                               !.seq = IF op.seq = 0 THEN @ + 1 ELSE @]
               d2 == UpdateOfflineData(d1, FALSE)
               stored == UpdateNeeded(d1, FALSE)
    <2>1. Flush(d) = [d2 EXCEPT !.inflight = <<numbered>>,
                                !.out = @ \cup {[op |-> numbered, v |-> d.version,
                                                 stored |-> stored,
                                                 after |-> IF stored THEN Len(d2.puts) ELSE 0]}]
        BY DEF CanFlush, Flush
    <2>2. op = First(d) /\ op \in [id : Ids, src : Srcs, seq : Seqs] /\ (op.seq = 0 <=> op.src = 0)
        BY FirstIs DEF Ops
    <2>3. numbered = Number(d)
        <3>1. CASE op.seq = 0
            <4>1. sent = [id |-> op.id, src |-> 0, seq |-> d.seq]
                BY <2>2, <3>1
            <4> HIDE DEF sent, op
            <4>2. numbered = [sent EXCEPT !.src = Page]
                BY <4>1
            <4> HIDE DEF numbered
            <4>3. numbered = [id |-> op.id, src |-> Page, seq |-> d.seq]
                BY <4>1, <4>2
            <4> QED
                BY <2>2, <3>1, <4>3 DEF Number, New, Op
        <3>2. CASE op.seq # 0
            <4>1. sent = op
                BY <2>2, <3>2
            <4>2. numbered = op
                BY <2>2, <3>2, <4>1
            <4> QED
                BY <2>2, <3>2, <4>2 DEF Number, New
        <3> QED
            BY <3>1, <3>2
    <2>4. sent.src = op.src /\ (sent.src # 0 => numbered = sent)
          /\ (sent.src = 0 => numbered = [sent EXCEPT !.src = Page])
        BY <2>2
    <2> HIDE DEF numbered, sent, op
    <2>5. /\ d1.inflight = <<sent>> /\ d1.pending = Tail(d.pending)
          /\ d1.loaded = d.loaded /\ d1.subscribedState = d.subscribedState
          /\ d1.counted = d.counted /\ d1.saved = d.saved /\ d1.version = d.version
          /\ d1.offlineSnapshotVersion = d.offlineSnapshotVersion /\ d1.data = d.data
          /\ d1.puts = d.puts
        BY DEF DocInv, DocType
    <2>6. [d1 EXCEPT !.inflight = <<numbered>>] = Taken(d)
        BY <2>2, <2>3 DEF DocInv, DocType, Taken, New
    <2>7. PendingOps(d1) = All(Taken(d))
        <3>1. [i \in DOMAIN <<sent>> |->
                  IF <<sent>>[i].src = 0 THEN [<<sent>>[i] EXCEPT !.src = Page] ELSE <<sent>>[i]]
              = <<numbered>>
            BY <2>4
        <3>2. /\ Taken(d).inflight = <<numbered>> /\ Taken(d).pending = Tail(d.pending)
            BY <2>3, TakenIs
        <3> QED
            BY <2>5, <3>1, <3>2 DEF PendingOps, All
    <2>8. PendingOps(Taken(d)) = All(Taken(d))
        BY TakenKeeps, PendingIsAll DEF DocInv
    <2>9. /\ Taken(d).loaded = d.loaded /\ Taken(d).subscribedState = d.subscribedState
          /\ Taken(d).counted = d.counted /\ Taken(d).saved = d.saved
          /\ Taken(d).version = d.version /\ Taken(d).data = d.data /\ Taken(d).puts = d.puts
          /\ Taken(d).offlineSnapshotVersion = d.offlineSnapshotVersion
        BY DEF DocInv, DocType, Taken
    <2>10. stored = UpdateNeeded(Taken(d), FALSE)
        BY <2>5, <2>7, <2>8, <2>9 DEF UpdateNeeded, Subscribed
    <2>11. CASE ~ stored
        <3>1. d2 = d1 /\ Given(d) = Taken(d) /\ Message(d).after = 0
            BY <2>10, <2>11 DEF UpdateOfflineData, Given, Message
        <3> HIDE DEF d1, d2, stored
        <3>2. Flush(d) = [[d1 EXCEPT !.inflight = <<numbered>>] EXCEPT !.out = @ \cup {Message(d)}]
            BY <2>1, <2>3, <2>10, <2>11, <3>1 DEF Message
        <3> QED
            BY <2>6, <3>1, <3>2 DEF Posted
    <2>12. CASE stored
        <3> DEFINE put == [v |-> d.version, data |-> d.data,
                           pendingOps |-> All(Taken(d)), there |-> TRUE]
        <3>1. /\ d2 = [d1 EXCEPT !.saved = TRUE, !.offlineSnapshotVersion = d.version,
                                 !.puts = Append(d.puts, put)]
              /\ Given(d) = [Taken(d) EXCEPT !.saved = TRUE, !.offlineSnapshotVersion = d.version,
                                             !.puts = Append(d.puts, put)]
            BY <2>5, <2>7, <2>8, <2>9, <2>10, <2>12 DEF UpdateOfflineData, Given
        <3> HIDE DEF put
        <3>2. /\ d2.puts = Append(d.puts, put) /\ Given(d).puts = Append(d.puts, put)
            BY <3>1 DEF DocInv, DocType, Taken
        <3>3. [d2 EXCEPT !.inflight = <<numbered>>] = Given(d)
            <4>1. ASSUME NEW x, NEW i, NEW v, NEW p
                  PROVE  [[x EXCEPT !.saved = TRUE, !.offlineSnapshotVersion = v, !.puts = p]
                              EXCEPT !.inflight = i]
                         = [[x EXCEPT !.inflight = i]
                              EXCEPT !.saved = TRUE, !.offlineSnapshotVersion = v, !.puts = p]
                OBVIOUS
            <4> HIDE DEF d1, d2
            <4> QED
                BY <2>6, <3>1, <4>1
        <3> HIDE DEF d1, d2, stored
        <3>4. Flush(d) = [[d2 EXCEPT !.inflight = <<numbered>>] EXCEPT !.out = @ \cup {Message(d)}]
            BY <2>1, <2>3, <2>10, <2>12, <3>2 DEF Message
        <3> QED
            BY <3>3, <3>4 DEF Posted
    <2> QED
        BY <2>11, <2>12
<1> QED
    BY <1>1, <1>2

\* The parts of a page that has given its op to the socket.
LEMMA GivenIs ==
    ASSUME StoreType, Server, NEW d, DocInv(d), CanFlush(d)
    PROVE  /\ DocInv(Given(d))
           /\ Given(d).open = d.open /\ Given(d).loaded = d.loaded
           /\ Given(d).version = d.version /\ Given(d).data = d.data
           /\ Given(d).inflight = <<Number(d)>> /\ Given(d).out = d.out
           /\ Given(d).ready = d.ready /\ Given(d).wants = d.wants
           /\ Given(d).connected /\ Given(d).reply = d.reply
           /\ All(Given(d)) = All(Taken(d)) /\ Current(Given(d)) = Current(Taken(d))
           /\ UpdateNeeded(Taken(d), FALSE) =>
                  /\ Len(Given(d).puts) \in Nat \ {0}
                  /\ Given(d).puts[Len(Given(d).puts)] = Current(Taken(d))
<1>1. DocInv(Taken(d)) /\ DocInv(Given(d))
    BY TakenKeeps, UpdateKeeps DEF Given
<1>2. /\ ~ UpdateNeeded(Taken(d), FALSE) => Given(d) = Taken(d)
      /\ UpdateNeeded(Taken(d), FALSE) => Given(d) = Wrote(Taken(d))
    BY <1>1, UpdateIs DEF Given, DocInv
<1>3. UpdateNeeded(Taken(d), FALSE) =>
          /\ Len(Given(d).puts) \in Nat \ {0}
          /\ Given(d).puts[Len(Given(d).puts)] = Current(Taken(d))
    <2> SUFFICES ASSUME UpdateNeeded(Taken(d), FALSE)
                 PROVE  /\ Len(Given(d).puts) \in Nat \ {0}
                        /\ Given(d).puts[Len(Given(d).puts)] = Current(Taken(d))
        OBVIOUS
    <2>1. Taken(d).puts \in Seq(Records) /\ Current(Taken(d)) \in Records
        BY <1>1, PageTyped DEF DocInv
    <2>2. Given(d).puts = Append(Taken(d).puts, Current(Taken(d)))
        BY <1>1, <1>2, WroteIs DEF DocInv
    <2>3. /\ Len(Given(d).puts) = Len(Taken(d).puts) + 1
          /\ Given(d).puts[Len(Taken(d).puts) + 1] = Current(Taken(d))
          /\ Len(Taken(d).puts) \in Nat
        BY <2>1, <2>2, AppendProperties, LenProperties
    <2> QED
        BY <2>3
<1>4. /\ Given(d).open = Taken(d).open /\ Given(d).loaded = Taken(d).loaded
      /\ Given(d).version = Taken(d).version /\ Given(d).data = Taken(d).data
      /\ Given(d).inflight = Taken(d).inflight /\ Given(d).out = Taken(d).out
      /\ Given(d).ready = Taken(d).ready /\ Given(d).wants = Taken(d).wants
      /\ Given(d).connected = Taken(d).connected /\ Given(d).reply = Taken(d).reply
      /\ All(Given(d)) = All(Taken(d)) /\ Current(Given(d)) = Current(Taken(d))
    BY <1>1, <1>2, WroteIs DEF DocInv
<1>5. d.connected
    BY DEF CanFlush
<1> QED
    BY <1>1, <1>3, <1>4, <1>5, TakenIs

\* Giving the op to the socket keeps the invariant of a page.
LEMMA PostedKeeps ==
    ASSUME StoreType, Server, NEW d, DocInv(d), CanFlush(d)
    PROVE  DocInv(Posted(d)) /\ Flushed(Posted(d))
<1> DEFINE g == Given(d)
           p == Posted(d)
<1>1. DocInv(g)
    BY GivenIs
<1>2. /\ p.open = g.open /\ p.loaded = g.loaded /\ p.version = g.version /\ p.data = g.data
      /\ p.inflight = g.inflight /\ p.pending = g.pending /\ p.seq = g.seq
      /\ p.ready = g.ready /\ p.wants = g.wants /\ p.connected = g.connected
      /\ p.reply = g.reply /\ p.puts = g.puts /\ p.out = g.out \cup {Message(d)}
    BY <1>1 DEF Posted, DocInv, DocType
<1>3. All(p) = All(g) /\ Current(p) = Current(g)
    BY <1>2 DEF All, Current
<1>4. /\ Message(d).op = Number(d) /\ Message(d).v = d.version
      /\ Message(d).stored = UpdateNeeded(Taken(d), FALSE)
      /\ Message(d).after = IF UpdateNeeded(Taken(d), FALSE) THEN Len(g.puts) ELSE 0
    BY DEF Message
<1>5. PICK n \in Nat : n = Len(g.puts) /\ DOMAIN g.puts = 1 .. n
    BY <1>1, PageTyped DEF DocInv
<1>6. Number(d) \in OpsIn(All(g))
    <2>1. /\ All(g) \in Seq(Ops) /\ All(g) # <<>> /\ All(g)[1] = Number(d)
        BY GivenIs, TakenIs
    <2> QED
        BY <2>1, FirstAndRest
<1>7. DocType(p)
    <2>1. UpdateNeeded(Taken(d), FALSE) \in BOOLEAN
        BY DEF UpdateNeeded
    <2>2. d.version \in 0 .. Version /\ Number(d) \in Ops
        BY PageTyped, NumberIs DEF DocInv
    <2>3. Message(d) \in Sends
        BY <1>5, <2>1, <2>2 DEF Message, Sends
    <2> QED
        BY <1>1, <2>3 DEF Posted, DocInv, DocType
<1>8. Shape(p)
    <2>1. p.loaded /\ p.open
        <3>1. d.loaded /\ d.open
            BY DEF CanFlush, DocInv, Shape, ClosedPage
        <3> QED
            BY <1>2, <3>1, GivenIs
    <2> QED
        BY <1>1, <1>2, <2>1 DEF DocInv, Shape
<1>9. Shown(p) /\ Puts(p) /\ Budget(p)
    BY <1>1, <1>2, <1>3 DEF DocInv, Shown, Puts, Budget, Numbered, ToNumber
<1>10. Numbers(p)
    <2>1. AllOps(p) \subseteq AllOps(g)
        BY <1>2, <1>3, <1>4, <1>6 DEF AllOps
    <2> QED
        BY <1>1, <1>2, <2>1, FewerNumbers DEF DocInv
<1>11. Outgoing(p)
    <2>1. /\ Number(d).seq # 0 /\ Ahead(Number(d), d.version) /\ Known(Number(d))
          /\ Number(d).id \in g.data \cup refused
        BY NumberIs, FirstIs, GivenIs
    <2>2. Only(Number(d), Current(g))
        <3>1. OpsIn(Current(g).pendingOps) = {Number(d)} \cup OpsIn(Tail(d.pending))
            <4>1. /\ Current(g).pendingOps = All(Taken(d)) /\ All(Taken(d)) \in Seq(Ops)
                  /\ All(Taken(d)) # <<>> /\ All(Taken(d))[1] = Number(d)
                  /\ Tail(All(Taken(d))) = Tail(d.pending)
                BY GivenIs, TakenIs DEF Current
            <4> QED
                BY <4>1, FirstAndRest
        <3> QED
            BY <3>1, FirstIs, NumberIs DEF Only
    <2>3. Message(d).stored =>
              \A i \in DOMAIN g.puts : i >= Message(d).after => Only(Number(d), g.puts[i])
        <3> SUFFICES ASSUME Message(d).stored, NEW i \in DOMAIN g.puts, i >= Message(d).after
                     PROVE  Only(Number(d), g.puts[i])
            OBVIOUS
        <3>1. Message(d).after = n
            BY <1>4, <1>5
        <3>2. i = n
            BY <1>5, <3>1
        <3>3. g.puts[n] = Current(g)
            BY <1>4, <1>5, GivenIs
        <3> QED
            BY <2>2, <3>2, <3>3
    <2>4. Message(d).after <= Len(g.puts) /\ (Message(d).stored => Message(d).after # 0)
        <3>1. UpdateNeeded(Taken(d), FALSE) => n # 0
            BY <1>5, GivenIs
        <3>2. Message(d).after = (IF UpdateNeeded(Taken(d), FALSE) THEN n ELSE 0)
            BY <1>4, <1>5
        <3>3. Message(d).after \in {0, n}
            BY <3>2, Zenon
        <3>4. Message(d).after <= n
            BY <3>3
        <3> QED
            BY <1>4, <1>5, <3>1, <3>2, <3>4
    <2>5. ASSUME NEW m \in g.out, m.op.id = Number(d).id PROVE m.op = Number(d)
        <3>1. Only(m.op, Current(g))
            BY <1>1 DEF DocInv, Outgoing
        <3> QED
            BY <1>6, <2>5, <3>1 DEF Only, Current
    <2>6. \A m, k \in p.out : m.op.id = k.op.id => m.op = k.op
        BY <1>1, <1>2, <1>4, <2>5 DEF DocInv, Outgoing
    <2>7. ASSUME NEW m \in p.out
          PROVE  /\ m.op.seq # 0 /\ Ahead(m.op, m.v) /\ Known(m.op)
                 /\ m.op.id \in p.data \cup refused
                 /\ m.after <= Len(p.puts)
                 /\ Only(m.op, Current(p))
                 /\ m.stored => \A i \in DOMAIN p.puts : i >= m.after => Only(m.op, p.puts[i])
                 /\ m.stored /\ m.after = 0 => Only(m.op, record)
        <3>1. CASE m \in g.out
            BY <1>1, <1>2, <1>3, <3>1 DEF DocInv, Outgoing
        <3>2. CASE m = Message(d)
            BY <1>2, <1>3, <1>4, <2>1, <2>2, <2>3, <2>4, <3>2
        <3> QED
            BY <1>2, <3>1, <3>2
    <2> QED
        BY <2>6, <2>7 DEF Outgoing
<1>12. Flushed(p)
    <2>1. p.inflight = <<Number(d)>>
        BY <1>2, GivenIs
    <2> QED
        BY <2>1 DEF Flushed
<1> QED
    BY <1>7, <1>8, <1>9, <1>10, <1>11, <1>12 DEF DocInv

\* Flushing keeps the invariant, and sends what can be sent.
LEMMA FlushKeeps ==
    ASSUME StoreType, Server, NEW d, DocInv(d)
    PROVE  DocInv(Flush(d)) /\ Flushed(Flush(d))
<1>1. CASE CanFlush(d)
    BY <1>1, FlushIs, PostedKeeps
<1>2. CASE ~ CanFlush(d)
    BY <1>2, FlushIs DEF CanFlush, Flushed
<1> QED
    BY <1>1, <1>2

(* submit *)

Edited(d, e) ==
    [d EXCEPT !.data = @ \cup {e}, !.fresh = @ \cup {e}, !.pending = Append(@, Op(e, 0, 0))]

\* The parts of a page with an edit more.
LEMMA EditedIs ==
    ASSUME StoreType, NEW d, DocInv(d), NEW e \in Edits
    PROVE  /\ Edited(d, e).open = d.open /\ Edited(d, e).loaded = d.loaded
           /\ Edited(d, e).version = d.version /\ Edited(d, e).data = d.data \cup {e}
           /\ Edited(d, e).inflight = d.inflight /\ Edited(d, e).seq = d.seq
           /\ Edited(d, e).pending = Append(d.pending, Op(e, 0, 0))
           /\ Edited(d, e).puts = d.puts /\ Edited(d, e).out = d.out
           /\ Edited(d, e).connected = d.connected /\ Edited(d, e).reply = d.reply
           /\ Edited(d, e).ready = d.ready /\ Edited(d, e).wants = d.wants
           /\ Op(e, 0, 0) \in Ops /\ Op(e, 0, 0).id = e
           /\ Op(e, 0, 0).seq = 0 /\ Op(e, 0, 0).src = 0
<1>1. /\ Edited(d, e).open = d.open /\ Edited(d, e).loaded = d.loaded
      /\ Edited(d, e).version = d.version /\ Edited(d, e).data = d.data \cup {e}
      /\ Edited(d, e).inflight = d.inflight /\ Edited(d, e).seq = d.seq
      /\ Edited(d, e).pending = Append(d.pending, Op(e, 0, 0))
      /\ Edited(d, e).puts = d.puts /\ Edited(d, e).out = d.out
      /\ Edited(d, e).connected = d.connected /\ Edited(d, e).reply = d.reply
      /\ Edited(d, e).ready = d.ready /\ Edited(d, e).wants = d.wants
    BY DEF Edited, DocInv, DocType
<1>2. /\ Op(e, 0, 0) \in Ops /\ Op(e, 0, 0).id = e
      /\ Op(e, 0, 0).seq = 0 /\ Op(e, 0, 0).src = 0
    BY OfflineConstants DEF Op, Ops, Ids, Srcs, Seqs
<1> QED
    BY <1>1, <1>2

\* Its ops are those there were and the new one.
LEMMA EditedOps ==
    ASSUME StoreType, NEW d, DocInv(d), NEW e \in Edits
    PROVE  /\ All(Edited(d, e)) = Append(All(d), Op(e, 0, 0))
           /\ OpsIn(All(Edited(d, e))) = OpsIn(All(d)) \cup {Op(e, 0, 0)}
           /\ IdsOf(All(Edited(d, e))) = IdsOf(All(d)) \cup {e}
           /\ OpsIn(Edited(d, e).pending) = OpsIn(d.pending) \cup {Op(e, 0, 0)}
<1>1. d.inflight \in Seq(Ops) /\ d.pending \in Seq(Ops) /\ All(d) \in Seq(Ops)
    BY PageTyped DEF DocInv
<1>2. PICK op \in Ops : op = Op(e, 0, 0) /\ op.id = e
    BY EditedIs
<1>3. Edited(d, e).inflight = d.inflight /\ Edited(d, e).pending = Append(d.pending, op)
    BY <1>2, EditedIs
<1>4. All(Edited(d, e)) = Append(All(d), op)
    <2>1. /\ Append(d.pending, op) = d.pending \o <<op>>
          /\ Append(All(d), op) = All(d) \o <<op>>
        BY <1>1, AppendIsConcat
    <2>2. \A s, t, u \in Seq(Ops) : (s \o t) \o u = s \o (t \o u)
        BY ConcatAssociative
    <2>3. (d.inflight \o d.pending) \o <<op>> = d.inflight \o (d.pending \o <<op>>)
        <3>1. <<op>> \in Seq(Ops)
            OBVIOUS
        <3> QED
            BY <1>1, <2>2, <3>1
    <2> QED
        BY <1>3, <2>1, <2>3 DEF All
<1> QED
    BY <1>1, <1>2, <1>3, <1>4, OneMore

\* A new edit keeps the invariant of a page, but for its being flushed.
LEMMA EditedKeeps ==
    ASSUME StoreType, Server, NEW d, DocInv(d), d.loaded, NEW e \in Edits,
           e \notin IdsOf(log) \cup kept \cup d.data \cup refused \cup {m.op.id : m \in wire}
    PROVE  DocInv(Edited(d, e))
<1> DEFINE n == Edited(d, e)
           new == Op(e, 0, 0)
<1>1. /\ Current(n).v = d.version /\ Current(n).data = d.data \cup {e}
      /\ Current(n).pendingOps = All(n)
      /\ Current(d).v = d.version /\ Current(d).data = d.data
      /\ Current(d).pendingOps = All(d)
    BY EditedIs, EditedOps DEF Current
<1>2. \A op \in OpsIn(All(d)) : op.id \in Edits /\ op.id \in d.data \cup refused
    BY <1>1 DEF DocInv, Shown, Plain, Seen
<1>3. DocType(n)
    <2>1. n.pending \in Seq(Ops)
        <3>1. d.pending \in Seq(Ops)
            BY PageTyped DEF DocInv
        <3>2. new \in Ops /\ n.pending = Append(d.pending, new)
            BY EditedIs, EditedOps
        <3> QED
            BY <3>1, <3>2, OneMore
    <2>2. e \in Ids
        BY OfflineConstants
    <2> QED
        BY <2>1, <2>2 DEF DocInv, DocType, Edited
<1>4. Shape(n)
    BY EditedIs, EditedOps DEF DocInv, Shape, ClosedPage
<1>5. Shown(n)
    <2>1. Once(All(n)) /\ OnlyFirstSent(All(n))
        <3>1. e \notin IdsOf(All(d))
            BY <1>2 DEF IdsOf, OpsIn
        <3>2. All(d) \in Seq(Ops) /\ Once(All(d)) /\ OnlyFirstSent(All(d))
            BY <1>1, PageTyped DEF DocInv, Shown, Plain
        <3>3. All(n) = Append(All(d), new) /\ new \in Ops /\ new.id = e /\ new.seq = 0
            BY EditedIs, EditedOps
        <3> QED
            BY <3>1, <3>2, <3>3, LastAdded
    <2>2. Plain(Current(n))
        <3>1. \A op \in OpsIn(All(n)) : Seen(Current(n), op)
            BY <1>1, <1>2, EditedIs, EditedOps DEF Seen
        <3>2. Current(n).data \ exposed
                = (Prefix(Current(n).v) \cup IdsOf(Current(n).pendingOps)) \ exposed
            BY <1>1, EditedIs, EditedOps DEF DocInv, Shown, Plain
        <3> QED
            BY <1>1, <2>1, <3>1, <3>2 DEF DocInv, Shown, Plain
    <2>3. Recognised(Current(n))
        <3>1. Ahead(new, d.version)
            BY EditedIs, EditedOps DEF Ahead
        <3>2. \A a \in Gone : a.id # e
            BY DEF Gone, OpsIn, IdsOf
        <3>3. Known(new)
            BY <3>2, EditedIs, EditedOps DEF Known
        <3> QED
            BY <1>1, <3>1, <3>3, EditedIs, EditedOps DEF DocInv, Shown, Recognised
    <2>4. Holds(kept, Current(n))
        BY <1>1, EditedIs, EditedOps DEF DocInv, Shown, Holds
    <2> QED
        BY <2>2, <2>3, <2>4 DEF Shown
<1>6. Puts(n)
    BY <1>1, EditedIs, EditedOps DEF DocInv, Puts, Holds
<1>7. Outgoing(n)
    <2>1. ASSUME NEW m \in d.out
          PROVE  m.op.id \in n.data \cup refused /\ Only(m.op, Current(n))
        <3>1. m.op.id \in d.data \cup refused /\ Only(m.op, Current(d))
            BY DEF DocInv, Outgoing
        <3> QED
            BY <1>1, <3>1, EditedIs, EditedOps DEF Only
    <2> QED
        BY <2>1, EditedIs, EditedOps DEF DocInv, Outgoing
<1>8. Numbers(n)
    <2>1. AllOps(n) \subseteq AllOps(d) \cup {new}
        BY EditedIs, EditedOps DEF AllOps
    <2>2. Issued(new, n)
        <3>1. d.seq \in 1 .. MaxEdits + 1
            BY PageTyped DEF DocInv
        <3> QED
            BY <3>1, Typed, EditedIs, EditedOps DEF Issued
    <2>3. \A a \in AllOps(d) : Issued(a, n)
        BY EditedIs, EditedOps DEF DocInv, Numbers, Issued
    <2>4. \A a \in AllOps(d) : SameNumber(a, new) => a.seq = 0
        BY EditedIs, EditedOps DEF SameNumber
    <2> QED
        BY <2>1, <2>2, <2>3, <2>4, EditedIs, EditedOps DEF DocInv, Numbers
<1>9. Budget(n)
    <2>1. ToNumber(n) = ToNumber(d) \cup {e}
        <3>1. OpsIn(Edited(d, e).pending) = OpsIn(d.pending) \cup {Op(e, 0, 0)}
            BY EditedOps
        <3>2. new.id = e /\ new.seq = 0
            BY EditedIs, EditedOps
        <3> QED
            BY <3>1, <3>2 DEF ToNumber
    <2>2. Numbered(n) = Numbered(d)
        BY <2>1, EditedIs, EditedOps DEF Numbered
    <2> QED
        BY <2>2, EditedIs, EditedOps DEF DocInv, Budget
<1> QED
    BY <1>3, <1>4, <1>5, <1>6, <1>7, <1>8, <1>9 DEF DocInv

(* What the server has answered or sent. *)

\* More edits have left the page or been seen.
LEMMA BudgetGrows ==
    ASSUME StoreType, NEW d, NEW e, DocType(d), Shape(d), Budget(d), e.seq = d.seq,
           Numbered(d) \subseteq Numbered(e)
    PROVE  Budget(e)
<1>1. IsFiniteSet(Edits)
    BY OfflineConstants, FS_Interval DEF Edits
<1>2. Numbered(e) \in SUBSET Edits
    BY DEF Numbered
<1>3. IsFiniteSet(Numbered(e)) /\ IsFiniteSet(Numbered(d))
      /\ Cardinality(Numbered(d)) <= Cardinality(Numbered(e))
    <2>1. IsFiniteSet(Numbered(e))
        BY <1>1, <1>2, FS_Subset
    <2> QED
        BY <2>1, FS_Subset
<1>4. Cardinality(Numbered(d)) \in Nat /\ Cardinality(Numbered(e)) \in Nat
    BY <1>3, FS_CardinalityType
<1>5. d.seq \in 1 .. MaxEdits + 1
    BY PageTyped
<1> QED
    BY <1>3, <1>4, <1>5, OfflineConstants DEF Budget

\* A page that has less to send, as the server has applied or refused it.
Advanced(d, e) ==
    /\ e.open = d.open /\ e.loaded = d.loaded /\ e.seq = d.seq
    /\ e.puts = d.puts /\ e.out = d.out /\ e.pending = d.pending
    /\ OpsIn(All(e)) \subseteq OpsIn(All(d))
    /\ IdsOf(All(d)) \subseteq IdsOf(All(e)) \cup IdsOf(log) \cup refused
    /\ d.data \subseteq e.data \cup refused

\* Such a page keeps what does not depend on what it shows.
LEMMA AdvancedKeeps ==
    ASSUME StoreType, NEW d, DocInv(d), NEW e, Advanced(d, e)
    PROVE  /\ Puts(e) /\ Outgoing(e) /\ Numbers(e) /\ Budget(e)
           /\ e.loaded => Holds(kept, Current(e))
<1>1. \A ids : Holds(ids, Current(d)) => Holds(ids, Current(e))
    BY DEF Advanced, Holds, Current
<1>2. Puts(e)
    BY <1>1 DEF DocInv, Puts, Advanced
<1>3. \A op : Only(op, Current(d)) => Only(op, Current(e))
    BY DEF Advanced, Only, Current
<1>4. Outgoing(e)
    BY <1>3 DEF DocInv, Outgoing, Advanced
<1>5. Numbers(e)
    <2>1. AllOps(e) \subseteq AllOps(d)
        BY DEF Advanced, AllOps
    <2> QED
        BY <2>1, FewerNumbers DEF DocInv, Advanced
<1>6. Budget(e)
    <2>1. Numbered(d) \subseteq Numbered(e)
        BY DEF Advanced, Numbered, ToNumber
    <2> QED
        BY <2>1, BudgetGrows DEF DocInv, Advanced
<1>7. e.loaded => Holds(kept, Current(e))
    BY <1>1 DEF DocInv, Shown, Advanced
<1> QED
    BY <1>2, <1>4, <1>5, <1>6, <1>7

\* An op of another client.
Heard(d) == [d EXCEPT !.version = @ + 1, !.data = @ \cup {log[d.version + 1].id}]

\* The op of another client keeps the invariant of a page.
LEMMA HeardKeeps ==
    ASSUME StoreType, NEW d, DocInv(d), Flushed(d), d.connected, d.loaded, d.version < Version,
           d.inflight # <<>> => ~ SameNumber(d.inflight[1], log[d.version + 1])
    PROVE  DocInv(Heard(d)) /\ Flushed(Heard(d))
<1> DEFINE e == Heard(d)
           op == log[d.version + 1]
<1>1. /\ e.open = d.open /\ e.loaded = d.loaded /\ e.seq = d.seq
      /\ e.puts = d.puts /\ e.out = d.out /\ e.pending = d.pending
      /\ e.inflight = d.inflight /\ e.connected = d.connected /\ e.reply = d.reply
      /\ e.ready = d.ready /\ e.wants = d.wants
      /\ e.version = d.version + 1 /\ e.data = d.data \cup {op.id}
    BY DEF Heard, DocInv, DocType
<1>2. All(e) = All(d)
    BY <1>1 DEF All
<1>3. PICK v \in Nat : v = d.version /\ v < Version /\ v + 1 \in 1 .. Version /\ v + 1 \in 0 .. Version
    BY PageTyped, Typed DEF DocInv
<1>4. op \in Ops /\ op.id \in Ids
    BY <1>3, Typed DEF Ops
<1>5. DocType(e)
    <2>1. e.version \in 0 .. Version /\ e.data \in SUBSET Ids
        BY <1>1, <1>3, <1>4, PageTyped DEF DocInv
    <2> QED
        BY <2>1 DEF DocInv, DocType, Heard
<1>6. Shape(e)
    BY <1>1, <1>2 DEF DocInv, Shape, ClosedPage
<1>7. Advanced(d, e)
    BY <1>1, <1>2 DEF Advanced
<1>8. /\ Current(e).v = v + 1 /\ Current(e).data = d.data \cup {op.id}
      /\ Current(e).pendingOps = All(d) /\ Current(d).pendingOps = All(d)
      /\ Current(d).v = v /\ Current(d).data = d.data
    BY <1>1, <1>2, <1>3 DEF Current
<1>9. Plain(Current(e))
    <2>1. Prefix(v + 1) = Prefix(v) \cup {op.id}
        BY <1>3, PrefixGrows DEF StoreType
    <2>2. v + 1 <= Version
        BY <1>3
    <2>3. Current(e).data \ exposed
            = (Prefix(Current(e).v) \cup IdsOf(Current(e).pendingOps)) \ exposed
        BY <1>8, <2>1 DEF DocInv, Shown, Plain
    <2> QED
        BY <1>8, <2>2, <2>3 DEF DocInv, Shown, Plain, Seen
<1>10. Recognised(Current(e))
    <2>1. ASSUME NEW a \in OpsIn(All(d)), a.seq # 0 PROVE ~ SameNumber(op, a)
        <3>1. CASE d.inflight = <<>>
            <4>1. All(d) = <<>>
                BY <3>1, PageTyped, SentAndPending DEF DocInv, Flushed
            <4> QED
                BY <2>1, <4>1 DEF OpsIn
        <3>2. CASE d.inflight # <<>>
            <4>1. /\ All(d) \in Seq(Ops) /\ All(d) # <<>> /\ All(d)[1] = d.inflight[1]
                BY <3>2, PageTyped, SentAndPending DEF DocInv
            <4>2. Once(All(d)) /\ OnlyFirstSent(All(d))
                BY <1>8 DEF DocInv, Shown, Plain
            <4>3. a = d.inflight[1]
                BY <2>1, <4>1, <4>2, RestIsPlain, FirstAndRest
            <4> QED
                BY <1>3, <3>2, <4>3 DEF SameNumber
        <3> QED
            BY <3>1, <3>2
    <2>2. ASSUME NEW a \in OpsIn(All(d)) PROVE Ahead(a, v + 1) /\ Known(a)
        <3>1. Ahead(a, v) /\ Known(a)
            BY <1>8 DEF DocInv, Shown, Recognised
        <3>2. ASSUME NEW n \in DOMAIN log, a.seq # 0, SameNumber(log[n], a) PROVE n > v + 1
            <4>1. n > v /\ n # v + 1
                BY <1>3, <2>1, <3>1, <3>2 DEF Ahead
            <4>2. n \in Nat
                BY Typed
            <4> QED
                BY <4>1, <4>2
        <3> QED
            BY <3>1, <3>2 DEF Ahead
    <2> QED
        BY <1>8, <2>2 DEF Recognised
<1>11. Flushed(e)
    BY <1>1 DEF Flushed
<1> QED
    BY <1>5, <1>6, <1>7, <1>9, <1>10, <1>11, AdvancedKeeps DEF DocInv, Shown

\* What is known of the op in flight.
LEMMA InFlightIs ==
    ASSUME StoreType, NEW d, DocInv(d), d.inflight # <<>>
    PROVE  /\ d.inflight[1] \in Ops /\ d.inflight[1].seq # 0
           /\ d.inflight[1] \in AllOps(d)
           /\ IdsOf(d.inflight) = {d.inflight[1].id}
           /\ OpsIn(All(d)) = {d.inflight[1]} \cup OpsIn(d.pending)
           /\ IdsOf(All(d)) = {d.inflight[1].id} \cup IdsOf(d.pending)
           /\ Once(d.pending) /\ OnlyFirstSent(d.pending)
           /\ \A a \in OpsIn(d.pending) : a.seq = 0 /\ a.id # d.inflight[1].id
           /\ d.inflight[1].id \in Edits /\ d.inflight[1].id \in d.data \cup refused
           /\ Ahead(d.inflight[1], d.version) /\ Known(d.inflight[1])
<1>1. /\ All(d) \in Seq(Ops) /\ All(d) # <<>> /\ All(d)[1] = d.inflight[1]
      /\ Tail(All(d)) = d.pending
    BY PageTyped, SentAndPending DEF DocInv
<1>2. Current(d).pendingOps = All(d) /\ Current(d).data = d.data /\ Current(d).v = d.version
    BY DEF Current
<1>3. Once(All(d)) /\ OnlyFirstSent(All(d))
    BY <1>2 DEF DocInv, Shown, Plain
<1>4. /\ d.inflight[1] \in Ops
      /\ OpsIn(All(d)) = {d.inflight[1]} \cup OpsIn(d.pending)
      /\ IdsOf(All(d)) = {d.inflight[1].id} \cup IdsOf(d.pending)
    BY <1>1, FirstAndRest
<1>5. /\ Once(d.pending) /\ OnlyFirstSent(d.pending)
      /\ \A a \in OpsIn(d.pending) : a.seq = 0 /\ a.id # d.inflight[1].id
    BY <1>1, <1>3, RestIsPlain
<1>6. /\ d.inflight[1].id \in Edits /\ d.inflight[1].id \in d.data \cup refused
      /\ Ahead(d.inflight[1], d.version) /\ Known(d.inflight[1])
    BY <1>2, <1>4 DEF DocInv, Shown, Plain, Recognised, Seen
<1>7. d.inflight[1].seq # 0 /\ Len(d.inflight) = 1 /\ d.inflight \in Seq(Ops)
    BY PageTyped DEF DocInv
<1>8. IdsOf(d.inflight) = {d.inflight[1].id}
    <2>1. DOMAIN d.inflight = 1 .. 1
        BY <1>7, LenProperties
    <2> QED
        BY <2>1 DEF IdsOf
<1>9. d.inflight[1] \in AllOps(d)
    BY <1>4 DEF AllOps
<1> QED
    BY <1>4, <1>5, <1>6, <1>7, <1>8, <1>9

\* The answer to the op in flight.
Acked(d) == [d EXCEPT !.version = @ + 1, !.inflight = <<>>, !.reply = "none"]

\* So does the end of the op in flight that was applied ...
LEMMA AckedKeeps ==
    ASSUME StoreType, NEW d, DocInv(d), d.loaded, d.version < Version,
           d.inflight # <<>>, SameNumber(d.inflight[1], log[d.version + 1])
    PROVE  DocInv(Acked(d))
<1> DEFINE e == Acked(d)
           op == log[d.version + 1]
<1>1. /\ e.open = d.open /\ e.loaded = d.loaded /\ e.seq = d.seq
      /\ e.puts = d.puts /\ e.out = d.out /\ e.pending = d.pending
      /\ e.inflight = <<>> /\ e.connected = d.connected /\ e.reply = "none"
      /\ e.ready = d.ready /\ e.wants = d.wants
      /\ e.version = d.version + 1 /\ e.data = d.data
    BY DEF Acked, DocInv, DocType
<1>2. All(e) = d.pending
    <2>1. d.pending \in Seq(Ops)
        BY PageTyped DEF DocInv
    <2> QED
        BY <1>1, <2>1, ConcatEmptySeq DEF All
<1>3. PICK v \in Nat : v = d.version /\ v < Version /\ v + 1 \in 1 .. Version /\ v + 1 \in 0 .. Version
    BY PageTyped, Typed DEF DocInv
<1>4. op = d.inflight[1]
    <2>1. op \in AllOps(d)
        BY <1>3, Typed DEF AllOps, Gone, OpsIn
    <2> QED
        BY <2>1, InFlightIs DEF DocInv, Numbers
<1>5. DocType(e)
    <2>1. e.version \in 0 .. Version
        BY <1>1, <1>3
    <2> QED
        BY <2>1, EmptySeq DEF DocInv, DocType, Acked
<1>6. Shape(e)
    BY <1>1, <1>2 DEF DocInv, Shape, ClosedPage
<1>7. Advanced(d, e)
    <2>1. op.id \in IdsOf(log)
        BY <1>3, Typed DEF IdsOf
    <2> QED
        BY <1>1, <1>2, <1>4, <2>1, InFlightIs DEF Advanced
<1>8. /\ Current(e).v = v + 1 /\ Current(e).data = d.data
      /\ Current(e).pendingOps = d.pending /\ Current(d).pendingOps = All(d)
      /\ Current(d).v = v /\ Current(d).data = d.data
    BY <1>1, <1>2, <1>3 DEF Current
<1>9. Plain(Current(e))
    <2>1. Prefix(v + 1) = Prefix(v) \cup {op.id}
        BY <1>3, PrefixGrows DEF StoreType
    <2>2. v + 1 <= Version
        BY <1>3
    <2>3. Current(e).data \ exposed
            = (Prefix(Current(e).v) \cup IdsOf(Current(e).pendingOps)) \ exposed
        <3>1. d.data \ exposed = (Prefix(v) \cup IdsOf(All(d))) \ exposed
            BY <1>8 DEF DocInv, Shown, Plain
        <3>2. IdsOf(All(d)) = {op.id} \cup IdsOf(d.pending)
            BY <1>4, InFlightIs
        <3> QED
            BY <1>8, <2>1, <3>1, <3>2
    <2>4. Once(d.pending) /\ OnlyFirstSent(d.pending) /\ OpsIn(d.pending) \subseteq OpsIn(All(d))
        BY InFlightIs
    <2> QED
        BY <1>8, <2>2, <2>3, <2>4 DEF DocInv, Shown, Plain, Seen
<1>10. Recognised(Current(e))
    <2>1. \A a \in OpsIn(d.pending) : Known(a) /\ a.seq = 0
        BY <1>8, InFlightIs DEF DocInv, Shown, Recognised
    <2> QED
        BY <1>8, <2>1 DEF Recognised, Ahead
<1> QED
    BY <1>5, <1>6, <1>7, <1>9, <1>10, AdvancedKeeps DEF DocInv, Shown

Undone(d) ==
    [d EXCEPT !.data = @ \ IdsOf(d.inflight), !.inflight = <<>>, !.reply = "none"]

\* ... and of the one that was refused.
LEMMA UndoneKeeps ==
    ASSUME StoreType, NEW d, DocInv(d), d.reply = "refused"
    PROVE  DocInv(Undone(d))
<1> DEFINE e == Undone(d)
           op == d.inflight[1]
<1>1. d.inflight # <<>> /\ op.id \in refused /\ d.loaded
    BY DEF DocInv, Shape, All
<1>2. /\ e.open = d.open /\ e.loaded = d.loaded /\ e.seq = d.seq
      /\ e.puts = d.puts /\ e.out = d.out /\ e.pending = d.pending
      /\ e.inflight = <<>> /\ e.connected = d.connected /\ e.reply = "none"
      /\ e.ready = d.ready /\ e.wants = d.wants
      /\ e.version = d.version /\ e.data = d.data \ {op.id}
    <2>1. IdsOf(d.inflight) = {op.id}
        BY <1>1, InFlightIs
    <2> QED
        BY <2>1 DEF Undone, DocInv, DocType
<1>3. All(e) = d.pending
    <2>1. d.pending \in Seq(Ops)
        BY PageTyped DEF DocInv
    <2> QED
        BY <1>2, <2>1, ConcatEmptySeq DEF All
<1>4. DocType(e)
    <2>1. e.data \in SUBSET Ids
        BY <1>2, PageTyped DEF DocInv
    <2> QED
        BY <2>1, EmptySeq, <1>2 DEF DocInv, DocType, Undone
<1>5. Shape(e)
    BY <1>1, <1>2 DEF DocInv, Shape, ClosedPage
<1>6. Advanced(d, e)
    BY <1>1, <1>2, <1>3, InFlightIs DEF Advanced
<1>7. /\ Current(e).v = d.version /\ Current(e).data = d.data \ {op.id}
      /\ Current(e).pendingOps = d.pending /\ Current(d).pendingOps = All(d)
      /\ Current(d).v = d.version /\ Current(d).data = d.data
    BY <1>2, <1>3 DEF Current
<1>8. op.id \in Prefix(d.version) => op.id \in exposed
    <2> SUFFICES ASSUME op.id \in Prefix(d.version), op.id \notin exposed PROVE FALSE
        OBVIOUS
    <2>1. PICK n \in DOMAIN log : n <= d.version /\ log[n].id = op.id
        <3>1. \A i \in 1 .. d.version : log[i] \in Ops /\ i \in DOMAIN log /\ i <= d.version
            BY PageTyped, Typed DEF DocInv
        <3>2. /\ Len(SubSeq(log, 1, d.version)) = d.version
              /\ \A i \in 1 .. d.version : SubSeq(log, 1, d.version)[i] = log[i]
              /\ DOMAIN SubSeq(log, 1, d.version) = 1 .. d.version
            <4>1. d.version \in Nat
                BY PageTyped DEF DocInv
            <4>2. /\ SubSeq(log, 1, d.version) \in Seq(Ops)
                  /\ Len(SubSeq(log, 1, d.version)) = d.version
                  /\ \A i \in 1 .. d.version : SubSeq(log, 1, d.version)[i] = log[i]
                BY <3>1, <4>1, SubSeqProperties
            <4> QED
                BY <4>2, LenProperties
        <3> QED
            BY <3>1, <3>2 DEF Prefix, IdsOf
    <2>2. log[n] = op
        BY <1>1, <2>1, InFlightIs DEF Known, Gone, OpsIn
    <2>3. n > d.version
        BY <1>1, <2>2, InFlightIs DEF Ahead, SameNumber
    <2>4. n \in Nat /\ d.version \in Nat
        BY PageTyped, Typed DEF DocInv
    <2> QED
        BY <2>1, <2>3, <2>4
<1>9. Plain(Current(e))
    <2>1. Current(e).data \ exposed
            = (Prefix(Current(e).v) \cup IdsOf(Current(e).pendingOps)) \ exposed
        <3>1. d.data \ exposed = (Prefix(d.version) \cup IdsOf(All(d))) \ exposed
            BY <1>7 DEF DocInv, Shown, Plain
        <3>2. IdsOf(All(d)) = {op.id} \cup IdsOf(d.pending) /\ op.id \notin IdsOf(d.pending)
            BY <1>1, InFlightIs DEF IdsOf, OpsIn
        <3> QED
            BY <1>7, <1>8, <3>1, <3>2
    <2>2. Once(d.pending) /\ OnlyFirstSent(d.pending) /\ OpsIn(d.pending) \subseteq OpsIn(All(d))
        BY <1>1, InFlightIs
    <2>3. \A a \in OpsIn(d.pending) : Seen(Current(e), a)
        BY <1>1, <1>7, InFlightIs DEF DocInv, Shown, Plain, Seen
    <2> QED
        BY <1>7, <2>1, <2>2, <2>3 DEF DocInv, Shown, Plain
<1>10. Recognised(Current(e))
    BY <1>1, <1>7, InFlightIs DEF DocInv, Shown, Recognised
<1> QED
    BY <1>4, <1>5, <1>6, <1>9, <1>10, AdvancedKeeps DEF DocInv, Shown

(* Loading the page, and losing the connection. *)

\* A page that has nothing yet.
LEMMA EmptyPage ==
    ASSUME StoreType, NEW d, DocInv(d), ~ d.loaded
    PROVE  /\ d.inflight = <<>> /\ d.pending = <<>> /\ All(d) = <<>> /\ d.reply = "none"
           /\ d.puts = <<>> /\ d.out = {} /\ d.seq = 1
           /\ d.data = {} /\ d.version = 0
<1>1. /\ All(d) = <<>> /\ d.puts = <<>> /\ d.out = {} /\ d.seq = 1
      /\ d.data = {} /\ d.version = 0
    BY DEF DocInv, Shape
<1>2. d.inflight = <<>> /\ d.pending = <<>>
    BY <1>1, PageTyped, SentAndPending DEF DocInv
<1>3. d.reply = "none"
    BY <1>2 DEF DocInv, Shape
<1> QED
    BY <1>1, <1>2, <1>3

\* The page has what the record has.
Read(d) ==
    [d EXCEPT !.ready = TRUE, !.wants = TRUE, !.loaded = TRUE,
              !.version = record.v, !.data = record.data, !.saved = TRUE,
              !.offlineSnapshotVersion = record.v, !.pending = record.pendingOps]

\* Reading the record establishes the invariant of a loaded page.
LEMMA ReadKeeps ==
    ASSUME StoreType, Stored, NEW d, DocInv(d), d.open, ~ d.loaded, record.there
    PROVE  DocInv(Read(d))
<1> DEFINE e == Read(d)
<1>1. /\ e.open = d.open /\ e.loaded = TRUE /\ e.seq = 1
      /\ e.puts = <<>> /\ e.out = {} /\ e.pending = record.pendingOps
      /\ e.inflight = <<>> /\ e.connected = d.connected /\ e.reply = "none"
      /\ e.ready = TRUE /\ e.wants = TRUE
      /\ e.version = record.v /\ e.data = record.data
    BY EmptyPage DEF Read, DocInv, DocType
<1>2. All(e) = record.pendingOps
    BY <1>1, Typed, ConcatEmptySeq DEF All
<1>3. record.v \in 0 .. Version
    BY Typed DEF Stored, View, Plain
<1>4. DocType(e)
    BY <1>3, Typed DEF Read, DocInv, DocType
<1>5. Shape(e)
    BY <1>1 DEF DocInv, Shape
<1>6. Shown(e)
    <2>1. Current(e) = [v |-> record.v, data |-> record.data,
                        pendingOps |-> record.pendingOps, there |-> TRUE]
        BY <1>1, <1>2 DEF Current
    <2>2. Plain(Current(e))
        BY <2>1 DEF Stored, View, Plain, Seen
    <2>3. Recognised(Current(e))
        BY <2>1 DEF Stored, View, Recognised
    <2>4. Holds(kept, Current(e))
        BY <2>1 DEF Stored, View, Holds
    <2> QED
        BY <2>2, <2>3, <2>4 DEF Shown
<1>7. Puts(e) /\ Outgoing(e)
    BY <1>1 DEF Puts, Outgoing
<1>8. Numbers(e)
    <2>1. AllOps(e) \subseteq AllOps(d)
        BY <1>1, <1>2 DEF AllOps
    <2>2. e.seq = d.seq
        BY <1>1, EmptyPage
    <2> QED
        BY <1>1, <2>1, <2>2, FewerNumbers DEF DocInv
<1>9. Budget(e)
    <2>1. IsFiniteSet(Edits) /\ Numbered(e) \in SUBSET Edits
        BY OfflineConstants, FS_Interval DEF Edits, Numbered
    <2>2. Cardinality(Numbered(e)) \in Nat
        BY <2>1, FS_Subset, FS_CardinalityType
    <2> QED
        BY <1>1, <2>2 DEF Budget
<1> QED
    BY <1>4, <1>5, <1>6, <1>7, <1>8, <1>9 DEF DocInv

\* The page has what the server has.
Fetched(d) ==
    [d EXCEPT !.loaded = TRUE, !.version = Version, !.data = IdsOf(log),
              !.stream = TRUE, !.from = Version, !.subscribedState = ~ d.counted]

\* So does the answer of the server when there is no record.
LEMMA FetchedKeeps ==
    ASSUME StoreType, Stored, NEW d, DocInv(d), ~ d.loaded, d.wants
    PROVE  DocInv(Fetched(d)) /\ Flushed(Fetched(d))
<1> DEFINE e == Fetched(d)
<1>1. /\ e.open = d.open /\ e.loaded = TRUE /\ e.seq = 1
      /\ e.puts = <<>> /\ e.out = {} /\ e.pending = <<>>
      /\ e.inflight = <<>> /\ e.connected = d.connected /\ e.reply = "none"
      /\ e.ready = d.ready /\ e.wants = d.wants
      /\ e.version = Version /\ e.data = IdsOf(log)
    BY EmptyPage DEF Fetched, DocInv, DocType
<1>2. All(e) = <<>>
    BY <1>1, EmptySeq, ConcatEmptySeq DEF All
<1>3. Version \in Nat /\ IdsOf(log) \in SUBSET Ids /\ log \in Seq(Ops)
    BY Typed, Members DEF StoreType
<1>4. DocType(e)
    <2>1. PICK b \in BOOLEAN : b = ~ d.counted
        OBVIOUS
    <2>2. Version \in 0 .. Version
        BY <1>3
    <2>3. e = [d EXCEPT !.loaded = TRUE, !.version = Version, !.data = IdsOf(log),
                        !.stream = TRUE, !.from = Version, !.subscribedState = b]
        BY <2>1 DEF Fetched
    <2> HIDE DEF e
    <2> QED
        BY <1>3, <2>2, <2>3 DEF DocInv, DocType
<1>5. d.ready /\ kept = {} /\ d.open
    BY DEF DocInv, Shape, Stored, ClosedPage
<1>6. Shape(e)
    BY <1>1, <1>5 DEF DocInv, Shape
<1>7. Shown(e)
    <2>1. Current(e) = [v |-> Version, data |-> IdsOf(log), pendingOps |-> <<>>, there |-> TRUE]
        BY <1>1, <1>2 DEF Current
    <2>2. Prefix(Version) = IdsOf(log)
        BY <1>3, SubSeqFull DEF Prefix, Version
    <2>3. OpsIn(<<>>) = {} /\ IdsOf(<<>>) = {} /\ Once(<<>>) /\ OnlyFirstSent(<<>>)
        BY DEF OpsIn, IdsOf, Once, OnlyFirstSent
    <2>4. Plain(Current(e))
        BY <1>3, <2>1, <2>2, <2>3 DEF Plain
    <2>5. Recognised(Current(e)) /\ Holds(kept, Current(e))
        BY <1>5, <2>1, <2>3 DEF Recognised, Holds
    <2> QED
        BY <2>4, <2>5 DEF Shown
<1>8. Puts(e) /\ Outgoing(e)
    BY <1>1 DEF Puts, Outgoing
<1>9. Numbers(e)
    <2>1. AllOps(e) \subseteq AllOps(d) /\ e.seq = d.seq
        BY <1>1, <1>2, EmptyPage DEF AllOps
    <2> QED
        BY <1>1, <2>1, FewerNumbers DEF DocInv
<1>10. Budget(e)
    <2>1. IsFiniteSet(Edits) /\ Numbered(e) \in SUBSET Edits
        BY OfflineConstants, FS_Interval DEF Edits, Numbered
    <2>2. Cardinality(Numbered(e)) \in Nat
        BY <2>1, FS_Subset, FS_CardinalityType
    <2> QED
        BY <1>1, <2>2 DEF Budget
<1>11. Flushed(e)
    BY <1>1 DEF Flushed
<1> QED
    BY <1>4, <1>6, <1>7, <1>8, <1>9, <1>10, <1>11 DEF DocInv

\* What was in flight is pending again.
CutOff(d) ==
    [d EXCEPT !.connected = FALSE, !.stream = FALSE, !.from = 0, !.reply = "none",
              !.pending = d.inflight \o @, !.inflight = <<>>]

\* Losing the connection keeps the invariant of a page.
LEMMA CutOffKeeps ==
    ASSUME StoreType, NEW d, DocInv(d), d.open
    PROVE  DocInv(CutOff(d)) /\ Flushed(CutOff(d))
<1> DEFINE e == CutOff(d)
<1>1. /\ e.open = d.open /\ e.loaded = d.loaded /\ e.seq = d.seq
      /\ e.puts = d.puts /\ e.out = d.out /\ e.pending = All(d)
      /\ e.inflight = <<>> /\ e.connected = FALSE /\ e.reply = "none"
      /\ e.ready = d.ready /\ e.wants = d.wants
      /\ e.version = d.version /\ e.data = d.data
    BY DEF CutOff, DocInv, DocType, All
<1>2. All(d) \in Seq(Ops) /\ Version \in Nat
    BY PageTyped, Typed DEF DocInv
<1>3. All(e) = All(d)
    BY <1>1, <1>2, ConcatEmptySeq DEF All
<1>4. DocType(e)
    <2>1. /\ d.inflight \o d.pending \in Seq(Ops) /\ <<>> \in Seq(Ops)
          /\ 0 \in 0 .. Version
        BY <1>2, EmptySeq DEF All
    <2> QED
        BY <2>1 DEF CutOff, DocInv, DocType
<1>5. Shape(e)
    BY <1>1, <1>3 DEF DocInv, Shape
<1>6. Current(e) = Current(d) /\ AllOps(e) = AllOps(d)
    BY <1>1, <1>3 DEF Current, AllOps
<1>7. Shown(e) /\ Puts(e) /\ Outgoing(e)
    BY <1>1, <1>6 DEF DocInv, Shown, Puts, Outgoing
<1>8. Numbers(e)
    BY <1>1, <1>6, FewerNumbers DEF DocInv
<1>9. Budget(e)
    <2>1. ToNumber(e) = ToNumber(d)
        <3>1. \A a \in OpsIn(All(d)) : a.seq = 0 => a \in OpsIn(d.pending)
            <4>1. CASE d.inflight = <<>>
                BY <4>1, PageTyped, SentAndPending DEF DocInv
            <4>2. CASE d.inflight # <<>>
                BY <4>2, InFlightIs
            <4> QED
                BY <4>1, <4>2
        <3>2. OpsIn(d.pending) \subseteq OpsIn(All(d))
            <4>1. CASE d.inflight = <<>>
                BY <4>1, PageTyped, SentAndPending DEF DocInv
            <4>2. CASE d.inflight # <<>>
                BY <4>2, InFlightIs
            <4> QED
                BY <4>1, <4>2
        <3> QED
            BY <1>1, <3>1, <3>2 DEF ToNumber
    <2> QED
        BY <1>1, <2>1 DEF DocInv, Budget, Numbered
<1>10. Flushed(e)
    BY <1>1 DEF Flushed
<1> QED
    BY <1>4, <1>5, <1>7, <1>8, <1>9, <1>10 DEF DocInv

-----------------------------------------------------------------------------
(* The steps: those of the page alone. *)

others == <<log, wire, record, kept, exposed, refused, count>>

\* A step that leaves the rest alone keeps what was known of the page it makes.
LEMMA PageStep ==
    ASSUME IInv, UNCHANGED others, NEW d, doc' = d, DocInv(d), Flushed(d)
    PROVE  IInv'
<1> USE DEF others
<1>1. StoreType'
    BY DEF IInv, StoreType, Ops, Ids, Srcs, Seqs, Messages, Version, Records
<1>2. Version' = Version /\ Gone' = Gone /\ Page' = Page
    BY DEF Version, Gone, Page
<1>3. Server'
    BY <1>2 DEF IInv, Server, Ahead
<1>4. /\ \A w : Plain(w) => Plain(w)'
      /\ \A w : Recognised(w) => Recognised(w)'
      /\ \A w, ids : Holds(ids, w) => Holds(ids, w)'
    <2>1. \A v : Prefix(v)' = Prefix(v)
        BY DEF Prefix
    <2>2. \A w : Plain(w) => Plain(w)'
        BY <1>2, <2>1 DEF Plain, Seen
    <2>3. \A w : Recognised(w) => Recognised(w)'
        BY <1>2 DEF Recognised, Ahead, Known
    <2>4. \A w, ids : Holds(ids, w) => Holds(ids, w)'
        BY DEF Holds
    <2> QED
        BY <2>2, <2>3, <2>4
<1>5. Stored'
    BY <1>4 DEF IInv, Stored, View
<1>6. DocInv(doc)'
    <2>1. All(doc)' = All(d) /\ Current(doc)' = Current(d)
        BY DEF All, Current
    <2>2. AllOps(doc)' = AllOps(d)
        BY <1>2, <2>1 DEF AllOps
    <2>3. DocType(doc)'
        BY <1>2 DEF DocInv, DocType, Sends, Ops, Ids, Srcs, Seqs, Records
    <2>4. Shape(doc)'
        BY <1>2, <2>1 DEF DocInv, Shape
    <2>5. Shown(doc)'
        BY <1>4, <2>1 DEF DocInv, Shown
    <2>6. Puts(doc)'
        BY <1>4, <2>1 DEF DocInv, Puts, View
    <2>7. Outgoing(doc)'
        BY <1>2, <2>1 DEF DocInv, Outgoing, Ahead, Known, Only
    <2>8. Numbers(doc)'
        BY <1>2, <2>2 DEF DocInv, Numbers, Issued
    <2>9. Budget(doc)'
        BY DEF DocInv, Budget, Numbered, ToNumber
    <2> QED
        BY <2>3, <2>4, <2>5, <2>6, <2>7, <2>8, <2>9 DEF DocInv
<1> QED
    <2>1. Flushed(doc)'
        BY DEF Flushed
    <2> QED
        BY <1>1, <1>3, <1>5, <1>6, <2>1 DEF IInv

\* A page of which only other parts have changed.
LEMMA Bookkept ==
    ASSUME NEW d, DocInv(d), NEW e, SamePart(d, e), DocType(e), Shape(e)
    PROVE  DocInv(e)
    BY SamePartSameRest DEF DocInv, Rest

\* Only an open page is in any of these states.
LEMMA OpenStates ==
    ASSUME NEW d, DocInv(d)
    PROVE  d.loaded \/ d.ready \/ d.stream \/ d.connected => d.open /\ Page # 0
    BY DEF DocInv, Shape, ClosedPage

\* LoadOfflineData reads the record and flushes.
LEMMA LoadStep == ASSUME IInv, LoadOfflineData PROVE IInv'
<1> DEFINE seen == [doc EXCEPT !.ready = TRUE, !.wants = TRUE]
           read == Flush(Read(doc))
<1>1. /\ doc.open /\ ~ doc.ready /\ UNCHANGED others
      /\ ~ record.there => doc' = seen
      /\ record.there => doc' \in {UpdateOfflineData(read, FALSE), read}
    <2>1. Read(doc) = [seen EXCEPT !.loaded = TRUE, !.version = record.v, !.data = record.data,
                                   !.saved = TRUE, !.offlineSnapshotVersion = record.v,
                                   !.pending = record.pendingOps]
        BY DEF Read
    <2> QED
        BY <2>1 DEF LoadOfflineData, others
<1>2. ~ doc.loaded
    BY <1>1 DEF IInv, DocInv, Shape
<1>3. CASE record.there
    <2>1. DocInv(read) /\ Flushed(read)
        BY <1>1, <1>2, <1>3, ReadKeeps, FlushKeeps DEF IInv
    <2>2. DocInv(UpdateOfflineData(read, FALSE)) /\ Flushed(UpdateOfflineData(read, FALSE))
        BY <2>1, UpdateKeeps DEF IInv
    <2> QED
        BY <1>1, <1>3, <2>1, <2>2, PageStep
<1>4. CASE ~ record.there
    <2>1. SamePart(doc, seen) /\ seen.connected = doc.connected /\ seen.reply = doc.reply
        BY DEF SamePart, IInv, DocInv, DocType
    <2>2. DocType(seen)
        BY DEF IInv, DocInv, DocType
    <2>3. Shape(seen)
        <3>1. All(seen) = All(doc) /\ seen.ready /\ seen.wants /\ seen.open
            BY <1>1, <2>1 DEF SamePart, All, IInv, DocInv, DocType
        <3> QED
            BY <1>1, <1>2, <1>4, <2>1, <3>1 DEF SamePart, IInv, DocInv, Shape
    <2>4. DocInv(seen)
        BY <2>1, <2>2, <2>3, Bookkept DEF IInv
    <2>5. Flushed(seen)
        BY <1>2, <2>1 DEF SamePart, Flushed
    <2> QED
        BY <1>1, <1>4, <2>4, <2>5, PageStep
<1> QED
    BY <1>3, <1>4

\* Submit adds an edit, writes the record and flushes.
LEMMA SubmitStep == ASSUME IInv, NEW e \in Edits, Submit(e) PROVE IInv'
<1>1. /\ doc.loaded /\ UNCHANGED others
      /\ doc' = Flush(UpdateOfflineData(Edited(doc, e), TRUE))
      /\ e \notin IdsOf(log) \cup kept \cup doc.data \cup refused \cup {m.op.id : m \in wire}
    BY DEF Submit, others, Made, Edited
<1>2. DocInv(Edited(doc, e))
    BY <1>1, EditedKeeps DEF IInv
<1>3. DocInv(UpdateOfflineData(Edited(doc, e), TRUE))
    BY <1>2, UpdateKeeps DEF IInv
<1>4. /\ DocInv(Flush(UpdateOfflineData(Edited(doc, e), TRUE)))
      /\ Flushed(Flush(UpdateOfflineData(Edited(doc, e), TRUE)))
    BY <1>3, FlushKeeps DEF IInv
<1> QED
    BY <1>1, <1>4, PageStep

\* LeaveQuery may write the record.
LEMMA LeaveStep == ASSUME IInv, LeaveQuery PROVE IInv'
<1> DEFINE d == UpdateOfflineData(doc, FALSE)
           left == [d EXCEPT !.counted = FALSE, !.wants = FALSE, !.stream = FALSE, !.from = 0]
<1>1. doc' = left /\ UNCHANGED others
    BY DEF LeaveQuery, others
<1>2. DocInv(d) /\ Flushed(d)
    BY UpdateKeeps DEF IInv
<1> HIDE DEF d
<1>3. /\ SamePart(d, left) /\ left.connected = d.connected /\ left.reply = d.reply
      /\ left.ready = d.ready /\ ~ left.wants
    BY <1>2 DEF SamePart, DocInv, DocType
<1>4. DocType(left)
    <2>1. 0 \in 0 .. Version
        BY Typed DEF IInv
    <2> QED
        BY <1>2, <2>1 DEF DocInv, DocType
<1>5. Shape(left)
    <2>1. All(left) = All(d)
        BY <1>3 DEF SamePart, All
    <2>2. d.open
        <3>1. d.ready => d.open
            BY <1>2, OpenStates
        <3>2. d.ready
            <4>1. doc.ready
                BY DEF LeaveQuery
            <4>2. d \in {doc, Wrote(doc)}
                BY UpdateIs DEF d, IInv, DocInv
            <4>3. Wrote(doc).ready = doc.ready
                BY WroteIs DEF IInv, DocInv
            <4> QED
                BY <4>1, <4>2, <4>3
        <3> QED
            BY <3>1, <3>2
    <2> QED
        BY <1>2, <1>3, <2>1, <2>2 DEF SamePart, DocInv, Shape
<1>6. DocInv(left)
    BY <1>2, <1>3, <1>4, <1>5, Bookkept
<1>7. Flushed(left)
    BY <1>2, <1>3 DEF SamePart, Flushed
<1> QED
    BY <1>1, <1>6, <1>7, PageStep

\* Connect flushes.
LEMMA ConnectStep == ASSUME IInv, Connect PROVE IInv'
<1> DEFINE d == [doc EXCEPT !.connected = TRUE]
<1>1. doc' = Flush(d) /\ UNCHANGED others /\ doc.open
    BY DEF Connect, others
<1>2. /\ SamePart(doc, d) /\ d.connected /\ d.reply = doc.reply
      /\ d.ready = doc.ready /\ d.wants = doc.wants
    BY DEF SamePart, IInv, DocInv, DocType
<1>3. DocType(d)
    BY DEF IInv, DocInv, DocType
<1>4. Shape(d)
    <2>1. All(d) = All(doc)
        BY <1>2 DEF SamePart, All
    <2> QED
        BY <1>1, <1>2, <2>1 DEF SamePart, IInv, DocInv, Shape
<1>5. DocInv(d)
    BY <1>2, <1>3, <1>4, Bookkept DEF IInv
<1>6. DocInv(Flush(d)) /\ Flushed(Flush(d))
    BY <1>5, FlushKeeps DEF IInv
<1> QED
    BY <1>1, <1>6, PageStep

\* Subscribe changes nothing that is to be kept.
LEMMA SubscribeStep == ASSUME IInv, Subscribe PROVE IInv'
<1> DEFINE d == [doc EXCEPT !.stream = TRUE, !.from = Version]
<1>1. doc' = d /\ UNCHANGED others /\ doc.loaded
    BY DEF Subscribe, others
<1>2. /\ SamePart(doc, d) /\ d.connected = doc.connected /\ d.reply = doc.reply
      /\ d.ready = doc.ready /\ d.wants = doc.wants
    BY DEF SamePart, IInv, DocInv, DocType
<1>3. DocType(d)
    <2>1. Version \in 0 .. Version
        BY Typed DEF IInv
    <2> QED
        BY <2>1 DEF IInv, DocInv, DocType
<1>4. Shape(d)
    <2>1. All(d) = All(doc)
        BY <1>2 DEF SamePart, All
    <2>2. doc.open
        BY <1>1, OpenStates DEF IInv
    <2> QED
        BY <1>2, <2>1, <2>2 DEF SamePart, IInv, DocInv, Shape
<1>5. DocInv(d)
    BY <1>2, <1>3, <1>4, Bookkept DEF IInv
<1>6. Flushed(d)
    BY <1>2 DEF SamePart, Flushed, IInv
<1> QED
    BY <1>1, <1>5, <1>6, PageStep

\* SubscribeAnswered may write the record.
LEMMA AnsweredStep == ASSUME IInv, SubscribeAnswered PROVE IInv'
<1> DEFINE d == [doc EXCEPT !.subscribedState = TRUE]
<1>1. doc' \in {d, UpdateOfflineData(d, FALSE)} /\ UNCHANGED others /\ doc.stream
    BY DEF SubscribeAnswered, others
<1>2. /\ SamePart(doc, d) /\ d.connected = doc.connected /\ d.reply = doc.reply
      /\ d.ready = doc.ready /\ d.wants = doc.wants
    BY DEF SamePart, IInv, DocInv, DocType
<1>3. DocType(d)
    BY DEF IInv, DocInv, DocType
<1>4. Shape(d)
    <2>1. All(d) = All(doc)
        BY <1>2 DEF SamePart, All
    <2>2. doc.open
        BY <1>1, OpenStates DEF IInv
    <2> QED
        BY <1>2, <2>1, <2>2 DEF SamePart, IInv, DocInv, Shape
<1>5. DocInv(d) /\ Flushed(d)
    BY <1>2, <1>3, <1>4, Bookkept DEF SamePart, Flushed, IInv
<1>6. DocInv(UpdateOfflineData(d, FALSE)) /\ Flushed(UpdateOfflineData(d, FALSE))
    BY <1>5, UpdateKeeps DEF IInv
<1> QED
    BY <1>1, <1>5, <1>6, PageStep

\* LoadSnapshot takes what the server has.
LEMMA SnapshotStep == ASSUME IInv, LoadSnapshot PROVE IInv'
<1>1. /\ doc' = UpdateOfflineData(Fetched(doc), FALSE)
      /\ UNCHANGED others /\ doc.wants /\ ~ doc.loaded
    BY DEF LoadSnapshot, Fetched, others
<1>2. DocInv(Fetched(doc)) /\ Flushed(Fetched(doc))
    BY <1>1, FetchedKeeps DEF IInv
<1>3. /\ DocInv(UpdateOfflineData(Fetched(doc), FALSE))
      /\ Flushed(UpdateOfflineData(Fetched(doc), FALSE))
    BY <1>2, UpdateKeeps DEF IInv
<1> QED
    BY <1>1, <1>3, PageStep

\* RemoteOp takes the next op of the log.
LEMMA RemoteStep == ASSUME IInv, RemoteOp PROVE IInv'
<1>1. /\ doc' = UpdateOfflineData(Heard(doc), FALSE)
      /\ UNCHANGED others /\ doc.connected /\ doc.loaded /\ doc.version < Version
      /\ doc.inflight # <<>> => ~ SameNumber(doc.inflight[1], log[doc.version + 1])
    BY DEF RemoteOp, Sent, IsOwn, NextOp, SameNumber, Heard, others
<1>2. DocInv(Heard(doc)) /\ Flushed(Heard(doc))
    BY <1>1, HeardKeeps DEF IInv
<1>3. /\ DocInv(UpdateOfflineData(Heard(doc), FALSE))
      /\ Flushed(UpdateOfflineData(Heard(doc), FALSE))
    BY <1>2, UpdateKeeps DEF IInv
<1> QED
    BY <1>1, <1>3, PageStep

\* What follows the end of the op in flight.
LEMMA SettledKeeps ==
    ASSUME StoreType, Server, NEW d, NEW callback,
           DocInv([d EXCEPT !.inflight = <<>>, !.reply = "none"])
    PROVE  DocInv(Settled(d, callback)) /\ Flushed(Settled(d, callback))
<1> DEFINE d1 == Flush([d EXCEPT !.inflight = <<>>, !.reply = "none"])
<1>1. DocInv(d1) /\ Flushed(d1)
    BY FlushKeeps
<1>2. DocInv(UpdateOfflineData(d1, FALSE)) /\ Flushed(UpdateOfflineData(d1, FALSE))
    BY <1>1, UpdateKeeps
<1>3. Settled(d, callback) \in {d1, UpdateOfflineData(d1, FALSE)}
    BY DEF Settled
<1> QED
    BY <1>1, <1>2, <1>3

\* Acknowledged ends the op in flight, which was applied.
LEMMA AcknowledgedStep == ASSUME IInv, Acknowledged PROVE IInv'
<1> DEFINE d == [doc EXCEPT !.version = @ + 1]
<1>1. /\ UNCHANGED others /\ doc.loaded /\ doc.version < Version
      /\ doc.inflight # <<>> /\ SameNumber(doc.inflight[1], log[doc.version + 1])
    BY DEF Acknowledged, Sent, IsOwn, NextOp, SameNumber, others
<1>2. DocInv(Acked(doc))
    BY <1>1, AckedKeeps DEF IInv
<1>3. Acked(doc) = [d EXCEPT !.inflight = <<>>, !.reply = "none"]
    BY DEF Acked
<1>4. doc' = Settled(d, NextOp.id \in doc.fresh)
    BY DEF Acknowledged
<1> HIDE DEF d
<1>5. /\ DocInv(Settled(d, NextOp.id \in doc.fresh))
      /\ Flushed(Settled(d, NextOp.id \in doc.fresh))
    BY <1>2, <1>3, SettledKeeps DEF IInv
<1> QED
    BY <1>1, <1>4, <1>5, PageStep

\* RolledBack ends the op in flight, which was refused.
LEMMA RolledBackStep == ASSUME IInv, RolledBack PROVE IInv'
<1> DEFINE d == [doc EXCEPT !.data = @ \ IdsOf(doc.inflight)]
<1>1. UNCHANGED others /\ doc.reply = "refused" /\ doc' = Settled(d, FALSE)
    BY DEF RolledBack, others
<1>2. DocInv(Undone(doc))
    BY <1>1, UndoneKeeps DEF IInv
<1>3. Undone(doc) = [d EXCEPT !.inflight = <<>>, !.reply = "none"]
    BY DEF Undone
<1> HIDE DEF d
<1>4. DocInv(Settled(d, FALSE)) /\ Flushed(Settled(d, FALSE))
    BY <1>2, <1>3, SettledKeeps DEF IInv
<1> QED
    BY <1>1, <1>4, PageStep

-----------------------------------------------------------------------------
(* The steps: those that others take part in. *)

\* The log only grows, and so does what the history says.
Onward ==
    /\ \A n \in DOMAIN log : n \in DOMAIN log' /\ log'[n] = log[n]
    /\ \A n \in DOMAIN log' : n \in DOMAIN log \/ (n \in Nat /\ n > Version)
    /\ Version' \in Nat /\ Version <= Version'
    /\ exposed \subseteq exposed' /\ refused \subseteq refused'
    /\ UNCHANGED <<record, kept>> /\ Page' = Page

\* An op that has left the browser in this step, next to those there are.
Fits(x, d) ==
    /\ Issued(x, d)
    /\ \A b \in AllOps(d) :
          /\ x.id = b.id /\ b.id \notin exposed' => x = b
          /\ (x.seq # 0 \/ b.seq # 0) /\ SameNumber(x, b) => x = b

\* What is said of the log and the history, and outlasts such a step.
LEMMA Ages ==
    ASSUME StoreType, Onward
    PROVE  /\ \A v \in 0 .. Version : Prefix(v)' = Prefix(v)
           /\ 0 .. Version \subseteq 0 .. Version'
           /\ IdsOf(log) \subseteq IdsOf(log')
           /\ \A op, v : v \in 0 .. Version /\ Ahead(op, v) => Ahead(op, v)'
           /\ \A w : w.v \in Nat /\ Plain(w) => Plain(w)'
           /\ \A ids, w : Holds(ids, w) => Holds(ids, w)'
<1>1. Version \in Nat /\ Version' \in Nat /\ Version <= Version' /\ DOMAIN log = 1 .. Version
      /\ \A i \in 1 .. Version : log[i] \in Ops
    BY Typed DEF Onward
<1>2. 0 .. Version \subseteq 0 .. Version'
    BY <1>1
<1>3. IdsOf(log) \subseteq IdsOf(log')
    BY DEF Onward, IdsOf
<1>4. ASSUME NEW v \in 0 .. Version PROVE Prefix(v)' = Prefix(v)
    <2>1. \A i \in 1 .. v : i \in DOMAIN log /\ log[i] \in Ops /\ log'[i] = log[i]
        BY <1>1 DEF Onward
    <2>2. SubSeq(log', 1, v) = SubSeq(log, 1, v)
        <3>1. /\ SubSeq(log, 1, v) \in Seq(Ops) /\ Len(SubSeq(log, 1, v)) = v
              /\ \A i \in 1 .. v : SubSeq(log, 1, v)[i] = log[i]
            BY <1>1, <2>1, SubSeqProperties
        <3>2. /\ SubSeq(log', 1, v) \in Seq(Ops) /\ Len(SubSeq(log', 1, v)) = v
              /\ \A i \in 1 .. v : SubSeq(log', 1, v)[i] = log'[i]
            BY <1>1, <2>1, SubSeqProperties
        <3> QED
            BY <2>1, <3>1, <3>2, SeqEqual
    <2> QED
        BY <2>2 DEF Prefix
<1>5. ASSUME NEW op, NEW v \in 0 .. Version, Ahead(op, v) PROVE Ahead(op, v)'
    <2>1. \A n \in DOMAIN log' : n \notin DOMAIN log => n > v
        <3>1. \A n \in DOMAIN log' : n \notin DOMAIN log => n > Version /\ n \in Nat
            BY <1>1 DEF Onward
        <3> QED
            BY <1>1, <3>1
    <2> QED
        BY <1>5, <2>1 DEF Ahead, Onward
<1>6. ASSUME NEW w, w.v \in Nat, Plain(w) PROVE Plain(w)'
    <2>1. w.v \in 0 .. Version /\ w.v <= Version'
        BY <1>1, <1>6 DEF Plain
    <2>2. Prefix(w.v)' = Prefix(w.v)
        BY <1>4, <2>1
    <2>3. \A op : Seen(w, op) => Seen(w, op)'
        BY DEF Seen, Onward
    <2> QED
        BY <1>6, <2>1, <2>2, <2>3 DEF Plain, Onward
<1>7. ASSUME NEW ids, NEW w, Holds(ids, w) PROVE Holds(ids, w)'
    BY <1>3, <1>7 DEF Holds, Onward
<1> QED
    BY <1>2, <1>3, <1>4, <1>5, <1>6, <1>7

\* What is known of a page and of the record outlasts such a step.
LEMMA KnownAges ==
    ASSUME Onward, NEW d, NEW x,
           \A a \in Gone' : a \in Gone \/ (a = x /\ Fits(x, d)),
           NEW op \in AllOps(d), Known(op)
    PROVE  Known(op)'
    BY DEF Onward, Fits, Known

\* A view of which the ops are known is one afterwards.
LEMMA ViewAges ==
    ASSUME StoreType, Onward, NEW d, NEW x,
           \A a \in Gone' : a \in Gone \/ (a = x /\ Fits(x, d)),
           NEW w, w.v \in Nat, OpsIn(w.pendingOps) \subseteq AllOps(d),
           Plain(w), Recognised(w)
    PROVE  Plain(w)' /\ Recognised(w)'
<1>1. Plain(w)'
    BY Ages
<1>2. w.v \in 0 .. Version
    BY Typed DEF Plain
<1>3. ASSUME NEW op \in OpsIn(w.pendingOps) PROVE Ahead(op, w.v)' /\ Known(op)'
    <2>1. Ahead(op, w.v) /\ Known(op) /\ op \in AllOps(d)
        BY DEF Recognised
    <2>2. Known(op)'
        BY <2>1, KnownAges
    <2>3. Ahead(op, w.v)'
        BY <1>2, <2>1, Ages
    <2> QED
        BY <2>2, <2>3
<1> QED
    BY <1>1, <1>3 DEF Recognised

\* ... so is the record ...
LEMMA RecordAges ==
    ASSUME StoreType, Onward, Stored, NEW d, NEW x,
           \A a \in Gone' : a \in Gone \/ (a = x /\ Fits(x, d))
    PROVE  Stored'
<1>1. PICK w : w = record
    OBVIOUS
<1>2. record' = w /\ kept' = kept
    BY <1>1 DEF Onward
<1>3. /\ w.v \in Nat /\ OpsIn(w.pendingOps) \subseteq AllOps(d)
      /\ Plain(w) /\ Recognised(w) /\ Holds(kept, w)
    BY <1>1, Typed DEF Stored, View, AllOps
<1>4. Plain(w)' /\ Recognised(w)'
    BY <1>3, ViewAges
<1>5. Holds(kept, w)'
    BY <1>2, <1>3, Ages
<1> QED
    BY <1>1, <1>2, <1>4, <1>5 DEF Stored, View

\* ... and what is known of the page.
LEMMA PageAges ==
    ASSUME StoreType, Onward, NEW d0, DocInv(d0), NEW d, SamePart(d0, d), DocType(d), NEW x,
           \A a \in Gone' : a \in Gone \/ (a = x /\ Fits(x, d0))
    PROVE  DocType(d)' /\ Rest(d)'
<1>1. Rest(d) /\ AllOps(d) = AllOps(d0) /\ All(d) = All(d0)
    <2>1. All(d) = All(d0)
        BY DEF SamePart, All
    <2> QED
        BY <2>1, SamePartSameRest DEF DocInv, Rest, SamePart, AllOps
<1>2. /\ Version \in Nat /\ Version' \in Nat /\ 0 .. Version \subseteq 0 .. Version'
      /\ d.version \in 0 .. Version /\ d.version \in Nat
      /\ d.puts \in Seq(Records) /\ DOMAIN d.puts = 1 .. Len(d.puts)
      /\ d.out \subseteq Sends
    BY Typed, Ages, PageTyped DEF Onward, SamePart, DocInv
<1>3. \A op \in AllOps(d) : Known(op) => Known(op)'
    BY <1>1, KnownAges
<1>4. DocType(d)'
    <2>1. \A m \in Sends : m \in Sends'
        BY <1>2 DEF Sends, Ops, Ids, Srcs, Seqs
    <2> QED
        BY <1>2, <2>1 DEF DocType, Ops, Ids, Srcs, Seqs, Records
<1>5. ASSUME NEW w, w.v \in Nat, OpsIn(w.pendingOps) \subseteq AllOps(d),
             Plain(w), Recognised(w)
      PROVE  Plain(w)' /\ Recognised(w)'
    BY <1>1, <1>5, ViewAges
<1>6. Shown(d)'
    <2>1. PICK w : w = Current(d)
        OBVIOUS
    <2>2. /\ w.v \in Nat /\ OpsIn(w.pendingOps) \subseteq AllOps(d)
          /\ Plain(w) /\ Recognised(w) /\ (d.loaded => Holds(kept, w))
        BY <1>1, <1>2, <2>1 DEF Rest, Shown, Current, AllOps
    <2>3. Plain(w)' /\ Recognised(w)' /\ (d.loaded => Holds(kept, w)')
        BY <1>5, <2>2, Ages DEF Onward
    <2>4. Current(d)' = w
        BY <2>1 DEF Current, All
    <2> QED
        BY <2>3, <2>4 DEF Shown, Onward
<1>7. Puts(d)'
    <2>1. ASSUME NEW i \in DOMAIN d.puts PROVE View(d.puts[i])' /\ d.puts[i].there
        <3>1. PICK w \in Records : w = d.puts[i]
            BY <1>2, ElementOfSeq
        <3>2. /\ w.v \in Nat /\ OpsIn(w.pendingOps) \subseteq AllOps(d)
              /\ Plain(w) /\ Recognised(w) /\ Holds(kept, w) /\ w.there
            BY <1>1, <3>1 DEF Rest, Puts, View, AllOps, Records
        <3>3. Plain(w)' /\ Recognised(w)' /\ Holds(kept, w)'
            BY <1>5, <3>2, Ages DEF Onward
        <3> QED
            BY <3>1, <3>2, <3>3 DEF View
    <2>2. \A i \in DOMAIN d.puts : Holds(IdsOf(d.puts[i].pendingOps), Current(d))'
        BY <1>1, Ages DEF Rest, Puts, Current, All
    <2>3. \A i, j \in DOMAIN d.puts :
              i <= j => Holds(IdsOf(d.puts[i].pendingOps), d.puts[j])'
        BY <1>1, Ages DEF Rest, Puts
    <2> QED
        BY <2>1, <2>2, <2>3 DEF Puts
<1>8. Outgoing(d)'
    <2>1. ASSUME NEW m \in d.out
          PROVE  Ahead(m.op, m.v)' /\ Known(m.op)' /\ m.op.id \in d.data \cup refused'
        <3>1. m.v \in 0 .. Version /\ m.op \in AllOps(d)
            BY <1>2 DEF Sends, AllOps
        <3>2. Ahead(m.op, m.v) /\ Known(m.op) /\ m.op.id \in d.data \cup refused
            BY <1>1 DEF Rest, Outgoing
        <3> QED
            BY <1>3, <3>1, <3>2, Ages DEF Onward
    <2>2. record' = record /\ Current(d)' = Current(d)
        BY DEF Onward, Current, All
    <2> QED
        BY <1>1, <2>1, <2>2 DEF Rest, Outgoing, Only
<1>9. Numbers(d)'
    <2>1. \A a \in AllOps(d)' : a \in AllOps(d) \/ (a = x /\ Fits(x, d0))
        BY DEF AllOps, Onward, All
    <2>2. \A a : Issued(a, d0) => Issued(a, d)'
        BY DEF Issued, SamePart, Onward
    <2>3. /\ \A a \in AllOps(d0) : Issued(a, d0)
          /\ \A a, b \in AllOps(d0) : a.seq # 0 /\ SameNumber(a, b) => a = b
        BY DEF DocInv, Numbers
    <2>4. \A a \in AllOps(d)' : Issued(a, d)'
        BY <1>1, <2>1, <2>2, <2>3 DEF Fits
    <2>5. \A a, b \in AllOps(d)' : a.seq # 0 /\ SameNumber(a, b) => a = b
        BY <1>1, <2>1, <2>3 DEF Fits, SameNumber
    <2> QED
        BY <2>4, <2>5 DEF Numbers, SameNumber
<1>10. Budget(d)'
    <2>1. Numbered(d) \subseteq Numbered(d)'
        BY Ages DEF Numbered, Onward, ToNumber
    <2>2. IsFiniteSet(Edits) /\ Numbered(d)' \in SUBSET Edits
        BY OfflineConstants, FS_Interval DEF Edits, Numbered
    <2>3. IsFiniteSet(Numbered(d)')
        BY <2>2, FS_Subset
    <2>4. IsFiniteSet(Numbered(d)) /\ Cardinality(Numbered(d)) <= Cardinality(Numbered(d)')
        BY <2>1, <2>3, FS_Subset
    <2>5. Cardinality(Numbered(d)) \in Nat /\ Cardinality(Numbered(d)') \in Nat
        BY <2>3, <2>4, FS_CardinalityType
    <2>6. d.seq \in 1 .. MaxEdits + 1 /\ d.seq <= Cardinality(Numbered(d)) + 1
        BY <1>1, PageTyped DEF Rest, Budget, SamePart, DocInv
    <2> QED
        BY <2>4, <2>5, <2>6, OfflineConstants DEF Budget
<1> QED
    BY <1>4, <1>6, <1>7, <1>8, <1>9, <1>10 DEF Rest

\* The invariant from its parts, of the page that the step makes.
LEMMA Arrived ==
    ASSUME NEW d, doc' = d, StoreType', Server', Stored', DocType(d)', Shape(d)', Rest(d)',
           Flushed(d)
    PROVE  IInv'
<1>1. DocInv(d)'
    BY DEF DocInv, Rest
<1>2. DocInv(doc)'
    <2>1. All(doc)' = All(d)' /\ Current(doc)' = Current(d)' /\ AllOps(doc)' = AllOps(d)'
        BY DEF All, Current, AllOps
    <2>2. DocType(doc)'
        BY DEF DocType
    <2>3. Shape(doc)'
        BY <2>1 DEF Shape
    <2>4. Shown(doc)' /\ Puts(doc)' /\ Budget(doc)'
        BY <2>1 DEF Rest, Shown, Puts, Budget, Numbered, ToNumber
    <2>5. Outgoing(doc)' /\ Numbers(doc)'
        BY <2>1 DEF Rest, Outgoing, Numbers, Issued
    <2> QED
        BY <2>2, <2>3, <2>4, <2>5 DEF DocInv
<1>3. Flushed(doc)'
    BY DEF Flushed
<1> QED
    BY <1>2, <1>3 DEF IInv

\* The log with an op more.
LEMMA LogMore ==
    ASSUME StoreType, NEW x \in Ops, log' = Append(log, x)
    PROVE  /\ log' \in Seq(Ops) /\ Version' = Version + 1 /\ Version \in Nat
           /\ DOMAIN log = 1 .. Version
           /\ \A n \in DOMAIN log : n \in DOMAIN log' /\ log'[n] = log[n] /\ n # Version + 1
           /\ \A n \in DOMAIN log' : n \in DOMAIN log \/ (n = Version + 1 /\ log'[n] = x)
           /\ OpsIn(log') = OpsIn(log) \cup {x}
<1>1. /\ log' \in Seq(Ops) /\ Len(log') = Len(log) + 1
      /\ \A i \in 1 .. Len(log) : log'[i] = log[i]
      /\ log'[Len(log) + 1] = x
    BY AppendProperties DEF StoreType
<1>2. Version \in Nat /\ DOMAIN log = 1 .. Version
    BY Typed
<1>3. Version' = Version + 1 /\ DOMAIN log' = 1 .. Version + 1
    BY <1>1, <1>2, LenProperties DEF Version
<1>4. /\ \A n \in DOMAIN log : n \in DOMAIN log' /\ log'[n] = log[n] /\ n # Version + 1
      /\ \A n \in DOMAIN log' : n \in DOMAIN log \/ (n = Version + 1 /\ log'[n] = x)
    BY <1>1, <1>2, <1>3 DEF Version
<1>5. OpsIn(log') = OpsIn(log) \cup {x}
    BY OneMore DEF StoreType
<1> QED
    BY <1>1, <1>2, <1>3, <1>4, <1>5

\* Where an op can be, and what that says of its edit.
LEMMA WhoseEdit ==
    ASSUME StoreType, Server, Stored, NEW d, DocInv(d), NEW b \in AllOps(d)
    PROVE  b.id \in Edits \/ b \in OpsIn(log)
<1>1. CASE b.seq # 0
    BY <1>1 DEF DocInv, Numbers, Issued
<1>2. CASE b \in {m.op : m \in wire} \cup {m.op : m \in d.out}
    <2>1. b.seq # 0
        BY <1>2 DEF Server, DocInv, Outgoing
    <2> QED
        BY <1>1, <2>1
<1>3. CASE b \in OpsIn(record.pendingOps)
    BY <1>3 DEF Stored, View, Plain, Seen
<1>4. CASE b \in OpsIn(All(d))
    BY <1>4 DEF DocInv, Shown, Plain, Seen, Current
<1>5. ASSUME NEW i \in DOMAIN d.puts, b \in OpsIn(d.puts[i].pendingOps) PROVE b.id \in Edits
    BY <1>5 DEF DocInv, Puts, View, Plain, Seen
<1> QED
    BY <1>2, <1>3, <1>4, <1>5 DEF AllOps, Gone

\* OtherUser adds an op of another browser to the log.
LEMMA OtherStep == ASSUME IInv, NEW r \in RemoteEdits, OtherUser(r) PROVE IInv'
<1> USE DEF IInv
<1>1. PICK x : x = Op(r, 0, 0)
    OBVIOUS
<1>2. /\ x \in Ops /\ x.id = r /\ x.src = 0 /\ x.seq = 0
    BY <1>1, OfflineConstants DEF Op, Ops, Srcs, Seqs
<1>3. /\ log' = Append(log, x) /\ r \notin IdsOf(log)
      /\ UNCHANGED <<wire, record, doc, kept, exposed, refused, count>>
    BY <1>1 DEF OtherUser
<1>4. /\ log' \in Seq(Ops) /\ Version' = Version + 1 /\ Version \in Nat
      /\ DOMAIN log = 1 .. Version
      /\ \A n \in DOMAIN log : n \in DOMAIN log' /\ log'[n] = log[n] /\ n # Version + 1
      /\ \A n \in DOMAIN log' : n \in DOMAIN log \/ (n = Version + 1 /\ log'[n] = x)
      /\ OpsIn(log') = OpsIn(log) \cup {x}
    BY <1>2, <1>3, LogMore
<1>5. Onward
    BY <1>3, <1>4 DEF Onward, Page
<1>6. StoreType'
    <2>1. \A m \in Messages : m \in Messages'
        BY <1>4 DEF Messages, Ops, Ids, Srcs, Seqs
    <2> QED
        BY <1>3, <1>4, <2>1 DEF StoreType, Records, Ops, Ids, Srcs, Seqs
<1>7. \A b \in AllOps(doc) : b.id # r
    <2>1. \A b \in OpsIn(log) : b.id # r
        BY <1>3 DEF OpsIn, IdsOf
    <2> QED
        BY <2>1, WhoseEdit, OfflineConstants
<1>8. PICK d : d = doc
    OBVIOUS
<1>9. Fits(x, d)
    <2>1. Issued(x, d)
        <3>1. d.seq \in 1 .. MaxEdits + 1
            BY <1>8, PageTyped DEF DocInv
        <3> QED
            BY <1>2, <3>1, Typed, OfflineConstants DEF Issued
    <2> QED
        BY <1>2, <1>7, <1>8, <2>1 DEF Fits, SameNumber
<1>10. \A a \in Gone' : a \in Gone \/ (a = x /\ Fits(x, d))
    BY <1>3, <1>4, <1>9 DEF Gone
<1>11. Stored'
    BY <1>5, <1>10, RecordAges
<1>12. DocType(d)' /\ Rest(d)'
    BY <1>5, <1>8, <1>10, PageAges DEF SamePart, DocInv
<1>13. Shape(d)'
    BY <1>3, <1>8 DEF DocInv, Shape, All, Page
<1>14. Server'
    <2>1. \A i, j \in DOMAIN log' : log'[i].seq # 0 /\ SameNumber(log'[i], log'[j]) => i = j
        BY <1>2, <1>4 DEF Server, SameNumber
    <2>2. \A i, j \in DOMAIN log' : log'[i].seq = 0 /\ log'[i].id = log'[j].id => i = j
        <3>1. \A n \in DOMAIN log : log[n].id # r
            BY <1>3 DEF IdsOf
        <3> QED
            BY <1>2, <1>4, <3>1 DEF Server
    <2>3. \A a, b \in Gone' : a.id = b.id /\ a.id \notin exposed' => a = b
        <3>1. \A a \in Gone' : a \in Gone \/ a = x
            BY <1>10
        <3>2. \A b \in Gone : b.id # x.id
            BY <1>2, <1>7 DEF AllOps
        <3> QED
            BY <1>3, <3>1, <3>2 DEF Server
    <2>4. \A m \in wire' : m.op.seq # 0 /\ Ahead(m.op, m.v)'
        <3>1. \A m \in wire : m.v \in 0 .. Version
            BY DEF StoreType, Messages
        <3> QED
            BY <1>3, <1>5, <3>1, Ages DEF Server
    <2>5. \A i \in DOMAIN log' : log'[i].seq = 0 <=> log'[i].id \in RemoteEdits
        BY <1>2, <1>4 DEF Server
    <2> QED
        BY <2>1, <2>2, <2>3, <2>4, <2>5 DEF Server, SameNumber
<1> QED
    BY <1>3, <1>6, <1>8, <1>11, <1>12, <1>13, <1>14, Arrived

(* The steps of the server. *)

\* The page with an answer to its op.
LEMMA AnsweredPage ==
    ASSUME StoreType, DocInv(doc), Flushed(doc), Onward, NEW m,
           NEW reply \in {"applied", "refused"}, reply = "refused" => m.op.id \in refused',
           NEW d, d = Answer(m, reply)
    PROVE  SamePart(doc, d) /\ DocType(d) /\ Flushed(d) /\ Shape(d)'
<1>1. CASE d = doc
    <2>1. SamePart(doc, d) /\ DocType(d) /\ Flushed(d)
        BY <1>1 DEF SamePart, DocInv
    <2>2. Shape(d)'
        BY <1>1 DEF DocInv, Shape, Onward, All
    <2> QED
        BY <2>1, <2>2
<1>2. CASE doc.inflight = <<m.op>> /\ d = [doc EXCEPT !.reply = reply]
    <2>1. /\ SamePart(doc, d) /\ d.connected = doc.connected /\ d.reply = reply
          /\ d.ready = doc.ready /\ d.wants = doc.wants
        BY <1>2 DEF SamePart, DocInv, DocType
    <2>2. DocType(d)
        BY <1>2 DEF DocInv, DocType
    <2>3. Flushed(d)
        BY <2>1 DEF SamePart, Flushed
    <2>4. /\ doc.inflight # <<>> /\ doc.inflight[1] = m.op
          /\ Len(doc.inflight) = 1 /\ m.op.seq # 0 /\ doc.connected
        <3>1. doc.inflight # <<>> /\ doc.inflight[1] = m.op
            BY <1>2
        <3> QED
            BY <3>1 DEF DocInv, Shape
    <2>5. doc.loaded /\ doc.open
        <3>1. doc.loaded
            BY <2>4, EmptyPage
        <3> QED
            BY <3>1, OpenStates
    <2>6. All(d)' = All(doc)
        BY <2>1 DEF SamePart, All
    <2>7. /\ d.inflight # <<>> => Len(d.inflight) = 1 /\ d.inflight[1].seq # 0
          /\ d.connected /\ d.inflight # <<>>
          /\ d.reply = "refused" => d.inflight[1].id \in refused'
          /\ d.open /\ d.loaded
        BY <2>1, <2>4, <2>5 DEF SamePart
    <2>8. (d.loaded \/ d.wants => d.ready) /\ (IF d.open THEN Page' # 0 ELSE d = ClosedPage)
        BY <2>1, <2>7 DEF DocInv, Shape, SamePart, Onward
    <2>9. Shape(d)'
        BY <2>7, <2>8 DEF Shape
    <2> QED
        BY <2>1, <2>2, <2>3, <2>9
<1> QED
    BY <1>1, <1>2 DEF Answer

\* Messages are typed and older than the log.
LEMMA MessageIs ==
    ASSUME IInv, NEW m \in wire
    PROVE  /\ m.op \in Ops /\ m.v \in 0 .. Version /\ m.op \in Gone /\ m.op \in AllOps(doc)
           /\ m.op.seq # 0 /\ m.op.id \in Edits /\ Ahead(m.op, m.v)
<1>1. m.op \in Ops /\ m.v \in 0 .. Version
    BY DEF IInv, StoreType, Messages
<1>2. m.op \in Gone /\ m.op \in AllOps(doc)
    BY DEF Gone, AllOps
<1>3. m.op.seq # 0 /\ Ahead(m.op, m.v)
    BY DEF IInv, Server
<1>4. m.op.id \in Edits
    BY <1>2, <1>3 DEF IInv, DocInv, Numbers, Issued
<1> QED
    BY <1>1, <1>2, <1>3, <1>4

\* Receive applies the op unless it repeats one.
LEMMA ReceiveStep == ASSUME IInv, NEW m \in wire, Receive(m) PROVE IInv'
<1> USE DEF IInv
<1>1. PICK x : x = m.op
    OBVIOUS
<1>2. PICK d : d = Answer(m, "applied")
    OBVIOUS
<1>3. /\ doc' = d /\ wire' = wire \ {m}
      /\ UNCHANGED <<record, kept, exposed, refused, count>>
      /\ Repeats(m) => log' = log
      /\ ~ Repeats(m) => log' = Append(log, x)
    BY <1>1, <1>2 DEF Receive
<1>4. /\ x \in Ops /\ m.v \in 0 .. Version /\ x \in Gone
      /\ x.seq # 0 /\ x.id \in Edits /\ Ahead(x, m.v)
    BY <1>1, MessageIs
<1>5. /\ log' \in Seq(Ops) /\ Version \in Nat /\ DOMAIN log = 1 .. Version
      /\ Version' \in Nat /\ Version <= Version'
      /\ \A n \in DOMAIN log : n \in DOMAIN log' /\ log'[n] = log[n]
      /\ \A n \in DOMAIN log' :
            n \in DOMAIN log \/ (n = Version + 1 /\ log'[n] = x /\ ~ Repeats(m))
      /\ OpsIn(log') \subseteq OpsIn(log) \cup {x}
    <2>1. CASE Repeats(m)
        BY <1>3, <2>1, Typed DEF StoreType, Version
    <2>2. CASE ~ Repeats(m)
        <3>1. log' = Append(log, x)
            BY <1>3, <2>2
        <3> QED
            BY <1>4, <2>2, <3>1, LogMore
    <2> QED
        BY <2>1, <2>2
<1>6. Onward
    BY <1>3, <1>5 DEF Onward, Page
<1>7. StoreType'
    <2>1. \A k \in Messages : k \in Messages'
        BY <1>5 DEF Messages, Ops, Ids, Srcs, Seqs
    <2> QED
        BY <1>3, <1>5, <2>1 DEF StoreType, Records, Ops, Ids, Srcs, Seqs
<1>8. Gone' \subseteq Gone
    BY <1>3, <1>4, <1>5 DEF Gone
<1>9. \A a \in Gone' : a \in Gone \/ (a = x /\ Fits(x, doc))
    BY <1>8
<1>10. Stored'
    BY <1>6, <1>9, RecordAges
<1>11. SamePart(doc, d) /\ DocType(d) /\ Flushed(d) /\ Shape(d)'
    BY <1>2, <1>6, AnsweredPage
<1>12. DocType(d)' /\ Rest(d)'
    BY <1>6, <1>9, <1>11, PageAges
<1>13. Server'
    <2>1. \A n \in DOMAIN log : SameNumber(log[n], x) => Repeats(m)
        <3>1. ASSUME NEW n \in DOMAIN log, SameNumber(log[n], x) PROVE Repeats(m)
            <4>1. n > m.v
                BY <1>4, <3>1 DEF Ahead
            <4>2. n \in m.v + 1 .. Version
                BY <1>4, <1>5, <4>1
            <4> QED
                BY <1>1, <3>1, <4>2 DEF Repeats, SameNumber
        <3> QED
            BY <3>1
    <2>2. \A i, j \in DOMAIN log' : log'[i].seq # 0 /\ SameNumber(log'[i], log'[j]) => i = j
        BY <1>5, <2>1 DEF Server, SameNumber
    <2>3. \A n \in DOMAIN log : log[n].seq = 0 => log[n].id # x.id
        BY <1>4, OfflineConstants DEF Server
    <2>4. \A i, j \in DOMAIN log' : log'[i].seq = 0 /\ log'[i].id = log'[j].id => i = j
        BY <1>4, <1>5, <2>3 DEF Server
    <2>5. \A a, b \in Gone' : a.id = b.id /\ a.id \notin exposed' => a = b
        BY <1>3, <1>8 DEF Server
    <2>6. \A k \in wire' : k.op.seq # 0 /\ Ahead(k.op, k.v)'
        <3>1. \A k \in wire : k.v \in 0 .. Version
            BY MessageIs
        <3> QED
            BY <1>3, <1>6, <3>1, Ages DEF Server
    <2>7. \A i \in DOMAIN log' : log'[i].seq = 0 <=> log'[i].id \in RemoteEdits
        BY <1>4, <1>5, OfflineConstants DEF Server
    <2> QED
        BY <2>2, <2>4, <2>5, <2>6, <2>7 DEF Server, SameNumber
<1> QED
    BY <1>3, <1>7, <1>10, <1>11, <1>12, <1>13, Arrived

\* Refuse adds the edit to the refused.
LEMMA RefuseStep == ASSUME IInv, NEW m \in wire, Refuse(m) PROVE IInv'
<1> USE DEF IInv
<1>1. PICK d : d = Answer(m, "refused")
    OBVIOUS
<1>2. /\ doc' = d /\ wire' = wire \ {m} /\ refused' = refused \cup {m.op.id}
      /\ count.mishaps < MaxMishaps /\ count' = [count EXCEPT !.mishaps = @ + 1]
      /\ UNCHANGED <<log, record, kept, exposed>>
    BY <1>1 DEF Refuse
<1>3. Version \in Nat /\ Version' = Version /\ DOMAIN log = 1 .. Version
    BY <1>2, Typed DEF Version
<1>4. /\ count.pages \in 0 .. MaxPages /\ count.mishaps + 1 \in 0 .. MaxMishaps
      /\ count' \in [pages : 0 .. MaxPages, mishaps : 0 .. MaxMishaps]
      /\ Page' = Page
    BY <1>2, OfflineConstants DEF StoreType, Page
<1>5. Onward
    BY <1>2, <1>3, <1>4 DEF Onward
<1>6. StoreType'
    <2>1. m.op.id \in Edits
        BY MessageIs
    <2>2. Messages' = Messages
        BY <1>3 DEF Messages, Ops, Ids, Srcs, Seqs
    <2> QED
        BY <1>2, <1>4, <2>1, <2>2 DEF StoreType
<1>7. Gone' \subseteq Gone
    BY <1>2 DEF Gone
<1>8. \A a \in Gone' : a \in Gone \/ (a = m.op /\ Fits(m.op, doc))
    BY <1>7
<1>9. Stored'
    BY <1>5, <1>8, RecordAges
<1>10. SamePart(doc, d) /\ DocType(d) /\ Flushed(d) /\ Shape(d)'
    BY <1>1, <1>2, <1>5, AnsweredPage
<1>11. DocType(d)' /\ Rest(d)'
    BY <1>5, <1>8, <1>10, PageAges
<1>12. Server'
    BY <1>2, <1>3, <1>7 DEF Server, Ahead
<1> QED
    BY <1>2, <1>6, <1>9, <1>10, <1>11, <1>12, Arrived

\* Lose drops a message.
LEMMA LoseStep == ASSUME IInv, NEW m \in wire, Lose(m) PROVE IInv'
<1> USE DEF IInv
<1>1. PICK d : d = doc
    OBVIOUS
<1>2. /\ wire' = wire \ {m}
      /\ UNCHANGED <<log, record, doc, kept, exposed, refused, count>>
    BY DEF Lose
<1>3. Version \in Nat /\ Version' = Version /\ Page' = Page /\ DOMAIN log = 1 .. Version
    BY <1>2, Typed DEF Version, Page
<1>4. Onward
    BY <1>2, <1>3 DEF Onward
<1>5. StoreType'
    BY <1>2, <1>3 DEF StoreType, Messages, Ops, Ids, Srcs, Seqs
<1>6. Gone' \subseteq Gone
    BY <1>2 DEF Gone
<1>7. \A a \in Gone' : a \in Gone \/ (a = m.op /\ Fits(m.op, d))
    BY <1>6
<1>8. Stored'
    BY <1>4, <1>7, RecordAges
<1>9. DocType(d)' /\ Rest(d)'
    BY <1>1, <1>4, <1>7, PageAges DEF SamePart, DocInv
<1>10. Shape(d)'
    BY <1>1, <1>2, <1>3 DEF DocInv, Shape, All
<1>11. Server'
    BY <1>2, <1>3, <1>6 DEF Server, Ahead
<1> QED
    BY <1>1, <1>2, <1>5, <1>8, <1>9, <1>10, <1>11, Arrived

\* The messages of a lost connection.
Orphaned == {[m EXCEPT !.live = FALSE] : m \in wire}

\* They say what they said, and to the same server.
LEMMA OrphanedIs ==
    ASSUME StoreType, Server, wire' = Orphaned, log' = log, exposed' = exposed
    PROVE  Gone' = Gone /\ wire' \subseteq Messages /\ Server'
<1>1. \A k \in wire' : \E m \in wire : k.op = m.op /\ k.v = m.v /\ k \in Messages
    BY DEF Orphaned, StoreType, Messages
<1>2. \A m \in wire : \E k \in wire' : k.op = m.op
    <2>1. ASSUME NEW m \in wire PROVE \E k \in wire' : k.op = m.op
        <3>1. [m EXCEPT !.live = FALSE].op = m.op
            BY DEF StoreType, Messages
        <3>2. [m EXCEPT !.live = FALSE] \in wire'
            BY DEF Orphaned
        <3> QED
            BY <3>1, <3>2
    <2> QED
        BY <2>1
<1>3. {m.op : m \in wire'} = {m.op : m \in wire}
    BY <1>1, <1>2
<1>4. Gone' = Gone
    BY <1>3 DEF Gone
<1>5. Server'
    <2>1. \A k \in wire' : k.op.seq # 0 /\ Ahead(k.op, k.v)
        BY <1>1 DEF Server
    <2> QED
        BY <1>4, <2>1 DEF Server, Ahead
<1> QED
    BY <1>1, <1>4, <1>5

\* Disconnect cuts the page off.
LEMMA DisconnectStep == ASSUME IInv, Disconnect PROVE IInv'
<1> USE DEF IInv
<1>1. PICK d : d = CutOff(doc)
    OBVIOUS
<1>2. /\ doc' = d /\ wire' = Orphaned /\ doc.connected
      /\ count.mishaps < MaxMishaps /\ count' = [count EXCEPT !.mishaps = @ + 1]
      /\ UNCHANGED <<log, record, kept, exposed, refused>>
    BY <1>1 DEF Disconnect, CutOff, Orphaned
<1>3. DocInv(d) /\ Flushed(d)
    BY <1>1, <1>2, OpenStates, CutOffKeeps
<1>4. Version \in Nat /\ Version' = Version /\ DOMAIN log = 1 .. Version
    BY <1>2, Typed DEF Version
<1>5. /\ count' \in [pages : 0 .. MaxPages, mishaps : 0 .. MaxMishaps]
      /\ Page' = Page
    BY <1>2, OfflineConstants DEF StoreType, Page
<1>6. Onward
    BY <1>2, <1>4, <1>5 DEF Onward
<1>7. Gone' = Gone /\ wire' \subseteq Messages /\ Server'
    BY <1>2, OrphanedIs
<1>8. StoreType'
    BY <1>2, <1>4, <1>5, <1>7 DEF StoreType, Messages
<1>9. PICK x : x = 0
    OBVIOUS
<1>10. \A a \in Gone' : a \in Gone \/ (a = x /\ Fits(x, d))
    BY <1>7
<1>11. Stored'
    BY <1>6, <1>10, RecordAges
<1>12. DocType(d)' /\ Rest(d)'
    BY <1>3, <1>6, <1>10, PageAges DEF SamePart, DocInv
<1>13. Shape(d)'
    BY <1>2, <1>3, <1>5 DEF DocInv, Shape, All
<1> QED
    BY <1>2, <1>3, <1>7, <1>8, <1>11, <1>12, <1>13, Arrived

(* Pages are closed and opened. *)

\* A page that has nothing, is nothing to the record and the server.
Blank(d) ==
    /\ DocType(d)
    /\ ~ d.loaded /\ ~ d.ready /\ ~ d.wants /\ d.reply = "none"
    /\ d.inflight = <<>> /\ d.pending = <<>> /\ d.puts = <<>> /\ d.out = {}
    /\ d.seq = 1 /\ d.data = {} /\ d.version = 0

\* The invariant of a page that has nothing.
LEMMA BlankPage ==
    ASSUME StoreType, NEW d, Blank(d)
    PROVE  /\ All(d) = <<>>
           /\ Shown(d) /\ Puts(d) /\ Outgoing(d) /\ Budget(d) /\ Flushed(d)
           /\ AllOps(d) = Gone \cup OpsIn(record.pendingOps)
<1>1. All(d) = <<>>
    BY EmptySeq, ConcatEmptySeq DEF Blank, All
<1>2. OpsIn(<<>>) = {} /\ IdsOf(<<>>) = {} /\ Once(<<>>) /\ OnlyFirstSent(<<>>)
    BY DEF OpsIn, IdsOf, Once, OnlyFirstSent
<1>3. Shown(d)
    <2>1. Current(d) = [v |-> 0, data |-> {}, pendingOps |-> <<>>, there |-> TRUE]
        BY <1>1 DEF Blank, Current
    <2>2. Prefix(0) = {}
        <3>1. SubSeq(log, 1, 0) = <<>>
            BY SubSeqEmpty DEF StoreType
        <3> QED
            BY <1>2, <3>1 DEF Prefix
    <2>3. Plain(Current(d))
        BY <1>2, <2>1, <2>2, Typed DEF Plain
    <2>4. Recognised(Current(d))
        BY <1>2, <2>1 DEF Recognised
    <2> QED
        BY <2>3, <2>4 DEF Shown, Blank
<1>4. Puts(d) /\ Outgoing(d)
    BY DEF Puts, Outgoing, Blank
<1>5. Budget(d)
    <2>1. IsFiniteSet(Edits) /\ Numbered(d) \in SUBSET Edits
        BY OfflineConstants, FS_Interval DEF Edits, Numbered
    <2>2. Cardinality(Numbered(d)) \in Nat
        BY <2>1, FS_Subset, FS_CardinalityType
    <2> QED
        BY <2>2 DEF Budget, Blank
<1>6. Flushed(d)
    BY DEF Flushed, Blank
<1>7. AllOps(d) = Gone \cup OpsIn(record.pendingOps)
    BY <1>1, <1>2 DEF AllOps, Blank
<1> QED
    BY <1>1, <1>3, <1>4, <1>5, <1>6, <1>7

\* A closed page has nothing.
LEMMA ClosedIsBlank ==
    ASSUME StoreType
    PROVE  Blank(ClosedPage)
<1>1. 0 \in 0 .. Version /\ 1 \in 1 .. MaxEdits + 1
    BY Typed, OfflineConstants
<1> QED
    BY <1>1, EmptySeq DEF ClosedPage, Blank, DocType

\* Close forgets the page; what it knew alone is lost with it.
LEMMA CloseStep == ASSUME IInv, Close PROVE IInv'
<1> USE DEF IInv
<1>1. PICK d : d = ClosedPage
    OBVIOUS
<1>2. /\ doc' = d /\ wire' = Orphaned
      /\ UNCHANGED <<log, record, kept, exposed, refused, count>>
    BY <1>1 DEF Close, Orphaned
<1>3. Blank(d) /\ ~ d.open
    BY <1>1, ClosedIsBlank DEF ClosedPage
<1>4. DocInv(d) /\ Flushed(d)
    <2>1. Numbers(d)
        <3>1. AllOps(d) \subseteq AllOps(doc)
            BY <1>3, BlankPage DEF AllOps
        <3>2. \A a \in AllOps(d) : Issued(a, d)
            BY <1>3, <3>1 DEF DocInv, Numbers, Issued
        <3> QED
            BY <3>1, <3>2 DEF DocInv, Numbers
    <2>2. Shape(d)
        BY <1>1, <1>3, BlankPage DEF Shape, Blank
    <2> QED
        BY <1>3, <2>1, <2>2, BlankPage DEF DocInv, Blank
<1>5. Version \in Nat /\ Version' = Version /\ Page' = Page /\ DOMAIN log = 1 .. Version
    BY <1>2, Typed DEF Version, Page
<1>6. Onward
    BY <1>2, <1>5 DEF Onward
<1>7. Gone' = Gone /\ wire' \subseteq Messages /\ Server'
    BY <1>2, OrphanedIs
<1>8. StoreType'
    BY <1>2, <1>5, <1>7 DEF StoreType, Messages
<1>9. PICK x : x = 0
    OBVIOUS
<1>10. \A a \in Gone' : a \in Gone \/ (a = x /\ Fits(x, d))
    BY <1>7
<1>11. Stored'
    BY <1>6, <1>10, RecordAges
<1>12. DocType(d)' /\ Rest(d)'
    BY <1>4, <1>6, <1>10, PageAges DEF SamePart, DocInv
<1>13. Shape(d)'
    BY <1>2, <1>4, <1>5 DEF DocInv, Shape, All
<1> QED
    BY <1>2, <1>4, <1>7, <1>8, <1>11, <1>12, <1>13, Arrived

\* Open makes a page with a connection id that no op has yet.
LEMMA OpenStep ==
    ASSUME IInv, NEW query \in BOOLEAN, NEW online \in BOOLEAN, Open(query, online)
    PROVE  IInv'
<1> USE DEF IInv
<1>1. PICK d : d = [ClosedPage EXCEPT !.open = TRUE, !.counted = query, !.connected = online]
    OBVIOUS
<1>2. /\ doc' = d /\ ~ doc.open /\ Page < MaxPages
      /\ count' = [count EXCEPT !.pages = @ + 1]
      /\ UNCHANGED <<log, wire, record, kept, exposed, refused>>
    BY <1>1 DEF Open
<1>3. Blank(d) /\ d.open
    <2>1. 0 \in 0 .. Version /\ 1 \in 1 .. MaxEdits + 1
        BY Typed, OfflineConstants
    <2> QED
        BY <1>1, <2>1, EmptySeq DEF ClosedPage, Blank, DocType
<1>4. /\ Page \in Nat /\ Page' = Page + 1
      /\ count' \in [pages : 0 .. MaxPages, mishaps : 0 .. MaxMishaps]
    BY <1>2, OfflineConstants DEF StoreType, Page
<1>5. Version' = Version /\ Gone' = Gone
    BY <1>2 DEF Version, Gone
<1>6. StoreType' /\ Server'
    BY <1>2, <1>4, <1>5 DEF StoreType, Server, Messages, Ahead
<1>7. /\ \A w : Plain(w) => Plain(w)'
      /\ \A w : Recognised(w) => Recognised(w)'
      /\ \A w, ids : Holds(ids, w) => Holds(ids, w)'
    <2>1. \A v : Prefix(v)' = Prefix(v)
        BY <1>2 DEF Prefix
    <2>2. \A w : Plain(w) => Plain(w)'
        BY <1>2, <1>5, <2>1 DEF Plain, Seen
    <2>3. \A w : Recognised(w) => Recognised(w)'
        BY <1>2, <1>5 DEF Recognised, Ahead, Known
    <2>4. \A w, ids : Holds(ids, w) => Holds(ids, w)'
        BY <1>2 DEF Holds
    <2> QED
        BY <2>2, <2>3, <2>4
<1>8. Stored'
    BY <1>2, <1>7 DEF Stored, View
<1>9. DocType(d)'
    BY <1>3, <1>5 DEF Blank, DocType, Sends, Ops, Ids, Srcs, Seqs, Records
<1>10. All(d) = <<>> /\ All(d)' = All(d)
    BY <1>3, BlankPage DEF All
<1>11. Shape(d)'
    BY <1>3, <1>4, <1>10 DEF Blank, Shape
<1>12. Shown(d)'
    <2>1. Current(d)' = Current(d)
        BY <1>10 DEF Current
    <2> QED
        BY <1>3, <1>7, <2>1, BlankPage DEF Shown, Blank
<1>13. Puts(d)' /\ Outgoing(d)'
    BY <1>3 DEF Puts, Outgoing, Blank
<1>14. Numbers(d)'
    <2>1. AllOps(d)' = AllOps(d)
        BY <1>2, <1>5, <1>10 DEF AllOps
    <2>2. AllOps(d) \subseteq AllOps(doc)
        BY <1>3, BlankPage DEF AllOps
    <2>3. ASSUME NEW a \in AllOps(d) PROVE Issued(a, d)'
        <3>1. Issued(a, doc) /\ a.src \in Nat
            BY <2>2, AllOpsTyped DEF DocInv, Numbers
        <3>2. a.src <= Page' /\ a.src # Page'
            BY <1>4, <3>1 DEF Issued
        <3> QED
            BY <3>1, <3>2 DEF Issued
    <2> QED
        BY <2>1, <2>2, <2>3 DEF DocInv, Numbers, SameNumber
<1>15. Budget(d)'
    <2>1. Numbered(d)' = Numbered(d)
        BY <1>2 DEF Numbered, ToNumber
    <2> QED
        BY <1>3, <2>1, BlankPage DEF Budget
<1>16. Rest(d)'
    BY <1>12, <1>13, <1>14, <1>15 DEF Rest
<1> QED
    BY <1>2, <1>3, <1>6, <1>8, <1>9, <1>11, <1>16, BlankPage, Arrived

(* An op leaves the browser. *)

\* A page that has a message less to send.
LEMMA FewerOut ==
    ASSUME StoreType, NEW d0, DocInv(d0), Flushed(d0), NEW m \in d0.out,
           NEW d, d = [d0 EXCEPT !.out = @ \ {m}]
    PROVE  /\ DocInv(d) /\ Flushed(d) /\ AllOps(d) \subseteq AllOps(d0)
           /\ d.open = d0.open /\ d.connected = d0.connected /\ d.seq = d0.seq
           /\ d.data = d0.data /\ d.puts = d0.puts /\ d.out \subseteq d0.out
           /\ All(d) = All(d0) /\ Current(d) = Current(d0)
<1>1. /\ d.open = d0.open /\ d.loaded = d0.loaded /\ d.version = d0.version
      /\ d.data = d0.data /\ d.inflight = d0.inflight /\ d.pending = d0.pending
      /\ d.seq = d0.seq /\ d.puts = d0.puts /\ d.out = d0.out \ {m}
      /\ d.connected = d0.connected /\ d.reply = d0.reply
      /\ d.ready = d0.ready /\ d.wants = d0.wants
    BY DEF DocInv, DocType
<1>2. All(d) = All(d0) /\ Current(d) = Current(d0)
    BY <1>1 DEF All, Current
<1>3. AllOps(d) \subseteq AllOps(d0)
    BY <1>1, <1>2 DEF AllOps
<1>4. DocType(d)
    BY DEF DocInv, DocType
<1>5. d0.open
    BY DEF DocInv, Shape, ClosedPage
<1>6. Shape(d)
    BY <1>1, <1>2, <1>5 DEF DocInv, Shape
<1>7. Shown(d) /\ Puts(d)
    BY <1>1, <1>2 DEF DocInv, Shown, Puts
<1>8. Outgoing(d)
    BY <1>1, <1>2 DEF DocInv, Outgoing
<1>9. Numbers(d)
    BY <1>1, <1>3, FewerNumbers DEF DocInv
<1>10. Budget(d)
    BY <1>1 DEF DocInv, Budget, Numbered, ToNumber
<1>11. Flushed(d)
    BY <1>1 DEF Flushed
<1> QED
    BY <1>1, <1>2, <1>3, <1>4, <1>6, <1>7, <1>8, <1>9, <1>10, <1>11 DEF DocInv

\* SendOp drops the message or gives it to the network.
LEMMA SendStep == ASSUME IInv, NEW m \in doc.out, SendOp(m) PROVE IInv'
<1> USE DEF IInv
<1>1. PICK d : d = [doc EXCEPT !.out = @ \ {m}]
    OBVIOUS
<1>2. /\ DocInv(d) /\ Flushed(d) /\ AllOps(d) \subseteq AllOps(doc)
      /\ d.open = doc.open /\ d.connected = doc.connected /\ d.seq = doc.seq
      /\ d.puts = doc.puts /\ d.out \subseteq doc.out /\ Current(d) = Current(doc)
      /\ All(d) = All(doc)
    BY <1>1, FewerOut
<1>3. CASE ~ doc.connected
    <2>1. doc' = d /\ UNCHANGED others
        BY <1>1, <1>3 DEF SendOp, others
    <2> QED
        BY <1>2, <2>1, PageStep
<1>4. CASE doc.connected
    <2>1. PICK x : x = m.op
        OBVIOUS
    <2>2. PICK k : k = [op |-> x, v |-> m.v, live |-> TRUE]
        OBVIOUS
    <2>3. /\ doc' = d /\ wire' = wire \cup {k} /\ m.after = 0
          /\ exposed \subseteq exposed' /\ exposed' \subseteq exposed \cup {x.id}
          /\ ~ m.stored => x.id \in exposed'
          /\ UNCHANGED <<log, record, kept, refused, count>>
        BY <1>1, <1>4, <2>1, <2>2 DEF SendOp
    <2>4. /\ x \in Ops /\ m.v \in 0 .. Version /\ m.stored \in BOOLEAN
          /\ x.seq # 0 /\ Ahead(x, m.v) /\ Known(x) /\ Only(x, Current(doc))
          /\ m.stored => Only(x, record)
          /\ x \in AllOps(doc)
        <3>1. m \in Sends
            BY DEF DocInv, DocType
        <3>2. x \in AllOps(doc)
            BY <2>1 DEF AllOps
        <3> QED
            BY <2>1, <2>3, <3>1, <3>2 DEF DocInv, Outgoing, Sends
    <2>5. \A i \in DOMAIN doc.puts : m.stored => Only(x, doc.puts[i])
        <3>1. \A i \in DOMAIN doc.puts : i >= 0
            BY PageTyped DEF DocInv
        <3> QED
            BY <2>1, <2>3, <3>1 DEF DocInv, Outgoing
    <2>6. Fits(x, d)
        <3>1. Issued(x, d)
            BY <1>2, <2>4 DEF DocInv, Numbers, Issued
        <3>2. ASSUME NEW b \in AllOps(d), x.id = b.id, b.id \notin exposed' PROVE x = b
            <4>1. m.stored /\ x.id \notin exposed
                BY <2>3, <2>4, <3>2
            <4>2. CASE b \in Gone
                BY <2>4, <3>2, <4>1, <4>2 DEF Known
            <4>3. CASE b \in OpsIn(record.pendingOps)
                BY <2>4, <3>2, <4>1, <4>3 DEF Only
            <4>4. CASE b \in OpsIn(All(d))
                BY <1>2, <2>4, <3>2, <4>4 DEF Only, Current
            <4>5. CASE b \in {n.op : n \in d.out}
                BY <1>2, <2>1, <3>2, <4>5 DEF DocInv, Outgoing
            <4>6. ASSUME NEW i \in DOMAIN d.puts, b \in OpsIn(d.puts[i].pendingOps)
                  PROVE x = b
                BY <1>2, <2>5, <3>2, <4>1, <4>6 DEF Only
            <4> QED
                BY <4>2, <4>3, <4>4, <4>5, <4>6 DEF AllOps
        <3>3. ASSUME NEW b \in AllOps(d), SameNumber(x, b) PROVE x = b
            BY <1>2, <2>4, <3>3 DEF DocInv, Numbers
        <3> QED
            BY <3>1, <3>2, <3>3 DEF Fits
    <2>7. Version \in Nat /\ Version' = Version /\ Page' = Page /\ DOMAIN log = 1 .. Version
        BY <2>3, Typed DEF Version, Page
    <2>8. Onward
        BY <2>3, <2>7 DEF Onward
    <2>9. {n.op : n \in wire'} = {n.op : n \in wire} \cup {x}
        BY <2>2, <2>3
    <2>10. Gone' = Gone \cup {x}
        BY <2>3, <2>9 DEF Gone
    <2>11. \A a \in Gone' : a \in Gone \/ (a = x /\ Fits(x, d))
        BY <2>6, <2>10
    <2>12. Stored'
        BY <2>8, <2>11, RecordAges
    <2>13. DocType(d)' /\ Rest(d)'
        BY <1>2, <2>8, <2>11, PageAges DEF SamePart, DocInv
    <2>14. Shape(d)'
        BY <1>2, <2>3, <2>7 DEF DocInv, Shape, All
    <2>15. StoreType'
        <3>1. k \in Messages
            BY <2>2, <2>4 DEF Messages
        <3>2. x.id \in Edits
            BY <2>4 DEF DocInv, Numbers, Issued
        <3> QED
            BY <2>3, <2>7, <3>1, <3>2 DEF StoreType, Messages
    <2>16. Server'
        <3>1. \A a, b \in Gone' : a.id = b.id /\ a.id \notin exposed' => a = b
            BY <2>3, <2>4, <2>10 DEF Server, Known
        <3>2. \A n \in wire' : n.op.seq # 0 /\ Ahead(n.op, n.v)
            BY <2>2, <2>3, <2>4 DEF Server
        <3> QED
            BY <2>3, <3>1, <3>2 DEF Server, Ahead
    <2> QED
        BY <1>2, <2>3, <2>12, <2>13, <2>14, <2>15, <2>16, Arrived
<1> QED
    BY <1>3, <1>4

(* IndexedDB ends a transaction. *)

\* The op of a message with a transaction less before it.
Closer(m) == [m EXCEPT !.after = IF @ = 0 THEN 0 ELSE @ - 1]

\* Its parts.
LEMMA CloserIs ==
    ASSUME NEW m \in Sends
    PROVE  /\ Closer(m) \in Sends /\ Closer(m).op = m.op /\ Closer(m).v = m.v
           /\ Closer(m).stored = m.stored
           /\ m.after = 0 => Closer(m).after = 0
           /\ m.after # 0 => Closer(m).after = m.after - 1
           /\ m.after \in Nat /\ Closer(m).after \in Nat
<1>1. PICK n \in Nat : n = IF m.after = 0 THEN 0 ELSE m.after - 1
    BY DEF Sends
<1>2. Closer(m) = [m EXCEPT !.after = n]
    BY <1>1 DEF Closer
<1>3. /\ Closer(m) \in Sends /\ Closer(m).op = m.op /\ Closer(m).v = m.v
      /\ Closer(m).stored = m.stored /\ Closer(m).after = n
    BY <1>2 DEF Sends
<1> QED
    BY <1>1, <1>3 DEF Sends

\* PutDone puts the first of the transactions into the record.
LEMMA PutDoneStep == ASSUME IInv, PutDone PROVE IInv'
<1> USE DEF IInv
<1>1. PICK d : d = [doc EXCEPT !.puts = Tail(@), !.out = {Closer(m) : m \in @}]
    OBVIOUS
<1>2. PICK w : w = Head(doc.puts)
    OBVIOUS
<1>3. /\ doc' = d /\ doc.puts # <<>> /\ record' = w
      /\ kept' = kept \cup IdsOf(w.pendingOps)
      /\ UNCHANGED <<log, wire, exposed, refused, count>>
    BY <1>1, <1>2 DEF PutDone, Closer
<1>4. /\ d.open = doc.open /\ d.loaded = doc.loaded /\ d.version = doc.version
      /\ d.data = doc.data /\ d.inflight = doc.inflight /\ d.pending = doc.pending
      /\ d.seq = doc.seq /\ d.puts = Tail(doc.puts) /\ d.out = {Closer(m) : m \in doc.out}
      /\ d.connected = doc.connected /\ d.reply = doc.reply
      /\ d.ready = doc.ready /\ d.wants = doc.wants
    BY <1>1 DEF DocInv, DocType
<1>5. /\ doc.puts \in Seq(Records) /\ DOMAIN doc.puts = 1 .. Len(doc.puts)
      /\ doc.out \in SUBSET Sends
    BY PageTyped DEF DocInv
<1>6. /\ Tail(doc.puts) \in Seq(Records) /\ Len(Tail(doc.puts)) = Len(doc.puts) - 1
      /\ \A i \in 1 .. Len(Tail(doc.puts)) : Tail(doc.puts)[i] = doc.puts[i + 1]
      /\ w = doc.puts[1] /\ w \in Records
    BY <1>2, <1>3, <1>5, HeadTailProperties
<1>7. PICK n \in Nat : /\ Len(doc.puts) = n + 1 /\ Len(d.puts) = n
                       /\ DOMAIN d.puts = 1 .. n /\ DOMAIN doc.puts = 1 .. n + 1
    <2>1. Len(doc.puts) \in Nat /\ Len(Tail(doc.puts)) \in Nat
          /\ DOMAIN Tail(doc.puts) = 1 .. Len(Tail(doc.puts))
        BY <1>5, <1>6, LenProperties
    <2> QED
        BY <1>4, <1>5, <1>6, <2>1
<1>8. \A i \in 1 .. n : d.puts[i] = doc.puts[i + 1] /\ i + 1 \in 1 .. n + 1 /\ i \in Nat
    BY <1>4, <1>6, <1>7
<1>9. /\ Version' = Version /\ Gone' = Gone /\ Page' = Page
      /\ \A v : Prefix(v)' = Prefix(v)
    BY <1>3 DEF Version, Gone, Page, Prefix
<1>10. /\ \A u : Plain(u) => Plain(u)'
       /\ \A u : Recognised(u) => Recognised(u)'
       /\ \A u : Holds(kept, u) /\ Holds(IdsOf(w.pendingOps), u) => Holds(kept, u)'
    <2>1. \A u : Plain(u) => Plain(u)'
        BY <1>3, <1>9 DEF Plain, Seen
    <2>2. \A u : Recognised(u) => Recognised(u)'
        BY <1>3, <1>9 DEF Recognised, Ahead, Known
    <2>3. \A u : Holds(kept, u) /\ Holds(IdsOf(w.pendingOps), u) => Holds(kept, u)'
        BY <1>3 DEF Holds
    <2> QED
        BY <2>1, <2>2, <2>3
<1>11. Plain(w) /\ Recognised(w) /\ Holds(kept, w) /\ w.there
    BY <1>6, <1>7 DEF DocInv, Puts, View
<1>12. doc.loaded /\ doc.open
    BY <1>3, OpenStates DEF DocInv, Shape
<1>13. StoreType'
    <2>1. IdsOf(w.pendingOps) \subseteq Edits
        BY <1>11, <1>6, Members DEF Plain, Seen, Records, IdsOf, OpsIn
    <2> QED
        BY <1>3, <1>6, <1>9, <2>1 DEF StoreType, Messages
<1>14. Server'
    BY <1>3, <1>9 DEF Server, Ahead
<1>15. Stored'
    <2>1. Holds(kept, w)'
        BY <1>10, <1>11 DEF Holds
    <2> QED
        BY <1>3, <1>10, <1>11, <2>1 DEF Stored, View
<1>16. DocType(d)'
    <2>1. d.out \subseteq Sends
        BY <1>4, <1>5, CloserIs
    <2>2. Sends' = Sends
        BY <1>9 DEF Sends, Ops, Ids, Srcs, Seqs
    <2>3. DocType(d)
        <3>1. PICK out : out = {Closer(m) : m \in doc.out}
            OBVIOUS
        <3>2. PICK puts \in Seq(Records) : puts = Tail(doc.puts)
            BY <1>6
        <3>3. d = [doc EXCEPT !.puts = puts, !.out = out] /\ out \subseteq Sends
            BY <1>1, <1>4, <2>1, <3>1, <3>2
        <3> QED
            BY <3>3 DEF DocInv, DocType
    <2> QED
        BY <1>9, <2>2, <2>3 DEF DocType, Ops, Ids, Srcs, Seqs, Records
<1>17. All(d) = All(doc) /\ All(d)' = All(d) /\ Current(d)' = Current(doc) /\ Current(d) = Current(doc)
    BY <1>4 DEF All, Current
<1>18. Shape(d)'
    BY <1>3, <1>4, <1>9, <1>12, <1>17 DEF DocInv, Shape
<1>19. \A i \in 1 .. n + 1 : Holds(IdsOf(w.pendingOps), doc.puts[i])
    <2>1. \A i \in 1 .. n + 1 : 1 \in 1 .. n + 1 /\ 1 <= i
        OBVIOUS
    <2> QED
        BY <1>6, <1>7, <2>1 DEF DocInv, Puts
<1>20. PICK u : u = Current(doc)
    OBVIOUS
<1>21. Shown(d)'
    <2>1. Holds(IdsOf(w.pendingOps), u)
        BY <1>6, <1>7, <1>20 DEF DocInv, Puts
    <2>2. Plain(u) /\ Recognised(u) /\ Holds(kept, u)
        BY <1>12, <1>20 DEF DocInv, Shown
    <2>3. Plain(u)' /\ Recognised(u)' /\ Holds(kept, u)'
        BY <1>10, <2>1, <2>2
    <2>4. Current(d)' = u
        BY <1>17, <1>20
    <2> QED
        BY <2>3, <2>4 DEF Shown
<1>22. Puts(d)'
    <2>1. ASSUME NEW i \in DOMAIN d.puts PROVE View(d.puts[i])' /\ d.puts[i].there
        <3>1. i \in 1 .. n /\ i + 1 \in DOMAIN doc.puts
            BY <1>7, <1>8
        <3>2. PICK r : r = doc.puts[i + 1]
            OBVIOUS
        <3>3. d.puts[i] = r /\ Holds(IdsOf(w.pendingOps), r)
            BY <1>7, <1>8, <1>19, <3>1, <3>2
        <3>4. Plain(r) /\ Recognised(r) /\ Holds(kept, r) /\ r.there
            BY <3>1, <3>2 DEF DocInv, Puts, View
        <3>5. Plain(r)' /\ Recognised(r)' /\ Holds(kept, r)'
            BY <1>10, <3>3, <3>4
        <3> QED
            BY <3>3, <3>4, <3>5 DEF View
    <2>2. \A ids, r : Holds(ids, r) => Holds(ids, r)'
        BY <1>3 DEF Holds
    <2>3. ASSUME NEW i \in DOMAIN d.puts PROVE Holds(IdsOf(d.puts[i].pendingOps), Current(d))'
        <3>1. d.puts[i] = doc.puts[i + 1] /\ i + 1 \in DOMAIN doc.puts
            BY <1>7, <1>8
        <3>2. PICK r : r = d.puts[i]
            OBVIOUS
        <3>3. Holds(IdsOf(r.pendingOps), u)
            BY <1>20, <3>1, <3>2 DEF DocInv, Puts
        <3>4. Holds(IdsOf(r.pendingOps), u)'
            BY <1>3, <3>3 DEF Holds
        <3> QED
            BY <1>17, <1>20, <3>2, <3>4
    <2>4. ASSUME NEW i \in DOMAIN d.puts, NEW j \in DOMAIN d.puts, i <= j
          PROVE  Holds(IdsOf(d.puts[i].pendingOps), d.puts[j])'
        <3>1. /\ d.puts[i] = doc.puts[i + 1] /\ d.puts[j] = doc.puts[j + 1]
              /\ i + 1 \in DOMAIN doc.puts /\ j + 1 \in DOMAIN doc.puts /\ i + 1 <= j + 1
            BY <1>7, <1>8, <2>4
        <3>2. Holds(IdsOf(d.puts[i].pendingOps), d.puts[j])
            BY <3>1 DEF DocInv, Puts
        <3> QED
            BY <3>2, <2>2
    <2> QED
        BY <2>1, <2>3, <2>4 DEF Puts
<1>23. \A m \in doc.out : m.op \in AllOps(doc)
    BY DEF AllOps
<1>24. Outgoing(d)'
    <2>1. ASSUME NEW k \in d.out
          PROVE  \E m \in doc.out : k = Closer(m) /\ k.op = m.op
        BY <1>4, <1>5, CloserIs
    <2>2. ASSUME NEW k \in d.out
          PROVE  /\ k.op.seq # 0 /\ Ahead(k.op, k.v)' /\ Known(k.op)'
                 /\ k.op.id \in d.data \cup refused'
                 /\ k.after <= Len(d.puts)
                 /\ Only(k.op, u)
                 /\ k.stored => \A i \in DOMAIN d.puts : i >= k.after => Only(k.op, d.puts[i])
                 /\ k.stored /\ k.after = 0 => Only(k.op, w)
        <3>1. PICK m \in doc.out : k = Closer(m)
            BY <2>1
        <3>2. /\ k.op = m.op /\ k.v = m.v /\ k.stored = m.stored
              /\ m.after = 0 => k.after = 0
              /\ m.after # 0 => k.after = m.after - 1
              /\ m.after \in Nat /\ k.after \in Nat
            BY <1>5, <3>1, CloserIs
        <3>3. /\ m.op.seq # 0 /\ Ahead(m.op, m.v) /\ Known(m.op)
              /\ m.op.id \in doc.data \cup refused
              /\ m.after <= Len(doc.puts)
              /\ Only(m.op, Current(doc))
              /\ m.stored => \A i \in DOMAIN doc.puts : i >= m.after => Only(m.op, doc.puts[i])
            BY DEF DocInv, Outgoing
        <3>4. Ahead(k.op, k.v)' /\ Known(k.op)'
            BY <1>3, <1>9, <3>2, <3>3 DEF Ahead, Known
        <3>5. k.after <= Len(d.puts)
            BY <1>7, <3>2, <3>3
        <3>6. ASSUME k.stored, NEW i \in DOMAIN d.puts, i >= k.after
              PROVE  Only(k.op, d.puts[i])
            <4>1. i + 1 \in DOMAIN doc.puts /\ d.puts[i] = doc.puts[i + 1] /\ i + 1 >= m.after
                BY <1>7, <1>8, <3>2, <3>6
            <4> QED
                BY <3>2, <3>3, <3>6, <4>1
        <3>7. ASSUME k.stored, k.after = 0 PROVE Only(k.op, w)
            <4>1. 1 \in DOMAIN doc.puts /\ 1 >= m.after
                BY <1>7, <3>2, <3>7
            <4> QED
                BY <1>6, <3>2, <3>3, <3>7, <4>1
        <3> QED
            BY <1>3, <1>4, <1>20, <3>2, <3>3, <3>4, <3>5, <3>6, <3>7
    <2>3. \A m, k \in d.out : m.op.id = k.op.id => m.op = k.op
        BY <2>1 DEF DocInv, Outgoing
    <2> QED
        BY <1>3, <1>17, <1>20, <2>2, <2>3 DEF Outgoing, Only
<1>25. Numbers(d)'
    <2>1. OpsIn(w.pendingOps) \subseteq AllOps(doc)
        <3>1. 1 \in DOMAIN doc.puts /\ OpsIn(w.pendingOps) = OpsIn(doc.puts[1].pendingOps)
            BY <1>6, <1>7
        <3> QED
            BY <3>1 DEF AllOps
    <2>2. {m.op : m \in d.out} \subseteq AllOps(doc)
        BY <1>4, <1>5, <1>23, CloserIs
    <2>3. \A i \in DOMAIN d.puts : OpsIn(d.puts[i].pendingOps) \subseteq AllOps(doc)
        BY <1>7, <1>8 DEF AllOps
    <2>4. Gone \subseteq AllOps(doc) /\ OpsIn(All(doc)) \subseteq AllOps(doc)
        BY DEF AllOps
    <2>5. \A a \in AllOps(d)' : a \in AllOps(doc)
        BY <1>3, <1>9, <1>17, <2>1, <2>2, <2>3, <2>4 DEF AllOps
    <2>6. \A a : Issued(a, doc) => Issued(a, d)'
        BY <1>4, <1>9 DEF Issued
    <2> QED
        BY <2>5, <2>6 DEF DocInv, Numbers, SameNumber
<1>26. Budget(d)'
    <2>1. Numbered(doc) \subseteq Numbered(d)'
        BY <1>3, <1>4 DEF Numbered, ToNumber
    <2>2. IsFiniteSet(Edits) /\ Numbered(d)' \in SUBSET Edits
        BY OfflineConstants, FS_Interval DEF Edits, Numbered
    <2>3. IsFiniteSet(Numbered(d)')
        BY <2>2, FS_Subset
    <2>4. IsFiniteSet(Numbered(doc)) /\ Cardinality(Numbered(doc)) <= Cardinality(Numbered(d)')
        BY <2>1, <2>3, FS_Subset
    <2>5. Cardinality(Numbered(doc)) \in Nat /\ Cardinality(Numbered(d)') \in Nat
        BY <2>3, <2>4, FS_CardinalityType
    <2>6. d.seq = doc.seq /\ doc.seq \in 1 .. MaxEdits + 1
          /\ doc.seq <= Cardinality(Numbered(doc)) + 1
        BY <1>4, PageTyped DEF DocInv, Budget
    <2> QED
        BY <2>4, <2>5, <2>6, OfflineConstants DEF Budget
<1>27. Rest(d)'
    BY <1>21, <1>22, <1>24, <1>25, <1>26 DEF Rest
<1>28. Flushed(d)
    BY <1>4 DEF Flushed
<1> QED
    BY <1>3, <1>13, <1>14, <1>15, <1>16, <1>18, <1>27, <1>28, Arrived

-----------------------------------------------------------------------------
(* The invariant, and what it says. *)

\* At first nothing is known and nothing is sent.
LEMMA InitInv == Init => IInv
<1> SUFFICES ASSUME Init PROVE IInv
    OBVIOUS
<1> USE DEF Init
<1>1. OpsIn(<<>>) = {} /\ IdsOf(<<>>) = {} /\ Once(<<>>) /\ OnlyFirstSent(<<>>)
    BY DEF OpsIn, IdsOf, Once, OnlyFirstSent
<1>2. StoreType
    BY OfflineConstants, EmptySeq DEF StoreType, NoRecord, Records
<1>3. Gone = {}
    BY <1>1 DEF Gone
<1>4. Server
    BY <1>3 DEF Server
<1>5. Blank(doc) /\ ~ doc.open
    BY <1>2, ClosedIsBlank DEF ClosedPage
<1>6. Stored
    <2>1. Prefix(0) = {}
        <3>1. SubSeq(log, 1, 0) = <<>>
            BY <1>2, SubSeqEmpty DEF StoreType
        <3> QED
            BY <1>1, <3>1 DEF Prefix
    <2>2. Plain(record)
        BY <1>1, <1>2, <2>1, Typed DEF Plain, NoRecord
    <2>3. Recognised(record)
        BY <1>1 DEF Recognised, NoRecord
    <2> QED
        BY <1>1, <2>2, <2>3 DEF Stored, View, Holds, NoRecord
<1>7. AllOps(doc) = {}
    BY <1>1, <1>2, <1>3, <1>5, BlankPage DEF NoRecord
<1>8. Shape(doc)
    BY <1>2, <1>5, BlankPage DEF Shape, Blank
<1> QED
    BY <1>2, <1>4, <1>5, <1>6, <1>7, <1>8, BlankPage DEF IInv, DocInv, Numbers, Blank

\* Every step keeps the invariant.
LEMMA NextInv == IInv /\ [Next]_vars => IInv'
<1> SUFFICES ASSUME IInv, [Next]_vars PROVE IInv'
    OBVIOUS
<1>1. ASSUME NEW query \in BOOLEAN, NEW online \in BOOLEAN, Open(query, online) PROVE IInv'
    BY <1>1, OpenStep
<1>2. ASSUME NEW e \in Edits, Submit(e) PROVE IInv'
    BY <1>2, SubmitStep
<1>3. ASSUME NEW m \in doc.out, SendOp(m) PROVE IInv'
    BY <1>3, SendStep
<1>4. ASSUME NEW r \in RemoteEdits, OtherUser(r) PROVE IInv'
    BY <1>4, OtherStep
<1>5. ASSUME NEW m \in wire, Receive(m) \/ Refuse(m) \/ Lose(m) PROVE IInv'
    BY <1>5, ReceiveStep, RefuseStep, LoseStep
<1>6. CASE LoadOfflineData \/ LeaveQuery \/ Close \/ PutDone
    BY <1>6, LoadStep, LeaveStep, CloseStep, PutDoneStep
<1>7. CASE Disconnect \/ Connect \/ Subscribe \/ SubscribeAnswered \/ LoadSnapshot
    BY <1>7, DisconnectStep, ConnectStep, SubscribeStep, AnsweredStep, SnapshotStep
<1>8. CASE RemoteOp \/ Acknowledged \/ RolledBack
    BY <1>8, RemoteStep, AcknowledgedStep, RolledBackStep
<1>9. CASE UNCHANGED vars
    <2>1. PICK d : d = doc
        OBVIOUS
    <2>2. UNCHANGED others /\ doc' = d /\ DocInv(d) /\ Flushed(d)
        BY <1>9, <2>1 DEF vars, others, IInv
    <2> QED
        BY <2>2, PageStep
<1> QED
    BY <1>1, <1>2, <1>3, <1>4, <1>5, <1>6, <1>7, <1>8, <1>9 DEF Next

\* The invariant holds in every state that can be reached.
LEMMA Inductive == Spec => []IInv
    BY InitInv, NextInv, PTL DEF Spec

\* The log, the messages, the record and the page have their types, for any
\* number of edits, pages and mishaps: no page is ahead of the server, has two
\* ops in flight, or numbers more ops than its user makes (ShareDB's seq).
THEOREM PageTypeCorrect == Spec => []TypeOK
<1>1. IInv => TypeOK
    <2> SUFFICES ASSUME IInv PROVE TypeOK
        OBVIOUS
    <2>1. Len(doc.inflight) \in {0, 1}
        <3>1. doc.inflight = <<>> => Len(doc.inflight) = 0
            BY EmptySeq, Zenon
        <3>2. doc.inflight # <<>> => Len(doc.inflight) = 1
            BY DEF IInv, DocInv, Shape
        <3> QED
            BY <3>1, <3>2
    <2>2. PICK n \in {0, 1} : n = Len(doc.inflight)
        BY <2>1
    <2>3. n <= 1
        OBVIOUS
    <2>4. Len(doc.inflight) <= 1
        BY <2>2, <2>3, Zenon
    <2> QED
        BY <2>4, Zenon DEF IInv, StoreType, DocInv, DocType, Messages, Sends, TypeOK
<1> QED
    BY <1>1, Inductive, PTL

\* Whatever is lost or repeated and whenever the page is closed, the server
\* applies an edit twice only if it was sent without its number having been put
\* into the record (updateOfflineData before send, and pendingOps).
THEOREM EditsAppliedOnce == Spec => []AppliedOnce
<1>1. IInv => AppliedOnce
    <2> SUFFICES ASSUME IInv, NEW i \in DOMAIN log, NEW j \in DOMAIN log,
                        i # j, log[i].id = log[j].id
                 PROVE  log[i].id \in exposed
        BY DEF AppliedOnce
    <2>1. log[i] \in Gone /\ log[j] \in Gone
        BY DEF Gone, OpsIn
    <2>2. log[i] # log[j]
        BY DEF IInv, Server, SameNumber
    <2> QED
        BY <2>1, <2>2 DEF IInv, Server
<1> QED
    BY <1>1, Inductive, PTL

\* What the page shows, and what the record would show, is a version of the
\* server and the edits that are still to be sent (ingestSnapshot,
\* updatePendingOps and updateOfflineData keep the three together).
THEOREM PageShowsVersionAndPending == Spec => []DataIsVersionAndPending
<1>1. IInv => DataIsVersionAndPending
    <2> SUFFICES ASSUME IInv PROVE DataIsVersionAndPending
        OBVIOUS
    <2>1. Plain(Current(doc)) /\ Plain(record)
        BY DEF IInv, DocInv, Shown, Stored, View
    <2> QED
        BY <2>1 DEF Plain, Current, All, DataIsVersionAndPending
<1> QED
    BY <1>1, Inductive, PTL

\* An edit that was in the record is applied, refused or still there, so that
\* closing the page loses none: no later put leaves an edit out.
THEOREM NoEditIsForgotten == Spec => []NoEditForgotten
<1>1. IInv => NoEditForgotten
    BY DEF IInv, Stored, View, Holds, NoEditForgotten
<1> QED
    BY <1>1, Inductive, PTL
=============================================================================
