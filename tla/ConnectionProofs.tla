-------------------------- MODULE ConnectionProofs --------------------------
(***************************************************************************)
(* Proofs about Connection: type correctness, that nothing of a            *)
(* transaction outlives it, and that the copy of a document is what the    *)
(* connection will have written, for every set of documents, data and ops. *)
(***************************************************************************)
EXTENDS Connection, WellFoundedInduction, TLAPS

Held == Data \cup {Absent}

\* The strengthening: documents in use are not deleted by others, so that a
\* document the mirror has is there when an op arrives.
MirrorKnown == \A d \in Docs : mirror[d] # Absent => server[d] # Absent

IInv == TypeOK /\ MirrorKnown /\ NothingLeft

-----------------------------------------------------------------------------
(* What the realtime server does keeps documents and mirrors in their types. *)

LEMMA EffectType ==
    ASSUME NEW e \in Entries, NEW seen \in [mirror : Held, server : Held],
           seen.mirror # Absent => seen.server # Absent,
           Accepts(e, seen)
    PROVE  /\ Effect(e, seen) \in [mirror : Held, server : Held]
           /\ Effect(e, seen).mirror # Absent => Effect(e, seen).server # Absent
  <1>1. CASE e.action = "create"
    BY <1>1 DEF Effect, Both, Held, Entries
  <1>2. CASE e.action = "submit"
    <2>1. Apply(seen.server, e.arg) \in Data
      BY <1>2, ConnectionAssumption DEF Entries, Held, Accepts
    <2> QED BY <1>2, <2>1 DEF Effect, Both, Held
  <1>3. CASE e.action = "delete"
    BY <1>3 DEF Effect, Both, Held
  <1>4. CASE e.action = "replace" /\ e.arg = seen.mirror
    BY <1>4 DEF Effect
  <1>5. CASE e.action = "replace" /\ e.arg # seen.mirror
    <2>1. seen.mirror \in Data /\ seen.server \in Data /\ e.arg \in Data
      BY <1>5 DEF Accepts, Entries, Held
    <2>2. Diff(seen.mirror, e.arg) \in Ops
      BY <2>1, <1>5, ConnectionAssumption
    <2>3. Apply(seen.server, Diff(seen.mirror, e.arg)) \in Data
      BY <2>1, <2>2, ConnectionAssumption
    <2> QED BY <1>5, <2>3 DEF Effect, Both, Held
  <1> QED BY <1>1, <1>2, <1>3, <1>4, <1>5 DEF Entries

LEMMA CarryType ==
    ASSUME server \in [Docs -> Held], mirror \in [Docs -> Held], MirrorKnown,
           NEW e \in Entries, Carry(e)
    PROVE  server' \in [Docs -> Held] /\ mirror' \in [Docs -> Held] /\ MirrorKnown'
  <1>1. e.doc \in Docs
    BY DEF Entries
  <1>2. Seen(e.doc) \in [mirror : Held, server : Held]
    BY <1>1 DEF Seen
  <1>3. Seen(e.doc).mirror # Absent => Seen(e.doc).server # Absent
    BY <1>1 DEF Seen, MirrorKnown
  <1> DEFINE after == Effect(e, Seen(e.doc))
  <1>4. /\ after \in [mirror : Held, server : Held]
        /\ after.mirror # Absent => after.server # Absent
    BY <1>2, <1>3, EffectType DEF Carry
  <1>5. /\ server' = [server EXCEPT ![e.doc] = after.server]
        /\ mirror' = [mirror EXCEPT ![e.doc] = after.mirror]
    BY DEF Carry
  <1> QED
    BY <1>1, <1>4, <1>5 DEF MirrorKnown

\* What an operation makes of a copy in a transaction.
LEMMA CopyType ==
    ASSUME local \in [Docs -> Held], NEW e \in Entries,
           e.action = "submit" => local[e.doc] # Absent
    PROVE  CopyAfter(e) \in Held
  <1>1. CASE e.action = "submit"
    BY <1>1, ConnectionAssumption DEF CopyAfter, Held, Entries
  <1>2. CASE e.action = "delete"
    BY <1>2 DEF CopyAfter, Held
  <1>3. CASE e.action \in {"create", "replace"}
    BY <1>3 DEF CopyAfter, Held, Entries
  <1> QED BY <1>1, <1>2, <1>3 DEF Entries

-----------------------------------------------------------------------------
LEMMA NoEntries == <<>> \in Seq(Entries)
  OBVIOUS

LEMMA InitIInv == Init => IInv
  BY NoEntries, ConnectionAssumption DEF Init, IInv, TypeOK, MirrorKnown, NothingLeft

\* The transaction's own operations.
LEMMA TransactStep == IInv /\ Transact => IInv'
  <1> SUFFICES ASSUME IInv, Transact PROVE IInv'
    OBVIOUS
  <1> USE DEF IInv, TypeOK, NothingLeft
  <1>1. CASE Begin
    BY <1>1 DEF Begin, MirrorKnown
  <1>2. CASE Rollback
    BY <1>2, NoEntries DEF Rollback, MirrorKnown
  <1>3. CASE CommitStart
    BY <1>3 DEF CommitStart, MirrorKnown
  <1>4. CASE CommitStep
    <2>1. Head(queued) \in Entries /\ Tail(queued) \in Seq(Entries)
      BY <1>4 DEF CommitStep
    <2>2. server' \in [Docs -> Held] /\ mirror' \in [Docs -> Held] /\ MirrorKnown'
      BY <2>1, <1>4, CarryType DEF CommitStep, Held
    <2> QED BY <1>4, <2>1, <2>2 DEF CommitStep, Held
  <1>5. CASE CommitThrow
    <2>1. Head(queued) \in Entries /\ Tail(queued) \in Seq(Entries)
      BY <1>5 DEF CommitThrow
    <2>2. server' \in [Docs -> Held] /\ mirror' \in [Docs -> Held] /\ MirrorKnown'
      <3>1. CASE Carry(Head(queued))
        BY <3>1, <2>1, CarryType DEF Held
      <3>2. CASE UNCHANGED <<server, mirror>>
        BY <3>2 DEF Held, MirrorKnown
      <3> QED BY <1>5, <3>1, <3>2 DEF CommitThrow
    <2> QED BY <1>5, <2>1, <2>2 DEF CommitThrow, Held
  <1>6. CASE CommitDone
    BY <1>6 DEF CommitDone, MirrorKnown
  <1>7. ASSUME NEW path \in AllPaths, Exclude(path) PROVE IInv'
    BY <1>7 DEF Exclude, MirrorKnown
  <1> QED
    BY <1>1, <1>2, <1>3, <1>4, <1>5, <1>6, <1>7 DEF Transact

LEMMA FetchStep == ASSUME IInv, NEW d \in Docs, Fetch(d) PROVE IInv'
  BY DEF IInv, TypeOK, NothingLeft, MirrorKnown, Fetch

LEMMA WriteStep == ASSUME IInv, NEW e \in Entries, Write(e) PROVE IInv'
  <1> USE DEF IInv, TypeOK, NothingLeft
  <1>1. e.doc \in Docs
    BY DEF Entries
  <1>2. CASE Enqueue(e)
    <2>1. CopyAfter(e) \in Held
      BY <1>2, CopyType DEF Write, Held
    <2>2. local' \in [Docs -> Held]
      BY <1>2, <2>1 DEF Enqueue, Held
    <2> QED BY <1>2, <2>2 DEF Enqueue, Write, Held, MirrorKnown
  <1>3. CASE Send(e)
    <2>1. server' \in [Docs -> Held] /\ mirror' \in [Docs -> Held] /\ MirrorKnown'
      BY <1>3, CarryType DEF Send, Held
    <2>2. local' \in [Docs -> Held]
      BY <1>1, <1>3, <2>1 DEF Send, Held
    <2> QED BY <1>1, <1>3, <2>1, <2>2 DEF Send, Write, Held
  <1> QED BY <1>2, <1>3 DEF Write

LEMMA SubmitStep == ASSUME IInv, NEW d \in Docs, NEW op \in Ops, Submit(d, op) PROVE IInv'
  <1> DEFINE e == [action |-> "submit", doc |-> d, arg |-> op]
  <1>1. e \in Entries
    BY DEF Entries
  <1>2. CASE Write(e)
    BY <1>1, <1>2, WriteStep
  <1>3. CASE SubmitExcluded(d, op)
    <2> USE DEF IInv, TypeOK, NothingLeft
    <2>1. server' \in [Docs -> Held] /\ mirror' \in [Docs -> Held] /\ MirrorKnown'
      BY <1>1, <1>3, CarryType DEF SubmitExcluded, Held
    <2>2. local' \in [Docs -> Held]
      BY <1>3, ConnectionAssumption DEF SubmitExcluded, Held
    <2> QED BY <1>3, <2>1, <2>2 DEF SubmitExcluded, Held
  <1> QED BY <1>2, <1>3 DEF Submit

\* Every step keeps the invariant.
LEMMA StepIInv == IInv /\ [Next]_connVars => IInv'
  <1> SUFFICES ASSUME IInv, [Next]_connVars PROVE IInv'
    OBVIOUS
  <1>1. CASE Transact
    BY <1>1, TransactStep
  <1>2. ASSUME NEW d \in Docs, Use(d) PROVE IInv'
    <2>1. CASE Fetch(d)
      BY <2>1, FetchStep
    <2>2. CASE FetchUncached(d)
      <3>1. CASE Fetch(d)
        BY <3>1, FetchStep
      <3>2. CASE ~Fetch(d)
        BY <2>2, <3>2 DEF FetchUncached, IInv, TypeOK, NothingLeft, MirrorKnown
      <3> QED BY <3>1, <3>2
    <2>3. ASSUME NEW op \in Ops, Submit(d, op) PROVE IInv'
      BY <2>3, SubmitStep
    <2>4. ASSUME NEW data \in Data, FetchOrCreate(d, data) PROVE IInv'
      <3>1. [action |-> "create", doc |-> d, arg |-> data] \in Entries
        BY DEF Entries
      <3> QED BY <2>4, <3>1, FetchStep, WriteStep DEF FetchOrCreate
    <2>5. ASSUME NEW action \in {"create", "replace"}, NEW data \in Data,
                 Write([action |-> action, doc |-> d, arg |-> data])
          PROVE IInv'
      <3>1. [action |-> action, doc |-> d, arg |-> data] \in Entries
        BY DEF Entries
      <3> QED BY <2>5, <3>1, WriteStep
    <2>6. CASE Write([action |-> "delete", doc |-> d])
      <3>1. [action |-> "delete", doc |-> d] \in Entries
        BY DEF Entries
      <3> QED BY <2>6, <3>1, WriteStep
    <2> QED BY <1>2, <2>1, <2>2, <2>3, <2>4, <2>5, <2>6 DEF Use
  <1>3. ASSUME NEW d \in Docs, NEW data \in Data, OtherWrite(d, data) PROVE IInv'
    BY <1>3, ConnectionAssumption DEF OtherWrite, IInv, TypeOK, NothingLeft, MirrorKnown
  <1>4. CASE UNCHANGED connVars
    BY <1>4 DEF connVars, IInv, TypeOK, NothingLeft, MirrorKnown
  <1> QED
    BY <1>1, <1>2, <1>3, <1>4 DEF Next

THEOREM Invariance == Spec => []IInv
  BY InitIInv, StepIInv, PTL DEF Spec

\* Type correctness of a connection: documents, mirrors and copies hold data or
\* nothing, the queue holds operations, and a commit is under way only inside a
\* transaction.
THEOREM TypeCorrect == Spec => []TypeOK
  <1>1. IInv => TypeOK
    BY DEF IInv
  <1> QED BY <1>1, Invariance, PTL

\* Outside a transaction a connection has neither queued operations nor
\* exclusions left (CommitTransactionAsync and RollbackTransaction clear both),
\* also after a commit that failed half way.
THEOREM TransactionsEnd == Spec => []NothingLeft
  <1>1. IInv => NothingLeft
    BY DEF IInv
  <1> QED BY <1>1, Invariance, PTL
-----------------------------------------------------------------------------
(* What a list of operations makes of a document. *)

\* A set that has 0 and with every number the next one has all numbers.
LEMMA NumbersOf ==
    ASSUME NEW S, 0 \in S, \A n \in Nat : n \in S => n + 1 \in S
    PROVE  Nat \subseteq S
  <1> DEFINE T == Nat \ S
  <1>1. ASSUME NEW k \in T PROVE FALSE
    <2>1. T \subseteq Nat /\ k \in T
      BY <1>1
    <2>2. PICK n \in T : \A m \in T : ~ (<<m, n>> \in OpToRel(<, Nat))
      <3> HIDE DEF T
      <3> QED BY <2>1, WFMin, NatLessThanWellFounded
    <2>3. n \in Nat /\ n # 0
      BY <2>2
    <2>4. n - 1 \in Nat /\ n - 1 < n
      BY <2>3
    <2>5. n - 1 \notin T
      BY <2>2, <2>3, <2>4 DEF OpToRel
    <2>6. n - 1 \in S /\ (n - 1) + 1 = n
      BY <2>3, <2>4, <2>5
    <2> QED BY <2>2, <2>4, <2>6
  <1> QED BY <1>1

\* What one operation makes of document d.
Stepped(d, e, seen) == IF e.doc = d THEN Effect(e, seen) ELSE seen

\* f is the way of document d through the operations of q.
IsPath(d, seen, q, f) ==
    /\ f[0] = seen
    /\ \A i \in 1 .. Len(q) : f[i] = Stepped(d, q[i], f[i - 1])

\* The function that After chooses exists.
LEMMA PathExists ==
    ASSUME NEW d, NEW seen, NEW q \in Seq(Entries)
    PROVE  \E f : IsPath(d, seen, q, f) /\ After(d, seen, q) = f[Len(q)]
  <1> DEFINE Rest(n, f) ==
                 f = [i \in 0 .. n |->
                         IF i = 0 THEN seen
                         ELSE IF q[i].doc = d THEN Effect(q[i], f[i - 1]) ELSE f[i - 1]]
             S == {n \in Nat : \E f : Rest(n, f)}
             path == CHOOSE f : Rest(Len(q), f)
  <1>1. 0 \in S
    <2> DEFINE g == [i \in 0 .. 0 |-> seen]
    <2>1. Rest(0, g)
      OBVIOUS
    <2> QED BY <2>1
  <1>2. ASSUME NEW n \in Nat, n \in S PROVE n + 1 \in S
    <2>1. PICK f : Rest(n, f)
      BY <1>2
    <2> DEFINE g == [i \in 0 .. n + 1 |->
                        IF i = 0 THEN seen
                        ELSE IF q[i].doc = d THEN Effect(q[i], f[i - 1]) ELSE f[i - 1]]
    <2>2. \A i \in 0 .. n : g[i] = f[i]
      BY <2>1
    <2>3. \A i \in 0 .. n + 1 : i # 0 => i - 1 \in 0 .. n
      OBVIOUS
    <2>4. \A i \in 0 .. n + 1 : i # 0 => g[i - 1] = f[i - 1]
      BY <2>2, <2>3, Zenon
    <2>5. Rest(n + 1, g)
      BY <2>4
    <2>6. \E h : Rest(n + 1, h)
      BY <2>5
    <2> QED BY <2>6
  <1>3. Len(q) \in Nat
    OBVIOUS
  <1>4. Nat \subseteq S
    <2> HIDE DEF S
    <2> QED BY <1>1, <1>2, NumbersOf
  <1>5. Rest(Len(q), path)
    BY <1>3, <1>4
  <1>6. After(d, seen, q) = path[Len(q)]
    BY Zenon DEF After
  <1> HIDE DEF path
  <1>7. IsPath(d, seen, q, path)
    BY <1>3, <1>5 DEF IsPath, Stepped
  <1>8. WITNESS path
  <1> QED BY <1>6, <1>7


LEMMA AfterNothing ==
    ASSUME NEW d, NEW seen
    PROVE  After(d, seen, <<>>) = seen
  <1>1. <<>> \in Seq(Entries) /\ Len(<<>>) = 0
    BY NoEntries
  <1> DEFINE none == <<>>
  <1> HIDE DEF none
  <1>2. PICK f : IsPath(d, seen, none, f) /\ After(d, seen, none) = f[Len(none)]
    BY <1>1, PathExists DEF none
  <1>3. f[0] = seen
    BY <1>2 DEF IsPath
  <1> QED BY <1>1, <1>2, <1>3 DEF none

\* One operation more.
LEMMA AfterAppend ==
    ASSUME NEW d, NEW seen, NEW q \in Seq(Entries), NEW e \in Entries
    PROVE  After(d, seen, Append(q, e)) = Stepped(d, e, After(d, seen, q))
  <1> DEFINE r == Append(q, e)
  <1>0. /\ r \in Seq(Entries) /\ Len(q) \in Nat /\ Len(r) = Len(q) + 1
        /\ r[Len(q) + 1] = e
        /\ \A i \in 1 .. Len(q) : r[i] = q[i]
    OBVIOUS
  <1> HIDE DEF r
  <1>1. PICK f : IsPath(d, seen, q, f) /\ After(d, seen, q) = f[Len(q)]
    BY PathExists
  <1>2. PICK g : IsPath(d, seen, r, g) /\ After(d, seen, r) = g[Len(r)]
    BY <1>0, PathExists
  <1> DEFINE S == {i \in Nat : i <= Len(q) => g[i] = f[i]}
  <1>3. 0 \in S
    BY <1>1, <1>2 DEF IsPath
  <1>4. ASSUME NEW i \in Nat, i \in S PROVE i + 1 \in S
    <2> SUFFICES ASSUME i + 1 <= Len(q) PROVE g[i + 1] = f[i + 1]
      OBVIOUS
    <2>1. i + 1 \in 1 .. Len(q) /\ i + 1 \in 1 .. Len(r) /\ (i + 1) - 1 = i /\ i <= Len(q)
      BY <1>0
    <2>2. g[i] = f[i] /\ r[i + 1] = q[i + 1]
      BY <1>0, <1>4, <2>1
    <2>3. g[i + 1] = Stepped(d, r[i + 1], g[i])
      BY <1>2, <2>1 DEF IsPath
    <2>4. f[i + 1] = Stepped(d, q[i + 1], f[i])
      BY <1>1, <2>1 DEF IsPath
    <2> QED BY <2>2, <2>3, <2>4
  <1>5. Nat \subseteq S
    <2> HIDE DEF S
    <2> QED BY <1>3, <1>4, NumbersOf
  <1>6. g[Len(q)] = f[Len(q)]
    BY <1>0, <1>5
  <1>7. Len(r) \in 1 .. Len(r) /\ Len(r) - 1 = Len(q)
    BY <1>0
  <1>8. g[Len(r)] = Stepped(d, r[Len(r)], g[Len(q)])
    BY <1>2, <1>7 DEF IsPath
  <1> QED BY <1>0, <1>1, <1>2, <1>6, <1>8 DEF r

\* The first operation first.
LEMMA AfterFirst ==
    ASSUME NEW d, NEW seen, NEW q \in Seq(Entries), q # <<>>
    PROVE  After(d, seen, q) = After(d, Stepped(d, Head(q), seen), Tail(q))
  <1> DEFINE r == Tail(q)
             next == Stepped(d, Head(q), seen)
  <1>0. /\ r \in Seq(Entries) /\ Len(r) \in Nat /\ Len(q) = Len(r) + 1
        /\ Head(q) = q[1]
        /\ \A i \in 1 .. Len(r) : r[i] = q[i + 1]
    OBVIOUS
  <1> HIDE DEF r, next
  <1>1. PICK f : IsPath(d, seen, q, f) /\ After(d, seen, q) = f[Len(q)]
    BY PathExists
  <1>2. PICK g : IsPath(d, next, r, g) /\ After(d, next, r) = g[Len(r)]
    BY <1>0, PathExists
  <1> DEFINE S == {i \in Nat : i <= Len(r) => f[i + 1] = g[i]}
  <1>3. 0 \in S
    <2>1. f[0] = seen /\ g[0] = next /\ 1 \in 1 .. Len(q) /\ 1 - 1 = 0 /\ 0 + 1 = 1
      BY <1>0, <1>1, <1>2 DEF IsPath
    <2>2. f[1] = Stepped(d, q[1], f[0])
      BY <1>1, <2>1 DEF IsPath
    <2>3. f[1] = g[0]
      BY <1>0, <2>1, <2>2 DEF next
    <2> QED BY <2>1, <2>3
  <1>4. ASSUME NEW i \in Nat, i \in S PROVE i + 1 \in S
    <2> SUFFICES ASSUME i + 1 <= Len(r) PROVE f[(i + 1) + 1] = g[i + 1]
      OBVIOUS
    <2>1. /\ i + 1 \in 1 .. Len(r) /\ (i + 1) + 1 \in 1 .. Len(q)
          /\ (i + 1) - 1 = i /\ ((i + 1) + 1) - 1 = i + 1 /\ i <= Len(r)
      BY <1>0
    <2>2. f[i + 1] = g[i] /\ r[i + 1] = q[(i + 1) + 1]
      BY <1>0, <1>4, <2>1
    <2>3. f[(i + 1) + 1] = Stepped(d, q[(i + 1) + 1], f[i + 1])
      BY <1>1, <2>1 DEF IsPath
    <2>4. g[i + 1] = Stepped(d, r[i + 1], g[i])
      BY <1>2, <2>1 DEF IsPath
    <2> QED BY <2>2, <2>3, <2>4
  <1>5. Nat \subseteq S
    <2> HIDE DEF S
    <2> QED BY <1>3, <1>4, NumbersOf
  <1>6. f[Len(r) + 1] = g[Len(r)]
    BY <1>0, <1>5
  <1> QED BY <1>0, <1>1, <1>2, <1>6 DEF r, next

\* Operations on other documents.
LEMMA AfterOthers ==
    ASSUME NEW d, NEW seen, NEW q \in Seq(Entries),
           \A i \in 1 .. Len(q) : q[i].doc # d
    PROVE  After(d, seen, q) = seen
  <1>1. PICK f : IsPath(d, seen, q, f) /\ After(d, seen, q) = f[Len(q)]
    BY PathExists
  <1> DEFINE S == {i \in Nat : i <= Len(q) => f[i] = seen}
  <1>2. 0 \in S
    BY <1>1 DEF IsPath
  <1>3. ASSUME NEW i \in Nat, i \in S PROVE i + 1 \in S
    <2> SUFFICES ASSUME i + 1 <= Len(q) PROVE f[i + 1] = seen
      OBVIOUS
    <2>0. Len(q) \in Nat
      OBVIOUS
    <2>1. i + 1 \in 1 .. Len(q) /\ (i + 1) - 1 = i /\ i <= Len(q)
      BY <2>0
    <2>2. f[i + 1] = Stepped(d, q[i + 1], f[i])
      BY <1>1, <2>1 DEF IsPath
    <2> QED BY <1>3, <2>1, <2>2 DEF Stepped
  <1>4. Nat \subseteq S
    <2> HIDE DEF S
    <2> QED BY <1>2, <1>3, NumbersOf
  <1>5. Len(q) \in Nat
    OBVIOUS
  <1> QED BY <1>1, <1>4, <1>5

\* Op lists that change different properties make the same in either order.  (An
\* op list and a delta are never for one document, and no property path that the
\* code compares, Connection.cs:433-446, lies inside another.)
Commute ==
    \A data \in Data, a, b \in Ops :
        Paths(a) # {} /\ Paths(a) \cap Paths(b) = {}
            => Apply(Apply(data, a), b) = Apply(Apply(data, b), a)

\* An op list that overtakes operations it commutes with.
LEMMA AfterOvertaken ==
    ASSUME Commute, NEW d, NEW data \in Data, NEW op \in Ops, Paths(op) # {},
           NEW q \in Seq(Entries),
           \A i \in 1 .. Len(q) : q[i].doc = d =>
               q[i].action = "submit" /\ Paths(q[i].arg) \cap Paths(op) = {}
    PROVE  LET was == After(d, Both(data), q)
           IN /\ was = Both(was.server) /\ was.server \in Data
              /\ After(d, Both(Apply(data, op)), q) = Both(Apply(was.server, op))
  <1> DEFINE new == Apply(data, op)
  <1>1. PICK f : IsPath(d, Both(data), q, f) /\ After(d, Both(data), q) = f[Len(q)]
    BY PathExists
  <1>2. PICK g : IsPath(d, Both(new), q, g) /\ After(d, Both(new), q) = g[Len(q)]
    BY PathExists
  <1> DEFINE Agree(i) == /\ f[i] = Both(f[i].server) /\ f[i].server \in Data
                         /\ g[i] = Both(Apply(f[i].server, op))
             S == {i \in Nat : i <= Len(q) => Agree(i)}
  <1>3. 0 \in S
    <2>1. f[0] = Both(data) /\ g[0] = Both(new)
      BY <1>1, <1>2 DEF IsPath
    <2> QED BY <2>1 DEF Both
  <1>4. ASSUME NEW i \in Nat, i \in S PROVE i + 1 \in S
    <2> SUFFICES ASSUME i + 1 <= Len(q) PROVE Agree(i + 1)
      OBVIOUS
    <2>0. Len(q) \in Nat
      OBVIOUS
    <2>1. i + 1 \in 1 .. Len(q) /\ (i + 1) - 1 = i /\ i <= Len(q)
      BY <2>0
    <2>2. Agree(i)
      BY <1>4, <2>1
    <2>3. f[i + 1] = Stepped(d, q[i + 1], f[i]) /\ g[i + 1] = Stepped(d, q[i + 1], g[i])
      BY <1>1, <1>2, <2>1 DEF IsPath
    <2>4. CASE q[i + 1].doc # d
      <3>1. f[i + 1] = f[i] /\ g[i + 1] = g[i]
        BY <2>3, <2>4 DEF Stepped
      <3> QED BY <2>2, <3>1
    <2>5. CASE q[i + 1].doc = d
      <3> DEFINE e == q[i + 1]
                 at == f[i].server
      <3>1. /\ e \in Entries /\ e.action = "submit" /\ e.arg \in Ops
            /\ Paths(op) \cap Paths(e.arg) = {}
        <4>1. e \in Entries /\ e.action = "submit" /\ Paths(e.arg) \cap Paths(op) = {}
          BY <2>1, <2>5
        <4> QED BY <4>1 DEF Entries
      <3>2. f[i + 1] = Both(Apply(at, e.arg))
        BY <2>3, <2>5, <3>1 DEF Stepped, Effect
      <3>3. g[i + 1] = Both(Apply(g[i].server, e.arg))
        BY <2>3, <2>5, <3>1 DEF Stepped, Effect
      <3>4. g[i].server = Apply(at, op) /\ at \in Data
        BY <2>2 DEF Both
      <3>5. Apply(Apply(at, op), e.arg) = Apply(Apply(at, e.arg), op)
        BY <3>1, <3>4 DEF Commute
      <3>6. Apply(at, e.arg) \in Data
        BY <3>1, <3>4, ConnectionAssumption
      <3>7. f[i + 1].server = Apply(at, e.arg)
        BY <3>2 DEF Both
      <3> QED BY <3>2, <3>3, <3>4, <3>5, <3>6, <3>7
    <2> QED BY <2>4, <2>5
  <1>5. Nat \subseteq S
    <2> HIDE DEF S
    <2> QED BY <1>3, <1>4, NumbersOf
  <1>6. Len(q) \in Nat
    OBVIOUS
  <1>7. Agree(Len(q))
    BY <1>5, <1>6
  <1> QED BY <1>1, <1>2, <1>7

-----------------------------------------------------------------------------
(* The copy of a document nothing came between. *)

\* Server and mirror agree on it, and will agree with the copy on what the
\* queued operations make of it.
Right(d) == mirror[d] = server[d] /\ After(d, Seen(d), queued) = Both(local[d])
Predicted == \A d \in fresh : Right(d)

\* A step that leaves a document, its copies and the queue alone.
LEMMA RightKept ==
    ASSUME NEW d \in Docs, Right(d), queued' = queued,
           server'[d] = server[d], mirror'[d] = mirror[d], local'[d] = local[d]
    PROVE  Right(d)'
  <1>1. Seen(d)' = Seen(d)
    BY DEF Seen
  <1>2. After(d, Seen(d), queued)' = After(d, Seen(d), queued)
    BY <1>1 DEF After, Effect, Both
  <1> QED BY <1>2 DEF Right, Both

\* With nothing queued for it, a document is right when all three agree.
LEMMA RightWhenEqual ==
    ASSUME NEW d \in Docs, queued' \in Seq(Entries),
           \A i \in 1 .. Len(queued') : queued'[i].doc # d,
           mirror'[d] = server'[d], local'[d] = server'[d]
    PROVE  Right(d)'
  <1>1. After(d, Seen(d)', queued') = Seen(d)'
    BY AfterOthers
  <1>2. Seen(d)' = Both(local'[d])
    BY DEF Seen, Both
  <1> QED BY <1>1, <1>2 DEF Right, Both, After, Effect

LEMMA NoneQueued ==
    ASSUME queued \in Seq(Entries), NEW d, Queued(d) = {}
    PROVE  \A i \in 1 .. Len(queued) : queued[i].doc # d
  <1>1. DOMAIN queued = 1 .. Len(queued)
    OBVIOUS
  <1> QED BY <1>1 DEF Queued

\* What the server makes of the document of an operation, and of another.
LEMMA CarrySeen ==
    ASSUME server \in [Docs -> Held], mirror \in [Docs -> Held], MirrorKnown,
           NEW e \in Entries, Carry(e), NEW d \in Docs
    PROVE  /\ Seen(d)' = Stepped(d, e, Seen(d))
           /\ e.doc # d => server'[d] = server[d] /\ mirror'[d] = mirror[d]
  <1> DEFINE after == Effect(e, Seen(e.doc))
  <1>1. e.doc \in Docs
    BY DEF Entries
  <1>2. /\ server' = [server EXCEPT ![e.doc] = after.server]
        /\ mirror' = [mirror EXCEPT ![e.doc] = after.mirror]
    BY DEF Carry
  <1>3. CASE e.doc = d
    <2>1. Seen(d) \in [mirror : Held, server : Held]
      BY DEF Seen
    <2>2. Seen(d).mirror # Absent => Seen(d).server # Absent
      BY DEF Seen, MirrorKnown
    <2>3. after \in [mirror : Held, server : Held]
      BY <1>3, <2>1, <2>2, EffectType DEF Carry
    <2> HIDE DEF after
    <2>4. server'[d] = after.server /\ mirror'[d] = after.mirror
      BY <1>2, <1>3
    <2>5. Seen(d)' = after
      BY <2>3, <2>4 DEF Seen
    <2> QED BY <1>3, <2>5 DEF Stepped, after
  <1>4. CASE e.doc # d
    <2> HIDE DEF after
    <2>1. server'[d] = server[d] /\ mirror'[d] = mirror[d]
      BY <1>1, <1>2, <1>4
    <2> QED BY <1>4, <2>1 DEF Stepped, Seen
  <1> QED BY <1>3, <1>4

LEMMA InitPredicted == Init => Predicted
  BY DEF Init, Predicted

\* The first queued operation is sent: the way is one step shorter.
LEMMA CommitStepRight ==
    ASSUME IInv, CommitStep, NEW d \in Docs, Right(d)
    PROVE  Right(d)'
  <1> DEFINE e == Head(queued)
  <1>1. /\ queued \in Seq(Entries) /\ queued # <<>> /\ e \in Entries
        /\ queued' = Tail(queued) /\ Carry(e) /\ local' = local
    BY DEF IInv, TypeOK, CommitStep
  <1> HIDE DEF e
  <1>2. Seen(d)' = Stepped(d, e, Seen(d))
    BY <1>1, CarrySeen DEF IInv, TypeOK, Held
  <1>3. After(d, Seen(d), queued) = After(d, Stepped(d, e, Seen(d)), Tail(queued))
    BY <1>1, AfterFirst DEF e
  <1>4. After(d, Seen(d)', queued') = Both(local[d])
    BY <1>1, <1>2, <1>3 DEF Right
  <1>5. mirror'[d] = server'[d]
    <2>1. CASE e.doc = d
      <3>1. Seen(d).mirror = Seen(d).server
        BY DEF Right, Seen
      <3>2. Effect(e, Seen(d)).mirror = Effect(e, Seen(d)).server
        BY <3>1 DEF Effect, Both
      <3> QED BY <1>2, <2>1, <3>2 DEF Stepped, Seen
    <2>2. CASE e.doc # d
      BY <1>1, <2>2, CarrySeen DEF Right, IInv, TypeOK, Held
    <2> QED BY <2>1, <2>2
  <1> QED BY <1>1, <1>4, <1>5 DEF Right, After, Effect, Both

\* The first queued operation is lost, or its answer: other documents only see
\* that it was not theirs.
LEMMA CommitThrowRight ==
    ASSUME IInv, CommitThrow, NEW d \in Docs, Right(d), Head(queued).doc # d
    PROVE  Right(d)'
  <1> DEFINE e == Head(queued)
  <1>1. /\ queued \in Seq(Entries) /\ queued # <<>> /\ e \in Entries
        /\ queued' = Tail(queued) /\ local' = local /\ e.doc # d
        /\ Carry(e) \/ UNCHANGED <<server, mirror>>
    BY DEF IInv, TypeOK, CommitThrow
  <1> HIDE DEF e
  <1>2. server'[d] = server[d] /\ mirror'[d] = mirror[d]
    BY <1>1, CarrySeen DEF IInv, TypeOK, Held
  <1>3. Seen(d)' = Seen(d)
    BY <1>2 DEF Seen
  <1>4. After(d, Seen(d), queued) = After(d, Stepped(d, e, Seen(d)), Tail(queued))
    BY <1>1, AfterFirst DEF e
  <1>5. Stepped(d, e, Seen(d)) = Seen(d)
    BY <1>1 DEF Stepped
  <1>6. After(d, Seen(d)', queued') = Both(local[d])
    BY <1>1, <1>3, <1>4, <1>5 DEF Right
  <1> QED BY <1>1, <1>2, <1>6 DEF Right, After, Effect, Both

LEMMA TransactPredicted == IInv /\ Predicted /\ Transact => Predicted'
  <1> SUFFICES ASSUME IInv, Predicted, Transact, NEW d \in fresh' PROVE Right(d)'
    BY DEF Predicted
  <1>0. fresh \subseteq Docs
    BY DEF IInv, TypeOK
  <1>1. CASE \/ Begin \/ CommitStart \/ CommitDone
             \/ \E path \in AllPaths : Exclude(path)
    <2>1. UNCHANGED <<server, mirror, local, queued, fresh>>
      BY <1>1 DEF Begin, CommitStart, CommitDone, Exclude
    <2> QED BY <1>0, <2>1, RightKept DEF Predicted
  <1>2. CASE Rollback
    <2>1. /\ d \in fresh /\ Queued(d) = {} /\ queued' = <<>>
          /\ UNCHANGED <<server, mirror, local>>
      BY <1>2 DEF Rollback
    <2>2. queued \in Seq(Entries)
      BY DEF IInv, TypeOK
    <2>3. mirror[d] = server[d] /\ After(d, Seen(d), queued) = Both(local[d])
      BY <2>1 DEF Predicted, Right
    <2>4. After(d, Seen(d), queued) = Seen(d)
      BY <2>1, <2>2, NoneQueued, AfterOthers
    <2>5. local[d] = server[d]
      BY <2>3, <2>4 DEF Seen, Both
    <2>6. queued' \in Seq(Entries) /\ \A i \in 1 .. Len(queued') : queued'[i].doc # d
      BY <2>1, NoEntries
    <2> QED BY <1>0, <2>1, <2>3, <2>5, <2>6, RightWhenEqual
  <1>3. CASE CommitStep
    <2>1. d \in fresh
      BY <1>3 DEF CommitStep
    <2> QED BY <1>0, <1>3, <2>1, CommitStepRight DEF Predicted
  <1>4. CASE CommitThrow
    <2>1. d \in fresh /\ Head(queued).doc # d
      BY <1>4 DEF CommitThrow
    <2> QED BY <1>0, <1>4, <2>1, CommitThrowRight DEF Predicted
  <1> QED BY <1>1, <1>2, <1>3, <1>4 DEF Transact

\* A fetch: the document that is fetched is right if nothing is queued for it.
LEMMA FetchPredicted ==
    ASSUME IInv, Predicted, NEW d \in Docs, Fetch(d)
    PROVE  Predicted'
  <1> SUFFICES ASSUME NEW c \in fresh' PROVE Right(c)'
    BY DEF Predicted
  <1>0. /\ fresh \subseteq Docs /\ queued \in Seq(Entries)
        /\ server \in [Docs -> Held] /\ mirror \in [Docs -> Held] /\ local \in [Docs -> Held]
    BY DEF IInv, TypeOK, Held
  <1>1. /\ mirror' = [mirror EXCEPT ![d] = server[d]] /\ local' = [local EXCEPT ![d] = server[d]]
        /\ fresh' = IF Queued(d) = {} THEN fresh \cup {d} ELSE fresh \ {d}
        /\ server' = server /\ queued' = queued
    BY DEF Fetch
  <1>2. CASE c = d
    <2>1. Queued(d) = {}
      BY <1>1, <1>2
    <2>2. \A i \in 1 .. Len(queued') : queued'[i].doc # d
      BY <1>0, <1>1, <2>1, NoneQueued
    <2>3. mirror'[d] = server'[d] /\ local'[d] = server'[d]
      BY <1>0, <1>1
    <2> QED BY <1>0, <1>1, <1>2, <2>2, <2>3, RightWhenEqual
  <1>3. CASE c # d
    <2>1. c \in fresh /\ c \in Docs
      BY <1>0, <1>1, <1>3
    <2>2. mirror'[c] = mirror[c] /\ local'[c] = local[c]
      BY <1>0, <1>1, <1>3, <2>1
    <2> QED BY <1>1, <2>1, <2>2, RightKept DEF Predicted
  <1> QED BY <1>2, <1>3

\* An operation that is queued: the way is one step longer, and makes of the
\* document what the connection makes of its copy.
LEMMA EnqueuePredicted ==
    ASSUME IInv, Predicted, NEW e \in Entries, Write(e), Enqueue(e)
    PROVE  Predicted'
  <1> SUFFICES ASSUME NEW d \in fresh' PROVE Right(d)'
    BY DEF Predicted
  <1>0. /\ fresh \subseteq Docs /\ queued \in Seq(Entries) /\ local \in [Docs -> Held]
        /\ e.doc \in Docs
    BY DEF IInv, TypeOK, Held, Entries
  <1>1. /\ queued' = Append(queued, e)
        /\ local' = [local EXCEPT ![e.doc] = CopyAfter(e)]
        /\ UNCHANGED <<server, mirror, fresh>>
    BY DEF Enqueue
  <1>2. d \in Docs /\ mirror[d] = server[d] /\ After(d, Seen(d), queued) = Both(local[d])
    BY <1>0, <1>1 DEF Predicted, Right
  <1>3. Seen(d)' = Seen(d)
    BY <1>1 DEF Seen
  <1>4. After(d, Seen(d)', queued') = Stepped(d, e, Both(local[d]))
    BY <1>0, <1>1, <1>2, <1>3, AfterAppend
  <1>5. Stepped(d, e, Both(local[d])) = Both(local'[d])
    <2>1. CASE e.doc # d
      BY <1>0, <1>1, <1>2, <2>1 DEF Stepped
    <2>2. CASE e.doc = d
      <3>1. local'[d] = CopyAfter(e) /\ Stepped(d, e, Both(local[d])) = Effect(e, Both(local[d]))
        BY <1>0, <1>1, <1>2, <2>2 DEF Stepped
      <3>2. Both(local[d]).mirror = local[d] /\ Both(local[d]).server = local[d]
        BY DEF Both
      <3>3. Effect(e, Both(local[d])) = Both(CopyAfter(e))
        <4>1. CASE e.action = "create"
          BY <4>1 DEF Effect, CopyAfter
        <4>2. CASE e.action = "submit"
          BY <2>2, <3>2, <4>2 DEF Effect, CopyAfter
        <4>3. CASE e.action = "delete"
          BY <4>3 DEF Effect, CopyAfter
        <4>4. CASE e.action = "replace" /\ e.arg = local[d]
          BY <3>2, <4>4 DEF Effect, CopyAfter
        <4>5. CASE e.action = "replace" /\ e.arg # local[d]
          <5>1. local[d] \in Data /\ e.arg \in Data
            BY <1>0, <1>2, <2>2, <4>5 DEF Write, Held, Entries
          <5>2. Apply(local[d], Diff(local[d], e.arg)) = e.arg
            BY <4>5, <5>1, ConnectionAssumption
          <5> QED BY <3>2, <4>5, <5>2 DEF Effect, CopyAfter
        <4> QED BY <4>1, <4>2, <4>3, <4>4, <4>5 DEF Entries
      <3> QED BY <3>1, <3>3
    <2> QED BY <2>1, <2>2
  <1>6. mirror'[d] = server'[d]
    BY <1>1, <1>2
  <1> QED BY <1>4, <1>5, <1>6 DEF Right, After, Effect, Both

\* Outside a transaction nothing is queued and the copy is the server's answer.
LEMMA SendPredicted ==
    ASSUME IInv, Predicted, NEW e \in Entries, Send(e)
    PROVE  Predicted'
  <1> SUFFICES ASSUME NEW d \in fresh' PROVE Right(d)'
    BY DEF Predicted
  <1>0. /\ fresh \subseteq Docs /\ local \in [Docs -> Held] /\ e.doc \in Docs
        /\ server \in [Docs -> Held] /\ mirror \in [Docs -> Held] /\ MirrorKnown
        /\ queued = <<>>
    BY DEF IInv, TypeOK, Held, Entries, NothingLeft, Send
  <1>1. /\ Carry(e) /\ queued' = queued
        /\ local' = [local EXCEPT ![e.doc] = mirror'[e.doc]]
        /\ fresh' = IF mirror'[e.doc] = server'[e.doc] THEN fresh \cup {e.doc} ELSE fresh
    BY DEF Send
  <1>2. d \in Docs
    BY <1>0, <1>1
  <1>3. queued' \in Seq(Entries) /\ \A i \in 1 .. Len(queued') : queued'[i].doc # d
    BY <1>0, <1>1, NoEntries
  <1>4. CASE e.doc = d
    <2>1. local'[d] = mirror'[d]
      BY <1>0, <1>1, <1>4
    <2>2. mirror'[d] = server'[d]
      <3>1. CASE d \in fresh
        <4>1. Seen(d).mirror = Seen(d).server
          BY <3>1 DEF Predicted, Right, Seen
        <4>2. Effect(e, Seen(d)).mirror = Effect(e, Seen(d)).server
          BY <4>1 DEF Effect, Both
        <4>3. Seen(d)' = Effect(e, Seen(d))
          BY <1>0, <1>1, <1>2, <1>4, CarrySeen DEF Stepped
        <4> QED BY <4>2, <4>3 DEF Seen
      <3>2. CASE d \notin fresh
        BY <1>1, <1>4, <3>2
      <3> QED BY <3>1, <3>2
    <2> QED BY <1>2, <1>3, <2>1, <2>2, RightWhenEqual
  <1>5. CASE e.doc # d
    <2>1. server'[d] = server[d] /\ mirror'[d] = mirror[d]
      BY <1>0, <1>1, <1>2, <1>5, CarrySeen
    <2>2. local'[d] = local[d] /\ d \in fresh
      BY <1>0, <1>1, <1>2, <1>5
    <2> QED BY <1>1, <1>2, <2>1, <2>2, RightKept DEF Predicted
  <1> QED BY <1>4, <1>5

LEMMA WritePredicted ==
    ASSUME IInv, Predicted, NEW e \in Entries, Write(e)
    PROVE  Predicted'
  <1>1. Enqueue(e) \/ Send(e)
    BY DEF Write
  <1> QED BY <1>1, EnqueuePredicted, SendPredicted

\* An op list that is sent past the queue: a document it does not disturb the
\* queued operations of comes out the same.
LEMMA ExcludedPredicted ==
    ASSUME Commute, IInv, Predicted, NEW d \in Docs, NEW op \in Ops, SubmitExcluded(d, op)
    PROVE  Predicted'
  <1> DEFINE e == [action |-> "submit", doc |-> d, arg |-> op]
  <1> SUFFICES ASSUME NEW c \in fresh' PROVE Right(c)'
    BY DEF Predicted
  <1>0. /\ fresh \subseteq Docs /\ local \in [Docs -> Held] /\ queued \in Seq(Entries)
        /\ server \in [Docs -> Held] /\ mirror \in [Docs -> Held] /\ MirrorKnown
        /\ e \in Entries /\ e.doc = d /\ e.action = "submit" /\ e.arg = op
    BY DEF IInv, TypeOK, Held, Entries
  <1>1. /\ Carry(e) /\ queued' = queued
        /\ local' = [local EXCEPT ![d] = Apply(local[d], op)]
        /\ fresh' = IF Overtakes(d, op) THEN fresh \ {d} ELSE fresh
        /\ Paths(op) # {}
    BY DEF SubmitExcluded
  <1> HIDE DEF e
  <1>2. c \in fresh /\ c \in Docs
    BY <1>0, <1>1
  <1>3. CASE c = d
    <2>1. ~Overtakes(d, op)
      BY <1>1, <1>3
    <2>2. \A i \in 1 .. Len(queued) : queued[i].doc = d =>
              queued[i].action = "submit" /\ Paths(queued[i].arg) \cap Paths(op) = {}
      <3>1. DOMAIN queued = 1 .. Len(queued)
        BY <1>0
      <3> QED BY <2>1, <3>1 DEF Overtakes, Queued
    <2>3. /\ mirror[d] = server[d] /\ Seen(d) = Both(server[d])
          /\ After(d, Seen(d), queued) = Both(local[d])
      BY <1>2, <1>3 DEF Predicted, Right, Seen, Both
    <2>4. server[d] \in Data
      <3>1. Seen(d).mirror # Absent
        BY <1>0, <1>1 DEF Carry, Accepts
      <3> QED BY <1>0, <2>3, <3>1 DEF Seen, Held
    <2>5. Seen(d)' = Both(Apply(server[d], op))
      <3>1. Seen(d)' = Effect(e, Seen(d))
        BY <1>0, <1>1, CarrySeen DEF Stepped
      <3> QED BY <1>0, <2>3, <3>1 DEF Effect, Both
    <2>6. After(d, Both(Apply(server[d], op)), queued)
              = Both(Apply(After(d, Both(server[d]), queued).server, op))
      BY <1>0, <1>1, <2>2, <2>4, AfterOvertaken
    <2>7. After(d, Both(server[d]), queued).server = local[d]
      BY <2>3 DEF Both
    <2>8. local'[d] = Apply(local[d], op)
      BY <1>0, <1>1
    <2>9. After(d, Seen(d)', queued') = Both(local'[d])
      BY <1>1, <2>5, <2>6, <2>7, <2>8
    <2>10. mirror'[d] = server'[d]
      BY <2>5 DEF Seen, Both
    <2> QED BY <1>3, <2>9, <2>10 DEF Right, After, Effect, Both
  <1>4. CASE c # d
    <2>1. server'[c] = server[c] /\ mirror'[c] = mirror[c]
      BY <1>0, <1>1, <1>2, <1>4, CarrySeen
    <2>2. local'[c] = local[c]
      BY <1>0, <1>1, <1>2, <1>4
    <2> QED BY <1>1, <1>2, <2>1, <2>2, RightKept DEF Predicted
  <1> QED BY <1>3, <1>4

LEMMA UsePredicted ==
    ASSUME Commute, IInv, Predicted, NEW d \in Docs, Use(d)
    PROVE  Predicted'
  <1>1. CASE Fetch(d)
    BY <1>1, FetchPredicted
  <1>2. CASE FetchUncached(d) /\ ~Fetch(d)
    <2>1. /\ mirror' = [mirror EXCEPT ![d] = server[d]]
          /\ UNCHANGED <<server, local, queued, fresh>>
      BY <1>2 DEF FetchUncached
    <2> SUFFICES ASSUME NEW c \in fresh' PROVE Right(c)'
      BY DEF Predicted
    <2>2. c \in fresh /\ c \in Docs /\ mirror \in [Docs -> Held]
      BY <2>1 DEF IInv, TypeOK, Held
    <2>3. mirror'[c] = mirror[c]
      BY <2>1, <2>2 DEF Predicted, Right
    <2> QED BY <2>1, <2>2, <2>3, RightKept DEF Predicted
  <1>3. ASSUME NEW op \in Ops, Submit(d, op) PROVE Predicted'
    <2>1. [action |-> "submit", doc |-> d, arg |-> op] \in Entries
      BY DEF Entries
    <2> QED BY <1>3, <2>1, ExcludedPredicted, WritePredicted DEF Submit
  <1>4. ASSUME NEW data \in Data, FetchOrCreate(d, data) PROVE Predicted'
    <2>1. [action |-> "create", doc |-> d, arg |-> data] \in Entries
      BY DEF Entries
    <2> QED BY <1>4, <2>1, FetchPredicted, WritePredicted DEF FetchOrCreate
  <1>5. ASSUME NEW action \in {"create", "replace"}, NEW data \in Data,
               Write([action |-> action, doc |-> d, arg |-> data])
        PROVE Predicted'
    <2>1. [action |-> action, doc |-> d, arg |-> data] \in Entries
      BY DEF Entries
    <2> QED BY <1>5, <2>1, WritePredicted
  <1>6. CASE Write([action |-> "delete", doc |-> d])
    <2>1. [action |-> "delete", doc |-> d] \in Entries
      BY DEF Entries
    <2> QED BY <1>6, <2>1, WritePredicted
  <1> QED BY <1>1, <1>2, <1>3, <1>4, <1>5, <1>6 DEF Use

LEMMA OtherPredicted ==
    ASSUME IInv, Predicted, NEW d \in Docs, NEW data \in Data, OtherWrite(d, data)
    PROVE  Predicted'
  <1> SUFFICES ASSUME NEW c \in fresh' PROVE Right(c)'
    BY DEF Predicted
  <1>1. /\ server' = [server EXCEPT ![d] = data] /\ c \in fresh /\ c # d
        /\ UNCHANGED <<mirror, local, queued>>
    BY DEF OtherWrite
  <1>2. c \in Docs /\ server \in [Docs -> Held]
    BY <1>1 DEF IInv, TypeOK, Held
  <1>3. server'[c] = server[c]
    BY <1>1, <1>2
  <1> QED BY <1>1, <1>2, <1>3, RightKept DEF Predicted

LEMMA StepPredicted ==
    ASSUME Commute, IInv, Predicted, [Next]_connVars
    PROVE  Predicted'
  <1>1. CASE Transact
    BY <1>1, TransactPredicted
  <1>2. ASSUME NEW d \in Docs, Use(d) PROVE Predicted'
    BY <1>2, UsePredicted
  <1>3. ASSUME NEW d \in Docs, NEW data \in Data, OtherWrite(d, data) PROVE Predicted'
    BY <1>3, OtherPredicted
  <1>4. CASE UNCHANGED connVars
    <2>1. UNCHANGED <<server, mirror, local, queued, fresh>> /\ fresh \subseteq Docs
      BY <1>4 DEF connVars, IInv, TypeOK
    <2> QED BY <2>1, RightKept DEF Predicted
  <1> QED BY <1>1, <1>2, <1>3, <1>4 DEF Next

\* What a connection sees of a document is what it will have written, for any
\* documents and queues of any length: the cached copy is the server's document
\* with the queued operations applied (_queuedOperations, Document.Data), also
\* when an op list on an excluded property went ahead of the queue, as long as
\* op lists on different properties commute.
THEOREM CopiesPredict ==
    ASSUME Commute
    PROVE  Spec => []CopyPredicts
  <1>1. Init => IInv /\ Predicted
    BY InitIInv, InitPredicted
  <1>2. IInv /\ Predicted /\ [Next]_connVars => (IInv /\ Predicted)'
    <2>1. IInv /\ [Next]_connVars => IInv'
      BY StepIInv
    <2>2. IInv /\ Predicted /\ [Next]_connVars => Predicted'
      BY StepPredicted
    <2> QED BY <2>1, <2>2
  <1>3. Predicted => CopyPredicts
    BY DEF Predicted, Right, CopyPredicts, Committed, Both
  <1> QED BY <1>1, <1>2, <1>3, PTL DEF Spec
=============================================================================
