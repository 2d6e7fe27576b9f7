-------------------------- MODULE RealtimeQueryProofs --------------------------
(***************************************************************************)
(* Proofs about RealtimeQuery, for any queries, documents and overlapping  *)
(* calls: type correctness, that documents count the places that queries   *)
(* have them in, that a query hears what it shows, and that it shows the   *)
(* results of its last call.                                               *)
(***************************************************************************)
EXTENDS RealtimeQuery, SequenceTheorems, FiniteSetTheorems, WellFoundedInduction, TLAPS

-----------------------------------------------------------------------------
(* How many places of a sequence hold a member of a set. *)

PlacesOf(s, A) == {i \in DOMAIN s : s[i] \in A}
CountIn(s, A) == Cardinality(PlacesOf(s, A))

LEMMA CountNumber ==
    ASSUME NEW S, NEW s \in Seq(S), NEW A
    PROVE  /\ IsFiniteSet(PlacesOf(s, A)) /\ CountIn(s, A) \in Nat
           /\ CountIn(s, A) = 0 <=> \A i \in DOMAIN s : s[i] \notin A
  <1>1. DOMAIN s = 1 .. Len(s) /\ Len(s) \in Nat
    BY LenProperties
  <1>2. IsFiniteSet(DOMAIN s)
    BY <1>1, FS_Interval
  <1>3. IsFiniteSet(PlacesOf(s, A))
    BY <1>2, FS_Subset DEF PlacesOf
  <1>4. CountIn(s, A) \in Nat
    BY <1>3, FS_CardinalityType DEF CountIn
  <1>5. CountIn(s, A) = 0 <=> PlacesOf(s, A) = {}
    BY <1>3, FS_EmptySet DEF CountIn
  <1> QED BY <1>3, <1>4, <1>5 DEF PlacesOf

LEMMA CountConcat ==
    ASSUME NEW S, NEW s \in Seq(S), NEW t \in Seq(S), NEW A
    PROVE  CountIn(s \o t, A) = CountIn(s, A) + CountIn(t, A)
  <1> DEFINE n == Len(s)
             u == s \o t
             old == PlacesOf(s, A)
             new == {i \in DOMAIN u : i > n /\ u[i] \in A}
             f == [i \in PlacesOf(t, A) |-> i + n]
  <1>1. /\ n \in Nat /\ Len(t) \in Nat
        /\ DOMAIN s = 1 .. n /\ DOMAIN t = 1 .. Len(t)
    BY LenProperties
  <1>2. /\ u \in Seq(S) /\ Len(u) = n + Len(t)
        /\ \A i \in 1 .. n + Len(t) : u[i] = IF i <= n THEN s[i] ELSE t[i - n]
    BY ConcatProperties, Zenon
  <1>3. DOMAIN u = 1 .. n + Len(t)
    BY <1>2, LenProperties
  <1> HIDE DEF n, u
  <1>4. PlacesOf(u, A) = old \cup new /\ old \cap new = {}
    BY <1>1, <1>2, <1>3 DEF PlacesOf
  <1>5. IsFiniteSet(PlacesOf(u, A)) /\ IsFiniteSet(old) /\ IsFiniteSet(PlacesOf(t, A))
    BY <1>2, CountNumber
  <1>6. IsFiniteSet(new)
    BY <1>4, <1>5, FS_Subset
  <1>7. ExistsBijection(PlacesOf(t, A), new)
    <2>1. \A i \in PlacesOf(t, A) : f[i] \in new
      BY <1>1, <1>2, <1>3 DEF PlacesOf
    <2>2. \A i, j \in PlacesOf(t, A) : f[i] = f[j] => i = j
      BY <1>1 DEF PlacesOf
    <2>3. \A k \in new : k - n \in PlacesOf(t, A) /\ f[k - n] = k
      BY <1>1, <1>2, <1>3 DEF PlacesOf
    <2>4. f \in [PlacesOf(t, A) -> new]
      BY <2>1
    <2> HIDE DEF f, new
    <2>5. f \in Bijection(PlacesOf(t, A), new)
      BY <2>2, <2>3, <2>4 DEF Bijection, Injection, Surjection, IsInjective
    <2> QED BY <2>5 DEF ExistsBijection
  <1>8. Cardinality(new) = CountIn(t, A)
    BY <1>5, <1>7, FS_Bijection DEF CountIn
  <1>9. Cardinality(old \cup new) = Cardinality(old) + Cardinality(new) - Cardinality(old \cap new)
    BY <1>5, <1>6, FS_Union
  <1>10. Cardinality(old \cap new) = 0
    BY <1>4, FS_EmptySet
  <1>11. CountIn(s, A) \in Nat /\ CountIn(t, A) \in Nat
    BY CountNumber
  <1>12. Cardinality(old) = CountIn(s, A) /\ Cardinality(PlacesOf(u, A)) = CountIn(s \o t, A)
    BY DEF CountIn, u
  <1> HIDE DEF old, new
  <1> QED BY <1>4, <1>8, <1>9, <1>10, <1>11, <1>12

LEMMA CountOne ==
    ASSUME NEW S, NEW e \in S, NEW A
    PROVE  CountIn(<<e>>, A) = IF e \in A THEN 1 ELSE 0
  <1>1. PlacesOf(<<e>>, A) = IF e \in A THEN {1} ELSE {}
    BY DEF PlacesOf
  <1> QED BY <1>1, FS_Singleton, FS_EmptySet DEF CountIn

LEMMA CountNone == \A A : CountIn(<<>>, A) = 0
  <1>1. \A A : PlacesOf(<<>>, A) = {}
    BY DEF PlacesOf
  <1> QED BY <1>1, FS_EmptySet DEF CountIn

\* A sequence is counted in two parts.
LEMMA CountParts ==
    ASSUME NEW S, NEW s \in Seq(S), NEW k \in 0 .. Len(s), NEW A
    PROVE  /\ SubSeq(s, 1, k) \in Seq(S) /\ SubSeq(s, k + 1, Len(s)) \in Seq(S)
           /\ SubSeq(s, 1, k) \o SubSeq(s, k + 1, Len(s)) = s
           /\ CountIn(s, A) = CountIn(SubSeq(s, 1, k), A) + CountIn(SubSeq(s, k + 1, Len(s)), A)
  <1>1. Len(s) \in Nat /\ DOMAIN s = 1 .. Len(s) /\ \A i \in 1 .. Len(s) : s[i] \in S
    BY LenProperties, ElementOfSeq
  <1>2. /\ 1 \in 1 .. Len(s) + 1 /\ k \in 0 .. Len(s) /\ Len(s) \in k .. Len(s)
        /\ 1 \in Int /\ k \in Int /\ k + 1 \in Int /\ Len(s) \in Int /\ 1 - 1 = 0
        /\ \A i \in 1 .. k : i \in 1 .. Len(s)
        /\ \A i \in k + 1 .. Len(s) : i \in 1 .. Len(s)
    BY <1>1
  <1>3. SubSeq(s, 1, k) \in Seq(S)
    BY <1>1, <1>2, SubSeqProperties, Zenon
  <1>4. SubSeq(s, k + 1, Len(s)) \in Seq(S)
    BY <1>1, <1>2, SubSeqProperties, Zenon
  <1>5. SubSeq(s, 1, k) \o SubSeq(s, k + 1, Len(s)) = SubSeq(s, 1, Len(s))
    BY <1>2, ConcatAdjacentSubSeq
  <1>6. SubSeq(s, 1, Len(s)) = s
    BY SubSeqFull
  <1> DEFINE a == SubSeq(s, 1, k)
             b == SubSeq(s, k + 1, Len(s))
  <1>7. a \in Seq(S) /\ b \in Seq(S) /\ a \o b = s
    BY <1>3, <1>4, <1>5, <1>6
  <1> HIDE DEF a, b
  <1>8. CountIn(a \o b, A) = CountIn(a, A) + CountIn(b, A)
    BY <1>7, CountConcat
  <1>9. CountIn(s, A) = CountIn(a, A) + CountIn(b, A)
    BY <1>7, <1>8
  <1> QED BY <1>7, <1>9 DEF a, b

LEMMA CountAppend ==
    ASSUME NEW S, NEW s \in Seq(S), NEW e \in S, NEW A
    PROVE  CountIn(Append(s, e), A) = CountIn(s, A) + IF e \in A THEN 1 ELSE 0
  <1> DEFINE one == <<e>>
  <1>1. Append(s, e) = s \o one /\ one \in Seq(S)
    BY AppendIsConcat
  <1>2. CountIn(one, A) = IF e \in A THEN 1 ELSE 0
    BY CountOne
  <1> HIDE DEF one
  <1>3. CountIn(s \o one, A) = CountIn(s, A) + CountIn(one, A)
    BY <1>1, CountConcat
  <1> QED BY <1>1, <1>2, <1>3

\* The element at a place: before it, itself, and after it.
LEMMA CountAt ==
    ASSUME NEW S, NEW s \in Seq(S), NEW i \in DOMAIN s, NEW A
    PROVE  /\ SubSeq(s, 1, i - 1) \in Seq(S) /\ SubSeq(s, i + 1, Len(s)) \in Seq(S)
           /\ CountIn(s, A) = CountIn(SubSeq(s, 1, i - 1), A) + (IF s[i] \in A THEN 1 ELSE 0)
                                + CountIn(SubSeq(s, i + 1, Len(s)), A)
  <1>1. Len(s) \in Nat /\ DOMAIN s = 1 .. Len(s) /\ s[i] \in S
    BY LenProperties, ElementOfSeq
  <1>2. /\ i \in 1 .. Len(s) /\ i - 1 \in 0 .. Len(s) /\ i \in 0 .. Len(s)
        /\ (i - 1) + 1 = i /\ Len(s) \in i .. Len(s)
    BY <1>1
  <1>3. /\ SubSeq(s, 1, i - 1) \in Seq(S) /\ SubSeq(s, i, Len(s)) \in Seq(S)
        /\ CountIn(s, A) = CountIn(SubSeq(s, 1, i - 1), A) + CountIn(SubSeq(s, i, Len(s)), A)
    <2>1. /\ SubSeq(s, 1, i - 1) \in Seq(S) /\ SubSeq(s, (i - 1) + 1, Len(s)) \in Seq(S)
          /\ CountIn(s, A) = CountIn(SubSeq(s, 1, i - 1), A)
                               + CountIn(SubSeq(s, (i - 1) + 1, Len(s)), A)
      BY <1>2, CountParts
    <2> QED BY <1>2, <2>1
  <1>4. SubSeq(s, i + 1, Len(s)) \in Seq(S)
    BY <1>2, CountParts
  <1>5. SubSeq(s, i, Len(s)) = <<s[i]>> \o SubSeq(s, i + 1, Len(s))
    BY <1>2, SubSeqRecursiveFirst
  <1>6. <<s[i]>> \in Seq(S) /\ CountIn(<<s[i]>>, A) = IF s[i] \in A THEN 1 ELSE 0
    BY <1>1, CountOne
  <1>7. CountIn(SubSeq(s, i, Len(s)), A) = CountIn(<<s[i]>>, A) + CountIn(SubSeq(s, i + 1, Len(s)), A)
    <2> DEFINE one == <<s[i]>>
               b == SubSeq(s, i + 1, Len(s))
    <2>1. one \in Seq(S) /\ b \in Seq(S) /\ SubSeq(s, i, Len(s)) = one \o b
      BY <1>4, <1>5, <1>6
    <2> HIDE DEF one, b
    <2>2. CountIn(one \o b, A) = CountIn(one, A) + CountIn(b, A)
      BY <2>1, CountConcat
    <2>3. CountIn(SubSeq(s, i, Len(s)), A) = CountIn(one, A) + CountIn(b, A)
      BY <2>1, <2>2
    <2> QED BY <2>3 DEF one, b
  <1>8. /\ CountIn(SubSeq(s, 1, i - 1), A) \in Nat /\ CountIn(SubSeq(s, i + 1, Len(s)), A) \in Nat
        /\ CountIn(SubSeq(s, i, Len(s)), A) \in Nat
    BY <1>3, <1>4, CountNumber
  <1> QED BY <1>3, <1>4, <1>6, <1>7, <1>8

LEMMA CountRemoveAt ==
    ASSUME NEW S, NEW s \in Seq(S), NEW i \in DOMAIN s, NEW A
    PROVE  /\ RemoveAt(s, i) \in Seq(S)
           /\ CountIn(RemoveAt(s, i), A) = CountIn(s, A) - IF s[i] \in A THEN 1 ELSE 0
  <1> DEFINE a == SubSeq(s, 1, i - 1)
             b == SubSeq(s, i + 1, Len(s))
  <1>1. /\ a \in Seq(S) /\ b \in Seq(S)
        /\ CountIn(s, A) = CountIn(a, A) + (IF s[i] \in A THEN 1 ELSE 0) + CountIn(b, A)
    BY CountAt
  <1>2. RemoveAt(s, i) = a \o b
    BY DEF RemoveAt
  <1> HIDE DEF a, b
  <1>3. a \o b \in Seq(S)
    BY <1>1, ConcatProperties
  <1>4. CountIn(a \o b, A) = CountIn(a, A) + CountIn(b, A)
    BY <1>1, CountConcat
  <1>5. CountIn(a, A) \in Nat /\ CountIn(b, A) \in Nat
    BY <1>1, CountNumber
  <1> QED BY <1>1, <1>2, <1>3, <1>4, <1>5

LEMMA CountReplaceAt ==
    ASSUME NEW S, NEW s \in Seq(S), NEW i \in DOMAIN s, NEW e \in S, NEW A
    PROVE  /\ ReplaceAt(s, i, e) \in Seq(S)
           /\ CountIn(ReplaceAt(s, i, e), A)
                = CountIn(s, A) - (IF s[i] \in A THEN 1 ELSE 0) + IF e \in A THEN 1 ELSE 0
  <1> DEFINE t == [s EXCEPT ![i] = e]
             rest == {k \in DOMAIN s : k # i /\ s[k] \in A}
  <1>1. DOMAIN s = 1 .. Len(s)
    BY LenProperties
  <1>2. t \in Seq(S) /\ DOMAIN t = DOMAIN s /\ t[i] = e
        /\ \A k \in DOMAIN s : k # i => t[k] = s[k]
    BY <1>1, ExceptSeq
  <1> HIDE DEF t
  <1>3. /\ PlacesOf(s, A) = IF s[i] \in A THEN rest \cup {i} ELSE rest
        /\ PlacesOf(t, A) = IF e \in A THEN rest \cup {i} ELSE rest
        /\ i \notin rest
    BY <1>2 DEF PlacesOf
  <1>4. IsFiniteSet(rest) /\ Cardinality(rest) \in Nat
    <2>1. rest \subseteq PlacesOf(s, A)
      BY DEF PlacesOf
    <2>2. IsFiniteSet(rest)
      BY <2>1, CountNumber, FS_Subset
    <2> QED BY <2>2, FS_CardinalityType
  <1>5. Cardinality(rest \cup {i}) = Cardinality(rest) + 1
    BY <1>3, <1>4, FS_AddElement
  <1> HIDE DEF rest
  <1>6. CountIn(s, A) = Cardinality(rest) + IF s[i] \in A THEN 1 ELSE 0
    BY <1>3, <1>4, <1>5 DEF CountIn
  <1>7. CountIn(t, A) = Cardinality(rest) + IF e \in A THEN 1 ELSE 0
    BY <1>3, <1>4, <1>5 DEF CountIn
  <1>8. ReplaceAt(s, i, e) = t
    BY DEF ReplaceAt, t
  <1> QED BY <1>2, <1>4, <1>6, <1>7, <1>8

\* What does not occur twice occurs once or not at all.
LEMMA CountInjective ==
    ASSUME NEW S, NEW s \in Seq(S), IsInjective(s), NEW d
    PROVE  CountIn(s, {d}) = IF d \in ToSet(s) THEN 1 ELSE 0
  <1>1. CASE d \in ToSet(s)
    <2>1. PICK i \in DOMAIN s : s[i] = d
      BY <1>1 DEF ToSet
    <2>2. PlacesOf(s, {d}) = {i}
      BY <2>1 DEF PlacesOf, IsInjective
    <2> QED BY <1>1, <2>2, FS_Singleton DEF CountIn
  <1>2. CASE d \notin ToSet(s)
    <2>1. PlacesOf(s, {d}) = {}
      BY <1>2 DEF PlacesOf, ToSet
    <2> QED BY <1>2, <2>1, FS_EmptySet DEF CountIn
  <1> QED BY <1>1, <1>2

LEMMA CountHeld ==
    ASSUME NEW S, NEW s \in Seq(S), NEW d
    PROVE  d \in ToSet(s) <=> CountIn(s, {d}) >= 1
  <1>1. CountIn(s, {d}) \in Nat /\ (CountIn(s, {d}) = 0 <=> \A i \in DOMAIN s : s[i] \notin {d})
    BY CountNumber
  <1>2. d \in ToSet(s) <=> ~ \A i \in DOMAIN s : s[i] \notin {d}
    BY DEF ToSet
  <1> QED BY <1>1, <1>2

-----------------------------------------------------------------------------
(* The members of a sequence that are in a set. *)

\* A set that has 0 and with every number the next one has all numbers.
LEMMA NumbersOf ==
    ASSUME NEW S, 0 \in S, \A n \in Nat : n \in S => n + 1 \in S
    PROVE  Nat \subseteq S
  <1> DEFINE T == Nat \ S
  <1>1. ASSUME NEW k \in T PROVE FALSE
    <2>1. T \subseteq Nat /\ k \in T
      BY <1>1
    <2>2. PICK n \in T : \A m \in T : ~ (<<m, n>> \in OpToRel(<, Nat))
      <3> HIDE DEF T
      <3> QED BY <2>1, WFMin, NatLessThanWellFounded
    <2>3. n \in Nat /\ n # 0
      BY <2>2
    <2>4. n - 1 \in Nat /\ n - 1 < n
      BY <2>3
    <2>5. n - 1 \notin T
      BY <2>2, <2>3, <2>4 DEF OpToRel
    <2>6. n - 1 \in S /\ (n - 1) + 1 = n
      BY <2>3, <2>4, <2>5
    <2> QED BY <2>2, <2>4, <2>6
  <1> QED BY <1>1

\* f is the way to what is kept of ids.
IsPath(ids, have, f) ==
    /\ f[0] = <<>>
    /\ \A i \in 1 .. Len(ids) :
          f[i] = IF ids[i] \in have THEN Append(f[i - 1], ids[i]) ELSE f[i - 1]

\* The function that Kept chooses exists.
LEMMA PathExists ==
    ASSUME NEW ids \in Seq(Docs), NEW have
    PROVE  \E f : IsPath(ids, have, f) /\ Kept(ids, have) = f[Len(ids)]
  <1> DEFINE none == <<>>
  <1> DEFINE Rest(n, f) ==
                 f = [i \in 0 .. n |->
                         IF i = 0 THEN none
                         ELSE IF ids[i] \in have THEN Append(f[i - 1], ids[i]) ELSE f[i - 1]]
             S == {n \in Nat : \E f : Rest(n, f)}
             path == CHOOSE f : Rest(Len(ids), f)
  <1>0. Kept(ids, have) = path[Len(ids)]
    BY Zenon DEF Kept
  <1> HIDE DEF none
  <1>1. 0 \in S
    <2> DEFINE g == [i \in 0 .. 0 |-> none]
    <2>1. Rest(0, g)
      OBVIOUS
    <2> QED BY <2>1
  <1>2. ASSUME NEW n \in Nat, n \in S PROVE n + 1 \in S
    <2>1. PICK f : Rest(n, f)
      BY <1>2
    <2> DEFINE g == [i \in 0 .. n + 1 |->
                        IF i = 0 THEN none
                        ELSE IF ids[i] \in have THEN Append(f[i - 1], ids[i]) ELSE f[i - 1]]
    <2>2. ASSUME NEW i \in 0 .. n PROVE g[i] = f[i]
      <3>1. i \in 0 .. n + 1
        OBVIOUS
      <3>2. f[i] = IF i = 0 THEN none
                   ELSE IF ids[i] \in have THEN Append(f[i - 1], ids[i]) ELSE f[i - 1]
        BY <2>1, Zenon
      <3>3. g[i] = IF i = 0 THEN none
                   ELSE IF ids[i] \in have THEN Append(f[i - 1], ids[i]) ELSE f[i - 1]
        BY <3>1, Zenon
      <3> QED BY <3>2, <3>3
    <2>3. \A i \in 0 .. n + 1 : i # 0 => i - 1 \in 0 .. n
      OBVIOUS
    <2>4. \A i \in 0 .. n + 1 : i # 0 => g[i - 1] = f[i - 1]
      BY <2>2, <2>3, Zenon
    <2>5. Rest(n + 1, g)
      BY <2>4
    <2>6. \E h : Rest(n + 1, h)
      BY <2>5
    <2> QED BY <2>6
  <1>3. Len(ids) \in Nat
    OBVIOUS
  <1>4. Nat \subseteq S
    <2> HIDE DEF S
    <2> QED BY <1>1, <1>2, NumbersOf
  <1>5. Rest(Len(ids), path)
    BY <1>3, <1>4
  <1> HIDE DEF path
  <1>7. IsPath(ids, have, path)
    <2>1. path[0] = none
      BY <1>3, <1>5
    <2>2. ASSUME NEW i \in 1 .. Len(ids)
          PROVE  path[i] = IF ids[i] \in have THEN Append(path[i - 1], ids[i]) ELSE path[i - 1]
      <3>1. i \in 0 .. Len(ids) /\ i # 0
        BY <1>3
      <3> QED BY <1>5, <3>1
    <2> QED BY <2>1, <2>2 DEF IsPath, none
  <1>8. WITNESS path
  <1> QED BY <1>0, <1>7

LEMMA KeptOfNone == \A have : Kept(<<>>, have) = <<>>
  <1> TAKE have
  <1> DEFINE none == <<>>
  <1>1. none \in Seq(Docs) /\ Len(none) = 0
    OBVIOUS
  <1> HIDE DEF none
  <1>2. PICK f : IsPath(none, have, f) /\ Kept(none, have) = f[Len(none)]
    BY <1>1, PathExists
  <1>3. f[0] = <<>>
    BY <1>2 DEF IsPath
  <1> QED BY <1>1, <1>2, <1>3 DEF none

LEMMA KeptAppend ==
    ASSUME NEW ids \in Seq(Docs), NEW d \in Docs, NEW have
    PROVE  Kept(Append(ids, d), have)
             = IF d \in have THEN Append(Kept(ids, have), d) ELSE Kept(ids, have)
  <1> DEFINE more == Append(ids, d)
  <1>0. /\ more \in Seq(Docs) /\ Len(ids) \in Nat /\ Len(more) = Len(ids) + 1
        /\ more[Len(ids) + 1] = d
        /\ \A i \in 1 .. Len(ids) : more[i] = ids[i]
    OBVIOUS
  <1> HIDE DEF more
  <1>1. PICK f : IsPath(ids, have, f) /\ Kept(ids, have) = f[Len(ids)]
    BY PathExists
  <1>2. PICK g : IsPath(more, have, g) /\ Kept(more, have) = g[Len(more)]
    BY <1>0, PathExists
  <1> DEFINE S == {i \in Nat : i <= Len(ids) => g[i] = f[i]}
  <1>3. 0 \in S
    BY <1>1, <1>2 DEF IsPath
  <1>4. ASSUME NEW i \in Nat, i \in S PROVE i + 1 \in S
    <2> SUFFICES ASSUME i + 1 <= Len(ids) PROVE g[i + 1] = f[i + 1]
      OBVIOUS
    <2>1. /\ i + 1 \in 1 .. Len(ids) /\ i + 1 \in 1 .. Len(more)
          /\ (i + 1) - 1 = i /\ i <= Len(ids)
      BY <1>0
    <2>2. g[i] = f[i] /\ more[i + 1] = ids[i + 1]
      BY <1>0, <1>4, <2>1
    <2>3. g[i + 1] = IF more[i + 1] \in have THEN Append(g[i], more[i + 1]) ELSE g[i]
      BY <1>2, <2>1 DEF IsPath
    <2>4. f[i + 1] = IF ids[i + 1] \in have THEN Append(f[i], ids[i + 1]) ELSE f[i]
      BY <1>1, <2>1 DEF IsPath
    <2> QED BY <2>2, <2>3, <2>4
  <1>5. Nat \subseteq S
    <2> HIDE DEF S
    <2> QED BY <1>3, <1>4, NumbersOf
  <1>6. g[Len(ids)] = f[Len(ids)]
    BY <1>0, <1>5
  <1>7. Len(more) \in 1 .. Len(more) /\ Len(more) - 1 = Len(ids)
    BY <1>0
  <1>8. g[Len(more)]
          = IF more[Len(more)] \in have THEN Append(g[Len(ids)], more[Len(more)]) ELSE g[Len(ids)]
    BY <1>2, <1>7 DEF IsPath
  <1> QED BY <1>0, <1>1, <1>2, <1>6, <1>8 DEF more

\* A set of sequences that has the empty one and with each its extensions has all.
LEMMA SequencesOf ==
    ASSUME NEW S, <<>> \in S, \A s \in Seq(Docs), d \in Docs : s \in S => Append(s, d) \in S
    PROVE  Seq(Docs) \subseteq S
  <1> DEFINE T == {n \in Nat : \A s \in Seq(Docs) : Len(s) = n => s \in S}
  <1>1. 0 \in T
    BY EmptySeq
  <1>2. ASSUME NEW n \in Nat, n \in T PROVE n + 1 \in T
    <2> SUFFICES ASSUME NEW s \in Seq(Docs), Len(s) = n + 1 PROVE s \in S
      OBVIOUS
    <2>1. s # <<>>
      BY EmptySeq
    <2>2. PICK r \in Seq(Docs), d \in Docs : s = Append(r, d)
      BY <2>1, SequenceEmptyOrAppend
    <2>3. Len(r) = n
      BY <2>2
    <2> QED BY <1>2, <2>2, <2>3
  <1>3. Nat \subseteq T
    <2> HIDE DEF T
    <2> QED BY <1>1, <1>2, NumbersOf
  <1> QED BY <1>3, LenProperties

\* What is kept is of the sequence and in the set, each member as often as it was.
LEMMA KeptMembers ==
    ASSUME NEW ids \in Seq(Docs), NEW have
    PROVE  /\ Kept(ids, have) \in Seq(Docs)
           /\ \A d : CountIn(Kept(ids, have), {d}) = IF d \in have THEN CountIn(ids, {d}) ELSE 0
  <1> DEFINE Good(s) == /\ Kept(s, have) \in Seq(Docs)
                        /\ \A d : CountIn(Kept(s, have), {d})
                                    = IF d \in have THEN CountIn(s, {d}) ELSE 0
             S == {s \in Seq(Docs) : Good(s)}
  <1>1. <<>> \in S
    <2>1. <<>> \in Seq(Docs)
      OBVIOUS
    <2> QED BY <2>1, KeptOfNone, CountNone
  <1>2. ASSUME NEW s \in Seq(Docs), NEW e \in Docs, s \in S PROVE Append(s, e) \in S
    <2>1. Good(s)
      BY <1>2
    <2>2. Append(s, e) \in Seq(Docs)
      OBVIOUS
    <2>3. CASE e \in have
      <3>1. Kept(Append(s, e), have) = Append(Kept(s, have), e)
        BY <2>3, KeptAppend
      <3>2. Append(Kept(s, have), e) \in Seq(Docs)
        BY <2>1
      <3>3. ASSUME NEW d
            PROVE  CountIn(Append(Kept(s, have), e), {d})
                     = IF d \in have THEN CountIn(Append(s, e), {d}) ELSE 0
        <4>1. CountIn(Append(Kept(s, have), e), {d})
                = CountIn(Kept(s, have), {d}) + IF e \in {d} THEN 1 ELSE 0
          BY <2>1, CountAppend
        <4>2. CountIn(Append(s, e), {d}) = CountIn(s, {d}) + IF e \in {d} THEN 1 ELSE 0
          BY CountAppend
        <4> QED BY <2>1, <2>3, <4>1, <4>2
      <3> QED BY <2>2, <3>1, <3>2, <3>3
    <2>4. CASE e \notin have
      <3>1. Kept(Append(s, e), have) = Kept(s, have)
        BY <2>4, KeptAppend
      <3>2. ASSUME NEW d, d \in have PROVE CountIn(Append(s, e), {d}) = CountIn(s, {d})
        <4>1. CountIn(Append(s, e), {d}) = CountIn(s, {d}) + IF e \in {d} THEN 1 ELSE 0
          BY CountAppend
        <4>2. CountIn(s, {d}) \in Nat
          BY CountNumber
        <4> QED BY <2>4, <3>2, <4>1, <4>2
      <3> QED BY <2>1, <2>2, <3>1, <3>2
    <2> QED BY <2>3, <2>4
  <1>3. Seq(Docs) \subseteq S
    <2> HIDE DEF S
    <2> QED BY <1>1, <1>2, SequencesOf
  <1> QED BY <1>3

\* What is kept of two sequences, one after the other.
LEMMA KeptConcat ==
    ASSUME NEW a \in Seq(Docs), NEW b \in Seq(Docs), NEW have
    PROVE  Kept(a \o b, have) = Kept(a, have) \o Kept(b, have)
  <1> DEFINE S == {s \in Seq(Docs) : Kept(a \o s, have) = Kept(a, have) \o Kept(s, have)}
  <1>0. Kept(a, have) \in Seq(Docs)
    BY KeptMembers
  <1>1. <<>> \in S
    <2>1. <<>> \in Seq(Docs) /\ a \o <<>> = a /\ Kept(a, have) \o <<>> = Kept(a, have)
      BY <1>0, ConcatEmptySeq
    <2> QED BY <2>1, KeptOfNone
  <1>2. ASSUME NEW s \in Seq(Docs), NEW e \in Docs, s \in S PROVE Append(s, e) \in S
    <2>1. Kept(a \o s, have) = Kept(a, have) \o Kept(s, have)
      BY <1>2
    <2>2. a \o s \in Seq(Docs) /\ Append(s, e) \in Seq(Docs) /\ Kept(s, have) \in Seq(Docs)
      BY ConcatProperties, KeptMembers
    <2>3. a \o Append(s, e) = Append(a \o s, e)
      OBVIOUS
    <2>4. Kept(a, have) \o Append(Kept(s, have), e) = Append(Kept(a, have) \o Kept(s, have), e)
      BY <1>0, <2>2
    <2>5. Kept(Append(a \o s, e), have)
            = IF e \in have THEN Append(Kept(a \o s, have), e) ELSE Kept(a \o s, have)
      BY <2>2, KeptAppend
    <2>6. Kept(Append(s, e), have)
            = IF e \in have THEN Append(Kept(s, have), e) ELSE Kept(s, have)
      BY KeptAppend
    <2>7. Kept(a \o Append(s, e), have) = Kept(a, have) \o Kept(Append(s, e), have)
      BY <2>1, <2>3, <2>4, <2>5, <2>6
    <2> QED BY <2>2, <2>7
  <1>3. Seq(Docs) \subseteq S
    <2> HIDE DEF S
    <2> QED BY <1>1, <1>2, SequencesOf
  <1> QED BY <1>3

\* Two sets that agree on the members keep the same of them.
LEMMA KeptSame ==
    ASSUME NEW ids \in Seq(Docs), NEW A, NEW B, \A d \in ToSet(ids) : d \in A <=> d \in B
    PROVE  Kept(ids, A) = Kept(ids, B)
  <1> DEFINE S == {s \in Seq(Docs) :
                      (\A d \in ToSet(s) : d \in A <=> d \in B) => Kept(s, A) = Kept(s, B)}
  <1>1. <<>> \in S
    <2>1. <<>> \in Seq(Docs)
      OBVIOUS
    <2> QED BY <2>1, KeptOfNone
  <1>2. ASSUME NEW s \in Seq(Docs), NEW e \in Docs, s \in S PROVE Append(s, e) \in S
    <2> SUFFICES ASSUME \A d \in ToSet(Append(s, e)) : d \in A <=> d \in B
                 PROVE  Kept(Append(s, e), A) = Kept(Append(s, e), B)
      OBVIOUS
    <2>0. /\ DOMAIN s = 1 .. Len(s) /\ DOMAIN Append(s, e) = 1 .. Len(s) + 1 /\ Len(s) \in Nat
          /\ \A i \in 1 .. Len(s) : Append(s, e)[i] = s[i]
          /\ Append(s, e)[Len(s) + 1] = e
      OBVIOUS
    <2>1. (\A d \in ToSet(s) : d \in A <=> d \in B) /\ (e \in A <=> e \in B)
      <3>1. e \in ToSet(Append(s, e))
        BY <2>0 DEF ToSet
      <3>2. \A d \in ToSet(s) : d \in ToSet(Append(s, e))
        BY <2>0 DEF ToSet
      <3> QED BY <3>1, <3>2
    <2>2. Kept(s, A) = Kept(s, B)
      BY <1>2, <2>1
    <2>3. Kept(Append(s, e), A) = IF e \in A THEN Append(Kept(s, A), e) ELSE Kept(s, A)
      BY KeptAppend
    <2>4. Kept(Append(s, e), B) = IF e \in B THEN Append(Kept(s, B), e) ELSE Kept(s, B)
      BY KeptAppend
    <2> QED BY <2>1, <2>2, <2>3, <2>4
  <1>3. Seq(Docs) \subseteq S
    <2> HIDE DEF S
    <2> QED BY <1>1, <1>2, SequencesOf
  <1> QED BY <1>3

\* Of a sequence with all its members in the set everything is kept, and with
\* none of them nothing.
LEMMA KeptAll ==
    ASSUME NEW ids \in Seq(Docs), NEW have
    PROVE  /\ ToSet(ids) \subseteq have => Kept(ids, have) = ids
           /\ ToSet(ids) \cap have = {} => Kept(ids, have) = <<>>
  <1> DEFINE S == {s \in Seq(Docs) : Kept(s, Docs) = s /\ Kept(s, {}) = <<>>}
  <1>1. <<>> \in S
    <2>1. <<>> \in Seq(Docs)
      OBVIOUS
    <2> QED BY <2>1, KeptOfNone
  <1>2. ASSUME NEW s \in Seq(Docs), NEW e \in Docs, s \in S PROVE Append(s, e) \in S
    <2>1. Append(s, e) \in Seq(Docs) /\ Kept(s, Docs) = s /\ Kept(s, {}) = <<>>
      BY <1>2
    <2> QED BY <2>1, KeptAppend
  <1>3. Seq(Docs) \subseteq S
    <2> HIDE DEF S
    <2> QED BY <1>1, <1>2, SequencesOf
  <1>4. Kept(ids, Docs) = ids /\ Kept(ids, {}) = <<>>
    BY <1>3
  <1>5. \A d \in ToSet(ids) : d \in Docs
    BY DEF ToSet
  <1>6. ASSUME ToSet(ids) \subseteq have PROVE Kept(ids, have) = ids
    <2>1. \A d \in ToSet(ids) : d \in have <=> d \in Docs
      BY <1>5, <1>6
    <2> QED BY <1>4, <2>1, KeptSame
  <1>7. ASSUME ToSet(ids) \cap have = {} PROVE Kept(ids, have) = <<>>
    <2>1. \A d \in ToSet(ids) : d \in have <=> d \in {}
      BY <1>7
    <2>2. Kept(ids, have) = Kept(ids, {})
      BY <2>1, KeptSame
    <2> QED BY <1>4, <2>2
  <1> QED BY <1>6, <1>7

-----------------------------------------------------------------------------
(* Results, runs and insertions. *)

LEMMA DocsAreFinite == IsFiniteSet(Docs) /\ IsFiniteSet(Queries) /\ Cardinality(Docs) \in Nat
  BY QueryAssumption, FS_CardinalityType

\* Results are the injective sequences of documents.
LEMMA ResultsAre ==
    ASSUME NEW ids
    PROVE  ids \in Results <=> ids \in Seq(Docs) /\ IsInjective(ids)
  <1> DEFINE c == Cardinality(Docs)
  <1>1. c \in Nat
    BY DocsAreFinite
  <1>2. ASSUME ids \in Results PROVE ids \in Seq(Docs) /\ IsInjective(ids)
    BY <1>1, <1>2 DEF Results, SeqOf
  <1>3. ASSUME ids \in Seq(Docs), IsInjective(ids) PROVE ids \in Results
    <2> DEFINE n == Len(ids)
    <2>1. n \in Nat /\ ids \in [1 .. n -> Docs]
      BY <1>3, LenProperties
    <2> HIDE DEF n
    <2>2. ids \in Injection(1 .. n, Docs)
      BY <1>3, <2>1 DEF Injection
    <2>3. Cardinality(1 .. n) <= c /\ IsFiniteSet(1 .. n)
      BY <2>2, DocsAreFinite, FS_Injection
    <2>4. Cardinality(1 .. n) = n
      BY <2>1, FS_Interval
    <2>5. n \in 0 .. c
      BY <1>1, <2>1, <2>3, <2>4
    <2>6. ids \in SeqOf(Docs, c)
      BY <2>1, <2>5 DEF SeqOf
    <2> QED BY <1>3, <2>6 DEF Results
  <1> QED BY <1>2, <1>3

LEMMA ResultsShort ==
    ASSUME NEW ids \in Results
    PROVE  Len(ids) \in Nat /\ Len(ids) <= Cardinality(Docs) /\ DOMAIN ids = 1 .. Len(ids)
  <1>1. Cardinality(Docs) \in Nat
    BY DocsAreFinite
  <1>2. PICK m \in 0 .. Cardinality(Docs) : ids \in [1 .. m -> Docs]
    BY DEF Results, SeqOf
  <1>3. Len(ids) = m
    BY <1>1, <1>2
  <1> QED BY <1>1, <1>2, <1>3

\* A part of an injective sequence.
LEMMA PartOfResults ==
    ASSUME NEW ids \in Results, NEW i \in 1 .. Len(ids), NEW j \in i .. Len(ids)
    PROVE  /\ SubSeq(ids, i, j) \in Results /\ Len(SubSeq(ids, i, j)) = j - i + 1
           /\ \A k \in 1 .. j - i + 1 : SubSeq(ids, i, j)[k] = ids[i + k - 1]
           /\ ToSet(SubSeq(ids, i, j)) = {ids[k] : k \in i .. j}
  <1> DEFINE part == SubSeq(ids, i, j)
  <1>0. /\ ids \in Seq(Docs) /\ IsInjective(ids)
        /\ Len(ids) \in Nat /\ DOMAIN ids = 1 .. Len(ids)
    BY ResultsAre, LenProperties
  <1>1. i \in Int /\ j \in Int /\ i <= j /\ \A k \in i .. j : k \in 1 .. Len(ids)
    BY <1>0
  <1>2. \A k \in i .. j : ids[k] \in Docs
    BY <1>0, <1>1, ElementOfSeq
  <1>3. /\ part \in Seq(Docs) /\ Len(part) = j - i + 1
        /\ \A k \in 1 .. j - i + 1 : part[k] = ids[i + k - 1]
    BY <1>1, <1>2, SubSeqProperties
  <1>4. DOMAIN part = 1 .. j - i + 1
    BY <1>3, LenProperties
  <1> HIDE DEF part
  <1>5. IsInjective(part)
    <2> SUFFICES ASSUME NEW a \in DOMAIN part, NEW b \in DOMAIN part, part[a] = part[b]
                 PROVE  a = b
      BY DEF IsInjective
    <2>1. i + a - 1 \in DOMAIN ids /\ i + b - 1 \in DOMAIN ids
      BY <1>0, <1>1, <1>4
    <2>2. ids[i + a - 1] = ids[i + b - 1]
      BY <1>3, <1>4
    <2>3. i + a - 1 = i + b - 1
      BY <1>0, <2>1, <2>2 DEF IsInjective
    <2> QED BY <1>1, <1>4, <2>3
  <1>6. ToSet(part) = {ids[k] : k \in i .. j}
    <2>1. ASSUME NEW k \in i .. j PROVE ids[k] \in ToSet(part)
      <3>1. k - i + 1 \in 1 .. j - i + 1 /\ i + (k - i + 1) - 1 = k
        BY <1>1
      <3>2. part[k - i + 1] = ids[i + (k - i + 1) - 1]
        BY <1>3, <3>1
      <3> QED BY <1>4, <3>1, <3>2 DEF ToSet
    <2>2. ASSUME NEW k \in DOMAIN part PROVE part[k] \in {ids[x] : x \in i .. j}
      <3>1. i + k - 1 \in i .. j
        BY <1>1, <1>4
      <3> QED BY <1>3, <1>4, <3>1
    <2> QED BY <2>1, <2>2 DEF ToSet
  <1>7. part \in Results
    BY <1>3, <1>5, ResultsAre
  <1> QED BY <1>3, <1>6, <1>7 DEF part

\* The first of some runs.
LEMMA FirstIs ==
    ASSUME NEW todo \in SUBSET Runs, todo # {}
    PROVE  First(todo) \in todo /\ \A r \in todo : First(todo).index <= r.index
  <1> DEFINE T == {r.index : r \in todo}
  <1>1. \A r \in todo : r.index \in Nat
    BY DocsAreFinite DEF Runs
  <1>2. T \subseteq Nat /\ \E k : k \in T
    BY <1>1
  <1>3. PICK n \in T : \A m \in T : ~ (<<m, n>> \in OpToRel(<, Nat))
    <2> HIDE DEF T
    <2> QED BY <1>2, WFMin, NatLessThanWellFounded
  <1>4. PICK r \in todo : r.index = n
    BY <1>3
  <1>5. ASSUME NEW o \in todo PROVE r.index <= o.index
    <2>1. o.index \in T /\ o.index \in Nat /\ n \in Nat
      BY <1>1, <1>4
    <2>2. ~ (o.index < n)
      BY <1>3, <2>1 DEF OpToRel
    <2> QED BY <1>4, <2>1, <2>2
  <1>6. \E x \in todo : \A o \in todo : x.index <= o.index
    BY <1>5
  <1> QED BY <1>6 DEF First

\* The greatest of some numbers.
LEMMA MaxIs ==
    ASSUME NEW n \in Nat, NEW S \in SUBSET (1 .. n), S # {}
    PROVE  Max(S) \in S /\ \A y \in S : Max(S) >= y
  <1> DEFINE T == {n - x : x \in S}
  <1>0. \A x \in S : n - x \in Nat
    OBVIOUS
  <1>1. T \subseteq Nat /\ \E k : k \in T
    <2>1. PICK x \in S : TRUE
      OBVIOUS
    <2>2. n - x \in T
      OBVIOUS
    <2> QED BY <1>0, <2>2
  <1>2. PICK m \in T : \A k \in T : ~ (<<k, m>> \in OpToRel(<, Nat))
    <2> HIDE DEF T
    <2> QED BY <1>1, WFMin, NatLessThanWellFounded
  <1>3. PICK x \in S : m = n - x
    BY <1>2
  <1>4. ASSUME NEW y \in S PROVE x >= y
    <2>1. n - y \in T /\ n - y \in Nat /\ m \in Nat
      BY <1>1, <1>2
    <2>2. ~ (n - y < m)
      BY <1>2, <2>1 DEF OpToRel
    <2> QED BY <1>3, <2>1, <2>2
  <1>5. \E z \in S : \A y \in S : z >= y
    BY <1>4
  <1> QED BY <1>5 DEF Max

\* The documents of runs that are to be inserted.
Waited(todo) == UNION {ToSet(r.ids) : r \in todo}

\* The runs are where they belong in the results, apart from one another.
InPlace(ids, todo) ==
    /\ \A r \in todo :
          /\ Len(r.ids) >= 1 /\ r.index + Len(r.ids) <= Len(ids) + 1
          /\ r.ids = SubSeq(ids, r.index, r.index + Len(r.ids) - 1)
    /\ \A r, o \in todo :
          r # o => r.index + Len(r.ids) <= o.index \/ o.index + Len(o.ids) <= r.index

\* The insertions are runs in their places, and they have what docs has not.
LEMMA InsertionsAre ==
    ASSUME NEW have \in Seq(Docs), NEW ids \in Results
    PROVE  /\ Insertions(have, ids) \subseteq Runs
           /\ InPlace(ids, Insertions(have, ids))
           /\ \A d \in ToSet(ids) : d \in Waited(Insertions(have, ids)) <=> d \notin ToSet(have)
  <1> DEFINE New(i) == ids[i] \notin ToSet(have)
             firsts == {i \in DOMAIN ids : New(i) /\ (i = 1 \/ ~ New(i - 1))}
             Ends(i) == {j \in DOMAIN ids : \A k \in i .. j : New(k)}
             End(i) == Max(Ends(i))
             Part(i) == SubSeq(ids, i, End(i))
             Run(i) == [index |-> i, ids |-> Part(i)]
             todo == Insertions(have, ids)
             n == Len(ids)
  <1>0. n \in Nat /\ n <= Cardinality(Docs) /\ DOMAIN ids = 1 .. n
    BY ResultsShort
  <1>1. todo = {Run(i) : i \in firsts}
    BY Zenon DEF Insertions
  <1>2. ASSUME NEW i \in firsts
        PROVE  /\ i \in 1 .. n /\ End(i) \in i .. n /\ New(i)
               /\ \A k \in i .. End(i) : New(k)
               /\ \A j \in Ends(i) : j <= End(i)
    <2>1. i \in 1 .. n /\ New(i)
      BY <1>0
    <2>2. i \in Ends(i)
      BY <1>0, <2>1
    <2>3. Ends(i) \in SUBSET (1 .. n) /\ Ends(i) # {}
      BY <1>0, <2>2
    <2> HIDE DEF New
    <2>4. End(i) \in Ends(i) /\ \A y \in Ends(i) : End(i) >= y
      <3> DEFINE E == Ends(i)
      <3>1. E \in SUBSET (1 .. n) /\ E # {}
        BY <2>3
      <3> HIDE DEF E
      <3>2. Max(E) \in E /\ \A y \in E : Max(E) >= y
        BY <1>0, <3>1, MaxIs
      <3> QED BY <3>2 DEF E
    <2>5. End(i) \in 1 .. n /\ End(i) >= i /\ \A k \in i .. End(i) : New(k)
      BY <1>0, <2>2, <2>4
    <2>6. \A j \in Ends(i) : j <= End(i)
      <3> SUFFICES ASSUME NEW j \in Ends(i) PROVE j <= End(i)
        OBVIOUS
      <3>1. j \in 1 .. n /\ End(i) >= j
        BY <1>0, <2>4
      <3> HIDE DEF End, Ends
      <3> QED BY <1>0, <2>5, <3>1
    <2> HIDE DEF End
    <2> QED BY <1>0, <2>1, <2>5, <2>6
  <1>3. ASSUME NEW i \in firsts
        PROVE  /\ Part(i) \in Results /\ Len(Part(i)) = End(i) - i + 1
               /\ ToSet(Part(i)) = {ids[k] : k \in i .. End(i)}
    <2>1. i \in 1 .. Len(ids) /\ End(i) \in i .. Len(ids)
      BY <1>2
    <2> HIDE DEF End, firsts, New
    <2> QED BY <2>1, PartOfResults
  <1> HIDE DEF Ends, End, Part, New, todo
  <1>4. ASSUME NEW i \in firsts, NEW j \in firsts, i < j PROVE End(i) < j
    <2> SUFFICES ASSUME End(i) >= j PROVE FALSE
      BY <1>0, <1>2
    <2>1. i \in Nat /\ j \in Nat /\ i >= 1 /\ End(i) \in Nat
      BY <1>0, <1>2
    <2>2. j - 1 \in i .. End(i) /\ j # 1
      <3> HIDE DEF firsts
      <3> QED BY <1>4, <2>1
    <2>3. New(j - 1)
      BY <1>2, <2>2
    <2>4. j = 1 \/ ~ New(j - 1)
      OBVIOUS
    <2> QED BY <2>2, <2>3, <2>4
  <1>5. todo \subseteq Runs
    <2> SUFFICES ASSUME NEW i \in firsts PROVE Run(i) \in Runs
      BY <1>1
    <2>1. i \in 1 .. Cardinality(Docs)
      BY <1>0, <1>2, DocsAreFinite
    <2> QED BY <1>3, <2>1 DEF Runs
  <1>6. InPlace(ids, todo)
    <2>1. ASSUME NEW i \in firsts
          PROVE  /\ Len(Part(i)) >= 1 /\ i + Len(Part(i)) <= n + 1
                 /\ Part(i) = SubSeq(ids, i, i + Len(Part(i)) - 1)
      <3>1. i \in Nat /\ End(i) \in Nat /\ Len(Part(i)) = End(i) - i + 1 /\ i <= End(i) /\ End(i) <= n
        BY <1>0, <1>2, <1>3
      <3>2. i + Len(Part(i)) - 1 = End(i)
        BY <3>1
      <3> QED BY <1>0, <3>1, <3>2 DEF Part
    <2>2. ASSUME NEW i \in firsts, NEW j \in firsts, i # j
          PROVE  i + Len(Part(i)) <= j \/ j + Len(Part(j)) <= i
      <3>1. /\ i \in Nat /\ End(i) \in Nat /\ Len(Part(i)) = End(i) - i + 1
            /\ j \in Nat /\ End(j) \in Nat /\ Len(Part(j)) = End(j) - j + 1
        BY <1>0, <1>2, <1>3
      <3>2. i < j => End(i) < j
        BY <1>4
      <3>3. j < i => End(j) < i
        BY <1>4
      <3> HIDE DEF firsts
      <3> QED BY <2>2, <3>1, <3>2, <3>3
    <2> HIDE DEF firsts
    <2> QED BY <1>1, <2>1, <2>2 DEF InPlace
  <1>7. ASSUME NEW d \in ToSet(ids), d \notin ToSet(have) PROVE d \in Waited(todo)
    <2>1. PICK j \in 1 .. n : d = ids[j]
      BY <1>0 DEF ToSet
    <2> DEFINE T == {i \in 1 .. j : \A k \in i .. j : New(k)}
    <2>2. j \in T
      BY <1>0, <1>7, <2>1 DEF New
    <2>3. T \subseteq Nat
      BY <1>0
    <2>4. PICK i \in T : \A m \in T : ~ (<<m, i>> \in OpToRel(<, Nat))
      <3> HIDE DEF T
      <3> QED BY <2>2, <2>3, WFMin, NatLessThanWellFounded
    <2>5. i \in 1 .. j /\ j \in 1 .. n /\ \A k \in i .. j : New(k)
      BY <2>4
    <2>6. i \in firsts
      <3>1. i \in DOMAIN ids /\ New(i)
        BY <1>0, <2>5
      <3>2. ASSUME i # 1, New(i - 1) PROVE FALSE
        <4>1. i - 1 \in 1 .. j /\ i - 1 \in Nat /\ i - 1 < i /\ i \in Nat
          BY <2>5, <3>2
        <4>2. \A k \in i - 1 .. j : k = i - 1 \/ k \in i .. j
          BY <1>0, <2>5
        <4>3. i - 1 \in T
          BY <2>5, <3>2, <4>1, <4>2
        <4> QED BY <2>4, <4>1, <4>3 DEF OpToRel
      <3> QED BY <3>1, <3>2
    <2>7. j \in Ends(i)
      BY <1>0, <2>5 DEF Ends
    <2>8. j \in i .. End(i)
      BY <1>0, <1>2, <2>5, <2>6, <2>7
    <2>9. d \in ToSet(Part(i))
      BY <1>3, <2>1, <2>6, <2>8
    <2>10. Run(i) \in todo
      BY <1>1, <2>6
    <2> QED BY <2>9, <2>10 DEF Waited
  <1>8. ASSUME NEW d \in ToSet(ids), d \in Waited(todo) PROVE d \notin ToSet(have)
    <2>1. PICK r \in todo : d \in ToSet(r.ids)
      BY <1>8 DEF Waited
    <2>2. PICK i \in firsts : r = Run(i)
      BY <1>1
    <2>3. d \in ToSet(Part(i))
      BY <2>1, <2>2
    <2>4. PICK k \in i .. End(i) : d = ids[k]
      BY <1>3, <2>2, <2>3
    <2>5. New(k)
      BY <1>2, <2>2, <2>4
    <2> QED BY <2>4, <2>5 DEF New
  <1> QED BY <1>5, <1>6, <1>7, <1>8 DEF todo

-----------------------------------------------------------------------------
(* One query, taken apart: what the parts of onChange do to it. *)

Whole(s) ==
    /\ s = [docs |-> s.docs, mapped |-> s.mapped, heard |-> s.heard, count |-> s.count]
    /\ s.docs \in Seq(Docs) /\ s.mapped \subseteq Docs
    /\ s.heard \in [Docs -> Nat] /\ s.count \in [Docs -> Int]
    /\ \A d \in s.mapped : s.heard[d] >= 1

LEMMA OccurrencesAre ==
    \A s, d : Occurrences(s, d) = CountIn(s, {d})
  BY DEF Occurrences, CountIn, PlacesOf

\* Each document that is removed takes its place out of the count, and at most
\* one subscription.
LEMMA RemoveAndMoveDoes ==
    ASSUME NEW s, Whole(s), NEW ids \in Results
    PROVE  LET t == RemoveAndMove(s, ids)
           IN /\ Whole(t) /\ t.docs = Kept(ids, ToSet(s.docs))
              /\ \A d \in Docs :
                    /\ t.count[d] = s.count[d] + CountIn(t.docs, {d}) - CountIn(s.docs, {d})
                    /\ t.heard[d] + CountIn(s.docs, {d}) >= s.heard[d] + CountIn(t.docs, {d})
  <1> DEFINE kept == Kept(ids, ToSet(s.docs))
             gone == [d \in Docs |-> Occurrences(s.docs, d) - Occurrences(kept, d)]
             out == {d \in Docs : gone[d] > 0}
             less == [d \in Docs |-> s.heard[d] - IF d \in out \cap s.mapped THEN 1 ELSE 0]
             left == [d \in Docs |-> s.count[d] - gone[d]]
             t == [docs |-> kept, mapped |-> s.mapped \ out, heard |-> less, count |-> left]
  <1>1. RemoveAndMove(s, ids) = t
    BY DEF RemoveAndMove
  <1>2. ids \in Seq(Docs) /\ IsInjective(ids)
    BY ResultsAre
  <1>3. kept \in Seq(Docs)
    BY <1>2, KeptMembers
  <1>4. ASSUME NEW d \in Docs
        PROVE  /\ gone[d] = CountIn(s.docs, {d}) - CountIn(kept, {d})
               /\ CountIn(s.docs, {d}) \in Nat /\ CountIn(kept, {d}) \in Nat
               /\ gone[d] \in Nat
    <2>1. CountIn(s.docs, {d}) \in Nat /\ CountIn(kept, {d}) \in Nat
      BY <1>3, CountNumber DEF Whole
    <2>2. CountIn(kept, {d}) = IF d \in ToSet(s.docs) THEN CountIn(ids, {d}) ELSE 0
      BY <1>2, KeptMembers
    <2>3. CountIn(ids, {d}) = IF d \in ToSet(ids) THEN 1 ELSE 0
      BY <1>2, CountInjective
    <2>4. d \in ToSet(s.docs) <=> CountIn(s.docs, {d}) >= 1
      BY CountHeld DEF Whole
    <2>5. gone[d] = CountIn(s.docs, {d}) - CountIn(kept, {d})
      BY OccurrencesAre
    <2> QED BY <2>1, <2>2, <2>3, <2>4, <2>5
  <1> HIDE DEF kept, gone
  <1>5. ASSUME NEW d \in Docs
        PROVE  /\ less[d] \in Nat /\ left[d] \in Int
               /\ left[d] = s.count[d] + CountIn(kept, {d}) - CountIn(s.docs, {d})
               /\ less[d] + CountIn(s.docs, {d}) >= s.heard[d] + CountIn(kept, {d})
    <2>1. s.heard[d] \in Nat /\ s.count[d] \in Int /\ (d \in s.mapped => s.heard[d] >= 1)
      BY DEF Whole
    <2>2. CASE d \in out /\ d \in s.mapped
      <3>0. gone[d] > 0 /\ gone[d] \in Nat
        BY <1>4, <2>2
      <3>1. less[d] = s.heard[d] - 1 /\ gone[d] >= 1
        BY <2>2, <3>0
      <3> QED BY <1>4, <2>1, <2>2, <3>1
    <2>3. CASE ~ (d \in out /\ d \in s.mapped)
      <3>1. less[d] = s.heard[d]
        BY <2>1, <2>3
      <3> QED BY <1>4, <2>1, <3>1
    <2> QED BY <2>2, <2>3
  <1>6. \A d \in s.mapped \ out : d \in Docs /\ less[d] = s.heard[d] /\ s.heard[d] >= 1
    BY DEF Whole
  <1>7. Whole(t)
    <2>1. less \in [Docs -> Nat] /\ left \in [Docs -> Int]
      BY <1>5
    <2>2. s.mapped \ out \subseteq Docs
      BY DEF Whole
    <2> HIDE DEF less, left, out
    <2> QED BY <1>3, <1>6, <2>1, <2>2 DEF Whole
  <1>8. t.docs = kept /\ t.count = left /\ t.heard = less
    OBVIOUS
  <1>9. \A d \in Docs :
            /\ t.count[d] = s.count[d] + CountIn(t.docs, {d}) - CountIn(s.docs, {d})
            /\ t.heard[d] + CountIn(s.docs, {d}) >= s.heard[d] + CountIn(t.docs, {d})
    BY <1>5, <1>8
  <1> HIDE DEF t
  <1> QED BY <1>1, <1>7, <1>8, <1>9 DEF kept

\* Does a call that has todo left wait for d?
AwaitedIn(todo, d) == IF todo # {} /\ d \in ToSet(First(todo).ids) THEN 1 ELSE 0

Continued(s, todo) == IF todo = {} THEN s ELSE BeginInsert(s, First(todo))

\* A run that is begun is counted and heard once for each of its documents.
LEMMA ContinuedDoes ==
    ASSUME NEW s, Whole(s), NEW todo \in SUBSET Runs
    PROVE  LET t == Continued(s, todo)
           IN /\ Whole(t) /\ t.docs = s.docs
              /\ \A d \in Docs : /\ t.count[d] = s.count[d] + AwaitedIn(todo, d)
                                 /\ t.heard[d] = s.heard[d] + AwaitedIn(todo, d)
  <1>1. CASE todo = {}
    <2>1. Continued(s, todo) = s /\ \A d : AwaitedIn(todo, d) = 0
      BY <1>1 DEF Continued, AwaitedIn
    <2>2. \A d \in Docs : s.count[d] \in Int /\ s.heard[d] \in Nat
      BY DEF Whole
    <2> QED BY <2>1, <2>2
  <1>2. CASE todo # {}
    <2> DEFINE run == First(todo)
               more == [d \in Docs |-> s.heard[d] + Occurrences(run.ids, d)]
               sum == [d \in Docs |-> s.count[d] + Occurrences(run.ids, d)]
               t == [docs |-> s.docs, mapped |-> s.mapped \cup ToSet(run.ids),
                     heard |-> more, count |-> sum]
    <2>1. run \in Runs
      BY <1>2, FirstIs
    <2>2. run.ids \in Seq(Docs) /\ IsInjective(run.ids)
      BY <2>1, ResultsAre DEF Runs
    <2>3. ToSet(run.ids) \subseteq Docs
      BY <2>2 DEF ToSet
    <2>4. \A d : Occurrences(run.ids, d) = AwaitedIn(todo, d)
      BY <1>2, <2>2, CountInjective, OccurrencesAre DEF AwaitedIn
    <2>5. Continued(s, todo) = t
      BY <1>2 DEF Continued, BeginInsert, Whole
    <2>6. \A d \in Docs : AwaitedIn(todo, d) \in Nat /\ s.heard[d] \in Nat /\ s.count[d] \in Int
      BY DEF AwaitedIn, Whole
    <2> HIDE DEF run
    <2>7. more \in [Docs -> Nat] /\ sum \in [Docs -> Int]
      BY <2>4, <2>6
    <2>8. \A d \in Docs : more[d] = s.heard[d] + AwaitedIn(todo, d)
      BY <2>4
    <2>9. \A d \in Docs : sum[d] = s.count[d] + AwaitedIn(todo, d)
      BY <2>4
    <2>10. \A d \in s.mapped \cup ToSet(run.ids) : more[d] >= 1
      <3> TAKE d \in s.mapped \cup ToSet(run.ids)
      <3>1. d \in Docs
        BY <2>3 DEF Whole
      <3>2. CASE d \in s.mapped
        BY <2>6, <2>8, <3>1, <3>2 DEF Whole
      <3>3. CASE d \in ToSet(run.ids)
        <4>1. AwaitedIn(todo, d) = 1
          BY <1>2, <3>3 DEF AwaitedIn, run
        <4> QED BY <2>6, <2>8, <3>1, <4>1
      <3> QED BY <3>2, <3>3
    <2>11. s.mapped \cup ToSet(run.ids) \subseteq Docs /\ s.docs \in Seq(Docs)
      BY <2>3 DEF Whole
    <2> HIDE DEF more, sum
    <2>12. Whole(t)
      BY <2>7, <2>10, <2>11 DEF Whole
    <2>13. t.docs = s.docs /\ t.count = sum /\ t.heard = more
      OBVIOUS
    <2> HIDE DEF t
    <2> QED BY <2>5, <2>8, <2>9, <2>12, <2>13
  <1> QED BY <1>1, <1>2

\* What is spliced in is there once more, wherever.
LEMMA SpliceDoes ==
    ASSUME NEW s \in Seq(Docs), NEW run \in Runs
    PROVE  /\ Splice(s, run) \in Seq(Docs)
           /\ \A d : CountIn(Splice(s, run), {d})
                       = CountIn(s, {d}) + IF d \in ToSet(run.ids) THEN 1 ELSE 0
  <1> DEFINE k == IF run.index > Len(s) + 1 THEN Len(s) ELSE run.index - 1
             a == SubSeq(s, 1, k)
             b == SubSeq(s, k + 1, Len(s))
             ids == run.ids
  <1>1. run.index \in Nat \ {0} /\ ids \in Results
    BY DocsAreFinite DEF Runs
  <1>2. ids \in Seq(Docs) /\ IsInjective(ids)
    BY <1>1, ResultsAre
  <1>3. k \in 0 .. Len(s)
    <2>1. Len(s) \in Nat
      BY LenProperties
    <2> QED BY <1>1, <2>1
  <1>4. Splice(s, run) = (a \o ids) \o b
    BY DEF Splice
  <1> HIDE DEF k
  <1>5. /\ a \in Seq(Docs) /\ b \in Seq(Docs)
        /\ \A A : CountIn(s, A) = CountIn(a, A) + CountIn(b, A)
    BY <1>3, CountParts
  <1> HIDE DEF a, b, ids
  <1>6. a \o ids \in Seq(Docs) /\ (a \o ids) \o b \in Seq(Docs)
    BY <1>2, <1>5, ConcatProperties
  <1>7. ASSUME NEW d
        PROVE  CountIn((a \o ids) \o b, {d}) = CountIn(s, {d}) + IF d \in ToSet(ids) THEN 1 ELSE 0
    <2>1. CountIn((a \o ids) \o b, {d}) = CountIn(a \o ids, {d}) + CountIn(b, {d})
      <3> DEFINE ab == a \o ids
      <3>1. ab \in Seq(Docs)
        BY <1>6
      <3> HIDE DEF ab
      <3>2. CountIn(ab \o b, {d}) = CountIn(ab, {d}) + CountIn(b, {d})
        BY <1>5, <3>1, CountConcat
      <3> QED BY <3>2 DEF ab
    <2>2. CountIn(a \o ids, {d}) = CountIn(a, {d}) + CountIn(ids, {d})
      BY <1>2, <1>5, CountConcat
    <2>3. CountIn(ids, {d}) = IF d \in ToSet(ids) THEN 1 ELSE 0
      BY <1>2, CountInjective
    <2>4. CountIn(a, {d}) \in Nat /\ CountIn(b, {d}) \in Nat
      BY <1>5, CountNumber
    <2>5. CountIn(s, {d}) = CountIn(a, {d}) + CountIn(b, {d})
      BY <1>5
    <2> QED BY <2>1, <2>2, <2>3, <2>4, <2>5
  <1> QED BY <1>4, <1>6, <1>7 DEF ids

-----------------------------------------------------------------------------
(* The invariant. *)

\* The calls that wait for d.
WaitFor(d) == {c \in Calls : c.step = "insert" /\ d \in ToSet(First(c.todo).ids)}

\* A call has runs to insert exactly when its query has been answered.
Shaped == \A q \in Queries : \A i \in DOMAIN calls[q] :
              calls[q][i].step = "query" <=> calls[q][i].todo = {}

\* An entry of docSubscriptions hears its document.
MappedHears == \A q \in Queries : \A d \in mapped[q] : heard[q][d] >= 1

Typed == TypeOK /\ Shaped /\ MappedHears

\* How often query q has document d, or waits for it.
Has(q, d) == CountIn(docs[q], {d}) + CountIn(calls[q], WaitFor(d))

\* It hears the document at least as often.
Hears == \A q \in Queries : ~ disposed[q] => \A d \in Docs : heard[q][d] >= Has(q, d)

\* A query that was disposed of in good order is over.
Quiet == \A q \in Queries :
            disposed[q] => stage[q] = "subscribed" /\ (q \notin torn => calls[q] = <<>>)

\* The places of d in the queries that are alive, in docs and in calls.
Living == {q \in Queries : ~ disposed[q]}
InDocs(d) == [q \in Queries |-> PlacesOf(docs[q], {d})]
InCalls(d) == [q \in Queries |-> PlacesOf(calls[q], WaitFor(d))]
Pairs(P, L) == UNION {{q} \X P[q] : q \in L}

Counted ==
    torn = {} => \A d \in Docs :
        count[d] = Cardinality(Pairs(InDocs(d), Living)) + Cardinality(Pairs(InCalls(d), Living))

\* With one call at work at most, the documents that are still to be inserted
\* are missing from the results of that call, and nothing else.
Shows(q) ==
    alone[q] =>
        \/ Inserting(q) = {} /\ docs[q] = last[q]
        \/ \E i \in DOMAIN calls[q] :
              /\ Inserting(q) = {i}
              /\ InPlace(last[q], calls[q][i].todo)
              /\ docs[q] = Kept(last[q], Docs \ Waited(calls[q][i].todo))

IInv == Typed /\ Hears /\ Quiet /\ Counted /\ \A q \in Queries : Shows(q)

-----------------------------------------------------------------------------
(* Steps of a query. *)

Kinds == {"subscribe", "local", "ready", "remote"}

LEMMA OfIsWhole == ASSUME Typed, NEW q \in Queries PROVE Whole(Of(q))
  <1>1. /\ docs[q] \in Seq(Docs) /\ mapped[q] \subseteq Docs /\ count \in [Docs -> Int]
        /\ heard[q] \in [Docs -> Nat] /\ \A d \in mapped[q] : heard[q][d] >= 1
    BY DEF Typed, TypeOK, MappedHears
  <1> QED BY <1>1 DEF Whole, Of

\* The query is changed, the others are not.
LEMMA BecomesDoes ==
    ASSUME Typed, NEW q \in Queries, NEW s, Whole(s), Becomes(q, s)
    PROVE  /\ docs' \in [Queries -> Seq(Docs)] /\ mapped' \in [Queries -> SUBSET Docs]
           /\ heard' \in [Queries -> [Docs -> Nat]] /\ count' \in [Docs -> Int]
           /\ MappedHears'
           /\ docs'[q] = s.docs /\ mapped'[q] = s.mapped /\ heard'[q] = s.heard /\ count' = s.count
           /\ \A p \in Queries \ {q} :
                 docs'[p] = docs[p] /\ mapped'[p] = mapped[p] /\ heard'[p] = heard[p]
  <1>1. /\ docs \in [Queries -> Seq(Docs)] /\ mapped \in [Queries -> SUBSET Docs]
        /\ heard \in [Queries -> [Docs -> Nat]]
    BY DEF Typed, TypeOK
  <1>2. /\ s.docs \in Seq(Docs) /\ s.mapped \in SUBSET Docs /\ s.heard \in [Docs -> Nat]
        /\ s.count \in [Docs -> Int] /\ \A d \in s.mapped : s.heard[d] >= 1
    BY DEF Whole
  <1>3. /\ docs' = [docs EXCEPT ![q] = s.docs] /\ mapped' = [mapped EXCEPT ![q] = s.mapped]
        /\ heard' = [heard EXCEPT ![q] = s.heard] /\ count' = s.count
    BY DEF Becomes
  <1>4. /\ docs' \in [Queries -> Seq(Docs)] /\ mapped' \in [Queries -> SUBSET Docs]
        /\ heard' \in [Queries -> [Docs -> Nat]] /\ count' \in [Docs -> Int]
    BY <1>1, <1>2, <1>3
  <1>5. docs'[q] = s.docs /\ mapped'[q] = s.mapped /\ heard'[q] = s.heard
    BY <1>1, <1>3
  <1>6. \A p \in Queries \ {q} :
            docs'[p] = docs[p] /\ mapped'[p] = mapped[p] /\ heard'[p] = heard[p]
    BY <1>1, <1>3
  <1>7. MappedHears'
    <2> SUFFICES ASSUME NEW p \in Queries, NEW d \in mapped'[p] PROVE heard'[p][d] >= 1
      BY DEF MappedHears
    <2>1. CASE p = q
      BY <1>2, <1>5, <2>1
    <2>2. CASE p # q
      BY <1>6, <2>2 DEF Typed, MappedHears
    <2> QED BY <2>1, <2>2
  <1> QED BY <1>3, <1>4, <1>5, <1>6, <1>7

\* The calls whose form is wrong: there are none.
Misshaped == {c \in Calls : ~ (c.step = "query" <=> c.todo = {})}

LEMMA ShapedCalls ==
    ASSUME NEW s \in Seq(Calls)
    PROVE  CountIn(s, Misshaped) = 0
             <=> \A i \in DOMAIN s : s[i].step = "query" <=> s[i].todo = {}
  <1>1. CountIn(s, Misshaped) = 0 <=> \A i \in DOMAIN s : s[i] \notin Misshaped
    BY CountNumber
  <1>2. \A i \in DOMAIN s : s[i] \in Calls
    BY LenProperties, ElementOfSeq
  <1> QED BY <1>1, <1>2 DEF Misshaped

\* A call goes on with what it has left, or ends.
LEMMA ProceedDoes ==
    ASSUME Typed, NEW q \in Queries, NEW i \in 1 .. Len(calls[q]) + 1, NEW kind \in Kinds,
           NEW todo \in SUBSET Runs, Proceed(q, i, kind, todo)
    PROVE  /\ calls' \in [Queries -> Seq(Calls)] /\ Shaped'
           /\ \A p \in Queries \ {q} : calls'[p] = calls[p]
           /\ \A d : CountIn(calls'[q], WaitFor(d))
                       = CountIn(calls[q], WaitFor(d)) + AwaitedIn(todo, d)
                           - IF i \in DOMAIN calls[q] /\ calls[q][i] \in WaitFor(d) THEN 1 ELSE 0
           /\ stage' \in [Queries -> {"new", "local", "subscribed"}]
           /\ \A p \in Queries : stage'[p] # stage[p] => stage'[p] = "subscribed"
  <1> DEFINE s == calls[q]
             call == [kind |-> kind, step |-> "insert", todo |-> todo]
             next == calls'[q]
  <1>1. calls \in [Queries -> Seq(Calls)] /\ stage \in [Queries -> {"new", "local", "subscribed"}]
    BY DEF Typed, TypeOK
  <1>2. s \in Seq(Calls) /\ DOMAIN s = 1 .. Len(s) /\ Len(s) \in Nat
    BY <1>1, LenProperties
  <1>3. call \in Calls
    BY DEF Calls, Kinds
  <1>4. CountIn(s, Misshaped) = 0
    BY <1>2, ShapedCalls DEF Typed, Shaped
  <1>5. /\ next = IF todo = {} THEN (IF i \in DOMAIN s THEN RemoveAt(s, i) ELSE s)
                  ELSE IF i \in DOMAIN s THEN ReplaceAt(s, i, call) ELSE Append(s, call)
        /\ calls' = [calls EXCEPT ![q] = next]
    BY <1>1 DEF Proceed
  <1>6. \A d : call \in WaitFor(d) <=> d \in ToSet(First(todo).ids)
    BY <1>3 DEF WaitFor
  <1>7. todo # {} => call \notin Misshaped
    BY DEF Misshaped
  <1> HIDE DEF s, call
  <1>8. /\ next \in Seq(Calls)
        /\ \A A : CountIn(next, A) = CountIn(s, A)
                    + (IF todo # {} /\ call \in A THEN 1 ELSE 0)
                    - IF i \in DOMAIN s /\ s[i] \in A THEN 1 ELSE 0
    <2>0. \A A : CountIn(s, A) \in Nat
      BY <1>2, CountNumber
    <2>1. CASE todo = {} /\ i \in DOMAIN s
      <3>1. next = RemoveAt(s, i)
        BY <1>5, <2>1
      <3> HIDE DEF next
      <3>2. next \in Seq(Calls) /\ \A A : CountIn(next, A) = CountIn(s, A) - IF s[i] \in A THEN 1 ELSE 0
        BY <1>2, <2>1, <3>1, CountRemoveAt
      <3> QED BY <2>0, <2>1, <3>2
    <2>2. CASE todo = {} /\ i \notin DOMAIN s
      <3>1. next = s
        BY <1>5, <2>2
      <3> HIDE DEF next
      <3> QED BY <1>2, <2>0, <2>2, <3>1
    <2>3. CASE todo # {} /\ i \in DOMAIN s
      <3>1. next = ReplaceAt(s, i, call)
        BY <1>5, <2>3
      <3> HIDE DEF next
      <3>2. next \in Seq(Calls)
            /\ \A A : CountIn(next, A) = CountIn(s, A) - (IF s[i] \in A THEN 1 ELSE 0)
                                           + IF call \in A THEN 1 ELSE 0
        BY <1>2, <1>3, <2>3, <3>1, CountReplaceAt
      <3> QED BY <2>0, <2>3, <3>2
    <2>4. CASE todo # {} /\ i \notin DOMAIN s
      <3>1. next = Append(s, call)
        BY <1>5, <2>4
      <3> HIDE DEF next
      <3>2. next \in Seq(Calls)
            /\ \A A : CountIn(next, A) = CountIn(s, A) + IF call \in A THEN 1 ELSE 0
        BY <1>2, <1>3, <3>1, AppendProperties, CountAppend
      <3> QED BY <2>0, <2>4, <3>2
    <2> QED BY <2>1, <2>2, <2>3, <2>4
  <1>9. calls' \in [Queries -> Seq(Calls)] /\ \A p \in Queries \ {q} : calls'[p] = calls[p]
    <2> HIDE DEF next
    <2>1. next \in Seq(Calls) /\ calls' = [calls EXCEPT ![q] = next]
      BY <1>5, <1>8
    <2> QED BY <1>1, <2>1
  <1>10. Shaped'
    <2>1. CountIn(next, Misshaped) \in Nat
      BY <1>8, CountNumber
    <2>2. CountIn(next, Misshaped) = 0
      <3> HIDE DEF next
      <3>1. CountIn(next, Misshaped) = CountIn(s, Misshaped)
              + (IF todo # {} /\ call \in Misshaped THEN 1 ELSE 0)
              - IF i \in DOMAIN s /\ s[i] \in Misshaped THEN 1 ELSE 0
        BY <1>8
      <3> QED BY <1>4, <1>7, <2>1, <3>1
    <2>3. \A k \in DOMAIN next : next[k].step = "query" <=> next[k].todo = {}
      <3> HIDE DEF next
      <3> QED BY <1>8, <2>2, ShapedCalls
    <2> QED BY <1>9, <2>3 DEF Typed, Shaped
  <1>11. ASSUME NEW d
         PROVE  CountIn(next, WaitFor(d)) = CountIn(s, WaitFor(d)) + AwaitedIn(todo, d)
                  - IF i \in DOMAIN s /\ s[i] \in WaitFor(d) THEN 1 ELSE 0
    <2>1. AwaitedIn(todo, d) = IF todo # {} /\ call \in WaitFor(d) THEN 1 ELSE 0
      BY <1>6 DEF AwaitedIn
    <2> HIDE DEF next
    <2> QED BY <1>8, <2>1
  <1>12. /\ stage' \in [Queries -> {"new", "local", "subscribed"}]
         /\ \A p \in Queries : stage'[p] # stage[p] => stage'[p] = "subscribed"
    <2>1. stage' = stage \/ stage' = [stage EXCEPT ![q] = "subscribed"]
      BY DEF Proceed
    <2> QED BY <1>1, <2>1
  <1> QED BY <1>9, <1>10, <1>11, <1>12 DEF s

\* A step of query q: it keeps the types, the other queries, and the difference
\* between a count and what q has; and it does not hear less of it.
Moved(q) ==
    /\ docs' \in [Queries -> Seq(Docs)] /\ mapped' \in [Queries -> SUBSET Docs]
    /\ heard' \in [Queries -> [Docs -> Nat]] /\ count' \in [Docs -> Int]
    /\ calls' \in [Queries -> Seq(Calls)] /\ Shaped' /\ MappedHears'
    /\ stage' \in [Queries -> {"new", "local", "subscribed"}]
    /\ \A p \in Queries : stage'[p] # stage[p] => stage[p] = "new" \/ stage'[p] = "subscribed"
    /\ \A p \in Queries \ {q} :
          docs'[p] = docs[p] /\ heard'[p] = heard[p] /\ calls'[p] = calls[p]
    /\ \A d \in Docs : /\ count'[d] + Has(q, d) = count[d] + Has(q, d)'
                       /\ heard'[q][d] + Has(q, d) >= heard[q][d] + Has(q, d)'

LEMMA HasNumber ==
    ASSUME Typed, NEW q \in Queries, NEW d
    PROVE  /\ Has(q, d) \in Nat
           /\ CountIn(docs[q], {d}) \in Nat /\ CountIn(calls[q], WaitFor(d)) \in Nat
  <1>1. docs[q] \in Seq(Docs) /\ calls[q] \in Seq(Calls)
    BY DEF Typed, TypeOK
  <1> QED BY <1>1, CountNumber DEF Has

LEMMA OnChangeDoes ==
    ASSUME Typed, NEW q \in Queries, NEW i \in 1 .. Len(calls[q]) + 1, NEW kind \in Kinds,
           NEW ids \in Results, OnChange(q, i, kind, ids),
           i \in DOMAIN calls[q] => calls[q][i].step = "query"
    PROVE  /\ Moved(q)
           /\ docs'[q] = Kept(ids, ToSet(docs[q]))
  <1> DEFINE todo == Insertions(docs[q], ids)
             left == RemoveAndMove(Of(q), ids)
             s == Continued(left, todo)
  <1>1. docs[q] \in Seq(Docs) /\ Whole(Of(q)) /\ Of(q).docs = docs[q]
        /\ Of(q).heard = heard[q] /\ Of(q).count = count
    BY OfIsWhole DEF Typed, TypeOK, Of
  <1>2. todo \in SUBSET Runs
    BY <1>1, InsertionsAre
  <1>3. Becomes(q, s) /\ Proceed(q, i, kind, todo)
    BY DEF OnChange, Continued
  <1>4. /\ Whole(left) /\ left.docs = Kept(ids, ToSet(docs[q]))
        /\ \A d \in Docs :
              /\ left.count[d] = count[d] + CountIn(left.docs, {d}) - CountIn(docs[q], {d})
              /\ left.heard[d] + CountIn(docs[q], {d}) >= heard[q][d] + CountIn(left.docs, {d})
    <2> DEFINE old == Of(q)
               t == RemoveAndMove(old, ids)
    <2>1. Whole(old) /\ old.docs = docs[q] /\ old.heard = heard[q] /\ old.count = count
      BY <1>1
    <2> HIDE DEF old
    <2>2. /\ Whole(t) /\ t.docs = Kept(ids, ToSet(old.docs))
          /\ \A d \in Docs :
                /\ t.count[d] = old.count[d] + CountIn(t.docs, {d}) - CountIn(old.docs, {d})
                /\ t.heard[d] + CountIn(old.docs, {d}) >= old.heard[d] + CountIn(t.docs, {d})
      BY <2>1, RemoveAndMoveDoes
    <2>3. t = left
      BY DEF old
    <2> HIDE DEF t, left
    <2> QED BY <2>1, <2>2, <2>3
  <1> HIDE DEF left, todo
  <1>5. /\ Whole(s) /\ s.docs = left.docs
        /\ \A d \in Docs : /\ s.count[d] = left.count[d] + AwaitedIn(todo, d)
                           /\ s.heard[d] = left.heard[d] + AwaitedIn(todo, d)
    BY <1>2, <1>4, ContinuedDoes
  <1> HIDE DEF s
  <1>6. /\ docs' \in [Queries -> Seq(Docs)] /\ mapped' \in [Queries -> SUBSET Docs]
        /\ heard' \in [Queries -> [Docs -> Nat]] /\ count' \in [Docs -> Int] /\ MappedHears'
        /\ docs'[q] = s.docs /\ heard'[q] = s.heard /\ count' = s.count
        /\ \A p \in Queries \ {q} : docs'[p] = docs[p] /\ heard'[p] = heard[p]
    BY <1>3, <1>5, BecomesDoes
  <1>7. /\ calls' \in [Queries -> Seq(Calls)] /\ Shaped'
        /\ \A p \in Queries \ {q} : calls'[p] = calls[p]
        /\ \A d : CountIn(calls'[q], WaitFor(d))
                    = CountIn(calls[q], WaitFor(d)) + AwaitedIn(todo, d)
                        - IF i \in DOMAIN calls[q] /\ calls[q][i] \in WaitFor(d) THEN 1 ELSE 0
        /\ stage' \in [Queries -> {"new", "local", "subscribed"}]
        /\ \A p \in Queries : stage'[p] # stage[p] => stage'[p] = "subscribed"
    BY <1>2, <1>3, ProceedDoes
  <1>8. ASSUME NEW d \in Docs
        PROVE  /\ count'[d] + Has(q, d) = count[d] + Has(q, d)'
               /\ heard'[q][d] + Has(q, d) >= heard[q][d] + Has(q, d)'
    <2>1. ~ (i \in DOMAIN calls[q] /\ calls[q][i] \in WaitFor(d))
      BY DEF WaitFor
    <2>2. /\ CountIn(docs[q], {d}) \in Nat /\ CountIn(calls[q], WaitFor(d)) \in Nat
          /\ count[d] \in Int /\ heard[q][d] \in Nat /\ AwaitedIn(todo, d) \in Nat
      BY HasNumber DEF Typed, TypeOK, AwaitedIn
    <2>3. CountIn(calls'[q], WaitFor(d)) = CountIn(calls[q], WaitFor(d)) + AwaitedIn(todo, d)
      BY <1>7, <2>1, <2>2
    <2>4. CountIn(left.docs, {d}) \in Nat
      BY <1>4, CountNumber DEF Whole
    <2>5. /\ Has(q, d)' = CountIn(left.docs, {d}) + CountIn(calls'[q], WaitFor(d))
          /\ Has(q, d) = CountIn(docs[q], {d}) + CountIn(calls[q], WaitFor(d))
      BY <1>5, <1>6 DEF Has, CountIn, PlacesOf, WaitFor
    <2>6. left.count[d] \in Int /\ left.heard[d] \in Nat
      BY <1>4 DEF Whole
    <2>7. /\ count'[d] = left.count[d] + AwaitedIn(todo, d)
          /\ heard'[q][d] = left.heard[d] + AwaitedIn(todo, d)
          /\ left.count[d] = count[d] + CountIn(left.docs, {d}) - CountIn(docs[q], {d})
          /\ left.heard[d] + CountIn(docs[q], {d}) >= heard[q][d] + CountIn(left.docs, {d})
      BY <1>4, <1>5, <1>6
    <2>8. Has(q, d) \in Nat /\ Has(q, d)' \in Nat
      BY <2>2, <2>3, <2>4, <2>5
    <2> HIDE DEF Has, s
    <2>9. count'[d] + Has(q, d) = count[d] + Has(q, d)'
      <3> DEFINE h1 == Has(q, d)
                 h2 == Has(q, d)'
                 a == CountIn(docs[q], {d})
                 b == CountIn(left.docs, {d})
                 w == CountIn(calls[q], WaitFor(d))
                 x == AwaitedIn(todo, d)
                 k1 == count[d]
                 k2 == count'[d]
      <3>1. /\ h1 = a + w /\ h2 = b + (w + x) /\ k2 = (k1 + b - a) + x
            /\ a \in Nat /\ b \in Nat /\ w \in Nat /\ x \in Nat /\ k1 \in Int
        BY <2>2, <2>3, <2>4, <2>5, <2>7
      <3>2. k2 + h1 = k1 + h2
        <4> HIDE DEF h1, h2, a, b, w, x, k1, k2
        <4> QED BY <3>1
      <3> QED BY <3>2
    <2>10. heard'[q][d] + Has(q, d) >= heard[q][d] + Has(q, d)'
      <3> DEFINE h1 == Has(q, d)
                 h2 == Has(q, d)'
                 a == CountIn(docs[q], {d})
                 b == CountIn(left.docs, {d})
                 w == CountIn(calls[q], WaitFor(d))
                 x == AwaitedIn(todo, d)
                 l == left.heard[d]
                 k1 == heard[q][d]
                 k2 == heard'[q][d]
      <3>1. /\ h1 = a + w /\ h2 = b + (w + x) /\ k2 = l + x /\ l + a >= k1 + b
            /\ a \in Nat /\ b \in Nat /\ w \in Nat /\ x \in Nat /\ k1 \in Nat /\ l \in Nat
        BY <2>2, <2>3, <2>4, <2>5, <2>6, <2>7
      <3>2. k2 + h1 >= k1 + h2
        <4> HIDE DEF h1, h2, a, b, w, x, k1, k2, l
        <4> QED BY <3>1
      <3> QED BY <3>2
    <2> QED BY <2>9, <2>10
  <1>9. Moved(q)
    BY <1>6, <1>7, <1>8 DEF Moved
  <1> QED BY <1>4, <1>5, <1>6, <1>9

LEMMA InsertDoneDoes ==
    ASSUME Typed, NEW q \in Queries, NEW i \in DOMAIN calls[q], InsertDone(q, i)
    PROVE  LET todo == calls[q][i].todo
               run == First(todo)
           IN /\ Moved(q)
              /\ todo \in SUBSET Runs /\ todo # {} /\ calls[q][i].kind \in Kinds
              /\ docs'[q] = Splice(docs[q], run)
              /\ Proceed(q, i, calls[q][i].kind, todo \ {run})
  <1> DEFINE call == calls[q][i]
             run == First(call.todo)
             todo == call.todo \ {run}
             old == Of(q)
             mid == [old EXCEPT !.docs = Splice(@, run)]
             s == Continued(mid, todo)
  <1>1. /\ Whole(old) /\ old.docs = docs[q] /\ old.heard = heard[q] /\ old.count = count
    BY OfIsWhole DEF Of
  <1>2. /\ calls[q] \in Seq(Calls) /\ call \in Calls /\ call.step = "insert"
        /\ i \in 1 .. Len(calls[q]) + 1 /\ DOMAIN calls[q] = 1 .. Len(calls[q])
        /\ call.kind \in Kinds /\ call.todo \in SUBSET Runs /\ call.todo # {}
    <2>1. calls[q] \in Seq(Calls)
      BY DEF Typed, TypeOK
    <2>2. DOMAIN calls[q] = 1 .. Len(calls[q]) /\ Len(calls[q]) \in Nat /\ call \in Calls
      BY <2>1, LenProperties, ElementOfSeq
    <2>3. call.step = "insert"
      BY DEF InsertDone, Inserting
    <2>4. call.todo # {}
      BY <2>3 DEF Typed, Shaped
    <2> HIDE DEF call
    <2> QED BY <2>1, <2>2, <2>3, <2>4 DEF Calls, Kinds
  <1>3. run \in call.todo /\ run \in Runs /\ todo \in SUBSET Runs
    BY <1>2, FirstIs
  <1>4. Becomes(q, s) /\ Proceed(q, i, call.kind, todo)
    BY DEF InsertDone, Continued
  <1>5. /\ Splice(docs[q], run) \in Seq(Docs)
        /\ \A d : CountIn(Splice(docs[q], run), {d})
                    = CountIn(docs[q], {d}) + IF d \in ToSet(run.ids) THEN 1 ELSE 0
    BY <1>1, <1>3, SpliceDoes DEF Whole
  <1>6. \A d : call \in WaitFor(d) <=> d \in ToSet(run.ids)
    BY <1>2 DEF WaitFor
  <1> HIDE DEF call, run, todo, old
  <1>7. /\ Whole(mid) /\ mid.docs = Splice(docs[q], run) /\ mid.count = count
        /\ mid.heard = heard[q]
    <2> DEFINE new == Splice(docs[q], run)
               r == [docs |-> new, mapped |-> old.mapped, heard |-> old.heard,
                     count |-> old.count]
    <2>1. old = [docs |-> old.docs, mapped |-> old.mapped, heard |-> old.heard,
                 count |-> old.count]
      BY <1>1 DEF Whole
    <2>2. mid = r
      BY <1>1, <2>1
    <2>3. new \in Seq(Docs)
      BY <1>5
    <2> HIDE DEF new
    <2>4. Whole(r)
      BY <1>1, <2>3 DEF Whole
    <2>5. r.docs = new /\ r.count = count /\ r.heard = heard[q]
      BY <1>1
    <2> HIDE DEF mid, r
    <2> QED BY <2>2, <2>4, <2>5 DEF new
  <1> HIDE DEF mid
  <1>8. /\ Whole(s) /\ s.docs = mid.docs
        /\ \A d \in Docs : /\ s.count[d] = count[d] + AwaitedIn(todo, d)
                           /\ s.heard[d] = heard[q][d] + AwaitedIn(todo, d)
    BY <1>3, <1>7, ContinuedDoes
  <1> HIDE DEF s
  <1>9. /\ docs' \in [Queries -> Seq(Docs)] /\ mapped' \in [Queries -> SUBSET Docs]
        /\ heard' \in [Queries -> [Docs -> Nat]] /\ count' \in [Docs -> Int] /\ MappedHears'
        /\ docs'[q] = s.docs /\ heard'[q] = s.heard /\ count' = s.count
        /\ \A p \in Queries \ {q} : docs'[p] = docs[p] /\ heard'[p] = heard[p]
    BY <1>4, <1>8, BecomesDoes
  <1>10. /\ calls' \in [Queries -> Seq(Calls)] /\ Shaped'
         /\ \A p \in Queries \ {q} : calls'[p] = calls[p]
         /\ \A d : CountIn(calls'[q], WaitFor(d))
                     = CountIn(calls[q], WaitFor(d)) + AwaitedIn(todo, d)
                         - IF i \in DOMAIN calls[q] /\ calls[q][i] \in WaitFor(d) THEN 1 ELSE 0
         /\ stage' \in [Queries -> {"new", "local", "subscribed"}]
         /\ \A p \in Queries : stage'[p] # stage[p] => stage'[p] = "subscribed"
    BY <1>2, <1>3, <1>4, ProceedDoes
  <1>11. ASSUME NEW d \in Docs
         PROVE  /\ count'[d] + Has(q, d) = count[d] + Has(q, d)'
                /\ heard'[q][d] + Has(q, d) >= heard[q][d] + Has(q, d)'
    <2> DEFINE here == IF d \in ToSet(run.ids) THEN 1 ELSE 0
    <2>1. here \in Nat
      OBVIOUS
    <2>2. (IF i \in DOMAIN calls[q] /\ calls[q][i] \in WaitFor(d) THEN 1 ELSE 0) = here
      BY <1>6 DEF call
    <2>3. /\ CountIn(docs[q], {d}) \in Nat /\ CountIn(calls[q], WaitFor(d)) \in Nat
          /\ count[d] \in Int /\ heard[q][d] \in Nat /\ AwaitedIn(todo, d) \in Nat
      BY HasNumber DEF Typed, TypeOK, AwaitedIn
    <2>4. CountIn(docs'[q], {d}) = CountIn(docs[q], {d}) + here
      BY <1>5, <1>7, <1>8, <1>9
    <2>5. CountIn(calls'[q], WaitFor(d))
            = CountIn(calls[q], WaitFor(d)) + AwaitedIn(todo, d) - here
      BY <1>10, <2>2
    <2> HIDE DEF here
    <2>6. /\ Has(q, d)' = CountIn(docs'[q], {d}) + CountIn(calls'[q], WaitFor(d))
          /\ Has(q, d) = CountIn(docs[q], {d}) + CountIn(calls[q], WaitFor(d))
      BY DEF Has, CountIn, PlacesOf, WaitFor
    <2>7. /\ count'[d] = count[d] + AwaitedIn(todo, d)
          /\ heard'[q][d] = heard[q][d] + AwaitedIn(todo, d)
      BY <1>8, <1>9
    <2> QED BY <2>1, <2>3, <2>4, <2>5, <2>6, <2>7
  <1>12. Moved(q)
    BY <1>9, <1>10, <1>11 DEF Moved
  <1>13. docs'[q] = Splice(docs[q], run)
    BY <1>7, <1>8, <1>9
  <1> QED BY <1>2, <1>4, <1>12, <1>13 DEF call, run, todo

-----------------------------------------------------------------------------
(* The places of several queries, counted together. *)

LEMMA PairsFinite ==
    ASSUME NEW L \in SUBSET Queries, NEW P, \A p \in L : IsFiniteSet(P[p])
    PROVE  IsFiniteSet(Pairs(P, L))
  <1> DEFINE f == [p \in L |-> {p} \X P[p]]
             T == {f[p] : p \in L}
  <1>1. IsFiniteSet(L)
    BY DocsAreFinite, FS_Subset
  <1>2. f \in Surjection(L, T)
    BY DEF Surjection
  <1>3. IsFiniteSet(T)
    <2> HIDE DEF f, T
    <2> QED BY <1>1, <1>2, FS_Surjection
  <1>4. \A S \in T : IsFiniteSet(S)
    <2> SUFFICES ASSUME NEW p \in L PROVE IsFiniteSet({p} \X P[p])
      OBVIOUS
    <2> QED BY FS_Singleton, FS_Product
  <1>5. Pairs(P, L) = UNION T
    BY DEF Pairs
  <1> HIDE DEF T
  <1> QED BY <1>3, <1>4, <1>5, FS_UNION

LEMMA PairsSplit ==
    ASSUME NEW L \in SUBSET Queries, NEW P, \A p \in L : IsFiniteSet(P[p]), NEW q \in L
    PROVE  /\ Cardinality(Pairs(P, L \ {q})) \in Nat
           /\ Cardinality(Pairs(P, L)) = Cardinality(P[q]) + Cardinality(Pairs(P, L \ {q}))
  <1> DEFINE one == {q} \X P[q]
             rest == Pairs(P, L \ {q})
  <1>1. Pairs(P, L) = one \cup rest /\ one \cap rest = {}
    BY DEF Pairs
  <1>2. IsFiniteSet(rest)
    BY PairsFinite
  <1>3. IsFiniteSet(P[q]) /\ IsFiniteSet({q}) /\ Cardinality({q}) = 1
    BY FS_Singleton
  <1>4. IsFiniteSet(one) /\ Cardinality(one) = Cardinality({q}) * Cardinality(P[q])
    BY <1>3, FS_Product
  <1>5. Cardinality(P[q]) \in Nat /\ Cardinality(rest) \in Nat
    BY <1>2, <1>3, FS_CardinalityType
  <1>6. Cardinality(one) = Cardinality(P[q])
    BY <1>3, <1>4, <1>5
  <1> HIDE DEF one, rest
  <1>7. Cardinality(one \cup rest) = Cardinality(one) + Cardinality(rest) - Cardinality({})
    BY <1>1, <1>2, <1>4, FS_Union
  <1>8. Cardinality({}) = 0
    BY FS_EmptySet
  <1> QED BY <1>1, <1>5, <1>6, <1>7, <1>8 DEF rest

\* The part of query q in the count of a document.
LEMMA CountSplit ==
    ASSUME Typed, NEW L \in SUBSET Queries, NEW q \in L, NEW d
    PROVE  /\ Cardinality(Pairs(InDocs(d), L))
                = CountIn(docs[q], {d}) + Cardinality(Pairs(InDocs(d), L \ {q}))
           /\ Cardinality(Pairs(InCalls(d), L))
                = CountIn(calls[q], WaitFor(d)) + Cardinality(Pairs(InCalls(d), L \ {q}))
           /\ Cardinality(Pairs(InDocs(d), L \ {q})) \in Nat
           /\ Cardinality(Pairs(InCalls(d), L \ {q})) \in Nat
  <1>1. ASSUME NEW p \in L
        PROVE  /\ InDocs(d)[p] = PlacesOf(docs[p], {d}) /\ IsFiniteSet(InDocs(d)[p])
               /\ InCalls(d)[p] = PlacesOf(calls[p], WaitFor(d)) /\ IsFiniteSet(InCalls(d)[p])
    <2>1. docs[p] \in Seq(Docs) /\ calls[p] \in Seq(Calls)
      BY DEF Typed, TypeOK
    <2>2. IsFiniteSet(PlacesOf(docs[p], {d})) /\ IsFiniteSet(PlacesOf(calls[p], WaitFor(d)))
      BY <2>1, CountNumber
    <2> QED BY <2>2 DEF InDocs, InCalls
  <1>2. \A p \in L : IsFiniteSet(InDocs(d)[p]) /\ IsFiniteSet(InCalls(d)[p])
    BY <1>1
  <1>3. Cardinality(InDocs(d)[q]) = CountIn(docs[q], {d})
        /\ Cardinality(InCalls(d)[q]) = CountIn(calls[q], WaitFor(d))
    BY <1>1 DEF CountIn
  <1>4. /\ Cardinality(Pairs(InDocs(d), L \ {q})) \in Nat
        /\ Cardinality(Pairs(InDocs(d), L))
             = Cardinality(InDocs(d)[q]) + Cardinality(Pairs(InDocs(d), L \ {q}))
    <2> DEFINE P == InDocs(d)
    <2>1. \A p \in L : IsFiniteSet(P[p])
      BY <1>2
    <2> HIDE DEF P
    <2>2. /\ Cardinality(Pairs(P, L \ {q})) \in Nat
          /\ Cardinality(Pairs(P, L)) = Cardinality(P[q]) + Cardinality(Pairs(P, L \ {q}))
      BY <2>1, PairsSplit
    <2> QED BY <2>2 DEF P
  <1>5. /\ Cardinality(Pairs(InCalls(d), L \ {q})) \in Nat
        /\ Cardinality(Pairs(InCalls(d), L))
             = Cardinality(InCalls(d)[q]) + Cardinality(Pairs(InCalls(d), L \ {q}))
    <2> DEFINE P == InCalls(d)
    <2>1. \A p \in L : IsFiniteSet(P[p])
      BY <1>2
    <2> HIDE DEF P
    <2>2. /\ Cardinality(Pairs(P, L \ {q})) \in Nat
          /\ Cardinality(Pairs(P, L)) = Cardinality(P[q]) + Cardinality(Pairs(P, L \ {q}))
      BY <2>1, PairsSplit
    <2> QED BY <2>2 DEF P
  <1> QED BY <1>3, <1>4, <1>5

\* A step of q leaves the places of the others alone.
LEMMA OthersStay ==
    ASSUME NEW q \in Queries, NEW L \in SUBSET Queries, NEW d,
           \A p \in Queries \ {q} : docs'[p] = docs[p] /\ calls'[p] = calls[p]
    PROVE  /\ Pairs(InDocs(d)', L \ {q}) = Pairs(InDocs(d), L \ {q})
           /\ Pairs(InCalls(d)', L \ {q}) = Pairs(InCalls(d), L \ {q})
  <1>1. ASSUME NEW p \in L \ {q}
        PROVE  InDocs(d)'[p] = InDocs(d)[p] /\ InCalls(d)'[p] = InCalls(d)[p]
    BY DEF InDocs, InCalls, PlacesOf, WaitFor
  <1> QED BY <1>1 DEF Pairs

-----------------------------------------------------------------------------
(* What steps of a query keep. *)

LEMMA MovedHears ==
    ASSUME Typed, Typed', Hears, NEW q \in Queries, Moved(q), UNCHANGED disposed
    PROVE  Hears'
  <1> SUFFICES ASSUME NEW p \in Queries, ~ disposed[p], NEW d \in Docs
               PROVE  heard'[p][d] >= Has(p, d)'
    BY DEF Hears
  <1>1. heard[p][d] >= Has(p, d)
    BY DEF Hears
  <1>2. CASE p = q
    <2>1. heard'[q][d] + Has(q, d) >= heard[q][d] + Has(q, d)'
      BY DEF Moved
    <2>2. heard[q][d] \in Nat /\ heard'[q][d] \in Nat
      BY DEF Typed, TypeOK
    <2>3. Has(q, d) \in Nat
      BY HasNumber
    <2>4. Has(q, d)' \in Nat
      <3>1. docs'[q] \in Seq(Docs) /\ calls'[q] \in Seq(Calls)
        BY DEF Typed, TypeOK
      <3>2. CountIn(docs'[q], {d}) \in Nat /\ CountIn(calls'[q], WaitFor(d)) \in Nat
        BY <3>1, CountNumber
      <3> QED BY <3>2 DEF Has, CountIn, PlacesOf, WaitFor
    <2> HIDE DEF Has
    <2> QED BY <1>1, <1>2, <2>1, <2>2, <2>3, <2>4
  <1>3. CASE p # q
    <2>1. docs'[p] = docs[p] /\ heard'[p] = heard[p] /\ calls'[p] = calls[p]
      BY <1>3 DEF Moved
    <2>2. Has(p, d)' = Has(p, d)
      BY <2>1 DEF Has, CountIn, PlacesOf, WaitFor
    <2> QED BY <1>1, <2>1, <2>2
  <1> QED BY <1>2, <1>3

LEMMA MovedCounted ==
    ASSUME Typed, Typed', Quiet, Counted, NEW q \in Queries, Moved(q),
           UNCHANGED <<disposed, torn>>, disposed[q] => calls[q] # <<>>
    PROVE  Counted'
  <1> SUFFICES ASSUME torn = {}, NEW d \in Docs
               PROVE  count'[d] = Cardinality(Pairs(InDocs(d)', Living'))
                                    + Cardinality(Pairs(InCalls(d)', Living'))
    BY DEF Counted, Pairs
  <1>1. q \in Living /\ Living' = Living /\ Living \in SUBSET Queries
    BY DEF Quiet, Living
  <1>2. count[d] = Cardinality(Pairs(InDocs(d), Living)) + Cardinality(Pairs(InCalls(d), Living))
    BY DEF Counted
  <1>3. \A p \in Queries \ {q} : docs'[p] = docs[p] /\ calls'[p] = calls[p]
    BY DEF Moved
  <1>4. count'[d] + Has(q, d) = count[d] + Has(q, d)'
    BY DEF Moved
  <1> DEFINE L == Living
             a == Cardinality(Pairs(InDocs(d), L \ {q}))
             b == Cardinality(Pairs(InCalls(d), L \ {q}))
             x == CountIn(docs[q], {d})
             y == CountIn(calls[q], WaitFor(d))
             u == CountIn(docs'[q], {d})
             v == CountIn(calls'[q], WaitFor(d))
  <1> HIDE DEF L
  <1>5. /\ Cardinality(Pairs(InDocs(d), L)) = x + a
        /\ Cardinality(Pairs(InCalls(d), L)) = y + b
        /\ a \in Nat /\ b \in Nat
    BY <1>1, CountSplit DEF L
  <1>6. /\ Cardinality(Pairs(InDocs(d)', L)) = u + a
        /\ Cardinality(Pairs(InCalls(d)', L)) = v + b
    <2>1. /\ Pairs(InDocs(d)', L \ {q}) = Pairs(InDocs(d), L \ {q})
          /\ Pairs(InCalls(d)', L \ {q}) = Pairs(InCalls(d), L \ {q})
      BY <1>1, <1>3, OthersStay DEF L
    <2>2. ASSUME NEW p \in L
          PROVE  /\ InDocs(d)'[p] = PlacesOf(docs'[p], {d}) /\ IsFiniteSet(InDocs(d)'[p])
                 /\ InCalls(d)'[p] = PlacesOf(calls'[p], WaitFor(d)) /\ IsFiniteSet(InCalls(d)'[p])
      <3>1. docs'[p] \in Seq(Docs) /\ calls'[p] \in Seq(Calls)
        BY <1>1 DEF Typed, TypeOK, L
      <3>2. IsFiniteSet(PlacesOf(docs'[p], {d})) /\ IsFiniteSet(PlacesOf(calls'[p], WaitFor(d)))
        BY <3>1, CountNumber
      <3> QED BY <1>1, <3>2 DEF InDocs, InCalls, L, PlacesOf, WaitFor
    <2>3. q \in L /\ L \in SUBSET Queries
      BY <1>1 DEF L
    <2>4. Cardinality(Pairs(InDocs(d)', L))
            = Cardinality(InDocs(d)'[q]) + Cardinality(Pairs(InDocs(d)', L \ {q}))
      <3> DEFINE P == InDocs(d)'
      <3>1. \A p \in L : IsFiniteSet(P[p])
        BY <2>2
      <3> HIDE DEF P
      <3>2. Cardinality(Pairs(P, L)) = Cardinality(P[q]) + Cardinality(Pairs(P, L \ {q}))
        BY <2>3, <3>1, PairsSplit
      <3> QED BY <3>2 DEF P
    <2>5. Cardinality(Pairs(InCalls(d)', L))
            = Cardinality(InCalls(d)'[q]) + Cardinality(Pairs(InCalls(d)', L \ {q}))
      <3> DEFINE P == InCalls(d)'
      <3>1. \A p \in L : IsFiniteSet(P[p])
        BY <2>2
      <3> HIDE DEF P
      <3>2. Cardinality(Pairs(P, L)) = Cardinality(P[q]) + Cardinality(Pairs(P, L \ {q}))
        BY <2>3, <3>1, PairsSplit
      <3> QED BY <3>2 DEF P
    <2>6. Cardinality(InDocs(d)'[q]) = u /\ Cardinality(InCalls(d)'[q]) = v
      BY <2>2, <2>3 DEF CountIn
    <2> QED BY <2>1, <2>4, <2>5, <2>6
  <1>7. x \in Nat /\ y \in Nat /\ u \in Nat /\ v \in Nat
    <2>1. docs'[q] \in Seq(Docs) /\ calls'[q] \in Seq(Calls)
      BY DEF Typed, TypeOK
    <2> QED BY <2>1, HasNumber, CountNumber
  <1>8. Has(q, d) = x + y /\ Has(q, d)' = u + v
    BY DEF Has, CountIn, PlacesOf, WaitFor
  <1>9. count[d] \in Int /\ count'[d] \in Int
    BY DEF Typed, TypeOK
  <1>10. count'[d] = (u + a) + (v + b)
    <2>1. count[d] = (x + a) + (y + b)
      BY <1>2, <1>5 DEF L
    <2>2. count'[d] + (x + y) = count[d] + (u + v)
      BY <1>4, <1>8
    <2> HIDE DEF a, b, x, y, u, v
    <2> QED BY <1>5, <1>7, <1>9, <2>1, <2>2
  <1> QED BY <1>1, <1>6, <1>10 DEF L

LEMMA MovedQuiet ==
    ASSUME Quiet, NEW q \in Queries, Moved(q), UNCHANGED <<disposed, torn>>,
           disposed[q] => calls[q] # <<>>
    PROVE  Quiet'
  <1> SUFFICES ASSUME NEW p \in Queries, disposed[p]
               PROVE  stage'[p] = "subscribed" /\ (p \notin torn => calls'[p] = <<>>)
    BY DEF Quiet
  <1>1. stage[p] = "subscribed" /\ (p \notin torn => calls[p] = <<>>)
    BY DEF Quiet
  <1>2. stage'[p] = "subscribed"
    BY <1>1 DEF Moved
  <1>3. ASSUME p \notin torn PROVE calls'[p] = <<>>
    <2>1. p # q
      BY <1>1, <1>3
    <2> QED BY <1>1, <1>3, <2>1 DEF Moved
  <1> QED BY <1>2, <1>3

-----------------------------------------------------------------------------
(* The steps. *)

\* Everything that a query does but being disposed of.
Work(q) ==
    \/ Subscribe(q)
    \/ LocalUpdate(q)
    \/ \E i \in DOMAIN calls[q], ids \in Results : StoreAnswers(q, i, ids)
    \/ \E ids \in Results : OnReady(q, ids) \/ RemoteChange(q, ids)
    \/ \E i \in DOMAIN calls[q] : InsertDone(q, i)

\* A call that asks IndexedDB waits for no document.
LEMMA QueryDoes ==
    ASSUME Typed, NEW q \in Queries, NEW kind \in Kinds, Query(q, kind),
           UNCHANGED <<docs, mapped, count, heard>>,
           stage' \in [Queries -> {"new", "local", "subscribed"}],
           \A p \in Queries : stage'[p] # stage[p] => stage[p] = "new"
    PROVE  Moved(q)
  <1> DEFINE call == [kind |-> kind, step |-> "query", todo |-> {}]
             s == calls[q]
  <1>1. calls \in [Queries -> Seq(Calls)] /\ s \in Seq(Calls) /\ call \in Calls
    BY DEF Typed, TypeOK, Calls, Kinds
  <1>2. calls' = [calls EXCEPT ![q] = Append(s, call)]
    BY <1>1 DEF Query
  <1>3. call \notin Misshaped /\ \A d : call \notin WaitFor(d)
    BY DEF Misshaped, WaitFor
  <1>4. CountIn(s, Misshaped) = 0
    BY <1>1, ShapedCalls DEF Typed, Shaped
  <1> HIDE DEF call, s
  <1>5. Append(s, call) \in Seq(Calls)
    BY <1>1, AppendProperties
  <1>6. /\ calls' \in [Queries -> Seq(Calls)] /\ calls'[q] = Append(s, call)
        /\ \A p \in Queries \ {q} : calls'[p] = calls[p]
    BY <1>1, <1>2, <1>5
  <1>7. /\ CountIn(calls'[q], Misshaped) = 0
        /\ \A d : CountIn(calls'[q], WaitFor(d)) = CountIn(s, WaitFor(d))
    <2>1. \A A : CountIn(Append(s, call), A) = CountIn(s, A) + IF call \in A THEN 1 ELSE 0
      BY <1>1, CountAppend
    <2>2. \A A : CountIn(s, A) \in Nat
      BY <1>1, CountNumber
    <2> QED BY <1>3, <1>4, <1>6, <2>1, <2>2
  <1>8. Shaped'
    <2>1. calls'[q] \in Seq(Calls)
      BY <1>6
    <2>2. \A i \in DOMAIN calls'[q] : calls'[q][i].step = "query" <=> calls'[q][i].todo = {}
      BY <1>7, <2>1, ShapedCalls
    <2> QED BY <1>6, <2>2 DEF Typed, Shaped
  <1>9. ASSUME NEW d \in Docs PROVE Has(q, d)' = Has(q, d)
    BY <1>7 DEF Has, CountIn, PlacesOf, WaitFor, s
  <1>10. MappedHears'
    BY DEF Typed, MappedHears
  <1>11. ASSUME NEW d \in Docs
         PROVE  /\ count'[d] + Has(q, d) = count[d] + Has(q, d)'
                /\ heard'[q][d] + Has(q, d) >= heard[q][d] + Has(q, d)'
    <2>1. Has(q, d) \in Nat /\ heard[q][d] \in Nat /\ count[d] \in Int
      BY HasNumber DEF Typed, TypeOK
    <2> HIDE DEF Has
    <2> QED BY <1>9, <2>1
  <1>12. /\ docs' \in [Queries -> Seq(Docs)] /\ mapped' \in [Queries -> SUBSET Docs]
         /\ heard' \in [Queries -> [Docs -> Nat]] /\ count' \in [Docs -> Int]
    BY DEF Typed, TypeOK
  <1> QED BY <1>6, <1>8, <1>10, <1>11, <1>12 DEF Moved

LEMMA WorkMoves ==
    ASSUME Typed, Quiet, NEW q \in Queries, Work(q)
    PROVE  /\ Moved(q) /\ Typed' /\ UNCHANGED <<disposed, torn>>
           /\ disposed[q] => calls[q] # <<>>
  <1> DEFINE Rest == /\ ready' \in [Queries -> BOOLEAN]
                     /\ changes' \in 0 .. MaxChanges
                     /\ last' \in [Queries -> Results] /\ alone' \in [Queries -> BOOLEAN]
  <1>1. /\ stage \in [Queries -> {"new", "local", "subscribed"}]
        /\ ready \in [Queries -> BOOLEAN] /\ calls \in [Queries -> Seq(Calls)]
        /\ changes \in 0 .. MaxChanges /\ last \in [Queries -> Results]
        /\ alone \in [Queries -> BOOLEAN]
    BY DEF Typed, TypeOK
  <1>2. Len(calls[q]) \in Nat /\ DOMAIN calls[q] = 1 .. Len(calls[q])
    BY <1>1, LenProperties
  <1>3. ASSUME NEW i, NEW kind, NEW ids \in Results, OnChange(q, i, kind, ids)
        PROVE  changes' \in 0 .. MaxChanges /\ last' \in [Queries -> Results]
               /\ alone' \in [Queries -> BOOLEAN]
    <2>1. changes < MaxChanges /\ changes' = changes + 1 /\ last' = [last EXCEPT ![q] = ids]
          /\ alone' = [alone EXCEPT ![q] = Inserting(q) = {}]
      BY <1>3 DEF OnChange
    <2>2. changes' \in 0 .. MaxChanges
      BY <1>1, <2>1, QueryAssumption
    <2>3. last' \in [Queries -> Results]
      BY <1>1, <2>1
    <2>4. (Inserting(q) = {}) \in BOOLEAN
      OBVIOUS
    <2>5. alone' \in [Queries -> BOOLEAN]
      BY <1>1, <2>1, <2>4, Zenon
    <2> QED BY <2>2, <2>3, <2>5
  <1>4. CASE Subscribe(q)
    <2>1. /\ stage' = [stage EXCEPT ![q] = "local"] /\ stage[q] = "new"
          /\ Query(q, "subscribe") /\ UNCHANGED <<docs, mapped, count, heard>>
          /\ UNCHANGED <<ready, disposed, torn, changes, last, alone>>
      BY <1>4 DEF Subscribe
    <2>2. /\ stage' \in [Queries -> {"new", "local", "subscribed"}]
          /\ \A p \in Queries : stage'[p] # stage[p] => stage[p] = "new"
      BY <1>1, <2>1
    <2>3. Moved(q)
      BY <2>1, <2>2, QueryDoes DEF Kinds
    <2>4. ~ disposed[q]
      BY <2>1 DEF Quiet
    <2>5. Typed'
      BY <2>1, <2>3 DEF Moved, Typed, TypeOK
    <2> QED BY <2>1, <2>3, <2>4, <2>5
  <1>5. CASE LocalUpdate(q)
    <2>1. /\ Query(q, "local") /\ UNCHANGED <<docs, mapped, count, heard, stage>>
          /\ UNCHANGED <<ready, disposed, torn, changes, last, alone>> /\ ~ disposed[q]
      BY <1>5 DEF LocalUpdate
    <2>2. Moved(q)
      BY <1>1, <2>1, QueryDoes DEF Kinds
    <2>3. Typed'
      BY <2>1, <2>2 DEF Moved, Typed, TypeOK
    <2> QED BY <2>1, <2>2, <2>3
  <1>6. ASSUME NEW i \in DOMAIN calls[q], NEW ids \in Results, StoreAnswers(q, i, ids)
        PROVE  /\ Moved(q) /\ Typed' /\ UNCHANGED <<disposed, torn>> /\ calls[q] # <<>>
    <2>1. /\ calls[q][i].step = "query" /\ OnChange(q, i, calls[q][i].kind, ids)
          /\ UNCHANGED <<ready, disposed, torn>>
      BY <1>6 DEF StoreAnswers
    <2>2. calls[q][i].kind \in Kinds /\ i \in 1 .. Len(calls[q]) + 1
      <3>1. calls[q][i] \in Calls
        BY <1>1, <1>2, ElementOfSeq
      <3> QED BY <1>2, <3>1 DEF Calls, Kinds
    <2>3. Moved(q)
      BY <2>1, <2>2, OnChangeDoes
    <2>4. Rest
      BY <1>1, <1>3, <2>1
    <2>5. Typed'
      BY <2>1, <2>3, <2>4 DEF Moved, Typed, TypeOK
    <2>6. calls[q] # <<>>
      <3>1. 1 <= Len(calls[q])
        BY <1>2
      <3>2. Len(<<>>) = 0
        BY EmptySeq
      <3> QED BY <3>1, <3>2
    <2> QED BY <2>1, <2>3, <2>5, <2>6
  <1>7. ASSUME NEW ids \in Results, OnReady(q, ids) \/ RemoteChange(q, ids)
        PROVE  Moved(q) /\ Typed' /\ UNCHANGED <<disposed, torn>> /\ ~ disposed[q]
    <2> DEFINE i == Len(calls[q]) + 1
    <2>1. /\ \E kind \in Kinds : OnChange(q, i, kind, ids)
          /\ ready' = ready \/ ready' = [ready EXCEPT ![q] = TRUE]
          /\ UNCHANGED <<disposed, torn>> /\ ~ disposed[q]
      BY <1>7 DEF OnReady, RemoteChange, Kinds
    <2>2. i \in 1 .. Len(calls[q]) + 1 /\ i \notin DOMAIN calls[q]
      BY <1>2
    <2> HIDE DEF i
    <2>3. Moved(q)
      BY <2>1, <2>2, OnChangeDoes
    <2>4. Rest
      BY <1>1, <1>3, <2>1
    <2>5. Typed'
      BY <2>1, <2>3, <2>4 DEF Moved, Typed, TypeOK
    <2> QED BY <2>1, <2>3, <2>5
  <1>8. ASSUME NEW i \in DOMAIN calls[q], InsertDone(q, i)
        PROVE  /\ Moved(q) /\ Typed' /\ UNCHANGED <<disposed, torn>> /\ calls[q] # <<>>
    <2>1. UNCHANGED <<ready, disposed, changes, last, alone, torn>>
      BY <1>8 DEF InsertDone
    <2>2. Moved(q)
      BY <1>8, InsertDoneDoes
    <2>3. Typed'
      BY <2>1, <2>2 DEF Moved, Typed, TypeOK
    <2>4. calls[q] # <<>>
      <3>1. 1 <= Len(calls[q])
        BY <1>2
      <3>2. Len(<<>>) = 0
        BY EmptySeq
      <3> QED BY <3>1, <3>2
    <2> QED BY <2>1, <2>2, <2>3, <2>4
  <1> QED BY <1>4, <1>5, <1>6, <1>7, <1>8 DEF Work

LEMMA DisposeKeeps ==
    ASSUME Typed, Hears, Quiet, Counted, NEW q \in Queries, Dispose(q)
    PROVE  Typed' /\ Hears' /\ Quiet' /\ Counted'
  <1> DEFINE less == [d \in Docs |-> heard[q][d] - IF d \in mapped[q] THEN 1 ELSE 0]
  <1>1. /\ stage[q] = "subscribed" /\ ~ disposed[q]
        /\ disposed' = [disposed EXCEPT ![q] = TRUE]
        /\ count' = IF ready[q] THEN [d \in Docs |-> count[d] - Occurrences(docs[q], d)] ELSE count
        /\ torn' = IF calls[q] = <<>> /\ ready[q] THEN torn ELSE torn \cup {q}
        /\ mapped' = [mapped EXCEPT ![q] = {}]
        /\ UNCHANGED <<stage, ready, docs, calls, changes, last, alone>>
    BY DEF Dispose
  <1>2. TypeOK
    BY DEF Typed
  <1>3. heard' = [heard EXCEPT ![q] = less] /\ less \in [Docs -> Nat]
    <2>1. heard[q] \in [Docs -> Nat] /\ \A d \in mapped[q] : heard[q][d] >= 1
      BY DEF Typed, TypeOK, MappedHears
    <2>2. less \in [Docs -> Nat]
      BY <2>1
    <2>3. heard' = [heard EXCEPT ![q] = less]
      BY <1>2 DEF Dispose, TypeOK
    <2> QED BY <2>2, <2>3
  <1> HIDE DEF less
  <1>4. /\ heard' \in [Queries -> [Docs -> Nat]] /\ mapped' \in [Queries -> SUBSET Docs]
        /\ disposed' \in [Queries -> BOOLEAN] /\ torn' \subseteq Queries
        /\ \A p \in Queries \ {q} : heard'[p] = heard[p] /\ mapped'[p] = mapped[p]
                                    /\ disposed'[p] = disposed[p]
        /\ mapped'[q] = {} /\ disposed'[q]
    BY <1>1, <1>2, <1>3 DEF TypeOK
  <1>5. ASSUME NEW d \in Docs
        PROVE  /\ Occurrences(docs[q], d) = CountIn(docs[q], {d})
               /\ CountIn(docs[q], {d}) \in Nat /\ count[d] \in Int
    BY HasNumber, OccurrencesAre DEF Typed, TypeOK
  <1>6. count' \in [Docs -> Int]
    <2> DEFINE sum == [d \in Docs |-> count[d] - Occurrences(docs[q], d)]
    <2>1. ASSUME NEW d \in Docs PROVE count[d] - Occurrences(docs[q], d) \in Int
      <3> DEFINE o == Occurrences(docs[q], d)
                 c == CountIn(docs[q], {d})
      <3>1. o = c /\ c \in Nat /\ count[d] \in Int
        BY <1>5, Zenon
      <3> HIDE DEF o, c
      <3>2. count[d] - o \in Int
        BY <3>1
      <3> QED BY <3>2 DEF o
    <2>2. sum \in [Docs -> Int]
      BY <2>1
    <2>3. count' = sum \/ count' = count
      BY <1>1
    <2> HIDE DEF sum
    <2> QED BY <1>2, <2>2, <2>3 DEF TypeOK
  <1>7. Typed'
    <2>1. TypeOK'
      BY <1>1, <1>2, <1>4, <1>6 DEF TypeOK
    <2>2. Shaped'
      BY <1>1 DEF Typed, Shaped
    <2>3. MappedHears'
      BY <1>4 DEF Typed, MappedHears
    <2> QED BY <2>1, <2>2, <2>3 DEF Typed
  <1>8. Hears'
    <2> SUFFICES ASSUME NEW p \in Queries, ~ disposed'[p], NEW d \in Docs
                 PROVE  heard'[p][d] >= Has(p, d)'
      BY DEF Hears
    <2>1. p # q /\ heard'[p] = heard[p] /\ ~ disposed[p]
      BY <1>4
    <2>2. Has(p, d)' = Has(p, d)
      BY <1>1 DEF Has, CountIn, PlacesOf, WaitFor
    <2> QED BY <2>1, <2>2 DEF Hears
  <1>9. Quiet'
    <2> SUFFICES ASSUME NEW p \in Queries, disposed'[p]
                 PROVE  stage[p] = "subscribed" /\ (p \notin torn' => calls[p] = <<>>)
      BY <1>1 DEF Quiet
    <2>1. CASE p = q
      BY <1>1, <2>1
    <2>2. CASE p # q
      BY <1>1, <1>4, <2>2 DEF Quiet
    <2> QED BY <2>1, <2>2
  <1>10. Counted'
    <2> SUFFICES ASSUME torn' = {}, NEW d \in Docs
                 PROVE  count'[d] = Cardinality(Pairs(InDocs(d)', Living'))
                                      + Cardinality(Pairs(InCalls(d)', Living'))
      BY DEF Counted, Pairs
    <2>1. torn = {} /\ calls[q] = <<>> /\ ready[q]
      BY <1>1
    <2>2. q \in Living /\ Living \in SUBSET Queries /\ Living' = Living \ {q}
      BY <1>1, <1>4 DEF Living
    <2>3. InDocs(d)' = InDocs(d) /\ InCalls(d)' = InCalls(d)
      BY <1>1 DEF InDocs, InCalls, PlacesOf, WaitFor
    <2>4. count[d] = Cardinality(Pairs(InDocs(d), Living)) + Cardinality(Pairs(InCalls(d), Living))
      BY <2>1 DEF Counted
    <2> DEFINE L == Living
    <2> HIDE DEF L
    <2>5. /\ Cardinality(Pairs(InDocs(d), L))
               = CountIn(docs[q], {d}) + Cardinality(Pairs(InDocs(d), L \ {q}))
          /\ Cardinality(Pairs(InCalls(d), L))
               = CountIn(calls[q], WaitFor(d)) + Cardinality(Pairs(InCalls(d), L \ {q}))
          /\ Cardinality(Pairs(InDocs(d), L \ {q})) \in Nat
          /\ Cardinality(Pairs(InCalls(d), L \ {q})) \in Nat
      BY <2>2, CountSplit DEF L
    <2>6. CountIn(calls[q], WaitFor(d)) = 0
      BY <2>1, CountNone
    <2>7. count'[d] = count[d] - CountIn(docs[q], {d})
      BY <1>1, <1>5, <2>1
    <2>8. CountIn(docs[q], {d}) \in Nat
      BY <1>5
    <2>9. count[d] = Cardinality(Pairs(InDocs(d), L)) + Cardinality(Pairs(InCalls(d), L))
      BY <2>4 DEF L
    <2>10. count'[d] = Cardinality(Pairs(InDocs(d), L \ {q})) + Cardinality(Pairs(InCalls(d), L \ {q}))
      BY <2>5, <2>6, <2>7, <2>8, <2>9
    <2> QED BY <2>2, <2>3, <2>10 DEF L
  <1> QED BY <1>7, <1>8, <1>9, <1>10

-----------------------------------------------------------------------------
(* What is shown while documents are inserted. *)

LEMMA PartsOfConcat ==
    ASSUME NEW S, NEW a \in Seq(S), NEW b \in Seq(S)
    PROVE  /\ SubSeq(a \o b, 1, Len(a)) = a
           /\ SubSeq(a \o b, Len(a) + 1, Len(a \o b)) = b
  <1> DEFINE s == a \o b
             k == Len(a)
             n == Len(s)
             x == SubSeq(s, 1, k)
             y == SubSeq(s, k + 1, n)
  <1>1. /\ s \in Seq(S) /\ n = k + Len(b) /\ k \in Nat /\ Len(b) \in Nat
        /\ \A i \in 1 .. k + Len(b) : s[i] = IF i <= k THEN a[i] ELSE b[i - k]
    BY ConcatProperties, LenProperties
  <1> HIDE DEF s, k, n
  <1>2. \A i \in 1 .. n : s[i] \in S
    BY <1>1, ElementOfSeq DEF n
  <1>3. /\ x \in Seq(S) /\ Len(x) = k /\ \A i \in 1 .. k : x[i] = s[i]
    <2>1. \A i \in 1 .. k : s[i] \in S
      BY <1>1, <1>2
    <2>2. x \in Seq(S)
      BY <1>1, <2>1, SubSeqProperties
    <2>3. Len(x) = IF 1 <= k THEN k - 1 + 1 ELSE 0
      BY <1>1, <2>1, SubSeqProperties
    <2>4. \A i \in 1 .. k - 1 + 1 : x[i] = s[1 + i - 1]
      BY <1>1, <2>1, SubSeqProperties
    <2> HIDE DEF x
    <2> QED BY <1>1, <2>2, <2>3, <2>4
  <1>4. y \in Seq(S) /\ Len(y) = Len(b) /\ \A i \in 1 .. Len(b) : y[i] = s[k + i]
    <2>1. \A i \in k + 1 .. n : s[i] \in S
      BY <1>1, <1>2
    <2>2. y \in Seq(S)
      BY <1>1, <2>1, SubSeqProperties
    <2>3. Len(y) = IF k + 1 <= n THEN n - (k + 1) + 1 ELSE 0
      BY <1>1, <2>1, SubSeqProperties
    <2>4. \A i \in 1 .. n - (k + 1) + 1 : y[i] = s[(k + 1) + i - 1]
      BY <1>1, <2>1, SubSeqProperties
    <2>5. Len(y) = Len(b)
      <3> HIDE DEF y
      <3> QED BY <1>1, <2>3
    <2>6. ASSUME NEW i \in 1 .. Len(b) PROVE y[i] = s[k + i]
      <3>1. i \in 1 .. n - (k + 1) + 1 /\ (k + 1) + i - 1 = k + i
        BY <1>1
      <3>2. y[i] = s[(k + 1) + i - 1]
        BY <2>4, <3>1
      <3> HIDE DEF y
      <3> QED BY <3>1, <3>2
    <2> QED BY <2>2, <2>5, <2>6
  <1> HIDE DEF x, y
  <1>5. x = a
    <2>1. \A i \in 1 .. Len(x) : x[i] = a[i]
      BY <1>1, <1>3
    <2>2. Len(x) = Len(a)
      BY <1>3 DEF k
    <2> QED BY <1>3, <2>1, <2>2, SeqEqual
  <1>6. y = b
    <2>1. ASSUME NEW i \in 1 .. Len(y) PROVE y[i] = b[i]
      <3>1. k + i \in 1 .. k + Len(b) /\ ~ (k + i <= k) /\ (k + i) - k = i
        BY <1>1, <1>4
      <3>2. s[k + i] = b[(k + i) - k]
        BY <1>1, <3>1
      <3> QED BY <1>4, <3>1, <3>2
    <2> QED BY <1>4, <2>1, SeqEqual
  <1> QED BY <1>5, <1>6 DEF x, y, s, k, n

\* Which results a run in its place has.
LEMMA RunHas ==
    ASSUME NEW ids \in Results, NEW T \in SUBSET Runs, InPlace(ids, T), NEW r \in T
    PROVE  /\ r.index \in 1 .. Len(ids) /\ Len(r.ids) \in Nat /\ Len(r.ids) >= 1
           /\ r.index + Len(r.ids) <= Len(ids) + 1
           /\ r.ids = SubSeq(ids, r.index, r.index + Len(r.ids) - 1) /\ r.ids \in Seq(Docs)
           /\ \A x \in 1 .. Len(ids) :
                 ids[x] \in ToSet(r.ids) <=> r.index <= x /\ x < r.index + Len(r.ids)
  <1> DEFINE k == r.index
             m == Len(r.ids)
             n == Len(ids)
             j == k + m - 1
  <1>1. k \in Nat /\ k >= 1 /\ r.ids \in Results /\ r.ids \in Seq(Docs)
    BY DocsAreFinite, ResultsAre DEF Runs
  <1>2. m \in Nat /\ n \in Nat /\ DOMAIN ids = 1 .. n /\ IsInjective(ids)
    BY <1>1, ResultsAre, ResultsShort
  <1>3. m >= 1 /\ k + m <= n + 1 /\ r.ids = SubSeq(ids, k, j)
    BY DEF InPlace
  <1> HIDE DEF k, m, n
  <1>4. k \in 1 .. n /\ j \in k .. n /\ j \in Int /\ \A x \in 1 .. n : x \in k .. j <=> k <= x /\ x < k + m
    BY <1>1, <1>2, <1>3
  <1> HIDE DEF j
  <1>5. ToSet(SubSeq(ids, k, j)) = {ids[x] : x \in k .. j}
    BY <1>4, PartOfResults DEF n
  <1>6. ASSUME NEW x \in 1 .. n PROVE ids[x] \in ToSet(r.ids) <=> x \in k .. j
    <2>1. ASSUME ids[x] \in ToSet(r.ids) PROVE x \in k .. j
      <3>1. PICK y \in k .. j : ids[x] = ids[y]
        BY <1>3, <1>5, <2>1
      <3>2. y \in 1 .. n
        BY <1>1, <1>2, <1>4
      <3>3. x = y
        BY <1>2, <3>1, <3>2 DEF IsInjective
      <3> QED BY <3>3
    <2> QED BY <1>3, <1>5, <2>1
  <1>7. \A x \in 1 .. n : ids[x] \in ToSet(r.ids) <=> k <= x /\ x < k + m
    BY <1>4, <1>6
  <1> QED BY <1>1, <1>2, <1>3, <1>4, <1>7 DEF k, m, n, j

\* The first run is put where it belongs: then what misses is what is left.
LEMMA SplicedInPlace ==
    ASSUME NEW ids \in Results, NEW T \in SUBSET Runs, T # {}, InPlace(ids, T)
    PROVE  LET run == First(T)
           IN Splice(Kept(ids, Docs \ Waited(T)), run) = Kept(ids, Docs \ Waited(T \ {run}))
  <1> DEFINE run == First(T)
             k == run.index
             b == run.ids
             m == Len(b)
             n == Len(ids)
             a == SubSeq(ids, 1, k - 1)
             c == SubSeq(ids, k + m, n)
             U == Docs \ Waited(T)
             V == Docs \ Waited(T \ {run})
  <1>1. run \in T /\ \A r \in T : k <= r.index
    BY FirstIs
  <1>2. /\ k \in 1 .. n /\ m \in Nat /\ m >= 1 /\ k + m <= n + 1
        /\ b = SubSeq(ids, k, k + m - 1) /\ b \in Seq(Docs)
        /\ \A x \in 1 .. n : ids[x] \in ToSet(b) <=> k <= x /\ x < k + m
    BY <1>1, RunHas
  <1>3. ids \in Seq(Docs) /\ IsInjective(ids) /\ n \in Nat /\ DOMAIN ids = 1 .. n
    BY ResultsAre, LenProperties
  <1>4. \A x \in 1 .. n : ids[x] \in Docs
    BY <1>3, ElementOfSeq
  <1> HIDE DEF run, k, b, m, n
  <1>5. /\ a \in Seq(Docs) /\ Len(a) = k - 1 /\ \A x \in 1 .. k - 1 : a[x] = ids[x]
    <2>1. \A x \in 1 .. k - 1 : ids[x] \in Docs
      BY <1>2, <1>3, <1>4
    <2>2. 1 \in Int /\ k - 1 \in Int
      BY <1>2, <1>3
    <2>3. a \in Seq(Docs)
      BY <2>1, <2>2, SubSeqProperties
    <2>4. Len(a) = IF 1 <= k - 1 THEN (k - 1) - 1 + 1 ELSE 0
      BY <2>1, <2>2, SubSeqProperties
    <2>5. \A x \in 1 .. (k - 1) - 1 + 1 : a[x] = ids[1 + x - 1]
      BY <2>1, <2>2, SubSeqProperties
    <2> HIDE DEF a
    <2> QED BY <1>2, <1>3, <2>3, <2>4, <2>5
  <1>6. /\ c \in Seq(Docs) /\ ToSet(c) \subseteq {ids[x] : x \in k + m .. n}
    <2>1. \A x \in k + m .. n : ids[x] \in Docs
      BY <1>2, <1>3, <1>4
    <2>2. k + m \in Int /\ n \in Int
      BY <1>2, <1>3
    <2>3. c \in Seq(Docs)
      BY <2>1, <2>2, SubSeqProperties
    <2>4. Len(c) = IF k + m <= n THEN n - (k + m) + 1 ELSE 0
      BY <2>1, <2>2, SubSeqProperties
    <2>5. \A x \in 1 .. n - (k + m) + 1 : c[x] = ids[(k + m) + x - 1]
      BY <2>1, <2>2, SubSeqProperties
    <2>6. DOMAIN c = 1 .. Len(c)
      BY <2>3, LenProperties
    <2> HIDE DEF c
    <2>7. ASSUME NEW x \in DOMAIN c PROVE c[x] \in {ids[y] : y \in k + m .. n}
      <3>1. x \in 1 .. n - (k + m) + 1 /\ (k + m) + x - 1 \in k + m .. n
        BY <1>2, <1>3, <2>4, <2>6
      <3> QED BY <2>5, <3>1
    <2> QED BY <2>3, <2>7 DEF ToSet
  <1>7. ids = (a \o b) \o c
    <2>1. SubSeq(ids, 1, k - 1) \o SubSeq(ids, (k - 1) + 1, k + m - 1) = SubSeq(ids, 1, k + m - 1)
      <3>1. 1 \in 1 .. Len(ids) + 1 /\ k - 1 \in 1 - 1 .. Len(ids) /\ k + m - 1 \in k - 1 .. Len(ids)
        BY <1>2, <1>3 DEF n
      <3> QED BY <1>3, <3>1, ConcatAdjacentSubSeq
    <2>2. SubSeq(ids, 1, k + m - 1) \o SubSeq(ids, (k + m - 1) + 1, n) = SubSeq(ids, 1, n)
      <3>1. 1 \in 1 .. Len(ids) + 1 /\ k + m - 1 \in 1 - 1 .. Len(ids) /\ n \in k + m - 1 .. Len(ids)
        BY <1>2, <1>3 DEF n
      <3> QED BY <1>3, <3>1, ConcatAdjacentSubSeq
    <2>3. SubSeq(ids, 1, n) = ids
      BY <1>3, SubSeqFull DEF n
    <2>4. (k - 1) + 1 = k /\ (k + m - 1) + 1 = k + m
      BY <1>2, <1>3
    <2>5. a \o b = SubSeq(ids, 1, k + m - 1)
      BY <1>2, <2>1, <2>4, Zenon
    <2>6. SubSeq(ids, 1, k + m - 1) \o c = ids
      BY <2>2, <2>3, <2>4, Zenon
    <2> QED BY <2>5, <2>6, Zenon
  <1>8. \A d : d \in Waited(T) <=> d \in ToSet(b) \/ d \in Waited(T \ {run})
    BY <1>1 DEF Waited, b
  <1>9. ToSet(b) \subseteq Docs /\ ToSet(a) \subseteq Docs /\ ToSet(c) \subseteq Docs
    <2>1. \A s \in Seq(Docs) : ToSet(s) \subseteq Docs
      BY DEF ToSet
    <2> QED BY <1>2, <1>5, <1>6, <2>1
  <1>10. ToSet(a) \subseteq {ids[x] : x \in 1 .. k - 1}
    <2>1. DOMAIN a = 1 .. k - 1
      BY <1>5, LenProperties
    <2> HIDE DEF a
    <2> QED BY <1>5, <2>1 DEF ToSet
  <1>11. ASSUME NEW d \in ToSet(a) PROVE d \notin Waited(T)
    <2> SUFFICES ASSUME NEW r \in T, d \in ToSet(r.ids) PROVE FALSE
      BY DEF Waited
    <2>1. PICK x \in 1 .. k - 1 : d = ids[x]
      BY <1>10
    <2>2. x \in 1 .. n /\ x < k /\ x \in Nat
      BY <1>2, <1>3
    <2>3. r.index <= x
      BY <2>1, <2>2, RunHas DEF n
    <2>4. k <= r.index /\ r.index \in Nat
      BY <1>1, RunHas, <1>3
    <2> QED BY <1>2, <1>3, <2>2, <2>3, <2>4
  <1>12. ASSUME NEW d \in ToSet(b) PROVE d \notin Waited(T \ {run})
    <2> SUFFICES ASSUME NEW r \in T, r # run, d \in ToSet(r.ids) PROVE FALSE
      BY DEF Waited
    <2>1. PICK x \in 1 .. n : d = ids[x]
      <3>1. \A s \in Seq(Docs) : DOMAIN s = 1 .. Len(s)
        BY LenProperties
      <3>2. PICK y \in 1 .. m : d = b[y]
        BY <1>2, <3>1 DEF ToSet, m
      <3>3. /\ k \in Int /\ k + m - 1 \in Int
            /\ \A x \in k .. k + m - 1 : ids[x] \in Docs
        BY <1>2, <1>3, <1>4
      <3>4. \A z \in 1 .. (k + m - 1) - k + 1 : SubSeq(ids, k, k + m - 1)[z] = ids[k + z - 1]
        BY <3>3, SubSeqProperties
      <3>5. y \in 1 .. (k + m - 1) - k + 1 /\ k + y - 1 \in 1 .. n
        BY <1>2, <1>3
      <3>6. b[y] = ids[k + y - 1]
        BY <1>2, <3>4, <3>5
      <3> QED BY <3>2, <3>5, <3>6
    <2>2. k <= x /\ x < k + m
      BY <1>2, <2>1
    <2>3. /\ r.index <= x /\ x < r.index + Len(r.ids) /\ r.index \in 1 .. n /\ Len(r.ids) \in Nat
      BY <2>1, RunHas DEF n
    <2>4. r.index + Len(r.ids) <= k \/ k + m <= r.index
      BY <1>1 DEF InPlace, k, m, b
    <2> QED BY <1>2, <1>3, <2>2, <2>3, <2>4
  <1>13. ASSUME NEW d \in ToSet(c) PROVE d \notin ToSet(b)
    <2>1. PICK x \in k + m .. n : d = ids[x]
      BY <1>6
    <2>2. x \in 1 .. n /\ ~ (x < k + m)
      BY <1>2, <1>3
    <2> QED BY <1>2, <2>1, <2>2
  <1> HIDE DEF a, c, U, V
  <1>14. Kept(a, U) = a /\ Kept(a, V) = a
    <2>1. ToSet(a) \subseteq U /\ ToSet(a) \subseteq V
      BY <1>8, <1>9, <1>11 DEF U, V
    <2> QED BY <1>5, <2>1, KeptAll
  <1>15. Kept(b, U) = <<>> /\ Kept(b, V) = b
    <2>1. ToSet(b) \cap U = {} /\ ToSet(b) \subseteq V
      BY <1>8, <1>9, <1>12 DEF U, V
    <2> QED BY <1>2, <2>1, KeptAll
  <1> DEFINE C == Kept(c, U)
  <1>16. Kept(c, V) = C /\ C \in Seq(Docs)
    <2>1. \A d \in ToSet(c) : d \in U <=> d \in V
      BY <1>8, <1>9, <1>13 DEF U, V
    <2> QED BY <1>6, <2>1, KeptSame, KeptMembers
  <1> HIDE DEF C
  <1>17. \A have : Kept(ids, have) = (Kept(a, have) \o Kept(b, have)) \o Kept(c, have)
    <2> TAKE have
    <2> DEFINE ab == a \o b
    <2>1. ab \in Seq(Docs)
      BY <1>2, <1>5, ConcatProperties
    <2>2. Kept(ab, have) = Kept(a, have) \o Kept(b, have)
      BY <1>2, <1>5, KeptConcat
    <2>3. ids = ab \o c
      BY <1>7
    <2> HIDE DEF ab
    <2>4. Kept(ab \o c, have) = Kept(ab, have) \o Kept(c, have)
      BY <1>6, <2>1, KeptConcat
    <2> QED BY <2>2, <2>3, <2>4, Zenon
  <1>18. Kept(ids, V) = (a \o b) \o C
    BY <1>14, <1>15, <1>16, <1>17, Zenon
  <1> DEFINE s == a \o C
  <1>19. Kept(ids, U) = s
    <2>1. Kept(ids, U) = (a \o <<>>) \o C
      BY <1>14, <1>15, <1>17, Zenon DEF C
    <2>2. a \o <<>> = a
      BY <1>5, ConcatEmptySeq
    <2> QED BY <2>1, <2>2, Zenon
  <1>20. /\ Len(s) = (k - 1) + Len(C) /\ Len(C) \in Nat
         /\ SubSeq(s, 1, k - 1) = a /\ SubSeq(s, (k - 1) + 1, Len(s)) = C
    <2>1. Len(s) = Len(a) + Len(C)
      BY <1>5, <1>16, ConcatProperties
    <2>2. SubSeq(s, 1, Len(a)) = a
      BY <1>5, <1>16, PartsOfConcat
    <2>3. SubSeq(s, Len(a) + 1, Len(s)) = C
      BY <1>5, <1>16, PartsOfConcat
    <2>4. Len(C) \in Nat
      BY <1>16, LenProperties
    <2> HIDE DEF s
    <2> QED BY <1>5, <2>1, <2>2, <2>3, <2>4, Zenon
  <1> HIDE DEF s
  <1>21. Splice(s, run) = (a \o b) \o C
    <2> DEFINE before == IF run.index > Len(s) + 1 THEN Len(s) ELSE run.index - 1
    <2>1. before = k - 1
      BY <1>2, <1>3, <1>20 DEF k
    <2>2. Splice(s, run) = SubSeq(s, 1, before) \o run.ids \o SubSeq(s, before + 1, Len(s))
      BY Zenon DEF Splice
    <2> HIDE DEF before
    <2> QED BY <1>20, <2>1, <2>2, Zenon DEF b
  <1> QED BY <1>18, <1>19, <1>21, Zenon DEF U, V, run

\* A call that goes on with some todo is the only one at work, if no other was.
LEMMA OneAtWork ==
    ASSUME Typed, NEW q \in Queries, NEW i \in 1 .. Len(calls[q]) + 1, NEW kind \in Kinds,
           NEW todo \in SUBSET Runs, Proceed(q, i, kind, todo), Inserting(q) \subseteq {i}
    PROVE  IF todo = {} THEN Inserting(q)' = {}
           ELSE /\ Inserting(q)' = {i} /\ i \in DOMAIN calls'[q]
                /\ calls'[q][i].todo = todo
  <1> DEFINE s == calls[q]
             call == [kind |-> kind, step |-> "insert", todo |-> todo]
             next == calls'[q]
             Ins == {c \in Calls : c.step = "insert"}
  <1>1. calls \in [Queries -> Seq(Calls)]
    BY DEF Typed, TypeOK
  <1>2. s \in Seq(Calls) /\ DOMAIN s = 1 .. Len(s) /\ Len(s) \in Nat /\ \A k \in DOMAIN s : s[k] \in Calls
    BY <1>1, LenProperties, ElementOfSeq
  <1>3. call \in Calls /\ call.step = "insert" /\ call.todo = todo
    BY DEF Calls, Kinds
  <1>4. next = IF todo = {} THEN (IF i \in DOMAIN s THEN RemoveAt(s, i) ELSE s)
               ELSE IF i \in DOMAIN s THEN ReplaceAt(s, i, call) ELSE Append(s, call)
    BY <1>1 DEF Proceed
  <1>5. /\ Inserting(q) = {k \in DOMAIN s : s[k].step = "insert"}
        /\ Inserting(q)' = {k \in DOMAIN next : next[k].step = "insert"}
    BY DEF Inserting
  <1> HIDE DEF s, call, next
  <1>6. CASE todo = {} /\ i \in DOMAIN s
    <2>1. next = RemoveAt(s, i)
      BY <1>4, <1>6
    <2>2. PlacesOf(s, Ins) = IF s[i] \in Ins THEN {i} ELSE {}
      BY <1>2, <1>5, <1>6 DEF PlacesOf
    <2>3. CountIn(s, Ins) = IF s[i] \in Ins THEN 1 ELSE 0
      BY <2>2, FS_Singleton, FS_EmptySet DEF CountIn
    <2> HIDE DEF Ins
    <2>4. next \in Seq(Calls) /\ CountIn(next, Ins) = CountIn(s, Ins) - IF s[i] \in Ins THEN 1 ELSE 0
      BY <1>2, <1>6, <2>1, CountRemoveAt
    <2>5. CountIn(next, Ins) = 0
      BY <2>3, <2>4
    <2>6. \A k \in DOMAIN next : next[k] \notin Ins
      BY <2>4, <2>5, CountNumber
    <2>7. \A k \in DOMAIN next : next[k] \in Calls
      BY <2>4, LenProperties, ElementOfSeq
    <2> QED BY <1>5, <1>6, <2>6, <2>7 DEF Ins
  <1>7. CASE todo = {} /\ i \notin DOMAIN s
    BY <1>4, <1>5, <1>7
  <1>8. CASE todo # {} /\ i \in DOMAIN s
    <2> DEFINE t == [s EXCEPT ![i] = call]
    <2>1. next = t
      BY <1>4, <1>8 DEF ReplaceAt
    <2>2. t \in Seq(Calls) /\ Len(t) = Len(s)
          /\ \A k \in 1 .. Len(s) : t[k] = IF k = i THEN call ELSE s[k]
      BY <1>2, <1>3, <1>8, ExceptSeq
    <2> HIDE DEF t
    <2>3. DOMAIN t = DOMAIN s
      BY <1>2, <2>2, LenProperties
    <2>4. t[i] = call /\ \A k \in DOMAIN s : k # i => t[k] = s[k]
      BY <1>2, <1>8, <2>2
    <2>5. \A k \in DOMAIN t : t[k].step = "insert" <=> k = i
      BY <1>3, <1>5, <2>3, <2>4
    <2>6. i \in DOMAIN t
      BY <1>8, <2>3
    <2>7. Inserting(q)' = {i}
      BY <1>5, <2>1, <2>5, <2>6
    <2> QED BY <1>3, <1>8, <2>1, <2>4, <2>6, <2>7 DEF next
  <1>9. CASE todo # {} /\ i \notin DOMAIN s
    <2> DEFINE t == Append(s, call)
    <2>1. next = t
      BY <1>4, <1>9
    <2>2. /\ t \in Seq(Calls) /\ Len(t) = Len(s) + 1 /\ t[Len(s) + 1] = call
          /\ \A k \in 1 .. Len(s) : t[k] = s[k]
      BY <1>2, <1>3, AppendProperties
    <2> HIDE DEF t
    <2>3. DOMAIN t = 1 .. Len(s) + 1
      BY <2>2, LenProperties
    <2>4. i = Len(s) + 1
      BY <1>2, <1>9 DEF s
    <2>5. \A k \in DOMAIN t : k \in DOMAIN s \/ k = i
      BY <1>2, <2>3, <2>4
    <2>6. i \in DOMAIN t /\ t[i] = call /\ \A k \in DOMAIN s : k \in DOMAIN t /\ t[k] = s[k]
      BY <1>2, <2>2, <2>3, <2>4
    <2>7. \A k \in DOMAIN t : t[k].step = "insert" <=> k = i
      BY <1>3, <1>5, <1>9, <2>5, <2>6
    <2>8. Inserting(q)' = {i}
      BY <1>5, <2>1, <2>6, <2>7
    <2> QED BY <1>3, <1>9, <2>1, <2>6, <2>8 DEF next
  <1> QED BY <1>6, <1>7, <1>8, <1>9 DEF next

\* What is shown of a query stays if nothing about it changes but calls that
\* insert nothing.
LEMMA ShowsSame ==
    ASSUME NEW p \in Queries, Shows(p), docs'[p] = docs[p], last'[p] = last[p],
           alone'[p] = alone[p], Inserting(p)' = Inserting(p),
           \A i \in Inserting(p) : i \in DOMAIN calls'[p] /\ calls'[p][i] = calls[p][i]
    PROVE  Shows(p)'
  <1> SUFFICES ASSUME alone[p]
               PROVE  \/ Inserting(p) = {} /\ docs[p] = last[p]
                      \/ \E i \in DOMAIN calls'[p] :
                            /\ Inserting(p) = {i}
                            /\ InPlace(last[p], calls'[p][i].todo)
                            /\ docs[p] = Kept(last[p], Docs \ Waited(calls'[p][i].todo))
    BY Zenon DEF Shows
  <1>1. CASE Inserting(p) = {} /\ docs[p] = last[p]
    BY <1>1
  <1>2. ASSUME NEW i \in DOMAIN calls[p], Inserting(p) = {i},
               InPlace(last[p], calls[p][i].todo),
               docs[p] = Kept(last[p], Docs \ Waited(calls[p][i].todo))
        PROVE  \E j \in DOMAIN calls'[p] :
                  /\ Inserting(p) = {j}
                  /\ InPlace(last[p], calls'[p][j].todo)
                  /\ docs[p] = Kept(last[p], Docs \ Waited(calls'[p][j].todo))
    <2>1. i \in DOMAIN calls'[p] /\ calls'[p][i] = calls[p][i]
      BY <1>2
    <2> QED BY <1>2, <2>1
  <1> QED BY <1>1, <1>2 DEF Shows

\* A call of onChange that is alone shows its results, but for what it inserts.
LEMMA OnChangeShows ==
    ASSUME Typed, NEW q \in Queries, NEW i \in 1 .. Len(calls[q]) + 1, NEW kind \in Kinds,
           NEW ids \in Results, OnChange(q, i, kind, ids),
           i \in DOMAIN calls[q] => calls[q][i].step = "query"
    PROVE  Shows(q)'
  <1> DEFINE todo == Insertions(docs[q], ids)
  <1>1. docs'[q] = Kept(ids, ToSet(docs[q]))
    BY OnChangeDoes
  <1>2. Proceed(q, i, kind, todo) /\ last'[q] = ids /\ (alone'[q] => Inserting(q) = {})
    BY DEF OnChange, Typed, TypeOK
  <1>3. docs[q] \in Seq(Docs) /\ ids \in Seq(Docs)
    BY ResultsAre DEF Typed, TypeOK
  <1>4. /\ todo \in SUBSET Runs /\ InPlace(ids, todo)
        /\ \A d \in ToSet(ids) : d \in Waited(todo) <=> d \notin ToSet(docs[q])
    BY <1>3, InsertionsAre
  <1> HIDE DEF todo
  <1>5. docs'[q] = Kept(ids, Docs \ Waited(todo))
    <2>1. \A d \in ToSet(ids) : d \in Docs
      BY <1>3 DEF ToSet
    <2>2. \A d \in ToSet(ids) : d \in ToSet(docs[q]) <=> d \in Docs \ Waited(todo)
      BY <1>4, <2>1
    <2>3. Kept(ids, ToSet(docs[q])) = Kept(ids, Docs \ Waited(todo))
      <3> DEFINE A == ToSet(docs[q])
                 B == Docs \ Waited(todo)
      <3>1. \A d \in ToSet(ids) : d \in A <=> d \in B
        BY <2>2
      <3> HIDE DEF A, B
      <3>2. Kept(ids, A) = Kept(ids, B)
        BY <1>3, <3>1, KeptSame
      <3> QED BY <3>2 DEF A, B
    <2> QED BY <1>1, <2>3
  <1>6. ASSUME alone'[q]
        PROVE  \/ Inserting(q)' = {} /\ docs'[q] = ids
               \/ \E j \in DOMAIN calls'[q] :
                     /\ Inserting(q)' = {j}
                     /\ InPlace(ids, calls'[q][j].todo)
                     /\ docs'[q] = Kept(ids, Docs \ Waited(calls'[q][j].todo))
    <2>1. IF todo = {} THEN Inserting(q)' = {}
          ELSE Inserting(q)' = {i} /\ i \in DOMAIN calls'[q] /\ calls'[q][i].todo = todo
      BY <1>2, <1>4, <1>6, OneAtWork
    <2>2. CASE todo = {}
      <3>1. Waited(todo) = {} /\ ToSet(ids) \subseteq Docs
        BY <1>3, <2>2 DEF Waited, ToSet
      <3>2. ToSet(ids) \subseteq Docs \ Waited(todo)
        BY <3>1
      <3>3. Kept(ids, Docs \ Waited(todo)) = ids
        BY <1>3, <3>2, KeptAll
      <3> QED BY <1>5, <2>1, <2>2, <3>3
    <2>3. CASE todo # {}
      BY <1>4, <1>5, <2>1, <2>3
    <2> QED BY <2>2, <2>3
  <1> QED BY <1>2, <1>6, Zenon DEF Shows

\* The call that is alone puts its first run in its place.
LEMMA InsertDoneShows ==
    ASSUME Typed, NEW q \in Queries, Shows(q), NEW i \in DOMAIN calls[q], InsertDone(q, i)
    PROVE  Shows(q)'
  <1> DEFINE T == calls[q][i].todo
             todo == T \ {First(T)}
             ids == last[q]
  <1>1. /\ T \in SUBSET Runs /\ T # {} /\ calls[q][i].kind \in Kinds
        /\ docs'[q] = Splice(docs[q], First(T))
        /\ Proceed(q, i, calls[q][i].kind, todo)
    BY InsertDoneDoes
  <1>2. i \in Inserting(q) /\ last' = last /\ alone' = alone
    BY DEF InsertDone
  <1>3. ids \in Results /\ ids \in Seq(Docs) /\ i \in 1 .. Len(calls[q]) + 1
    <2>1. ids \in Results /\ calls[q] \in Seq(Calls)
      BY DEF Typed, TypeOK
    <2>2. DOMAIN calls[q] = 1 .. Len(calls[q]) /\ Len(calls[q]) \in Nat
      BY <2>1, LenProperties
    <2>3. i \in 1 .. Len(calls[q]) + 1
      BY <2>2
    <2> HIDE DEF ids
    <2> QED BY <2>1, <2>3, ResultsAre
  <1>4. ASSUME alone[q]
        PROVE  \/ Inserting(q)' = {} /\ docs'[q] = ids
               \/ \E j \in DOMAIN calls'[q] :
                     /\ Inserting(q)' = {j}
                     /\ InPlace(ids, calls'[q][j].todo)
                     /\ docs'[q] = Kept(ids, Docs \ Waited(calls'[q][j].todo))
    <2>1. Inserting(q) = {i} /\ InPlace(ids, T) /\ docs[q] = Kept(ids, Docs \ Waited(T))
      BY <1>2, <1>4 DEF Shows
    <2> HIDE DEF T, ids
    <2>2. docs'[q] = Kept(ids, Docs \ Waited(todo))
      BY <1>1, <1>3, <2>1, SplicedInPlace
    <2>3. todo \in SUBSET Runs /\ InPlace(ids, todo)
      BY <1>1, <2>1 DEF InPlace
    <2> HIDE DEF todo
    <2>4. IF todo = {} THEN Inserting(q)' = {}
          ELSE Inserting(q)' = {i} /\ i \in DOMAIN calls'[q] /\ calls'[q][i].todo = todo
      BY <1>1, <1>3, <2>1, <2>3, OneAtWork
    <2>5. CASE todo = {}
      <3>1. Waited(todo) = {} /\ ToSet(ids) \subseteq Docs
        BY <1>3, <2>5 DEF Waited, ToSet
      <3>2. ToSet(ids) \subseteq Docs \ Waited(todo)
        BY <3>1
      <3>3. Kept(ids, Docs \ Waited(todo)) = ids
        BY <1>3, <3>2, KeptAll
      <3> QED BY <2>2, <2>4, <2>5, <3>3
    <2>6. CASE todo # {}
      BY <2>2, <2>3, <2>4, <2>6
    <2> QED BY <2>5, <2>6
  <1>5. last'[q] = ids /\ (alone'[q] => alone[q])
    BY <1>2
  <1> HIDE DEF ids
  <1> QED BY <1>4, <1>5, Zenon DEF Shows

LEMMA WorkShows ==
    ASSUME Typed, Quiet, \A p \in Queries : Shows(p), NEW q \in Queries, Work(q)
    PROVE  \A p \in Queries : Shows(p)'
  <1>1. Moved(q)
    BY WorkMoves
  <1>2. \A p \in Queries \ {q} : last'[p] = last[p] /\ alone'[p] = alone[p]
    <2>1. last \in [Queries -> Results] /\ alone \in [Queries -> BOOLEAN]
      BY DEF Typed, TypeOK
    <2> QED BY <2>1 DEF Work, Subscribe, LocalUpdate, StoreAnswers, OnReady, RemoteChange,
                        InsertDone, OnChange
  <1>3. ASSUME NEW p \in Queries \ {q} PROVE Shows(p)'
    <2>1. docs'[p] = docs[p] /\ calls'[p] = calls[p]
      BY <1>1 DEF Moved
    <2>2. Inserting(p)' = Inserting(p) /\ \A i \in Inserting(p) : i \in DOMAIN calls[p]
      BY <2>1 DEF Inserting
    <2> QED BY <1>2, <2>1, <2>2, ShowsSame
  <1>4. Shows(q)'
    <2>0. /\ calls \in [Queries -> Seq(Calls)] /\ calls[q] \in Seq(Calls)
          /\ DOMAIN calls[q] = 1 .. Len(calls[q]) /\ Len(calls[q]) \in Nat
      BY LenProperties DEF Typed, TypeOK
    <2>1. ASSUME NEW kind \in Kinds, Query(q, kind), docs' = docs, last' = last, alone' = alone
          PROVE  Shows(q)'
      <3> DEFINE s == calls[q]
                 call == [kind |-> kind, step |-> "query", todo |-> {}]
                 t == Append(s, call)
      <3>1. calls'[q] = t /\ call \in Calls /\ call.step = "query"
        BY <2>0, <2>1 DEF Query, Calls, Kinds
      <3> HIDE DEF call
      <3>2. t \in Seq(Calls) /\ Len(t) = Len(s) + 1 /\ t[Len(s) + 1] = call
            /\ \A k \in 1 .. Len(s) : t[k] = s[k]
        BY <2>0, <3>1, AppendProperties
      <3> HIDE DEF t, s
      <3>3. DOMAIN t = 1 .. Len(s) + 1
        BY <3>2, LenProperties
      <3>4. \A k \in DOMAIN t : k \in DOMAIN s \/ k = Len(s) + 1
        BY <2>0, <3>3 DEF s
      <3>5. \A k \in DOMAIN s : k \in DOMAIN t /\ t[k] = s[k]
        BY <2>0, <3>2, <3>3 DEF s
      <3>6. Inserting(q)' = Inserting(q)
        BY <3>1, <3>2, <3>4, <3>5 DEF Inserting, s
      <3>7. \A k \in Inserting(q) : k \in DOMAIN calls'[q] /\ calls'[q][k] = calls[q][k]
        BY <3>1, <3>5 DEF Inserting, s
      <3> QED BY <2>1, <3>6, <3>7, ShowsSame
    <2>2. CASE Subscribe(q)
      BY <2>1, <2>2 DEF Subscribe, Kinds
    <2>3. CASE LocalUpdate(q)
      BY <2>1, <2>3 DEF LocalUpdate, Kinds
    <2>4. ASSUME NEW i \in DOMAIN calls[q], NEW ids \in Results, StoreAnswers(q, i, ids)
          PROVE  Shows(q)'
      <3>1. calls[q][i].step = "query" /\ OnChange(q, i, calls[q][i].kind, ids)
        BY <2>4 DEF StoreAnswers
      <3>2. calls[q][i].kind \in Kinds /\ i \in 1 .. Len(calls[q]) + 1
        <4>1. calls[q][i] \in Calls
          BY <2>0, ElementOfSeq
        <4> QED BY <2>0, <4>1 DEF Calls, Kinds
      <3> QED BY <3>1, <3>2, OnChangeShows
    <2>5. ASSUME NEW ids \in Results, OnReady(q, ids) \/ RemoteChange(q, ids) PROVE Shows(q)'
      <3> DEFINE i == Len(calls[q]) + 1
      <3>1. \E kind \in Kinds : OnChange(q, i, kind, ids)
        BY <2>5 DEF OnReady, RemoteChange, Kinds
      <3>2. i \in 1 .. Len(calls[q]) + 1 /\ i \notin DOMAIN calls[q]
        BY <2>0
      <3> HIDE DEF i
      <3> QED BY <3>1, <3>2, OnChangeShows
    <2>6. ASSUME NEW i \in DOMAIN calls[q], InsertDone(q, i) PROVE Shows(q)'
      BY <2>6, InsertDoneShows
    <2> QED BY <2>2, <2>3, <2>4, <2>5, <2>6 DEF Work
  <1> QED BY <1>3, <1>4

LEMMA DisposeShows ==
    ASSUME \A p \in Queries : Shows(p), NEW q \in Queries, Dispose(q)
    PROVE  \A p \in Queries : Shows(p)'
  <1> SUFFICES ASSUME NEW p \in Queries PROVE Shows(p)'
    OBVIOUS
  <1>1. docs' = docs /\ calls' = calls /\ last' = last /\ alone' = alone
    BY DEF Dispose
  <1>2. Inserting(p)' = Inserting(p) /\ \A i \in Inserting(p) : i \in DOMAIN calls[p]
    BY <1>1 DEF Inserting
  <1> QED BY <1>1, <1>2, ShowsSame

-----------------------------------------------------------------------------
(* The theorems. *)

LEMMA StartHolds == Init => IInv
  <1> SUFFICES ASSUME Init PROVE IInv
    OBVIOUS
  <1>1. <<>> \in Seq(Docs) /\ <<>> \in Seq(Calls) /\ <<>> \in Results
    <2>1. <<>> \in Seq(Docs) /\ <<>> \in Seq(Calls)
      BY EmptySeq
    <2>2. IsInjective(<<>>)
      BY DEF IsInjective
    <2> QED BY <2>1, <2>2, ResultsAre
  <1>2. /\ \A q \in Queries : docs[q] = <<>> /\ calls[q] = <<>> /\ mapped[q] = {}
        /\ \A q \in Queries : ~ disposed[q] /\ ~ alone[q]
        /\ \A q \in Queries, d \in Docs : heard[q][d] = 0
        /\ \A d \in Docs : count[d] = 0
    BY DEF Init
  <1>3. TypeOK
    <2>1. 0 \in 0 .. MaxChanges
      BY QueryAssumption
    <2> HIDE DEF Results, Calls
    <2> QED BY <1>1, <2>1 DEF Init, TypeOK
  <1>4. Shaped /\ MappedHears
    BY <1>2 DEF Shaped, MappedHears
  <1>5. Hears
    <2>1. \A q \in Queries, d \in Docs : Has(q, d) = 0
      BY <1>2, CountNone DEF Has
    <2> QED BY <1>2, <2>1 DEF Hears
  <1>6. Quiet
    BY <1>2 DEF Quiet
  <1>7. Counted
    <2>1. \A A : PlacesOf(<<>>, A) = {}
      BY DEF PlacesOf
    <2>2. \A d : Pairs(InDocs(d), Living) = {} /\ Pairs(InCalls(d), Living) = {}
      BY <1>2, <2>1 DEF Pairs, InDocs, InCalls, Living
    <2>3. Cardinality({}) = 0
      BY FS_EmptySet
    <2>4. ASSUME NEW d \in Docs
          PROVE  count[d] = Cardinality(Pairs(InDocs(d), Living))
                              + Cardinality(Pairs(InCalls(d), Living))
      <3>1. /\ count[d] = 0 /\ Cardinality(Pairs(InDocs(d), Living)) = 0
            /\ Cardinality(Pairs(InCalls(d), Living)) = 0
        BY <1>2, <2>2, <2>3
      <3> QED BY <3>1
    <2> QED BY <2>4 DEF Counted
  <1>8. \A q \in Queries : Shows(q)
    BY <1>2 DEF Shows
  <1> QED BY <1>3, <1>4, <1>5, <1>6, <1>7, <1>8 DEF IInv, Typed

LEMMA StepKeeps == IInv /\ [Next]_vars => IInv'
  <1> SUFFICES ASSUME IInv, [Next]_vars PROVE IInv'
    OBVIOUS
  <1>0. Typed /\ Hears /\ Quiet /\ Counted /\ \A q \in Queries : Shows(q)
    BY DEF IInv
  <1>1. ASSUME NEW q \in Queries, Work(q) PROVE IInv'
    <2>1. /\ Moved(q) /\ Typed' /\ UNCHANGED <<disposed, torn>>
          /\ disposed[q] => calls[q] # <<>>
      BY <1>0, <1>1, WorkMoves
    <2>2. Hears'
      BY <1>0, <2>1, MovedHears
    <2>3. Quiet'
      BY <1>0, <2>1, MovedQuiet
    <2>4. Counted'
      BY <1>0, <2>1, MovedCounted
    <2>5. \A p \in Queries : Shows(p)'
      BY <1>0, <1>1, WorkShows
    <2> QED BY <2>1, <2>2, <2>3, <2>4, <2>5 DEF IInv
  <1>2. ASSUME NEW q \in Queries, Dispose(q) PROVE IInv'
    <2>1. Typed' /\ Hears' /\ Quiet' /\ Counted'
      BY <1>0, <1>2, DisposeKeeps
    <2>2. \A p \in Queries : Shows(p)'
      BY <1>0, <1>2, DisposeShows
    <2> QED BY <2>1, <2>2 DEF IInv
  <1>3. CASE UNCHANGED vars
    <2>1. Typed'
      BY <1>0, <1>3 DEF vars, Typed, TypeOK, Shaped, MappedHears
    <2>2. Hears' /\ Quiet'
      BY <1>0, <1>3 DEF vars, Hears, Quiet, Has, CountIn, PlacesOf, WaitFor
    <2>3. Counted'
      <3>1. Living' = Living /\ \A d \in Docs : InDocs(d)' = InDocs(d) /\ InCalls(d)' = InCalls(d)
        BY <1>3 DEF vars, Living, InDocs, InCalls, PlacesOf, WaitFor
      <3>2. \A d \in Docs : /\ Pairs(InDocs(d), Living)' = Pairs(InDocs(d), Living)
                            /\ Pairs(InCalls(d), Living)' = Pairs(InCalls(d), Living)
        BY <3>1 DEF Pairs
      <3> QED BY <1>0, <1>3, <3>2 DEF vars, Counted
    <2>4. ASSUME NEW p \in Queries PROVE Shows(p)'
      <3>1. docs' = docs /\ calls' = calls /\ last' = last /\ alone' = alone
        BY <1>3 DEF vars
      <3>2. Inserting(p)' = Inserting(p) /\ \A i \in Inserting(p) : i \in DOMAIN calls[p]
        BY <3>1 DEF Inserting
      <3> QED BY <1>0, <3>1, <3>2, ShowsSame
    <2> QED BY <2>1, <2>2, <2>3, <2>4 DEF IInv
  <1>4. Next => \E q \in Queries : Work(q) \/ Dispose(q)
    BY Zenon DEF Next, Work
  <1> QED BY <1>1, <1>2, <1>3, <1>4

LEMMA Invariant == Spec => []IInv
  <1> QED BY StartHolds, StepKeeps, PTL DEF Spec

\* The variables have their types: above all, no subscription is counted below
\* zero, and no splice puts anything but documents into a result.
THEOREM QueryTypeCorrect == Spec => []TypeOK
  <1>1. IInv => TypeOK
    BY DEF IInv, Typed
  <1> QED BY <1>1, Invariant, PTL

\* A document counts the queries that have it, as often as they have it or wait
\* for it, however calls of onChange overlap (while none was disposed of in the
\* middle of a call or before the server answered).
THEOREM CountsAreHeld == Spec => []CountIsHeld
  <1>1. IInv => CountIsHeld
    <2> SUFFICES ASSUME IInv, torn = {}, NEW d \in Docs
                 PROVE  LET living == {q \in Queries : ~ disposed[q]}
                        IN count[d] = Cardinality(UNION {{q} \X Places(q, d) : q \in living})
                                      + Cardinality(UNION {{q} \X Awaiting(q, d) : q \in living})
      BY DEF CountIsHeld
    <2>1. count[d] = Cardinality(Pairs(InDocs(d), Living)) + Cardinality(Pairs(InCalls(d), Living))
      BY DEF IInv, Counted
    <2>2. ASSUME NEW q \in Queries
          PROVE  InDocs(d)[q] = Places(q, d) /\ InCalls(d)[q] = Awaiting(q, d)
      <3>1. \A i \in DOMAIN calls[q] : calls[q][i] \in Calls
        <4>1. calls[q] \in Seq(Calls)
          BY DEF IInv, Typed, TypeOK
        <4> QED BY <4>1, LenProperties, ElementOfSeq
      <3>2. PlacesOf(docs[q], {d}) = Places(q, d)
        BY DEF PlacesOf, Places
      <3>3. PlacesOf(calls[q], WaitFor(d)) = Awaiting(q, d)
        BY <3>1 DEF PlacesOf, WaitFor, Awaiting, Inserting
      <3> QED BY <3>2, <3>3 DEF InDocs, InCalls
    <2>3. /\ Pairs(InDocs(d), Living) = UNION {{q} \X Places(q, d) : q \in Living}
          /\ Pairs(InCalls(d), Living) = UNION {{q} \X Awaiting(q, d) : q \in Living}
      <3>1. Living \subseteq Queries
        BY DEF Living
      <3> QED BY <2>2, <3>1 DEF Pairs
    <2> QED BY <2>1, <2>3 DEF Living
  <1> QED BY <1>1, Invariant, PTL

\* A query that is alive is subscribed to every document that it shows, also
\* when one call of onChange removes what another has just put in.
THEOREM HearsShown == Spec => []HearsWhatItShows
  <1>1. IInv => HearsWhatItShows
    <2> SUFFICES ASSUME IInv, NEW q \in Queries, ~ disposed[q], NEW d \in ToSet(docs[q])
                 PROVE  heard[q][d] > 0
      BY DEF HearsWhatItShows
    <2>1. Typed /\ docs[q] \in Seq(Docs) /\ heard[q] \in [Docs -> Nat]
      BY DEF IInv, Typed, TypeOK
    <2>2. d \in Docs
      BY <2>1 DEF ToSet
    <2>3. CountIn(docs[q], {d}) >= 1
      BY <2>1, CountHeld
    <2>4. heard[q][d] >= Has(q, d)
      BY <2>2 DEF IInv, Hears
    <2>5. /\ CountIn(docs[q], {d}) \in Nat /\ CountIn(calls[q], WaitFor(d)) \in Nat
          /\ heard[q][d] \in Nat
      BY <2>1, <2>2, HasNumber
    <2> QED BY <2>3, <2>4, <2>5 DEF Has
  <1> QED BY <1>1, Invariant, PTL

\* The results of a call that no other call was beside are what is shown when it
\* is done: its insertions, made one after the other, each at the index that
\* arraydiff gave it, rebuild the order of the results.
THEOREM ShowsLast == Spec => []ShowsResults
  <1>1. IInv => ShowsResults
    BY DEF IInv, Shows, ShowsResults
  <1> QED BY <1>1, Invariant, PTL
=============================================================================
