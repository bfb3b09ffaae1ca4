--------------------------- MODULE RelationsProof ---------------------------
(***************************************************************************)
(* Proofs about Relations, for any kinds and any bounds: the subject index  *)
(* and the target index describe the same links, also in the middle of a   *)
(* cascade; the parents of an exclusive kind never form a cycle; siblings   *)
(* keep their order; a cascade takes exactly those it must; and the hook   *)
(* events tell of every link.                                              *)
(***************************************************************************)
EXTENDS Relations, SequenceTheorems, FiniteSetTheorems, TLAPS

\* The links that end at an index.
Incoming(i) == {l \in LinksBySubject : l.target.index = i}

Types ==
  /\ alive \subseteq Index
  /\ gen \in [Index -> 0 .. MaxGen]
  /\ \A i \in alive : gen[i] < MaxGen
  /\ pairs \in [Index -> SUBSET Pair]
  /\ subjects \in [Kinds \X Index -> Seq(Entity)]
  /\ counts \in [Index -> Int]

\* Links join live entities, and no entity to itself.
LiveEnds ==
  \A i \in Index : \A p \in pairs[i] :
    i \in alive /\ p.target \in Live /\ p.target.index # i

\* Who is listed under a live target has the pair, and the other way round.
Listed ==
  \A k \in Kinds, j \in Index :
    /\ \A s \in Range(subjects[<<k, j>>]) :
         /\ s \in Live /\ j \in alive
         /\ [kind |-> k, target |-> Current(j)] \in pairs[s.index]
    /\ \A i \in Index :
         [kind |-> k, target |-> Current(j)] \in pairs[i]
           => Current(i) \in Range(subjects[<<k, j>>])

ListedOnce == \A x \in Kinds \X Index : IsInjective(subjects[x])

OneTarget ==
  \A i \in Index, k \in Exclusive : \A p, q \in OfKind(i, k) : p = q

Counted == \A i \in Index : counts[i] = Cardinality(Incoming(i))

IInv == Types /\ LiveEnds /\ Listed /\ ListedOnce /\ OneTarget /\ Counted

-----------------------------------------------------------------------------
(* Lists in which every element stands once.                               *)

\* Where the elements of a list without one of its places come from.
LEMMA RemoveAtFacts ==
  ASSUME NEW S, NEW list \in Seq(S), NEW n \in 1 .. Len(list)
  PROVE  LET r == RemoveAt(list, n) IN
         /\ r \in Seq(S) /\ Len(r) = Len(list) - 1
         /\ \A i \in 1 .. Len(r) : r[i] = IF i < n THEN list[i] ELSE list[i + 1]
<1> DEFINE front == SubSeq(list, 1, n - 1)
           back  == SubSeq(list, n + 1, Len(list))
<1>1. Len(list) \in Nat /\ \A i \in 1 .. Len(list) : list[i] \in S
  BY LenProperties
<1>2. /\ front \in Seq(S) /\ Len(front) = n - 1
      /\ \A i \in 1 .. n - 1 : front[i] = list[i]
  <2>1. \A i \in 1 .. n - 1 : list[i] \in S
    BY <1>1
  <2> QED
    BY <1>1, <2>1, SubSeqProperties
<1>3. /\ back \in Seq(S) /\ Len(back) = Len(list) - n
      /\ \A i \in 1 .. Len(list) - n : back[i] = list[n + i]
  <2>1. \A i \in n + 1 .. Len(list) : list[i] \in S
    BY <1>1
  <2> QED
    BY <1>1, <2>1, SubSeqProperties
<1> HIDE DEF front, back
<1>4. RemoveAt(list, n) = front \o back
  BY DEF RemoveAt, front, back
<1>5. /\ front \o back \in Seq(S)
      /\ Len(front \o back) = Len(front) + Len(back)
      /\ \A i \in 1 .. Len(front) + Len(back) :
           (front \o back)[i] = IF i <= Len(front) THEN front[i]
                                ELSE back[i - Len(front)]
  BY <1>2, <1>3, ConcatProperties
<1> DEFINE r == front \o back
<1> HIDE DEF r
<1>6. r \in Seq(S) /\ Len(r) = Len(list) - 1
  BY <1>1, <1>2, <1>3, <1>5 DEF r
<1>7. ASSUME NEW i \in 1 .. Len(r)
      PROVE  r[i] = IF i < n THEN list[i] ELSE list[i + 1]
  <2>1. CASE i < n
    BY <2>1, <1>1, <1>2, <1>3, <1>5, <1>6 DEF r
  <2>2. CASE ~(i < n)
    <3>1. r[i] = back[i - (n - 1)] /\ i - (n - 1) \in 1 .. Len(list) - n
      BY <2>2, <1>1, <1>2, <1>3, <1>5, <1>6 DEF r
    <3> QED
      BY <2>2, <3>1, <1>1, <1>3, <1>6
  <2> QED
    BY <2>1, <2>2
<1> QED
  BY <1>4, <1>6, <1>7 DEF r

\* Where the elements of a list with a new one come from.
LEMMA InsertAtFacts ==
  ASSUME NEW S, NEW list \in Seq(S), NEW s \in S, NEW n \in 1 .. Len(list) + 1
  PROVE  LET r == InsertAt(list, n, s) IN
         /\ r \in Seq(S) /\ Len(r) = Len(list) + 1
         /\ \A i \in 1 .. Len(r) :
              r[i] = IF i < n THEN list[i] ELSE IF i = n THEN s ELSE list[i - 1]
<1> DEFINE front == SubSeq(list, 1, n - 1)
           back  == SubSeq(list, n, Len(list))
<1>1. Len(list) \in Nat /\ \A i \in 1 .. Len(list) : list[i] \in S
  BY LenProperties
<1>2. /\ front \in Seq(S) /\ Len(front) = n - 1
      /\ \A i \in 1 .. n - 1 : front[i] = list[i]
  <2>1. \A i \in 1 .. n - 1 : list[i] \in S
    BY <1>1
  <2> QED
    BY <1>1, <2>1, SubSeqProperties
<1>3. /\ back \in Seq(S) /\ Len(back) = Len(list) - n + 1
      /\ \A i \in 1 .. Len(list) - n + 1 : back[i] = list[n + i - 1]
  <2>1. \A i \in n .. Len(list) : list[i] \in S
    BY <1>1
  <2> QED
    BY <1>1, <2>1, SubSeqProperties
<1>4. <<s>> \in Seq(S) /\ Len(<<s>>) = 1 /\ <<s>>[1] = s
  OBVIOUS
<1> HIDE DEF front, back
<1> DEFINE most == front \o <<s>>
           r    == most \o back
<1>5. /\ most \in Seq(S) /\ Len(most) = n
      /\ \A i \in 1 .. n : most[i] = IF i < n THEN list[i] ELSE s
  BY <1>1, <1>2, <1>4, ConcatProperties
<1>6. InsertAt(list, n, s) = r
  BY DEF InsertAt, front, back
<1> HIDE DEF most
<1>7. /\ most \o back \in Seq(S)
      /\ Len(most \o back) = Len(most) + Len(back)
      /\ \A i \in 1 .. Len(most) + Len(back) :
           (most \o back)[i] = IF i <= Len(most) THEN most[i]
                               ELSE back[i - Len(most)]
  <2>1. most \in Seq(S) /\ back \in Seq(S)
    BY <1>3, <1>5
  <2> QED
    BY <2>1, ConcatProperties
<1> HIDE DEF r
<1>8. r \in Seq(S) /\ Len(r) = Len(list) + 1
  BY <1>1, <1>3, <1>5, <1>7 DEF r
<1>9. ASSUME NEW i \in 1 .. Len(r)
      PROVE  r[i] = IF i < n THEN list[i] ELSE IF i = n THEN s ELSE list[i - 1]
  <2>1. CASE i <= n
    BY <2>1, <1>1, <1>3, <1>5, <1>7, <1>8 DEF r
  <2>2. CASE i > n
    <3>1. r[i] = back[i - n] /\ i - n \in 1 .. Len(list) - n + 1
      BY <2>2, <1>1, <1>3, <1>5, <1>7, <1>8 DEF r
    <3> QED
      BY <2>2, <3>1, <1>1, <1>3, <1>8
  <2> QED
    BY <2>1, <2>2, <1>8
<1> QED
  BY <1>6, <1>8, <1>9

\* Taking a subject off a list leaves the others, once each and in their order.
LEMMA UnlistedFacts ==
  ASSUME NEW S, NEW list \in Seq(S), IsInjective(list), NEW s
  PROVE  LET r == Unlisted(list, s) IN
         /\ r \in Seq(S) /\ IsInjective(r)
         /\ Range(r) = Range(list) \ {s}
         /\ \A a, b : Precedes(r, a, b) => Precedes(list, a, b)
<1>1. CASE ~ \E i \in 1 .. Len(list) : list[i] = s
  BY <1>1, RangeEquality DEF Unlisted, RemoveFirst
<1>2. ASSUME NEW n \in 1 .. Len(list), list[n] = s
      PROVE  LET r == Unlisted(list, s) IN
             /\ r \in Seq(S) /\ IsInjective(r)
             /\ Range(r) = Range(list) \ {s}
             /\ \A a, b : Precedes(r, a, b) => Precedes(list, a, b)
  <2> DEFINE r == RemoveAt(list, n)
  <2>1. Len(list) \in Nat /\ DOMAIN list = 1 .. Len(list)
    BY LenProperties
  <2>2. {i \in 1 .. Len(list) : list[i] = s} = {n}
    BY <1>2, <2>1 DEF IsInjective
  <2>3. SelectInSeq(list, LAMBDA v : v = s) = n
    BY <2>2, <2>1 DEF SelectInSeq, Min
  <2>4. Unlisted(list, s) = r
    BY <1>2, <2>3 DEF Unlisted, RemoveFirst
  <2>5. /\ r \in Seq(S) /\ Len(r) = Len(list) - 1
        /\ \A i \in 1 .. Len(r) : r[i] = IF i < n THEN list[i] ELSE list[i + 1]
    BY RemoveAtFacts
  <2>6. DOMAIN r = 1 .. Len(r)
    BY <2>5, LenProperties
  <2> HIDE DEF r
  <2>7. IsInjective(r)
    BY <2>1, <2>5, <2>6 DEF IsInjective
  <2>8. Range(r) = Range(list) \ {s}
    <3>1. ASSUME NEW i \in 1 .. Len(r)
          PROVE  r[i] \in Range(list) \ {s}
      BY <1>2, <2>1, <2>5 DEF Range, IsInjective
    <3>2. ASSUME NEW i \in 1 .. Len(list), i # n
          PROVE  list[i] \in Range(r)
      <4>1. CASE i < n
        BY <4>1, <2>1, <2>5, <2>6 DEF Range
      <4>2. CASE i > n
        <5>1. i - 1 \in 1 .. Len(r) /\ r[i - 1] = list[i]
          BY <4>2, <2>1, <2>5
        <5> QED
          BY <5>1, <2>6 DEF Range
      <4> QED
        BY <3>2, <4>1, <4>2, <2>1
    <3> QED
      BY <1>2, <2>1, <2>6, <3>1, <3>2 DEF Range
  <2>9. ASSUME NEW a, NEW b, Precedes(r, a, b)
        PROVE  Precedes(list, a, b)
    <3>1. PICK i \in 1 .. Len(r), j \in 1 .. Len(r) : i < j /\ r[i] = a /\ r[j] = b
      BY <2>9 DEF Precedes
    <3>2. \E x, y \in 1 .. Len(list) : x < y /\ list[x] = a /\ list[y] = b
      <4> DEFINE x == IF i < n THEN i ELSE i + 1
                 y == IF j < n THEN j ELSE j + 1
      <4>1. x \in 1 .. Len(list) /\ y \in 1 .. Len(list) /\ x < y
        BY <3>1, <2>1, <2>5
      <4>2. list[x] = a /\ list[y] = b
        BY <3>1, <2>5
      <4> QED
        BY <4>1, <4>2
    <3> QED
      BY <3>2 DEF Precedes
  <2> QED
    BY <2>4, <2>5, <2>7, <2>8, <2>9
<1> QED
  BY <1>1, <1>2

\* A subject that is placed stands once, among the others in their order.
LEMMA PlacedFacts ==
  ASSUME NEW S, NEW list \in Seq(S), IsInjective(list), NEW s \in S,
         s \notin Range(list), NEW at \in Nat
  PROVE  LET r == Placed(list, s, at) IN
         /\ r \in Seq(S) /\ IsInjective(r)
         /\ Range(r) = Range(list) \cup {s}
         /\ \A a, b : Precedes(r, a, b) /\ a # s /\ b # s => Precedes(list, a, b)
<1> DEFINE n == (IF at <= Len(list) THEN at ELSE Len(list)) + 1
           r == InsertAt(list, n, s)
<1>1. Len(list) \in Nat /\ DOMAIN list = 1 .. Len(list)
  BY LenProperties
<1>2. n \in 1 .. Len(list) + 1
  BY <1>1
<1> HIDE DEF n
<1>3. Placed(list, s, at) = r
  BY DEF Placed, n
<1>4. /\ r \in Seq(S) /\ Len(r) = Len(list) + 1
      /\ \A i \in 1 .. Len(r) :
           r[i] = IF i < n THEN list[i] ELSE IF i = n THEN s ELSE list[i - 1]
  BY <1>2, InsertAtFacts
<1>5. DOMAIN r = 1 .. Len(r)
  BY <1>4, LenProperties
<1> HIDE DEF r
<1>6. \A i \in 1 .. Len(list) : list[i] # s
  BY <1>1 DEF Range
<1>7. IsInjective(r)
  <2> SUFFICES ASSUME NEW i \in 1 .. Len(r), NEW j \in 1 .. Len(r), r[i] = r[j], i < j
               PROVE  FALSE
    BY <1>1, <1>4, <1>5 DEF IsInjective
  <2>1. CASE i = n \/ j = n
    <3>1. CASE i = n
      <4>1. r[i] = s /\ r[j] = list[j - 1] /\ j - 1 \in 1 .. Len(list)
        BY <3>1, <1>1, <1>2, <1>4
      <4> QED
        BY <4>1, <1>6
    <3>2. CASE j = n
      <4>1. r[j] = s /\ r[i] = list[i] /\ i \in 1 .. Len(list)
        BY <3>2, <1>1, <1>2, <1>4
      <4> QED
        BY <4>1, <1>6
    <3> QED
      BY <2>1, <3>1, <3>2
  <2>2. CASE i # n /\ j # n
    <3> DEFINE x == IF i < n THEN i ELSE i - 1
               y == IF j < n THEN j ELSE j - 1
    <3>1. x \in 1 .. Len(list) /\ y \in 1 .. Len(list) /\ x # y
      BY <2>2, <1>1, <1>2, <1>4
    <3>2. list[x] = list[y]
      BY <2>2, <1>1, <1>2, <1>4
    <3> QED
      BY <3>1, <3>2, <1>1 DEF IsInjective
  <2> QED
    BY <2>1, <2>2
<1>8. Range(r) = Range(list) \cup {s}
  <2>1. ASSUME NEW i \in 1 .. Len(r)
        PROVE  r[i] \in Range(list) \cup {s}
    <3>1. \/ r[i] = s
          \/ \E x \in 1 .. Len(list) : r[i] = list[x]
      BY <1>1, <1>2, <1>4
    <3> QED
      BY <3>1, <1>1 DEF Range
  <2>2. ASSUME NEW i \in 1 .. Len(list)
        PROVE  list[i] \in Range(r)
    <3>1. CASE i < n
      BY <3>1, <1>1, <1>4, <1>5 DEF Range
    <3>2. CASE i >= n
      <4>1. i + 1 \in 1 .. Len(r) /\ r[i + 1] = list[i]
        BY <3>2, <1>1, <1>2, <1>4
      <4> QED
        BY <4>1, <1>5 DEF Range
    <3> QED
      BY <3>1, <3>2, <1>1, <1>2
  <2>3. s \in Range(r)
    <3>1. n \in 1 .. Len(r) /\ r[n] = s
      BY <1>1, <1>2, <1>4
    <3> QED
      BY <3>1, <1>5 DEF Range
  <2> QED
    BY <1>1, <1>5, <2>1, <2>2, <2>3 DEF Range
<1>9. ASSUME NEW a, NEW b, Precedes(r, a, b), a # s, b # s
      PROVE  Precedes(list, a, b)
  <2>1. PICK i \in 1 .. Len(r), j \in 1 .. Len(r) : i < j /\ r[i] = a /\ r[j] = b
    BY <1>9 DEF Precedes
  <2> DEFINE x == IF i < n THEN i ELSE i - 1
             y == IF j < n THEN j ELSE j - 1
  <2>2. i # n /\ j # n
    BY <1>9, <2>1, <1>4
  <2>3. x \in 1 .. Len(list) /\ y \in 1 .. Len(list) /\ x < y
    BY <2>1, <2>2, <1>1, <1>2, <1>4
  <2>4. list[x] = a /\ list[y] = b
    BY <2>1, <2>2, <1>4, <1>1, <1>2
  <2> QED
    BY <2>3, <2>4 DEF Precedes
<1> QED
  BY <1>3, <1>4, <1>7, <1>8, <1>9

-----------------------------------------------------------------------------
(* Entities, pairs and links.                                              *)

\* What a link of the subject index is.
LEMMA LinkFacts ==
  /\ \A l : l \in LinksBySubject
             <=> \E i \in Index : \E p \in pairs[i] :
                   l = [kind |-> p.kind, subject |-> Current(i), target |-> p.target]
  /\ \A i \in Index : \A p \in pairs[i] : Link(p.kind, Current(i), p.target) \in LinksBySubject
BY DEF LinksBySubject, Link

\* There are finitely many links, and so at each index.
LEMMA FiniteLinks ==
  ASSUME Types
  PROVE  /\ IsFiniteSet(LinksBySubject)
         /\ \A i \in Index : IsFiniteSet(Incoming(i))
<1> DEFINE E == Index \X (0 .. MaxGen)
           D == Kinds \X (Index \X E)
           f == [d \in D |-> Link(d[1], Current(d[2][1]),
                                  [index |-> d[2][2][1], gen |-> d[2][2][2]])]
           R == {f[d] : d \in D}
<1>1. IsFiniteSet(Index) /\ IsFiniteSet(0 .. MaxGen) /\ IsFiniteSet(Kinds)
  BY RelationsAssumption, FS_Interval DEF Index
<1>2. IsFiniteSet(E)
  BY <1>1, FS_Product
<1>3. IsFiniteSet(Index \X E)
  BY <1>1, <1>2, FS_Product
<1>4. IsFiniteSet(D)
  BY <1>1, <1>3, FS_Product
<1>5. f \in Surjection(D, R)
  BY DEF Surjection
<1>6. IsFiniteSet(R)
  BY <1>4, <1>5, FS_Surjection
<1>7. LinksBySubject \subseteq R
  <2> SUFFICES ASSUME NEW i \in Index, NEW p \in pairs[i]
               PROVE  Link(p.kind, Current(i), p.target) \in R
    BY DEF LinksBySubject
  <2>1. p.kind \in Kinds /\ p.target \in Entity
    BY DEF Types, Pair
  <2>2. /\ p.target.index \in Index /\ p.target.gen \in 0 .. MaxGen
        /\ p.target = [index |-> p.target.index, gen |-> p.target.gen]
    BY <2>1 DEF Entity
  <2>3. <<p.kind, <<i, <<p.target.index, p.target.gen>>>>>> \in D
    BY <2>1, <2>2
  <2>4. f[<<p.kind, <<i, <<p.target.index, p.target.gen>>>>>>]
          = Link(p.kind, Current(i), p.target)
    BY <2>2, <2>3
  <2> QED
    BY <2>3, <2>4
<1>8. IsFiniteSet(LinksBySubject)
  BY <1>6, <1>7, FS_Subset
<1>9. \A i \in Index : Incoming(i) \in SUBSET LinksBySubject
  BY DEF Incoming
<1> QED
  BY <1>8, <1>9, FS_Subset

\* A live entity is the current one of its index.
LEMMA LiveFacts ==
  ASSUME Types
  PROVE  /\ \A e \in Live : /\ e \in Entity /\ e.index \in alive
                            /\ e.index \in Index /\ e = Current(e.index)
         /\ \A i \in alive : Current(i) \in Live /\ Current(i).index = i
         /\ \A i \in Index : Current(i) \in Entity /\ Current(i).index = i
         /\ \A d, e \in Live : d.index = e.index => d = e
BY DEF Types, Live, Current, Entity

\* What the invariant says, in the words of the runs.
LEMMA IInvIndexesAgree == IInv => IndexesAgree
<1> SUFFICES ASSUME IInv PROVE IndexesAgree
  OBVIOUS
<1> USE DEF IInv
<1>1. LinksBySubject \subseteq LinksByTarget
  <2> SUFFICES ASSUME NEW i \in Index, NEW p \in pairs[i]
               PROVE  Link(p.kind, Current(i), p.target) \in LinksByTarget
    BY DEF LinksBySubject
  <2>1. p \in Pair /\ p.target \in Live
    BY DEF Types, LiveEnds
  <2>2. p.kind \in Kinds /\ p.target.index \in Index /\ p.target = Current(p.target.index)
    BY <2>1, LiveFacts DEF Pair
  <2>3. p = [kind |-> p.kind, target |-> Current(p.target.index)]
    BY <2>1, <2>2 DEF Pair
  <2>4. Current(i) \in Range(subjects[<<p.kind, p.target.index>>])
    BY <2>2, <2>3 DEF Listed
  <2> DEFINE x == <<p.kind, p.target.index>>
  <2>5. x \in Kinds \X Index
    BY <2>2
  <2>6. Link(x[1], Current(i), Current(x[2])) = Link(p.kind, Current(i), p.target)
    BY <2>2
  <2> QED
    BY <2>4, <2>5, <2>6 DEF LinksByTarget
<1>2. LinksByTarget \subseteq LinksBySubject
  <2> SUFFICES ASSUME NEW k \in Kinds, NEW j \in Index, NEW s \in Range(subjects[<<k, j>>])
               PROVE  Link(k, s, Current(j)) \in LinksBySubject
    BY DEF LinksByTarget
  <2> DEFINE p == [kind |-> k, target |-> Current(j)]
  <2>1. s \in Live /\ p \in pairs[s.index]
    BY DEF Listed
  <2>2. s.index \in Index /\ s = Current(s.index)
    BY <2>1, LiveFacts
  <2> QED
    BY <2>1, <2>2 DEF LinksBySubject
<1>3. \A l \in LinksBySubject : l.subject \in Live /\ l.target \in Live
  <2> SUFFICES ASSUME NEW i \in Index, NEW p \in pairs[i]
               PROVE  Current(i) \in Live /\ p.target \in Live
    BY LinkFacts
  <2> QED
    BY LiveFacts DEF LiveEnds
<1>4. ASSUME NEW i \in Index, NEW k \in Exclusive
      PROVE  Cardinality(OfKind(i, k)) <= 1
  <2>1. CASE OfKind(i, k) = {}
    BY <2>1, FS_EmptySet
  <2>2. ASSUME NEW p \in OfKind(i, k)
        PROVE  Cardinality(OfKind(i, k)) <= 1
    <3>1. OfKind(i, k) = {p}
      BY DEF OneTarget
    <3> QED
      BY <3>1, FS_Singleton
  <2> QED
    BY <2>1, <2>2
<1> QED
  BY <1>1, <1>2, <1>3, <1>4 DEF IndexesAgree, ListedOnce, Counted, Incoming

\* The invariant holds of an empty world.
LEMMA InitIInv == Init => IInv
<1> SUFFICES ASSUME Init PROVE IInv
  OBVIOUS
<1>1. Types
  BY RelationsAssumption DEF Init, Types, Index
<1>2. LinksBySubject = {}
  BY DEF LinksBySubject, Init
<1>3. Counted
  <2>1. \A i \in Index : Incoming(i) = {}
    BY <1>2 DEF Incoming
  <2> QED
    BY <2>1, FS_EmptySet DEF Counted, Init
<1>4. LiveEnds /\ OneTarget
  BY DEF LiveEnds, OneTarget, OfKind, Init
<1>5. \A x \in Kinds \X Index : subjects[x] = <<>>
  BY DEF Init
<1>6. Range(<<>>) = {} /\ IsInjective(<<>>)
  BY DEF Range, IsInjective
<1>7. Listed
  BY <1>5, <1>6 DEF Listed, Init
<1>8. ListedOnce
  BY <1>5, <1>6 DEF ListedOnce
<1> QED
  BY <1>1, <1>3, <1>4, <1>7, <1>8 DEF IInv

-----------------------------------------------------------------------------
(* The operations that leave the entities alone, one lemma each.           *)

\* The links are what the pairs and the generations say.
LEMMA SameLinks ==
  ASSUME pairs' = pairs, gen' = gen
  PROVE  /\ LinksBySubject' = LinksBySubject
         /\ \A i \in Index : Current(i)' = Current(i) /\ Incoming(i)' = Incoming(i)
BY DEF LinksBySubject, Current, Incoming

\* A new entity has no links, and its index none left from before.
LEMMA SpawnStep ==
  ASSUME IInv, NEW i \in Index, Spawn(i) PROVE IInv'
<1> USE DEF IInv
<1>1. /\ gen' = gen /\ pairs' = pairs /\ subjects' = subjects /\ counts' = counts
      /\ alive' = alive \cup {i} /\ gen[i] < MaxGen
  BY DEF Spawn, indexVars
<1>2. Live \subseteq Live' /\ \A j \in Index : Current(j)' = Current(j)
  BY <1>1, SameLinks DEF Live, Current
<1>3. Types'
  BY <1>1 DEF Types
<1>4. LiveEnds'
  BY <1>1, <1>2 DEF LiveEnds
<1>5. Listed'
  BY <1>1, <1>2 DEF Listed
<1>6. ListedOnce' /\ OneTarget'
  BY <1>1 DEF ListedOnce, OneTarget, OfKind
<1>7. Counted'
  BY <1>1, SameLinks DEF Counted
<1> QED
  BY <1>3, <1>4, <1>5, <1>6, <1>7

\* A link that is there ends at live entities, and its subject is listed.
LEMMA KnownLink ==
  ASSUME IInv, NEW s, NEW k, NEW t, s.index \in Index,
         [kind |-> k, target |-> t] \in pairs[s.index]
  PROVE  /\ k \in Kinds /\ t \in Live /\ t.index \in Index /\ t.index # s.index
         /\ s.index \in alive
         /\ Current(s.index) \in Range(subjects[<<k, t.index>>])
<1> DEFINE p == [kind |-> k, target |-> t]
<1>1. p \in Pair /\ p.target \in Live /\ p.target.index # s.index /\ s.index \in alive
  BY DEF IInv, Types, LiveEnds
<1>2. k \in Kinds /\ t \in Live /\ t.index # s.index
  BY <1>1 DEF Pair
<1>3. t.index \in Index /\ t = Current(t.index)
  BY <1>2, LiveFacts DEF IInv
<1> QED
  BY <1>1, <1>2, <1>3 DEF IInv, Listed

\* What remove_relation does to a link of a live subject.
RemoveDoes(s, k, t) ==
  LET x == <<k, t.index>> IN
  /\ s \in Live /\ t \in Live /\ k \in Kinds /\ x \in Kinds \X Index
  /\ alive' = alive /\ gen' = gen
  /\ [kind |-> k, target |-> t] \in pairs[s.index]
  /\ pairs' = [pairs EXCEPT ![s.index] = @ \ {[kind |-> k, target |-> t]}]
  /\ subjects' = [subjects EXCEPT ![x] = Unlisted(subjects[x], s)]
  /\ counts' = [counts EXCEPT ![t.index] = @ - 1]
  /\ s \in Range(subjects[x])

\* remove_relation does that.
LEMMA RemoveRelationEffect ==
  ASSUME IInv, ~StaleHandles, NEW s, NEW k, NEW t, s.index \in Index,
         RemoveRelation(s, k, t)
  PROVE  RemoveDoes(s, k, t)
<1>1. s \in Live /\ [kind |-> k, target |-> t] \in pairs[s.index]
  BY DEF RemoveRelation
<1>2. s = Current(s.index)
  BY <1>1, LiveFacts DEF IInv
<1>3. /\ k \in Kinds /\ t \in Live /\ t.index \in Index
      /\ s \in Range(subjects[<<k, t.index>>])
  BY <1>1, <1>2, KnownLink
<1>4. <<k, t.index>> \in Kinds \X Index
  BY <1>3
<1>5. Contains(subjects[<<k, t.index>>], s)
  <2>1. subjects[<<k, t.index>>] \in Seq(Entity)
    BY <1>4 DEF IInv, Types
  <2> QED
    BY <1>3, <2>1, RangeEquality DEF Contains
<1> QED
  BY <1>1, <1>3, <1>4, <1>5 DEF RemoveRelation, RemoveDoes

\* ... and keeps the invariant.
LEMMA RemoveRelationStep ==
  ASSUME IInv, ~StaleHandles, NEW s, NEW k, NEW t, s.index \in Index,
         RemoveRelation(s, k, t)
  PROVE  IInv'
<1> DEFINE x == <<k, t.index>>
           p == [kind |-> k, target |-> t]
           l == [kind |-> k, subject |-> s, target |-> t]
           U == Unlisted(subjects[x], s)
<1> USE DEF IInv
<1>1. /\ s \in Live /\ t \in Live /\ k \in Kinds /\ x \in Kinds \X Index
      /\ alive' = alive /\ gen' = gen /\ p \in pairs[s.index]
      /\ pairs' = [pairs EXCEPT ![s.index] = @ \ {p}]
      /\ subjects' = [subjects EXCEPT ![x] = U]
      /\ counts' = [counts EXCEPT ![t.index] = @ - 1]
      /\ s \in Range(subjects[x])
  <2>1. RemoveDoes(s, k, t)
    BY RemoveRelationEffect
  <2> QED
    BY <2>1 DEF RemoveDoes
<1>2. /\ s = Current(s.index) /\ t = Current(t.index) /\ s \in Entity
      /\ s.index \in alive /\ t.index \in Index
  BY <1>1, LiveFacts
<1>3. /\ subjects[x] \in Seq(Entity) /\ IsInjective(subjects[x])
  BY <1>1 DEF Types, ListedOnce
<1>4. U \in Seq(Entity) /\ IsInjective(U) /\ Range(U) = Range(subjects[x]) \ {s}
  BY <1>3, UnlistedFacts
<1> HIDE DEF U
<1>5. Live' = Live /\ \A i \in Index : Current(i)' = Current(i)
  BY <1>1 DEF Live, Current
<1>6. /\ DOMAIN pairs = Index
      /\ \A i \in Index : pairs'[i] = IF i = s.index THEN pairs[i] \ {p} ELSE pairs[i]
  BY <1>1, <1>2 DEF Types
<1>7. \A y \in Kinds \X Index : subjects'[y] = IF y = x THEN U ELSE subjects[y]
  BY <1>1 DEF Types
<1>8. Types'
  <2>1. pairs' \in [Index -> SUBSET Pair]
    BY <1>1, <1>6 DEF Types
  <2>2. subjects' \in [Kinds \X Index -> Seq(Entity)]
    BY <1>1, <1>4 DEF Types
  <2>3. counts' \in [Index -> Int]
    BY <1>1, <1>2 DEF Types
  <2> QED
    BY <1>1, <2>1, <2>2, <2>3 DEF Types
<1>9. LiveEnds'
  BY <1>1, <1>5, <1>6 DEF LiveEnds
<1>10. Listed'
  <2> SUFFICES ASSUME NEW h \in Kinds, NEW j \in Index
               PROVE  /\ \A v \in Range(subjects'[<<h, j>>]) :
                           /\ v \in Live /\ j \in alive
                           /\ [kind |-> h, target |-> Current(j)] \in pairs'[v.index]
                      /\ \A i \in Index :
                           [kind |-> h, target |-> Current(j)] \in pairs'[i]
                             => Current(i) \in Range(subjects'[<<h, j>>])
    BY <1>1, <1>5 DEF Listed
  <2>1. <<h, j>> = x <=> [kind |-> h, target |-> Current(j)] = p
    BY <1>2, LiveFacts
  <2>2. Range(subjects'[<<h, j>>])
          = IF <<h, j>> = x THEN Range(subjects[<<h, j>>]) \ {s} ELSE Range(subjects[<<h, j>>])
    BY <1>4, <1>7
  <2>3. ASSUME NEW v \in Range(subjects'[<<h, j>>])
        PROVE  /\ v \in Live /\ j \in alive
               /\ [kind |-> h, target |-> Current(j)] \in pairs'[v.index]
    <3>1. v \in Live /\ j \in alive /\ [kind |-> h, target |-> Current(j)] \in pairs[v.index]
      BY <2>2 DEF Listed
    <3>2. v.index \in Index /\ (v.index = s.index => v = s)
      BY <3>1, <1>1, LiveFacts
    <3> QED
      BY <3>1, <3>2, <2>1, <2>2, <1>6
  <2>4. ASSUME NEW i \in Index, [kind |-> h, target |-> Current(j)] \in pairs'[i]
        PROVE  Current(i) \in Range(subjects'[<<h, j>>])
    <3>1. Current(i) \in Range(subjects[<<h, j>>])
      BY <2>4, <1>6 DEF Listed
    <3>2. Current(i) = s => i = s.index
      BY LiveFacts
    <3> QED
      BY <3>1, <3>2, <2>1, <2>2, <2>4, <1>6
  <2> QED
    BY <2>3, <2>4
<1>11. ListedOnce' /\ OneTarget'
  BY <1>1, <1>4, <1>6, <1>7 DEF ListedOnce, OneTarget, OfKind
<1>12. LinksBySubject' = LinksBySubject \ {l}
  <2>1. \A i \in Index : \A q \in pairs[i] :
          [kind |-> q.kind, subject |-> Current(i), target |-> q.target] = l
            <=> i = s.index /\ q = p
    BY <1>2, LiveFacts DEF Types, Pair
  <2>2. \A m : m \in LinksBySubject'
               <=> \E i \in Index : \E q \in pairs'[i] :
                     m = [kind |-> q.kind, subject |-> Current(i), target |-> q.target]
    BY <1>5 DEF LinksBySubject, Link
  <2>3. ASSUME NEW m \in LinksBySubject' PROVE m \in LinksBySubject \ {l}
    <3>1. PICK i \in Index : \E q \in pairs'[i] :
            m = [kind |-> q.kind, subject |-> Current(i), target |-> q.target]
      BY <2>2, <2>3
    <3>2. PICK q \in pairs'[i] :
            m = [kind |-> q.kind, subject |-> Current(i), target |-> q.target]
      BY <3>1
    <3>3. q \in pairs[i] /\ ~(i = s.index /\ q = p)
      BY <3>2, <1>6
    <3>4. m \in LinksBySubject
      BY <3>2, <3>3, LinkFacts
    <3>5. m # l
      BY <3>2, <3>3, <2>1
    <3> QED
      BY <3>4, <3>5
  <2>4. ASSUME NEW m \in LinksBySubject, m # l PROVE m \in LinksBySubject'
    <3>1. PICK i \in Index : \E q \in pairs[i] :
            m = [kind |-> q.kind, subject |-> Current(i), target |-> q.target]
      BY LinkFacts
    <3>2. \E q \in pairs'[i] :
            m = [kind |-> q.kind, subject |-> Current(i), target |-> q.target]
      BY <3>1, <2>4, <1>2, <1>6, <2>1
    <3> QED
      BY <3>1, <3>2, <2>2
  <2> QED
    BY <2>3, <2>4
<1>13. Counted'
  <2> SUFFICES ASSUME NEW i \in Index PROVE counts'[i] = Cardinality(Incoming(i)')
    BY DEF Counted
  <2>1. Incoming(i)' = IF i = t.index THEN Incoming(i) \ {l} ELSE Incoming(i)
    BY <1>12 DEF Incoming
  <2>2. l \in LinksBySubject
    BY <1>1, <1>2, LinkFacts
  <2>3. CASE i = t.index
    <3>1. l \in Incoming(i) /\ IsFiniteSet(Incoming(i))
      BY <2>2, <2>3, FiniteLinks DEF Incoming
    <3>2. Cardinality(Incoming(i) \ {l}) = Cardinality(Incoming(i)) - 1
      BY <3>1, FS_RemoveElement
    <3> QED
      BY <2>1, <2>3, <3>2, <1>1 DEF Counted, Types
  <2>4. CASE i # t.index
    BY <2>1, <2>4, <1>1 DEF Counted, Types
  <2> QED
    BY <2>3, <2>4
<1> QED
  BY <1>8, <1>9, <1>10, <1>11, <1>13

\* What set_relation_index does to the list of the target.
LEMMA SetRelationIndexEffect ==
  ASSUME IInv, NEW s, NEW k, NEW t, NEW at \in Nat, SetRelationIndex(s, k, t, at)
  PROVE  LET x == <<k, t.index>> IN
         /\ x \in Kinds \X Index
         /\ alive' = alive /\ gen' = gen /\ pairs' = pairs /\ counts' = counts
         /\ subjects' \in [Kinds \X Index -> Seq(Entity)]
         /\ \A y \in Kinds \X Index : /\ Range(subjects'[y]) = Range(subjects[y])
                                      /\ IsInjective(subjects'[y])
<1> DEFINE x == <<k, t.index>>
           U == Unlisted(subjects[x], s)
           P == Placed(U, s, at)
<1>1. /\ s \in Live /\ t \in Live /\ [kind |-> k, target |-> t] \in pairs[s.index]
      /\ alive' = alive /\ gen' = gen /\ pairs' = pairs /\ counts' = counts
      /\ subjects' = [subjects EXCEPT ![x] = P]
  BY DEF SetRelationIndex, Unlisted
<1>2. s.index \in Index /\ s \in Entity /\ s = Current(s.index)
  BY <1>1, LiveFacts DEF IInv
<1>3. k \in Kinds /\ t.index \in Index /\ s \in Range(subjects[x])
  BY <1>1, <1>2, KnownLink
<1>4. x \in Kinds \X Index
  BY <1>3
<1>5. subjects[x] \in Seq(Entity) /\ IsInjective(subjects[x])
  BY <1>4 DEF IInv, Types, ListedOnce
<1>6. U \in Seq(Entity) /\ IsInjective(U) /\ Range(U) = Range(subjects[x]) \ {s}
  BY <1>5, UnlistedFacts
<1> HIDE DEF U
<1>7. P \in Seq(Entity) /\ IsInjective(P) /\ Range(P) = Range(U) \cup {s}
  <2>1. s \notin Range(U)
    BY <1>6
  <2>2. U \in Seq(Entity) /\ IsInjective(U) /\ s \in Entity
    BY <1>2, <1>6
  <2>3. /\ P \in Seq(Entity) /\ IsInjective(P)
        /\ Range(P) = Range(U) \cup {s}
        /\ \A a, b : Precedes(P, a, b) /\ a # s /\ b # s => Precedes(U, a, b)
    BY <2>1, <2>2, PlacedFacts, Zenon
  <2> QED
    BY <2>3
<1> HIDE DEF P
<1>8. Range(P) = Range(subjects[x])
  BY <1>3, <1>6, <1>7
<1>9. \A y \in Kinds \X Index : subjects'[y] = IF y = x THEN P ELSE subjects[y]
  BY <1>1 DEF IInv, Types
<1> QED
  BY <1>1, <1>4, <1>7, <1>8, <1>9 DEF IInv, Types, ListedOnce

\* ... so it keeps the invariant.
LEMMA SetRelationIndexStep ==
  ASSUME IInv, NEW s, NEW k, NEW t, NEW at \in Nat, SetRelationIndex(s, k, t, at)
  PROVE  IInv'
<1> USE DEF IInv
<1>1. /\ alive' = alive /\ gen' = gen /\ pairs' = pairs /\ counts' = counts
      /\ subjects' \in [Kinds \X Index -> Seq(Entity)]
      /\ \A y \in Kinds \X Index : /\ Range(subjects'[y]) = Range(subjects[y])
                                   /\ IsInjective(subjects'[y])
  BY SetRelationIndexEffect
<1>2. Live' = Live /\ \A i \in Index : Current(i)' = Current(i)
  BY <1>1 DEF Live, Current
<1>3. Types' /\ LiveEnds' /\ OneTarget' /\ ListedOnce'
  BY <1>1, <1>2 DEF Types, LiveEnds, OneTarget, OfKind, ListedOnce
<1>4. Listed'
  BY <1>1, <1>2 DEF Listed
<1>5. Counted'
  BY <1>1, SameLinks DEF Counted
<1> QED
  BY <1>3, <1>4, <1>5

\* Despawn and SkipDead leave entities and links alone.
LEMMA StackStep ==
  ASSUME IInv, alive' = alive, gen' = gen, pairs' = pairs, subjects' = subjects,
         counts' = counts
  PROVE  IInv'
<1> USE DEF IInv
<1>1. Live' = Live /\ \A i \in Index : Current(i)' = Current(i)
  BY DEF Live, Current
<1>2. Types' /\ LiveEnds' /\ OneTarget' /\ ListedOnce'
  BY <1>1 DEF Types, LiveEnds, OneTarget, OfKind, ListedOnce
<1>3. Listed'
  BY <1>1 DEF Listed
<1>4. Counted'
  BY SameLinks DEF Counted
<1> QED
  BY <1>2, <1>3, <1>4

\* An exclusive kind gives up the one target it has.
LEMMA ReplacedFacts ==
  ASSUME IInv, NEW s, s.index \in Index, NEW k \in Kinds
  PROVE  /\ k \in Exclusive => Replaced(s, k) = OfKind(s.index, k)
         /\ k \notin Exclusive => Replaced(s, k) = {}
         /\ Replaced(s, k) \subseteq OfKind(s.index, k)
         /\ Replaced(s, k) = {} \/ \E q \in OfKind(s.index, k) : Replaced(s, k) = {q}
<1>1. CASE k \notin Exclusive
  BY <1>1 DEF Replaced
<1>2. CASE k \in Exclusive /\ OfKind(s.index, k) = {}
  BY <1>2 DEF Replaced
<1>3. ASSUME k \in Exclusive, NEW q \in OfKind(s.index, k)
      PROVE  Replaced(s, k) = {q} /\ OfKind(s.index, k) = {q}
  <2>1. OfKind(s.index, k) = {q}
    BY <1>3 DEF IInv, OneTarget
  <2>2. q.target \in Entity
    BY DEF OfKind, IInv, Types, Pair
  <2>3. q.target.index \in Int /\ q.target.gen \in Int
    BY <2>2 DEF Entity, Index
  <2>4. Before(q.target, q.target)
    BY <2>3 DEF Before
  <2>5. First(s.index, k) = q
    BY <2>1, <2>4 DEF First
  <2> QED
    BY <1>3, <2>1, <2>5 DEF Replaced
<1> QED
  BY <1>1, <1>2, <1>3

\* What add_relation does: the new pair takes the place of the old one, if the
\* kind is exclusive, in both indexes.
AddDoes(s, k, t) ==
  LET old == Replaced(s, k)
      new == [kind |-> k, target |-> t]
  IN
  /\ s \in Live /\ t \in Live /\ s.index # t.index
  /\ alive' = alive /\ gen' = gen
  /\ new \notin pairs[s.index]
  /\ pairs' = [pairs EXCEPT ![s.index] = (pairs[s.index] \ old) \cup {new}]
  /\ counts' = [i \in Index |->
                  counts[i] + (IF i = t.index THEN 1 ELSE 0)
                            - Cardinality({p \in old : p.target.index = i})]
  /\ \A p \in old : /\ p \in pairs[s.index] /\ p.kind = k /\ p.target \in Live
                    /\ p.target.index # t.index
  /\ subjects' \in [Kinds \X Index -> Seq(Entity)]
  /\ ListedOnce'
  /\ \A x \in Kinds \X Index :
       Range(subjects'[x])
         = IF x = <<k, t.index>> THEN Range(subjects[x]) \cup {s}
           ELSE IF \E p \in old : x = <<k, p.target.index>>
                THEN Range(subjects[x]) \ {s} ELSE Range(subjects[x])
  /\ \A x \in Kinds \X Index : \A a, b \in Range(subjects[x]) :
       Precedes(subjects'[x], a, b) => Precedes(subjects[x], a, b)

\* add_relation does that.
LEMMA AddRelationEffect ==
  ASSUME IInv, NEW s, NEW k \in Kinds, NEW t, NEW at \in Nat, AddRelation(s, k, t, at)
  PROVE  AddDoes(s, k, t)
<1> DEFINE old   == Replaced(s, k)
           new   == [kind |-> k, target |-> t]
           X     == Kinds \X Index
           z     == <<k, t.index>>
           lists == [x \in X |-> IF \E p \in old : x = <<k, p.target.index>>
                                 THEN Unlisted(subjects[x], s) ELSE subjects[x]]
           P     == Placed(subjects[z], s, at)
<1> USE DEF IInv
<1>1. /\ s \in Live /\ t \in Live /\ s.index # t.index /\ new \notin pairs[s.index]
      /\ alive' = alive /\ gen' = gen
      /\ pairs' = [pairs EXCEPT ![s.index] = (pairs[s.index] \ old) \cup {new}]
      /\ counts' = [i \in Index |->
                      counts[i] + (IF i = t.index THEN 1 ELSE 0)
                                - Cardinality({p \in old : p.target.index = i})]
  BY DEF AddRelation
<1>2. subjects' = [lists EXCEPT ![z] = Placed(lists[z], s, at)]
  BY DEF AddRelation, Types
<1>3. /\ s.index \in Index /\ t.index \in Index /\ s \in Entity
      /\ s = Current(s.index) /\ t = Current(t.index)
  BY <1>1, LiveFacts
<1>4. \A p \in old : /\ p \in pairs[s.index] /\ p.kind = k /\ p.target \in Live
                     /\ p.target.index # t.index
  <2> SUFFICES ASSUME NEW p \in old
               PROVE  /\ p \in pairs[s.index] /\ p.kind = k /\ p.target \in Live
                      /\ p.target.index # t.index
    OBVIOUS
  <2>1. p \in pairs[s.index] /\ p.kind = k
    BY <1>3, ReplacedFacts DEF OfKind
  <2>2. p.target \in Live /\ p \in Pair
    BY <2>1, <1>3 DEF LiveEnds, Types
  <2>3. p.target.index # t.index
    <3>1. SUFFICES ASSUME p.target.index = t.index PROVE FALSE
      OBVIOUS
    <3>2. p.target = t
      BY <3>1, <2>2, <1>1, LiveFacts
    <3>3. p = new
      BY <3>2, <2>1, <2>2 DEF Pair
    <3> QED
      BY <3>3, <2>1, <1>1
  <2> QED
    BY <2>1, <2>2, <2>3
<1>5. z \in X /\ ~ \E p \in old : z = <<k, p.target.index>>
  BY <1>3, <1>4
<1>6. lists[z] = subjects[z]
  BY <1>5
<1>7. \A x \in X : subjects[x] \in Seq(Entity) /\ IsInjective(subjects[x])
  BY DEF Types, ListedOnce
<1>8. s \notin Range(subjects[z])
  BY <1>1, <1>3 DEF Listed
<1>9. /\ P \in Seq(Entity) /\ IsInjective(P)
      /\ Range(P) = Range(subjects[z]) \cup {s}
      /\ \A a, b : Precedes(P, a, b) /\ a # s /\ b # s => Precedes(subjects[z], a, b)
  <2>1. subjects[z] \in Seq(Entity) /\ IsInjective(subjects[z])
    BY <1>5, <1>7
  <2> HIDE DEF z
  <2> QED
    BY <1>3, <1>8, <2>1, PlacedFacts, Zenon
<1>10. \A x \in X :
         LET U == Unlisted(subjects[x], s) IN
         /\ U \in Seq(Entity) /\ IsInjective(U) /\ Range(U) = Range(subjects[x]) \ {s}
         /\ \A a, b : Precedes(U, a, b) => Precedes(subjects[x], a, b)
  <2> TAKE x \in X
  <2>1. subjects[x] \in Seq(Entity) /\ IsInjective(subjects[x])
    BY <1>7
  <2> QED
    BY <2>1, UnlistedFacts, Zenon
<1>11. \A x \in X : subjects'[x] = IF x = z THEN P ELSE lists[x]
  BY <1>2, <1>5, <1>6
<1>12. DOMAIN subjects' = X
  BY <1>2
<1>13. \A x \in X : /\ lists[x] \in Seq(Entity) /\ IsInjective(lists[x])
                    /\ Range(lists[x]) = IF \E p \in old : x = <<k, p.target.index>>
                                         THEN Range(subjects[x]) \ {s}
                                         ELSE Range(subjects[x])
                    /\ \A a, b : Precedes(lists[x], a, b) => Precedes(subjects[x], a, b)
  BY <1>7, <1>10
<1> HIDE DEF lists, P, old
<1>14. subjects' \in [X -> Seq(Entity)]
  <2>1. subjects' = [x \in X |-> subjects'[x]]
    BY <1>2, <1>12 DEF lists
  <2>2. \A x \in X : subjects'[x] \in Seq(Entity)
    BY <1>9, <1>11, <1>13
  <2> QED
    BY <2>1, <2>2
<1>15. ListedOnce'
  BY <1>9, <1>11, <1>13 DEF ListedOnce
<1>16. \A x \in X :
         Range(subjects'[x])
           = IF x = z THEN Range(subjects[x]) \cup {s}
             ELSE IF \E p \in old : x = <<k, p.target.index>>
                  THEN Range(subjects[x]) \ {s} ELSE Range(subjects[x])
  BY <1>9, <1>11, <1>13
<1>17. \A x \in X : \A a, b \in Range(subjects[x]) :
         Precedes(subjects'[x], a, b) => Precedes(subjects[x], a, b)
  BY <1>8, <1>9, <1>11, <1>13
<1> QED
  BY <1>1, <1>4, <1>14, <1>15, <1>16, <1>17 DEF old, AddDoes

\* ... and keeps the invariant.
LEMMA AddRelationStep ==
  ASSUME IInv, NEW s, NEW k \in Kinds, NEW t, NEW at \in Nat, AddRelation(s, k, t, at)
  PROVE  IInv'
<1> DEFINE old == Replaced(s, k)
           new == [kind |-> k, target |-> t]
           Gone == {Link(k, s, p.target) : p \in old}
           l   == [kind |-> k, subject |-> s, target |-> t]
<1> USE DEF IInv
<1>1. /\ s \in Live /\ t \in Live /\ s.index # t.index
      /\ alive' = alive /\ gen' = gen
      /\ new \notin pairs[s.index]
      /\ pairs' = [pairs EXCEPT ![s.index] = (pairs[s.index] \ old) \cup {new}]
      /\ counts' = [i \in Index |->
                      counts[i] + (IF i = t.index THEN 1 ELSE 0)
                                - Cardinality({p \in old : p.target.index = i})]
      /\ \A p \in old : /\ p \in pairs[s.index] /\ p.kind = k /\ p.target \in Live
                        /\ p.target.index # t.index
      /\ subjects' \in [Kinds \X Index -> Seq(Entity)]
      /\ ListedOnce'
      /\ \A x \in Kinds \X Index :
           Range(subjects'[x])
             = IF x = <<k, t.index>> THEN Range(subjects[x]) \cup {s}
               ELSE IF \E p \in old : x = <<k, p.target.index>>
                    THEN Range(subjects[x]) \ {s} ELSE Range(subjects[x])
  <2>1. AddDoes(s, k, t)
    BY AddRelationEffect
  <2> QED
    BY <2>1, Zenon DEF AddDoes
<1>2. /\ s.index \in Index /\ t.index \in Index /\ s \in Entity /\ t \in Entity
      /\ s = Current(s.index) /\ t = Current(t.index)
      /\ s.index \in alive /\ t.index \in alive
  BY <1>1, LiveFacts
<1>3. /\ k \in Exclusive => old = OfKind(s.index, k)
      /\ old = {} \/ \E q \in OfKind(s.index, k) : old = {q}
  BY <1>2, ReplacedFacts
<1> HIDE DEF old
<1>4. Live' = Live /\ \A i \in Index : Current(i)' = Current(i)
  BY <1>1 DEF Live, Current
<1>5. \A i \in Index : pairs'[i] = IF i = s.index THEN (pairs[i] \ old) \cup {new}
                                   ELSE pairs[i]
  BY <1>1, <1>2 DEF Types
<1>6. \A i \in Index : Cardinality({p \in old : p.target.index = i}) \in Int
  <2>1. IsFiniteSet(old)
    <3>1. CASE old = {}
      BY <3>1, FS_EmptySet
    <3>2. ASSUME NEW q, old = {q} PROVE IsFiniteSet(old)
      BY <3>2, FS_Singleton
    <3> QED
      BY <3>1, <3>2, <1>3
  <2>2. \A i \in Index : {p \in old : p.target.index = i} \in SUBSET old
    OBVIOUS
  <2>3. \A i \in Index : IsFiniteSet({p \in old : p.target.index = i})
    BY <2>1, <2>2, FS_Subset
  <2> QED
    BY <2>3, FS_CardinalityType
<1>7. Types'
  <2>1. pairs' \in [Index -> SUBSET Pair]
    BY <1>1, <1>2, <1>5 DEF Types, Pair
  <2>2. counts' \in [Index -> Int]
    <3> DEFINE N(i) == Cardinality({p \in old : p.target.index = i})
    <3>1. \A i \in Index : N(i) \in Int /\ counts[i] \in Int
      BY <1>6 DEF Types
    <3>2. counts' = [i \in Index |-> counts[i] + (IF i = t.index THEN 1 ELSE 0) - N(i)]
      BY <1>1
    <3> HIDE DEF N
    <3> QED
      BY <3>1, <3>2
  <2> QED
    BY <1>1, <2>1, <2>2 DEF Types
<1>8. LiveEnds'
  BY <1>1, <1>2, <1>4, <1>5 DEF LiveEnds
<1>9. OneTarget'
  BY <1>1, <1>2, <1>3, <1>5 DEF OneTarget, OfKind
<1>10. Listed'
  <2> SUFFICES ASSUME NEW h \in Kinds, NEW j \in Index
               PROVE  /\ \A v \in Range(subjects'[<<h, j>>]) :
                           /\ v \in Live /\ j \in alive
                           /\ [kind |-> h, target |-> Current(j)] \in pairs'[v.index]
                      /\ \A i \in Index :
                           [kind |-> h, target |-> Current(j)] \in pairs'[i]
                             => Current(i) \in Range(subjects'[<<h, j>>])
    <3>1. alive' = alive
      BY <1>1
    <3> QED
      BY <3>1, <1>4 DEF Listed
  <2> DEFINE p == [kind |-> h, target |-> Current(j)]
             Left == \E q \in old : <<h, j>> = <<k, q.target.index>>
  <2>1. <<h, j>> = <<k, t.index>> <=> p = new
    BY <1>2, LiveFacts
  <2>2. Left <=> p \in old
    <3>1. ASSUME NEW q \in old, h = k, j = q.target.index PROVE p = q
      BY <3>1, <1>1, <1>2, LiveFacts DEF Types, Pair
    <3>2. p \in old => h = k /\ j = p.target.index
      BY <1>1, LiveFacts
    <3> QED
      BY <3>1, <3>2
  <2>3. Range(subjects'[<<h, j>>])
          = IF p = new THEN Range(subjects[<<h, j>>]) \cup {s}
            ELSE IF p \in old THEN Range(subjects[<<h, j>>]) \ {s}
            ELSE Range(subjects[<<h, j>>])
    BY <1>1, <2>1, <2>2
  <2>4. ASSUME NEW v \in Range(subjects'[<<h, j>>])
        PROVE  v \in Live /\ j \in alive /\ p \in pairs'[v.index]
    <3>1. CASE v = s /\ p = new
      <4>1. j = t.index /\ v \in Live /\ v.index = s.index
        BY <3>1, <2>1, <1>1
      <4> QED
        BY <3>1, <4>1, <1>2, <1>5
    <3>2. CASE ~(v = s /\ p = new)
      <4>1. v \in Range(subjects[<<h, j>>]) /\ ~(v = s /\ p \in old)
        BY <3>2, <2>3, <2>4, <1>1
      <4>2. v \in Live /\ j \in alive /\ p \in pairs[v.index]
        BY <4>1 DEF Listed
      <4>3. v.index \in Index /\ (v.index = s.index => v = s)
        BY <4>2, <1>1, LiveFacts
      <4> QED
        BY <4>1, <4>2, <4>3, <1>5
    <3> QED
      BY <3>1, <3>2
  <2>5. ASSUME NEW i \in Index, p \in pairs'[i]
        PROVE  Current(i) \in Range(subjects'[<<h, j>>])
    <3>1. CASE p = new /\ i = s.index
      BY <3>1, <2>3, <1>2
    <3>2. CASE ~(p = new /\ i = s.index)
      <4>1. p \in pairs[i] /\ ~(i = s.index /\ p \in old)
        BY <3>2, <2>5, <1>5
      <4>2. Current(i) \in Range(subjects[<<h, j>>])
        BY <4>1 DEF Listed
      <4>3. Current(i) = s => i = s.index
        BY LiveFacts
      <4> QED
        BY <4>1, <4>2, <4>3, <2>3
    <3> QED
      BY <3>1, <3>2
  <2> QED
    BY <2>4, <2>5
<1>11. LinksBySubject' = (LinksBySubject \ Gone) \cup {l}
  <2>1. \A i \in Index : \A q \in pairs[i] :
          [kind |-> q.kind, subject |-> Current(i), target |-> q.target] \in Gone
            <=> i = s.index /\ q \in old
    <3> SUFFICES ASSUME NEW i \in Index, NEW q \in pairs[i]
                 PROVE  Link(q.kind, Current(i), q.target) \in Gone
                          <=> i = s.index /\ q \in old
      BY DEF Link
    <3>1. q \in Pair
      BY DEF Types
    <3>2. ASSUME NEW p \in old, Link(q.kind, Current(i), q.target) = Link(k, s, p.target)
          PROVE  i = s.index /\ q = p
      <4>1. q.kind = k /\ Current(i) = s /\ q.target = p.target
        BY <3>2 DEF Link
      <4>2. p \in Pair /\ p.kind = k
        BY <1>1, <1>2 DEF Types
      <4> QED
        BY <4>1, <4>2, <3>1, LiveFacts DEF Pair
    <3>3. ASSUME i = s.index, q \in old
          PROVE  Link(q.kind, Current(i), q.target) = Link(k, s, q.target)
      BY <3>3, <1>1, <1>2
    <3> QED
      BY <3>2, <3>3
  <2>2. \A m : m \in LinksBySubject'
               <=> \E i \in Index : \E q \in pairs'[i] :
                     m = [kind |-> q.kind, subject |-> Current(i), target |-> q.target]
    BY <1>4 DEF LinksBySubject, Link
  <2> HIDE DEF Gone
  <2>3. ASSUME NEW m \in LinksBySubject' PROVE m \in (LinksBySubject \ Gone) \cup {l}
    <3>1. PICK i \in Index : \E q \in pairs'[i] :
            m = [kind |-> q.kind, subject |-> Current(i), target |-> q.target]
      BY <2>2, <2>3
    <3>2. PICK q \in pairs'[i] :
            m = [kind |-> q.kind, subject |-> Current(i), target |-> q.target]
      BY <3>1
    <3>3. CASE q = new /\ i = s.index
      BY <3>2, <3>3, <1>2
    <3>4. CASE ~(q = new /\ i = s.index)
      <4>1. q \in pairs[i] /\ ~(i = s.index /\ q \in old)
        BY <3>4, <1>5
      <4>2. m \in LinksBySubject
        BY <3>2, <4>1, LinkFacts
      <4> QED
        BY <3>2, <4>1, <4>2, <2>1
    <3> QED
      BY <3>3, <3>4
  <2>4. ASSUME NEW m \in LinksBySubject, m \notin Gone PROVE m \in LinksBySubject'
    <3>1. PICK i \in Index : \E q \in pairs[i] :
            m = [kind |-> q.kind, subject |-> Current(i), target |-> q.target]
      BY LinkFacts
    <3>2. PICK q \in pairs[i] :
            m = [kind |-> q.kind, subject |-> Current(i), target |-> q.target]
      BY <3>1
    <3>3. q \in pairs'[i]
      BY <3>2, <2>4, <1>5, <2>1
    <3> QED
      BY <3>2, <3>3, <2>2
  <2>5. l \in LinksBySubject'
    <3>1. new \in pairs'[s.index]
      BY <1>2, <1>5
    <3>2. l = [kind |-> new.kind, subject |-> Current(s.index), target |-> new.target]
      BY <1>2
    <3> QED
      BY <3>1, <3>2, <1>2, <2>2
  <2> QED
    BY <2>3, <2>4, <2>5
<1>12. l \notin LinksBySubject
  <2>1. SUFFICES ASSUME l \in LinksBySubject PROVE FALSE
    OBVIOUS
  <2>2. PICK i \in Index : \E q \in pairs[i] :
          l = [kind |-> q.kind, subject |-> Current(i), target |-> q.target]
    BY <2>1, LinkFacts
  <2>3. PICK q \in pairs[i] :
          l = [kind |-> q.kind, subject |-> Current(i), target |-> q.target]
    BY <2>2
  <2>4. k = q.kind /\ s = Current(i) /\ t = q.target /\ q \in Pair
    BY <2>3 DEF Types
  <2>5. q = new /\ i = s.index
    BY <2>4, LiveFacts DEF Pair
  <2> QED
    BY <2>5, <1>1
<1>13. \A p \in old : Link(k, s, p.target) \in LinksBySubject
  BY <1>1, <1>2, LinkFacts
<1>14. Counted'
  <2> SUFFICES ASSUME NEW i \in Index PROVE counts'[i] = Cardinality(Incoming(i)')
    BY DEF Counted
  <2> DEFINE N == Cardinality({p \in old : p.target.index = i})
  <2>1. /\ counts'[i] = counts[i] + (IF i = t.index THEN 1 ELSE 0) - N
        /\ counts[i] = Cardinality(Incoming(i)) /\ counts[i] \in Int
    BY <1>1 DEF Counted, Types
  <2>2. Incoming(i)' = {m \in (LinksBySubject \ Gone) \cup {l} : m.target.index = i}
    BY <1>11 DEF Incoming
  <2>3. IsFiniteSet(Incoming(i))
    BY FiniteLinks
  <2>4. CASE i = t.index
    <3>1. \A m \in Gone : m.target.index # i
      BY <2>4, <1>1 DEF Link
    <3>2. Incoming(i)' = Incoming(i) \cup {l} /\ l \notin Incoming(i)
      BY <2>2, <2>4, <3>1, <1>12 DEF Incoming
    <3>3. {p \in old : p.target.index = i} = {}
      BY <2>4, <1>1
    <3>4. N = 0
      BY <3>3, FS_EmptySet
    <3>5. Cardinality(Incoming(i) \cup {l}) = Cardinality(Incoming(i)) + 1
      BY <2>3, <3>2, FS_AddElement
    <3> HIDE DEF N
    <3> QED
      BY <2>1, <2>4, <3>2, <3>4, <3>5
  <2>5. ASSUME i # t.index, NEW q \in old, q.target.index = i, old = {q}
        PROVE  counts'[i] = Cardinality(Incoming(i)')
    <3>1. Gone = {Link(k, s, q.target)}
      BY <2>5
    <3>2. Incoming(i)' = Incoming(i) \ {Link(k, s, q.target)}
      BY <2>2, <2>5, <3>1 DEF Incoming
    <3>3. Link(k, s, q.target) \in Incoming(i)
      BY <2>5, <1>13 DEF Incoming, Link
    <3>4. {p \in old : p.target.index = i} = {q}
      BY <2>5
    <3>5. N = 1
      BY <3>4, FS_Singleton
    <3>6. Cardinality(Incoming(i) \ {Link(k, s, q.target)}) = Cardinality(Incoming(i)) - 1
      BY <2>3, <3>3, FS_RemoveElement
    <3> HIDE DEF N
    <3> QED
      BY <2>1, <2>5, <3>2, <3>5, <3>6
  <2>6. CASE i # t.index /\ \A q \in old : q.target.index # i
    <3>1. \A m \in Gone : m.target.index # i
      BY <2>6 DEF Link
    <3>2. Incoming(i)' = Incoming(i)
      BY <2>2, <2>6, <3>1 DEF Incoming
    <3>3. {p \in old : p.target.index = i} = {}
      BY <2>6
    <3>4. N = 0
      BY <3>3, FS_EmptySet
    <3> HIDE DEF N
    <3> QED
      BY <2>1, <2>6, <3>2, <3>4
  <2> QED
    BY <2>4, <2>5, <2>6, <1>3
<1> QED
  BY <1>1, <1>7, <1>8, <1>9, <1>10, <1>14

-----------------------------------------------------------------------------
(* The despawn of one entity.                                              *)

\* A count of zero tells the truth: there is nothing to take.
LEMMA TakenFacts ==
  ASSUME IInv, NEW e \in Live
  PROVE  \A k \in Kinds : Taken(e, k) = subjects[<<k, e.index>>]
<1> SUFFICES ASSUME NEW k \in Kinds, ~(counts[e.index] > 0)
             PROVE  subjects[<<k, e.index>>] = <<>>
  BY DEF Taken
<1> USE DEF IInv
<1> DEFINE i == e.index
           list == subjects[<<k, i>>]
<1>1. i \in Index /\ e = Current(i)
  BY LiveFacts
<1>2. Incoming(i) = {}
  <2>1. IsFiniteSet(Incoming(i)) /\ counts[i] = Cardinality(Incoming(i))
    BY <1>1, FiniteLinks DEF Counted
  <2>2. Cardinality(Incoming(i)) \in Nat
    BY <2>1, FS_CardinalityType
  <2>3. Cardinality(Incoming(i)) = 0
    BY <2>1, <2>2
  <2> QED
    BY <2>1, <2>3, FS_EmptySet
<1>3. ASSUME NEW v \in Range(list) PROVE FALSE
  <2> DEFINE p == [kind |-> k, target |-> e]
  <2>1. v \in Live /\ p \in pairs[v.index]
    BY <1>1 DEF Listed
  <2>2. v.index \in Index
    BY <2>1, LiveFacts
  <2>3. Link(p.kind, Current(v.index), p.target) \in LinksBySubject
    BY <2>1, <2>2, LinkFacts
  <2>4. Link(p.kind, Current(v.index), p.target).target.index = i
    BY DEF Link
  <2> QED
    BY <2>3, <2>4, <1>2 DEF Incoming
<1>4. list \in Seq(Entity)
  BY <1>1 DEF Types
<1>5. Len(list) \in Nat /\ \A n \in 1 .. Len(list) : list[n] \in Range(list)
  BY <1>4, LenProperties DEF Range
<1>6. Len(list) = 0
  BY <1>3, <1>5
<1> QED
  BY <1>4, <1>6, EmptySeq

\* Nothing is left of the entity in either index, and nothing else is gone.
DespawnDoes(e) ==
  LET i == e.index IN
  /\ e \in Live
  /\ alive' = alive \ {i}
  /\ gen' = [gen EXCEPT ![i] = @ + 1]
  /\ pairs' = [j \in Index |-> IF j = i THEN {} ELSE {p \in pairs[j] : p.target # e}]
  /\ counts' \in [Index -> Int]
  /\ counts'[i] = counts[i] - Cardinality(TakenEntries(e))
  /\ \A j \in Index \ {i} :
       counts'[j] = counts[j] - Cardinality({p \in pairs[i] : p.target.index = j})
  /\ subjects' \in [Kinds \X Index -> Seq(Entity)]
  /\ ListedOnce'
  /\ \A x \in Kinds \X Index :
       Range(subjects'[x]) = IF x[2] = i THEN {} ELSE Range(subjects[x]) \ {e}
  /\ \A x \in Kinds \X Index : \A a, b :
       Precedes(subjects'[x], a, b) => Precedes(subjects[x], a, b)

\* Nobody is before anybody in an empty list.
LEMMA NothingPrecedes == \A a, b : ~Precedes(<<>>, a, b)
BY DEF Precedes

\* The counts after a despawn are those of the code.
LEMMA DespawnCounts ==
  ASSUME IInv, DespawnOne
  PROVE  LET e == Last(stack)
             i == e.index
         IN /\ counts' \in [Index -> Int]
            /\ counts'[i] = counts[i] - Cardinality(TakenEntries(e))
            /\ \A j \in Index \ {i} :
                 counts'[j] = counts[j] - Cardinality({p \in pairs[i] : p.target.index = j})
<1> USE DEF IInv
<1> DEFINE e == Last(stack)
           i == e.index
           Of(j) == {p \in OwnPairs(e) : /\ p.target.index = j
                                         /\ Contains(subjects[<<p.kind, j>>], e)}
           To(j) == {p \in pairs[i] : p.target.index = j}
           taken == Cardinality(TakenEntries(e))
<1>1. e \in Live /\ counts' = [j \in Index |-> IF j = i THEN counts[j] - taken
                                               ELSE counts[j] - Cardinality(Of(j))]
  BY DEF DespawnOne
<1> HIDE DEF e
<1>2. i \in Index /\ e = Current(i) /\ e \in Entity
  BY <1>1, LiveFacts
<1>3. \A j \in Index : counts[j] \in Int
  BY DEF Types
<1>4. \A k \in Kinds : Taken(e, k) = subjects[<<k, i>>]
  BY <1>1, TakenFacts
<1>5. taken \in Int
  <2>1. ASSUME NEW k \in Kinds
        PROVE  IsFiniteSet({k} \X DOMAIN Taken(e, k))
    <3>1. Taken(e, k) \in Seq(Entity)
      BY <1>2, <1>4 DEF Types
    <3>2. Len(Taken(e, k)) \in Nat /\ DOMAIN Taken(e, k) = 1 .. Len(Taken(e, k))
      BY <3>1, LenProperties
    <3>3. IsFiniteSet(DOMAIN Taken(e, k))
      BY <3>2, FS_Interval
    <3>4. IsFiniteSet({k})
      BY FS_Singleton
    <3> QED
      BY <3>3, <3>4, FS_Product
  <2>2. IsFiniteSet({{k} \X DOMAIN Taken(e, k) : k \in Kinds})
    <3> DEFINE f == [k \in Kinds |-> {k} \X DOMAIN Taken(e, k)]
               R == {{k} \X DOMAIN Taken(e, k) : k \in Kinds}
    <3>1. f \in Surjection(Kinds, R)
      BY DEF Surjection
    <3> HIDE DEF f
    <3> QED
      BY <3>1, RelationsAssumption, FS_Surjection
  <2>3. IsFiniteSet(TakenEntries(e))
    BY <2>1, <2>2, FS_UNION DEF TakenEntries
  <2> QED
    BY <2>3, FS_CardinalityType
<1>6. OwnPairs(e) = pairs[i]
  BY <1>2 DEF OwnPairs, LiveEnds
<1>7. \A j \in Index : Of(j) = To(j)
  <2> SUFFICES ASSUME NEW j \in Index, NEW p \in pairs[i], p.target.index = j
               PROVE  Contains(subjects[<<p.kind, j>>], e)
    BY <1>6
  <2>1. p \in Pair
    BY <1>2 DEF Types
  <2>2. p = [kind |-> p.kind, target |-> p.target] /\ p.kind \in Kinds
    BY <2>1 DEF Pair
  <2>3. e \in Range(subjects[<<p.kind, j>>])
    BY <2>2, <1>2, KnownLink
  <2>4. subjects[<<p.kind, j>>] \in Seq(Entity)
    BY <2>2 DEF Types
  <2> QED
    BY <2>3, <2>4, RangeEquality DEF Contains
<1>8. \A j \in Index : Cardinality(To(j)) \in Int
  <2> SUFFICES ASSUME NEW j \in Index PROVE IsFiniteSet(To(j))
    BY FS_CardinalityType
  <2> DEFINE f == [p \in To(j) |-> Link(p.kind, e, p.target)]
  <2>1. \A p \in To(j) : Link(p.kind, e, p.target) \in LinksBySubject
    BY <1>2, LinkFacts
  <2>2. \A p \in To(j) : p \in Pair
    BY <1>2 DEF Types
  <2>3. f \in Injection(To(j), LinksBySubject)
    <3>1. f \in [To(j) -> LinksBySubject]
      BY <2>1
    <3>2. \A p, q \in To(j) : Link(p.kind, e, p.target) = Link(q.kind, e, q.target) => p = q
      BY <2>2 DEF Link, Pair
    <3> QED
      BY <3>1, <3>2 DEF Injection, IsInjective
  <2> QED
    BY <2>3, FiniteLinks, FS_Injection
<1> HIDE DEF i, Of, To, taken
<1>9. counts' \in [Index -> Int]
  BY <1>1, <1>3, <1>5, <1>7, <1>8
<1>10. counts'[i] = counts[i] - taken
  BY <1>1, <1>2
<1>11. \A j \in Index \ {i} : counts'[j] = counts[j] - Cardinality(To(j))
  BY <1>1, <1>7
<1> QED
  BY <1>9, <1>10, <1>11 DEF e, i, To, taken

\* An iteration of despawn does that.
LEMMA DespawnEffect ==
  ASSUME IInv, DespawnOne
  PROVE  DespawnDoes(Last(stack))
<1> USE DEF IInv
<1> DEFINE e == Last(stack)
           i == e.index
           X == Kinds \X Index
<1>1. /\ e \in Live /\ pairs' = PairsWithout(e) /\ subjects' = ListsWithout(e)
      /\ alive' = alive \ {i} /\ gen' = [gen EXCEPT ![i] = @ + 1]
  BY DEF DespawnOne
<1>2. /\ counts' \in [Index -> Int]
      /\ counts'[i] = counts[i] - Cardinality(TakenEntries(e))
      /\ \A j \in Index \ {i} :
           counts'[j] = counts[j] - Cardinality({p \in pairs[i] : p.target.index = j})
  BY DespawnCounts
<1> HIDE DEF e
<1>3. i \in Index /\ e = Current(i) /\ e \in Entity
  BY <1>1, LiveFacts
<1>4. \A k \in Kinds : Taken(e, k) = subjects[<<k, i>>]
  BY <1>1, TakenFacts
<1>5. OwnPairs(e) = pairs[i]
  BY <1>3 DEF OwnPairs, LiveEnds
<1>6. pairs' = [j \in Index |-> IF j = i THEN {} ELSE {p \in pairs[j] : p.target # e}]
  <2>1. ASSUME NEW j \in Index, NEW p \in pairs[j], p.target = e
        PROVE  \E s \in Range(Taken(e, p.kind)) : s.index = j
    <3>1. p \in Pair
      BY DEF Types
    <3>2. p = [kind |-> p.kind, target |-> e] /\ p.kind \in Kinds
      BY <3>1, <2>1 DEF Pair
    <3>3. Current(j) \in Range(subjects[<<p.kind, i>>])
      BY <3>2, <1>3 DEF Listed
    <3> QED
      BY <3>2, <3>3, <1>4, LiveFacts
  <2>2. \A j \in Index : {p \in pairs[j] : ~(p.target = e /\ \E s \in Range(Taken(e, p.kind)) : s.index = j)}
                         = {p \in pairs[j] : p.target # e}
    BY <2>1
  <2> QED
    BY <1>1, <2>2 DEF PairsWithout
<1>7. \A x \in X : subjects[x] \in Seq(Entity) /\ IsInjective(subjects[x])
  BY DEF Types, ListedOnce
<1>8. subjects' \in [X -> Seq(Entity)]
      /\ \A x \in X :
           /\ IsInjective(subjects'[x])
           /\ Range(subjects'[x]) = IF x[2] = i THEN {} ELSE Range(subjects[x]) \ {e}
           /\ \A a, b : Precedes(subjects'[x], a, b) => Precedes(subjects[x], a, b)
  <2> DEFINE own(x)  == \E p \in pairs[i] : x = <<p.kind, p.target.index>>
             rest(x) == IF x[2] = i /\ counts[i] > 0 THEN <<>> ELSE subjects[x]
  <2>1. subjects' = [x \in X |-> IF own(x) THEN Unlisted(rest(x), e) ELSE rest(x)]
    BY <1>1, <1>5 DEF ListsWithout, Types
  <2>2. \A x \in X : x[2] = i => ~own(x) /\ rest(x) = <<>>
    <3> SUFFICES ASSUME NEW k \in Kinds
                 PROVE  ~own(<<k, i>>) /\ rest(<<k, i>>) = <<>>
      OBVIOUS
    <3>1. ~own(<<k, i>>)
      BY <1>3 DEF LiveEnds
    <3>2. ~(counts[i] > 0) => subjects[<<k, i>>] = <<>>
      BY <1>4 DEF Taken
    <3> QED
      BY <3>1, <3>2
  <2>3. \A x \in X : x[2] # i => rest(x) = subjects[x]
    OBVIOUS
  <2>4. \A x \in X : x[2] # i /\ ~own(x) => e \notin Range(subjects[x])
    <3> SUFFICES ASSUME NEW k \in Kinds, NEW j \in Index, e \in Range(subjects[<<k, j>>])
                 PROVE  own(<<k, j>>)
      OBVIOUS
    <3>1. [kind |-> k, target |-> Current(j)] \in pairs[i]
      BY DEF Listed
    <3> QED
      BY <3>1, LiveFacts
  <2> HIDE DEF own, rest
  <2>5. <<>> \in Seq(Entity) /\ IsInjective(<<>>) /\ Range(<<>>) = {}
    BY DEF IsInjective, Range
  <2>6. ASSUME NEW x \in X
        PROVE  /\ subjects'[x] \in Seq(Entity) /\ IsInjective(subjects'[x])
               /\ Range(subjects'[x]) = IF x[2] = i THEN {} ELSE Range(subjects[x]) \ {e}
               /\ \A a, b : Precedes(subjects'[x], a, b) => Precedes(subjects[x], a, b)
    <3>1. CASE x[2] = i
      <4>1. subjects'[x] = <<>>
        BY <3>1, <2>1, <2>2
      <4> QED
        BY <3>1, <4>1, <2>5, NothingPrecedes
    <3>2. CASE x[2] # i /\ own(x)
      <4>1. subjects'[x] = Unlisted(subjects[x], e)
        BY <3>2, <2>1, <2>3
      <4>2. subjects[x] \in Seq(Entity) /\ IsInjective(subjects[x])
        BY <1>7
      <4>3. LET U == Unlisted(subjects[x], e) IN
            /\ U \in Seq(Entity) /\ IsInjective(U) /\ Range(U) = Range(subjects[x]) \ {e}
            /\ \A a, b : Precedes(U, a, b) => Precedes(subjects[x], a, b)
        BY <4>2, UnlistedFacts, Zenon
      <4> QED
        BY <3>2, <4>1, <4>3
    <3>3. CASE x[2] # i /\ ~own(x)
      <4>1. subjects'[x] = subjects[x] /\ e \notin Range(subjects[x])
        BY <3>3, <2>1, <2>3, <2>4
      <4> QED
        BY <3>3, <4>1, <1>7
    <3> QED
      BY <3>1, <3>2, <3>3
  <2> QED
    BY <2>1, <2>6
<1>9. ListedOnce'
  BY <1>8 DEF ListedOnce
<1> QED
  BY <1>1, <1>2, <1>6, <1>8, <1>9 DEF DespawnDoes, e

\* The links of a dead entity are gone, and only those.
LEMMA DespawnLinks ==
  ASSUME IInv, NEW e, DespawnDoes(e)
  PROVE  LinksBySubject' = {l \in LinksBySubject : l.subject # e /\ l.target # e}
<1> DEFINE i == e.index
<1> USE DEF IInv
<1>1. /\ e \in Live /\ gen' = [gen EXCEPT ![i] = @ + 1]
      /\ pairs' = [j \in Index |-> IF j = i THEN {} ELSE {p \in pairs[j] : p.target # e}]
  BY DEF DespawnDoes
<1>2. i \in Index /\ e = Current(i)
  BY <1>1, LiveFacts
<1>3. \A j \in Index : j # i => Current(j)' = Current(j) /\ Current(j) # e
  BY <1>1, <1>2, LiveFacts DEF Current, Types
<1>4. \A m : m \in LinksBySubject'
             <=> \E j \in Index : \E q \in pairs'[j] :
                   m = [kind |-> q.kind, subject |-> Current(j)', target |-> q.target]
  BY DEF LinksBySubject, Link
<1>5. ASSUME NEW m \in LinksBySubject'
      PROVE  m \in LinksBySubject /\ m.subject # e /\ m.target # e
  <2>1. PICK j \in Index : \E q \in pairs'[j] :
          m = [kind |-> q.kind, subject |-> Current(j)', target |-> q.target]
    BY <1>4, <1>5
  <2>2. PICK q \in pairs'[j] :
          m = [kind |-> q.kind, subject |-> Current(j)', target |-> q.target]
    BY <2>1
  <2>3. j # i /\ q \in pairs[j] /\ q.target # e
    BY <2>2, <1>1
  <2>4. m = [kind |-> q.kind, subject |-> Current(j), target |-> q.target]
    BY <2>2, <2>3, <1>3
  <2> QED
    BY <2>3, <2>4, <1>3, LinkFacts
<1>6. ASSUME NEW m \in LinksBySubject, m.subject # e, m.target # e
      PROVE  m \in LinksBySubject'
  <2>1. PICK j \in Index : \E q \in pairs[j] :
          m = [kind |-> q.kind, subject |-> Current(j), target |-> q.target]
    BY LinkFacts
  <2>2. PICK q \in pairs[j] :
          m = [kind |-> q.kind, subject |-> Current(j), target |-> q.target]
    BY <2>1
  <2>3. j # i /\ q.target # e
    BY <2>2, <1>6, <1>2
  <2>4. q \in pairs'[j] /\ Current(j)' = Current(j)
    BY <2>3, <1>1, <1>3
  <2> QED
    BY <2>2, <2>4, <1>4
<1> QED
  BY <1>5, <1>6

\* Every entry taken from the target index is one link that ended at the entity.
LEMMA TakenCount ==
  ASSUME IInv, NEW e \in Live
  PROVE  counts[e.index] = Cardinality(TakenEntries(e))
<1> USE DEF IInv
<1> DEFINE i == e.index
           T == TakenEntries(e)
           f == [x \in T |-> Link(x[1], subjects[<<x[1], i>>][x[2]], e)]
<1>1. i \in Index /\ e = Current(i)
  BY LiveFacts
<1>2. \A k \in Kinds : Taken(e, k) = subjects[<<k, i>>]
  BY TakenFacts
<1>3. \A k \in Kinds : /\ subjects[<<k, i>>] \in Seq(Entity)
                       /\ IsInjective(subjects[<<k, i>>])
  BY <1>1 DEF Types, ListedOnce
<1>4. \A x : x \in T <=> \E k \in Kinds : \E n \in DOMAIN subjects[<<k, i>>] : x = <<k, n>>
  <2>1. \A x : x \in T <=> \E k \in Kinds : x \in {k} \X DOMAIN Taken(e, k)
    BY DEF TakenEntries
  <2>2. \A k \in Kinds : \A x :
          x \in {k} \X DOMAIN Taken(e, k)
            <=> \E n \in DOMAIN subjects[<<k, i>>] : x = <<k, n>>
    BY <1>2
  <2> QED
    BY <2>1, <2>2
<1> HIDE DEF T
<1>5. ASSUME NEW k \in Kinds, NEW n \in DOMAIN subjects[<<k, i>>]
      PROVE  /\ <<k, n>> \in T /\ f[<<k, n>>] = Link(k, subjects[<<k, i>>][n], e)
             /\ f[<<k, n>>] \in Incoming(i)
  <2> DEFINE v == subjects[<<k, i>>][n]
             p == [kind |-> k, target |-> e]
  <2>1. <<k, n>> \in T /\ f[<<k, n>>] = Link(k, v, e)
    BY <1>4
  <2>2. v \in Range(subjects[<<k, i>>])
    BY DEF Range
  <2> HIDE DEF v
  <2>3. v \in Live /\ p \in pairs[v.index]
    BY <2>2, <1>1 DEF Listed
  <2>4. v.index \in Index /\ v = Current(v.index)
    BY <2>3, LiveFacts
  <2>5. Link(p.kind, Current(v.index), p.target) \in LinksBySubject
    BY <2>3, <2>4, LinkFacts
  <2>6. Link(k, v, e) \in Incoming(i)
    BY <2>4, <2>5 DEF Incoming, Link
  <2> QED
    BY <2>1, <2>6 DEF v
<1>6. f \in [T -> Incoming(i)]
  <2>1. ASSUME NEW x \in T PROVE f[x] \in Incoming(i)
    <3>1. PICK k \in Kinds : \E n \in DOMAIN subjects[<<k, i>>] : x = <<k, n>>
      BY <1>4
    <3>2. PICK n \in DOMAIN subjects[<<k, i>>] : x = <<k, n>>
      BY <3>1
    <3>3. f[<<k, n>>] \in Incoming(i)
      BY <1>5
    <3> QED
      BY <3>2, <3>3
  <2>2. f = [x \in T |-> f[x]]
    OBVIOUS
  <2> QED
    BY <2>1, <2>2
<1>7. IsInjective(f)
  <2> SUFFICES ASSUME NEW x \in T, NEW y \in T, f[x] = f[y] PROVE x = y
    BY DEF IsInjective
  <2>1. PICK h \in Kinds : \E n \in DOMAIN subjects[<<h, i>>] : x = <<h, n>>
    BY <1>4
  <2>2. PICK n \in DOMAIN subjects[<<h, i>>] : x = <<h, n>>
    BY <2>1
  <2>3. PICK k \in Kinds : \E m \in DOMAIN subjects[<<k, i>>] : y = <<k, m>>
    BY <1>4
  <2>4. PICK m \in DOMAIN subjects[<<k, i>>] : y = <<k, m>>
    BY <2>3
  <2>5. Link(h, subjects[<<h, i>>][n], e) = Link(k, subjects[<<k, i>>][m], e)
    BY <2>2, <2>4, <1>5
  <2>6. h = k /\ subjects[<<h, i>>][n] = subjects[<<k, i>>][m]
    BY <2>5 DEF Link
  <2>7. n = m
    BY <2>6, <1>3 DEF IsInjective
  <2> QED
    BY <2>2, <2>4, <2>6, <2>7
<1>8. \A l \in Incoming(i) : \E x \in T : f[x] = l
  <2> SUFFICES ASSUME NEW l \in Incoming(i) PROVE \E x \in T : f[x] = l
    OBVIOUS
  <2>1. PICK j \in Index : \E q \in pairs[j] :
          l = [kind |-> q.kind, subject |-> Current(j), target |-> q.target]
    BY LinkFacts DEF Incoming
  <2>2. PICK q \in pairs[j] :
          l = [kind |-> q.kind, subject |-> Current(j), target |-> q.target]
    BY <2>1
  <2>3. q.target.index = i /\ q \in Pair /\ q.target \in Live
    BY <2>2 DEF Incoming, LiveEnds, Types
  <2>4. q.target = e /\ q.kind \in Kinds
    BY <2>3, <1>1, LiveFacts DEF Pair
  <2>5. q = [kind |-> q.kind, target |-> Current(i)]
    BY <2>3, <2>4, <1>1 DEF Pair
  <2>6. Current(j) \in Range(subjects[<<q.kind, i>>])
    BY <2>4, <2>5, <1>1 DEF Listed
  <2>7. PICK n \in DOMAIN subjects[<<q.kind, i>>] : subjects[<<q.kind, i>>][n] = Current(j)
    BY <2>6 DEF Range
  <2>8. f[<<q.kind, n>>] = Link(q.kind, Current(j), e) /\ <<q.kind, n>> \in T
    BY <2>4, <2>7, <1>5
  <2>9. Link(q.kind, Current(j), e) = l
    BY <2>2, <2>4 DEF Link
  <2> QED
    BY <2>8, <2>9
<1>9. IsFiniteSet(Incoming(i))
  BY <1>1, FiniteLinks
<1>10. f \in Injection(T, Incoming(i)) /\ f \in Surjection(T, Incoming(i))
  BY <1>6, <1>7, <1>8 DEF Injection, Surjection
<1> HIDE DEF f
<1>11. Cardinality(T) = Cardinality(Incoming(i))
  BY <1>9, <1>10, FS_Injection
<1> QED
  BY <1>1, <1>11 DEF Counted, T

\* An iteration of despawn keeps the invariant.
LEMMA DespawnStep ==
  ASSUME IInv, NEW e, DespawnDoes(e) PROVE IInv'
<1> USE DEF IInv
<1> DEFINE i == e.index
<1>1. /\ e \in Live /\ alive' = alive \ {i}
      /\ gen' = [gen EXCEPT ![i] = @ + 1]
      /\ pairs' = [j \in Index |-> IF j = i THEN {} ELSE {p \in pairs[j] : p.target # e}]
  BY DEF DespawnDoes
<1>2. /\ counts' \in [Index -> Int]
      /\ counts'[i] = counts[i] - Cardinality(TakenEntries(e))
      /\ \A j \in Index \ {i} :
           counts'[j] = counts[j] - Cardinality({p \in pairs[i] : p.target.index = j})
  BY DEF DespawnDoes
<1>3. /\ subjects' \in [Kinds \X Index -> Seq(Entity)]
      /\ \A x \in Kinds \X Index :
           Range(subjects'[x]) = IF x[2] = i THEN {} ELSE Range(subjects[x]) \ {e}
  BY DEF DespawnDoes
<1>4. ListedOnce'
  BY DEF DespawnDoes
<1>5. i \in Index /\ e = Current(i) /\ e \in Entity /\ i \in alive
  BY <1>1, LiveFacts
<1>6. \A j \in Index : j # i => Current(j)' = Current(j) /\ Current(j) # e
  BY <1>1, <1>5, LiveFacts DEF Current, Types
<1>7. Live' = Live \ {e}
  <2>1. Live' = {Current(j)' : j \in alive \ {i}}
    BY <1>1 DEF Live
  <2>2. \A j \in alive \ {i} : j \in Index /\ j # i
    BY DEF Types
  <2>3. Live' = {Current(j) : j \in alive \ {i}}
    BY <2>1, <2>2, <1>6
  <2> QED
    BY <2>2, <2>3, <1>5, <1>6 DEF Live
<1>8. Types'
  <2>1. gen' \in [Index -> 0 .. MaxGen]
    <3>1. gen[i] \in 0 .. MaxGen /\ gen[i] < MaxGen /\ MaxGen \in Nat
      BY <1>5, RelationsAssumption DEF Types
    <3>2. gen[i] + 1 \in 0 .. MaxGen
      BY <3>1
    <3> QED
      BY <3>2, <1>1 DEF Types
  <2>2. \A j \in alive' : gen'[j] < MaxGen
    BY <1>1 DEF Types
  <2>3. pairs' \in [Index -> SUBSET Pair]
    BY <1>1 DEF Types
  <2> QED
    BY <2>1, <2>2, <2>3, <1>1, <1>2, <1>3 DEF Types
<1>9. LiveEnds'
  BY <1>1, <1>7 DEF LiveEnds
<1>10. OneTarget'
  BY <1>1 DEF OneTarget, OfKind
<1>11. Listed'
  <2> SUFFICES ASSUME NEW k \in Kinds, NEW j \in Index
               PROVE  /\ \A v \in Range(subjects'[<<k, j>>]) :
                           /\ v \in Live' /\ j \in alive'
                           /\ [kind |-> k, target |-> Current(j)'] \in pairs'[v.index]
                      /\ \A n \in Index :
                           [kind |-> k, target |-> Current(j)'] \in pairs'[n]
                             => Current(n)' \in Range(subjects'[<<k, j>>])
    BY DEF Listed
  <2>1. CASE j = i
    <3>1. Range(subjects'[<<k, j>>]) = {}
      BY <2>1, <1>3
    <3>2. ASSUME NEW n \in Index, [kind |-> k, target |-> Current(j)'] \in pairs'[n]
          PROVE  FALSE
      <4>1. Current(j)' \in Live'
        BY <3>2, <1>9 DEF LiveEnds
      <4>2. Current(j)' \in Live /\ Current(j)' # e
        BY <4>1, <1>7
      <4>3. Current(j)'.index = i
        BY <2>1 DEF Current
      <4> QED
        BY <4>2, <4>3, <1>1, LiveFacts
    <3> QED
      BY <3>1, <3>2
  <2>2. CASE j # i
    <3>1. Current(j)' = Current(j) /\ Current(j) # e
      BY <2>2, <1>6
    <3>2. Range(subjects'[<<k, j>>]) = Range(subjects[<<k, j>>]) \ {e}
      BY <2>2, <1>3
    <3>3. ASSUME NEW v \in Range(subjects[<<k, j>>]), v # e
          PROVE  /\ v \in Live' /\ j \in alive'
                 /\ [kind |-> k, target |-> Current(j)] \in pairs'[v.index]
      <4>1. v \in Live /\ j \in alive /\ [kind |-> k, target |-> Current(j)] \in pairs[v.index]
        BY DEF Listed
      <4>2. v.index \in Index /\ v.index # i
        BY <4>1, <3>3, <1>1, LiveFacts
      <4> QED
        BY <4>1, <4>2, <3>1, <3>3, <2>2, <1>1, <1>7
    <3>4. ASSUME NEW n \in Index, [kind |-> k, target |-> Current(j)] \in pairs'[n]
          PROVE  Current(n)' \in Range(subjects[<<k, j>>]) \ {e}
      <4>1. n # i /\ [kind |-> k, target |-> Current(j)] \in pairs[n]
        BY <3>4, <1>1
      <4>2. Current(n)' = Current(n) /\ Current(n) # e
        BY <4>1, <1>6
      <4> QED
        BY <4>1, <4>2 DEF Listed
    <3> QED
      BY <3>1, <3>2, <3>3, <3>4
  <2> QED
    BY <2>1, <2>2
<1>12. \A j \in Index :
         Incoming(j)' = {l \in Incoming(j) : l.subject # e /\ l.target # e}
  BY DespawnLinks DEF Incoming
<1>13. \A l \in LinksBySubject : l.target.index = i <=> l.target = e
  <2> SUFFICES ASSUME NEW j \in Index, NEW q \in pairs[j]
               PROVE  q.target.index = i <=> q.target = e
    BY LinkFacts
  <2>1. q.target \in Live
    BY DEF LiveEnds
  <2> QED
    BY <2>1, <1>1, LiveFacts
<1>14. Counted'
  <2> SUFFICES ASSUME NEW j \in Index PROVE counts'[j] = Cardinality(Incoming(j)')
    BY DEF Counted
  <2>1. CASE j = i
    <3>1. Incoming(j)' = {}
      BY <2>1, <1>12, <1>13 DEF Incoming
    <3>2. counts[i] \in Int /\ counts[i] = Cardinality(TakenEntries(e))
      BY <1>1, <1>5, TakenCount DEF Types
    <3>3. counts'[j] = 0
      BY <2>1, <3>2, <1>2
    <3> QED
      BY <3>1, <3>3, FS_EmptySet
  <2>2. CASE j # i
    <3> DEFINE Own  == {p \in pairs[i] : p.target.index = j}
               Mine == {l \in Incoming(j) : l.subject = e}
               f    == [p \in Own |-> Link(p.kind, e, p.target)]
    <3>1. Incoming(j)' = Incoming(j) \ Mine /\ Mine = Incoming(j) \cap Mine
      BY <2>2, <1>12, <1>13 DEF Incoming
    <3>2. IsFiniteSet(Incoming(j))
      BY FiniteLinks
    <3>3. Cardinality(Incoming(j) \ Mine) = Cardinality(Incoming(j)) - Cardinality(Mine)
      BY <3>1, <3>2, FS_Difference, Zenon
    <3>4. IsFiniteSet(Mine)
      BY <3>2, FS_Subset
    <3>5. \A p \in Own : p \in Pair /\ Link(p.kind, e, p.target) \in Mine
      <4> SUFFICES ASSUME NEW p \in Own
                   PROVE  p \in Pair /\ Link(p.kind, e, p.target) \in Mine
        OBVIOUS
      <4>1. Link(p.kind, Current(i), p.target) \in LinksBySubject
        BY <1>5, LinkFacts
      <4> QED
        BY <4>1, <1>5 DEF Incoming, Link, Types
    <3>6. \A p, q \in Own : Link(p.kind, e, p.target) = Link(q.kind, e, q.target) => p = q
      BY <3>5 DEF Link, Pair
    <3>7. \A l \in Mine : \E p \in Own : Link(p.kind, e, p.target) = l
      <4> SUFFICES ASSUME NEW l \in Mine
                   PROVE  \E p \in Own : Link(p.kind, e, p.target) = l
        OBVIOUS
      <4>1. PICK n \in Index : \E q \in pairs[n] :
              l = [kind |-> q.kind, subject |-> Current(n), target |-> q.target]
        BY LinkFacts DEF Incoming
      <4>2. PICK q \in pairs[n] :
              l = [kind |-> q.kind, subject |-> Current(n), target |-> q.target]
        BY <4>1
      <4>3. Current(n) = e /\ q.target.index = j
        BY <4>2 DEF Incoming
      <4>4. n = i
        BY <4>3, LiveFacts
      <4> QED
        BY <4>2, <4>3, <4>4 DEF Link
    <3> HIDE DEF Own, Mine
    <3>8. f \in Injection(Own, Mine) /\ f \in Surjection(Own, Mine)
      BY <3>5, <3>6, <3>7 DEF Injection, Surjection, IsInjective
    <3> HIDE DEF f
    <3>9. Cardinality(Own) = Cardinality(Mine)
      BY <3>4, <3>8, FS_Injection
    <3>10. counts'[j] = counts[j] - Cardinality(Own) /\ counts[j] = Cardinality(Incoming(j))
      BY <2>2, <1>2 DEF Own, Counted
    <3> QED
      BY <3>1, <3>3, <3>9, <3>10
  <2> QED
    BY <2>1, <2>2
<1> QED
  BY <1>4, <1>8, <1>9, <1>10, <1>11, <1>14

-----------------------------------------------------------------------------
(* The indexes agree.                                                      *)

\* In Next the positions are numbers and the entities have an index.
LEMMA NextIInv ==
  ASSUME IInv, ~StaleHandles, [Next]_vars PROVE IInv'
<1>1. ASSUME NEW i \in Index, Spawn(i) PROVE IInv'
  BY <1>1, SpawnStep
<1>2. ASSUME NEW s \in Live, NEW t \in Live, NEW k \in Kinds,
             NEW at \in 0 .. Len(subjects[<<k, t.index>>]), AddRelation(s, k, t, at)
      PROVE  IInv'
  <2>1. subjects[<<k, t.index>>] \in Seq(Entity)
    BY LiveFacts DEF IInv, Types
  <2>2. at \in Nat
    BY <2>1, LenProperties
  <2> QED
    BY <1>2, <2>2, AddRelationStep
<1>3. ASSUME NEW s \in Entity, NEW p \in pairs[s.index], RemoveRelation(s, p.kind, p.target)
      PROVE  IInv'
  <2>1. s.index \in Index
    BY DEF Entity
  <2> QED
    BY <1>3, <2>1, RemoveRelationStep
<1>4. ASSUME Reorder PROVE IInv'
  <2>1. PICK s \in Live, at \in Index : \E p \in pairs[s.index] :
          SetRelationIndex(s, p.kind, p.target, at)
    BY <1>4 DEF Reorder
  <2>2. at \in Nat
    BY DEF Index
  <2> QED
    BY <2>1, <2>2, SetRelationIndexStep
<1>5. ASSUME NEW e \in Live, Despawn(e) PROVE IInv'
  BY <1>5, StackStep DEF Despawn, indexVars
<1>6. CASE SkipDead
  BY <1>6, StackStep DEF SkipDead, indexVars
<1>7. CASE DespawnOne
  BY <1>7, DespawnEffect, DespawnStep
<1>8. CASE UNCHANGED vars
  BY <1>8, StackStep DEF vars, indexVars
<1> QED
  BY <1>1, <1>2, <1>3, <1>4, <1>5, <1>6, <1>7, <1>8 DEF Next

\* The two indexes hold the same links between live entities, whatever is
\* linked, reordered, unlinked or despawned, also between two rounds of a
\* cascade, as long as remove_relation is only called with live subjects.
THEOREM LinksAgree == ASSUME ~StaleHandles PROVE Spec => []IndexesAgree
<1>1. Init => IInv
  BY InitIInv
<1>2. IInv /\ [Next]_vars => IInv'
  BY NextIInv
<1>3. IInv => IndexesAgree
  BY IInvIndexesAgree
<1> QED
  BY <1>1, <1>2, <1>3, PTL DEF Spec

-----------------------------------------------------------------------------
(* No cycles.                                                              *)

\* Fewer entities and fewer links close no cycle.
LEMMA AcyclicShrinks ==
  ASSUME NEW k, Acyclic(k), alive' \subseteq alive,
         \A i \in alive' : OfKind(i, k)' \subseteq OfKind(i, k)
  PROVE  Acyclic(k)'
<1> SUFFICES ASSUME NEW S \in SUBSET alive', S # {}
             PROVE  \E i \in S : \A p \in OfKind(i, k)' : p.target.index \notin S
  BY DEF Acyclic
<1>1. PICK i \in S : \A p \in OfKind(i, k) : p.target.index \notin S
  BY DEF Acyclic
<1> QED
  BY <1>1

\* An entity that is spawned has no parents: an index that is used again has
\* lost its pairs.
LEMMA SpawnAcyclic ==
  ASSUME IInv, NEW i \in Index, Spawn(i), NEW k, Acyclic(k)
  PROVE  Acyclic(k)'
<1>1. i \notin alive /\ alive' = alive \cup {i} /\ pairs' = pairs
  BY DEF Spawn, indexVars
<1>2. OfKind(i, k)' = {}
  BY <1>1 DEF OfKind, IInv, LiveEnds
<1>3. \A j \in Index : OfKind(j, k)' = OfKind(j, k)
  BY <1>1 DEF OfKind
<1> SUFFICES ASSUME NEW S \in SUBSET alive', S # {}
             PROVE  \E j \in S : \A p \in OfKind(j, k)' : p.target.index \notin S
  BY DEF Acyclic
<1>4. CASE i \in S
  BY <1>2, <1>4
<1>5. CASE i \notin S
  <2>1. S \in SUBSET alive /\ alive \subseteq Index
    BY <1>1, <1>5 DEF IInv, Types
  <2>2. PICK j \in S : \A p \in OfKind(j, k) : p.target.index \notin S
    BY <2>1 DEF Acyclic
  <2> QED
    BY <2>1, <2>2, <1>3
<1> QED
  BY <1>4, <1>5

\* The first pair of an exclusive kind is the only one.
LEMMA FirstFacts ==
  ASSUME IInv, NEW i \in Index, NEW k \in Exclusive, NEW p \in OfKind(i, k)
  PROVE  First(i, k) = p /\ p.target.index \in Index
<1>1. OfKind(i, k) = {p}
  BY DEF IInv, OneTarget
<1>2. p.target \in Entity
  BY DEF OfKind, IInv, Types, Pair
<1>3. p.target.index \in Index /\ p.target.index \in Int /\ p.target.gen \in Int
  BY <1>2 DEF Entity, Index
<1>4. Before(p.target, p.target)
  BY <1>3 DEF Before
<1> QED
  BY <1>1, <1>3, <1>4 DEF First

\* The walk up from an entity stays in a set of entities in which all but s,
\* which it does not meet, have a parent.
LEMMA ChainStays ==
  ASSUME IInv, NEW k \in Exclusive, NEW t \in Index, NEW s \in Index,
         NEW S \in SUBSET Index, t \in S, s \notin Chain(t, k),
         \A i \in S \ {s} : \E p \in OfKind(i, k) : p.target.index \in S
  PROVE  Chain(t, k) \subseteq S
<1> DEFINE C == Chain(t, k)
           T == C \cap S
<1>1. t \in C
  BY DEF Chain
<1>2. \A y \in C : OfKind(y, k) # {} /\ First(y, k).target.index \in Index
                     => First(y, k).target.index \in C
  BY DEF Chain
<1>3. ASSUME NEW y \in T, OfKind(y, k) # {}
      PROVE  First(y, k).target.index \in T
  <2>1. y \in S \ {s}
    BY <1>3
  <2>2. PICK p \in OfKind(y, k) : p.target.index \in S
    BY <2>1
  <2>3. First(y, k) = p /\ p.target.index \in Index
    BY FirstFacts
  <2> QED
    BY <2>2, <2>3, <1>2, <1>3
<1>4. T \in SUBSET Index /\ t \in T
  BY <1>1
<1>5. \A x \in C : x \in T
  <2> SUFFICES ASSUME NEW x \in C PROVE x \in T
    OBVIOUS
  <2>1. (/\ t \in T
         /\ \A y \in T : OfKind(y, k) # {} => First(y, k).target.index \in T) => x \in T
    <3> HIDE DEF T
    <3> QED
      BY <1>4 DEF Chain
  <2> QED
    BY <2>1, <1>3, <1>4
<1> QED
  BY <1>5

\* The walk of add_relation finds every cycle the new link would close, and
\* the look at the count that spares the walk never hides one.
LEMMA AddAcyclic ==
  ASSUME IInv, NEW s, NEW k \in Kinds, NEW t, NEW at \in Nat, AddRelation(s, k, t, at),
         NEW h \in Exclusive, Acyclic(h)
  PROVE  Acyclic(h)'
<1> DEFINE i   == s.index
           j   == t.index
           new == [kind |-> k, target |-> t]
           old == Replaced(s, k)
<1>1. AddDoes(s, k, t)
  BY AddRelationEffect
<1>2. /\ s \in Live /\ t \in Live /\ i # j /\ alive' = alive
      /\ pairs' = [pairs EXCEPT ![i] = (pairs[i] \ old) \cup {new}]
  BY <1>1 DEF AddDoes
<1>3. i \in Index /\ j \in Index /\ i \in alive /\ j \in alive /\ alive \subseteq Index
  BY <1>2, LiveFacts DEF IInv, Types
<1>4. \A n \in Index : pairs'[n] = IF n = i THEN (pairs[n] \ old) \cup {new} ELSE pairs[n]
  BY <1>2, <1>3 DEF IInv, Types
<1>5. CASE h # k
  <2>1. \A n \in alive' : OfKind(n, h)' \subseteq OfKind(n, h)
    BY <1>2, <1>3, <1>4, <1>5 DEF OfKind
  <2> QED
    BY <2>1, <1>2, AcyclicShrinks
<1>6. CASE h = k
  <2>1. old = OfKind(i, k)
    BY <1>3, <1>6, ReplacedFacts
  <2>2. \A n \in Index : OfKind(n, k)' = IF n = i THEN {new} ELSE OfKind(n, k)
    <3> SUFFICES ASSUME NEW n \in Index
                 PROVE  {p \in pairs'[n] : p.kind = k}
                          = IF n = i THEN {new} ELSE {p \in pairs[n] : p.kind = k}
      BY DEF OfKind
    <3>1. CASE n = i
      <4>1. pairs'[i] = (pairs[i] \ {p \in pairs[i] : p.kind = k}) \cup {new}
        BY <1>3, <1>4, <2>1 DEF OfKind
      <4> QED
        BY <3>1, <4>1
    <3>2. CASE n # i
      BY <3>2, <1>4
    <3> QED
      BY <3>1, <3>2
  <2> SUFFICES ASSUME NEW S \in SUBSET alive, S # {},
                      \A n \in S : \E p \in OfKind(n, k)' : p.target.index \in S
               PROVE  FALSE
    BY <1>2, <1>6 DEF Acyclic
  <2>3. \A n \in S \ {i} : \E p \in OfKind(n, k) : p.target.index \in S
    BY <1>3, <2>2
  <2>4. i \in S
    <3>1. SUFFICES ASSUME i \notin S PROVE FALSE
      OBVIOUS
    <3> QED
      BY <3>1, <2>3, <1>6 DEF Acyclic
  <2>5. j \in S
    BY <2>2, <2>4, <1>3
  <2>6. CASE counts[i] > 0
    <3>1. ~ClosesCycle(s, k, t)
      BY <1>6 DEF AddRelation
    <3>2. i \notin Chain(j, k) /\ \E x \in Chain(j, k) : OfKind(x, k) = {}
      BY <3>1, <2>6 DEF ClosesCycle
    <3>3. Chain(j, k) \subseteq S
      BY <3>2, <2>3, <2>5, <1>3, <1>6, ChainStays
    <3> QED
      BY <3>2, <3>3, <2>3
  <2>7. CASE ~(counts[i] > 0)
    <3> DEFINE T == S \ {i}
    <3>1. Incoming(i) = {}
      <4>1. IsFiniteSet(Incoming(i)) /\ counts[i] = Cardinality(Incoming(i))
        BY <1>3, FiniteLinks DEF IInv, Counted
      <4>2. Cardinality(Incoming(i)) \in Nat
        BY <4>1, FS_CardinalityType
      <4>3. Cardinality(Incoming(i)) = 0
        BY <4>1, <4>2, <2>7
      <4> QED
        BY <4>1, <4>3, FS_EmptySet
    <3>2. \A n \in T : \A p \in OfKind(n, k) : p.target.index # i
      <4> SUFFICES ASSUME NEW n \in T, NEW p \in pairs[n], p.target.index = i
                   PROVE  FALSE
        BY DEF OfKind
      <4>1. Link(p.kind, Current(n), p.target) \in LinksBySubject
        BY <1>3, LinkFacts
      <4> QED
        BY <4>1, <3>1 DEF Incoming, Link
    <3>3. \A n \in T : \E p \in OfKind(n, k) : p.target.index \in T
      BY <3>2, <2>3
    <3>4. T \in SUBSET alive /\ T # {}
      BY <2>5, <1>2
    <3> HIDE DEF T
    <3> QED
      BY <3>3, <3>4, <1>6 DEF Acyclic
  <2> QED
    BY <2>6, <2>7
<1> QED
  BY <1>5, <1>6

\* No operation closes a cycle of an exclusive kind.
LEMMA NextAcyclic ==
  ASSUME IInv, ~StaleHandles, ParentsAcyclic, [Next]_vars PROVE ParentsAcyclic'
<1> SUFFICES ASSUME NEW k \in Exclusive PROVE Acyclic(k)'
  BY DEF ParentsAcyclic
<1> Acyclic(k)
  BY DEF ParentsAcyclic
<1>0. ASSUME alive' = alive, pairs' = pairs PROVE Acyclic(k)'
  BY <1>0, AcyclicShrinks DEF OfKind
<1>1. ASSUME NEW i \in Index, Spawn(i) PROVE Acyclic(k)'
  BY <1>1, SpawnAcyclic
<1>2. ASSUME NEW s \in Live, NEW t \in Live, NEW h \in Kinds,
             NEW at \in 0 .. Len(subjects[<<h, t.index>>]), AddRelation(s, h, t, at)
      PROVE  Acyclic(k)'
  <2>1. subjects[<<h, t.index>>] \in Seq(Entity)
    BY LiveFacts DEF IInv, Types
  <2>2. at \in Nat
    BY <2>1, LenProperties
  <2> QED
    BY <1>2, <2>2, AddAcyclic
<1>3. ASSUME NEW s \in Entity, NEW p \in pairs[s.index], RemoveRelation(s, p.kind, p.target)
      PROVE  Acyclic(k)'
  <2>1. alive' = alive /\ \A i \in alive : pairs'[i] \subseteq pairs[i]
    BY <1>3 DEF RemoveRelation, IInv, Types, Entity
  <2> QED
    BY <2>1, AcyclicShrinks DEF OfKind
<1>4. CASE Reorder
  BY <1>0, <1>4 DEF Reorder, SetRelationIndex
<1>5. ASSUME NEW e \in Live, Despawn(e) PROVE Acyclic(k)'
  BY <1>0, <1>5 DEF Despawn, indexVars
<1>6. CASE SkipDead
  BY <1>0, <1>6 DEF SkipDead, indexVars
<1>7. CASE DespawnOne
  <2> DEFINE e == Last(stack)
  <2>1. DespawnDoes(e)
    BY <1>7, DespawnEffect
  <2> HIDE DEF e
  <2>2. /\ alive' \subseteq alive
        /\ pairs' = [j \in Index |-> IF j = e.index THEN {}
                                     ELSE {p \in pairs[j] : p.target # e}]
    BY <2>1 DEF DespawnDoes
  <2>3. \A i \in alive' : OfKind(i, k)' \subseteq OfKind(i, k)
    BY <2>2 DEF OfKind, IInv, Types
  <2> QED
    BY <2>2, <2>3, AcyclicShrinks
<1>8. CASE UNCHANGED vars
  BY <1>0, <1>8 DEF vars, indexVars
<1> QED
  BY <1>1, <1>2, <1>3, <1>4, <1>5, <1>6, <1>7, <1>8 DEF Next

\* There is no cycle where there is nobody.
LEMMA InitAcyclic == Init => ParentsAcyclic
<1> SUFFICES ASSUME Init, NEW k \in Exclusive PROVE Acyclic(k)
  BY DEF ParentsAcyclic
<1> SUFFICES ASSUME NEW S \in SUBSET alive, S # {} PROVE FALSE
  BY DEF Acyclic
<1> QED
  BY DEF Init

\* Following the parents of an exclusive kind comes to an end, in whatever order
\* links were added, replaced, removed and lost in despawns: the walk in
\* add_relation is enough, and so is the count that spares it.
THEOREM NoParentCycles == ASSUME ~StaleHandles PROVE Spec => []ParentsAcyclic
<1>1. Init => IInv /\ ParentsAcyclic
  BY InitIInv, InitAcyclic
<1>2. IInv /\ ParentsAcyclic /\ [Next]_vars => (IInv /\ ParentsAcyclic)'
  BY NextIInv, NextAcyclic
<1> QED
  BY <1>1, <1>2, PTL DEF Spec

-----------------------------------------------------------------------------
(* The order of siblings.                                                  *)

\* In a list in which everyone stands once, only one of two is before the other.
LEMMA PrecedesOnce ==
  ASSUME NEW list \in Seq(Entity), IsInjective(list), NEW a, NEW b,
         Precedes(list, a, b), Precedes(list, b, a)
  PROVE  FALSE
<1>1. Len(list) \in Nat /\ DOMAIN list = 1 .. Len(list)
  BY LenProperties
<1>2. PICK i \in 1 .. Len(list), j \in 1 .. Len(list) : i < j /\ list[i] = a /\ list[j] = b
  BY DEF Precedes
<1>3. PICK m \in 1 .. Len(list), n \in 1 .. Len(list) : m < n /\ list[m] = b /\ list[n] = a
  BY DEF Precedes
<1>4. i = n /\ j = m
  BY <1>1, <1>2, <1>3 DEF IsInjective
<1> QED
  BY <1>1, <1>2, <1>3, <1>4

\* Every step but an explicit reordering keeps the order of those who stay.
LEMMA NextKeepsOrder ==
  ASSUME IInv, ~StaleHandles, [Next]_vars, ~Reorder,
         NEW x \in Kinds \X Index, NEW a \in Range(subjects[x]), NEW b \in Range(subjects[x]),
         Precedes(subjects'[x], b, a)
  PROVE  Precedes(subjects[x], b, a)
<1>0. CASE subjects' = subjects
  BY <1>0
<1>1. ASSUME NEW i \in Index, Spawn(i) PROVE Precedes(subjects[x], b, a)
  BY <1>0, <1>1 DEF Spawn, indexVars
<1>2. ASSUME NEW s \in Live, NEW t \in Live, NEW k \in Kinds,
             NEW at \in 0 .. Len(subjects[<<k, t.index>>]), AddRelation(s, k, t, at)
      PROVE  Precedes(subjects[x], b, a)
  <2>1. subjects[<<k, t.index>>] \in Seq(Entity)
    BY LiveFacts DEF IInv, Types
  <2>2. at \in Nat
    BY <2>1, LenProperties
  <2>3. AddDoes(s, k, t)
    BY <1>2, <2>2, AddRelationEffect
  <2>4. \A y \in Kinds \X Index : \A c, d \in Range(subjects[y]) :
          Precedes(subjects'[y], c, d) => Precedes(subjects[y], c, d)
    BY <2>3, Zenon DEF AddDoes
  <2> QED
    BY <2>4
<1>3. ASSUME NEW s \in Entity, NEW p \in pairs[s.index], RemoveRelation(s, p.kind, p.target)
      PROVE  Precedes(subjects[x], b, a)
  <2> DEFINE y == <<p.kind, p.target.index>>
  <2>1. s.index \in Index
    BY DEF Entity
  <2>2. y \in Kinds \X Index /\ subjects' = [subjects EXCEPT ![y] = Unlisted(subjects[y], s)]
    <3>1. RemoveDoes(s, p.kind, p.target)
      BY <1>3, <2>1, RemoveRelationEffect
    <3> QED
      BY <3>1 DEF RemoveDoes
  <2>3. subjects[y] \in Seq(Entity) /\ IsInjective(subjects[y])
    BY <2>2 DEF IInv, Types, ListedOnce
  <2>4. \A c, d : Precedes(Unlisted(subjects[y], s), c, d) => Precedes(subjects[y], c, d)
    BY <2>3, UnlistedFacts
  <2>5. CASE x = y
    BY <2>2, <2>4, <2>5 DEF IInv, Types
  <2>6. CASE x # y
    BY <2>2, <2>6 DEF IInv, Types
  <2> QED
    BY <2>5, <2>6
<1>5. ASSUME NEW e \in Live, Despawn(e) PROVE Precedes(subjects[x], b, a)
  BY <1>0, <1>5 DEF Despawn, indexVars
<1>6. CASE SkipDead
  BY <1>0, <1>6 DEF SkipDead, indexVars
<1>7. CASE DespawnOne
  <2>1. DespawnDoes(Last(stack))
    BY <1>7, DespawnEffect
  <2>2. \A y \in Kinds \X Index : \A c, d :
          Precedes(subjects'[y], c, d) => Precedes(subjects[y], c, d)
    BY <2>1, Zenon DEF DespawnDoes
  <2> QED
    BY <2>2
<1>8. CASE UNCHANGED vars
  BY <1>0, <1>8 DEF vars, indexVars
<1> QED
  BY <1>1, <1>2, <1>3, <1>5, <1>6, <1>7, <1>8 DEF Next

\* Two siblings change places by set_relation_index only: not because a third
\* one is added, removed, moved to another parent or despawned.
THEOREM OrderOfSiblings == ASSUME ~StaleHandles PROVE Spec => SiblingsKeepOrder
<1> DEFINE Kept == Reorder \/ \A x \in Kinds \X Index : \A a, b \in Range(subjects[x]) :
                     Precedes(subjects[x], a, b) => ~Precedes(subjects'[x], b, a)
<1>1. ASSUME IInv, [Next]_vars PROVE Kept
  <2> SUFFICES ASSUME ~Reorder, NEW x \in Kinds \X Index, NEW a \in Range(subjects[x]),
                      NEW b \in Range(subjects[x]), Precedes(subjects[x], a, b),
                      Precedes(subjects'[x], b, a)
               PROVE  FALSE
    OBVIOUS
  <2>1. Precedes(subjects[x], b, a)
    BY <1>1, NextKeepsOrder
  <2>2. subjects[x] \in Seq(Entity) /\ IsInjective(subjects[x])
    BY <1>1 DEF IInv, Types, ListedOnce
  <2> QED
    BY <2>1, <2>2, PrecedesOnce
<1>2. IInv /\ [Next]_vars => [Kept]_vars
  BY <1>1
<1>3. Init => IInv
  BY InitIInv
<1>4. IInv /\ [Next]_vars => IInv'
  BY NextIInv
<1>5. SiblingsKeepOrder <=> [][Kept]_vars
  BY DEF SiblingsKeepOrder
<1> HIDE DEF Kept
<1> QED
  BY <1>2, <1>3, <1>4, <1>5, PTL DEF Spec

-----------------------------------------------------------------------------
(* Who a despawn takes with it.                                            *)

\* What holds at 0, and at n + 1 if it holds at n, holds everywhere.
LEMMA Induction ==
  ASSUME NEW S, 0 \in S, \A n \in Nat : n \in S => n + 1 \in S
  PROVE  Nat \subseteq S
<1> DEFINE less == {p \in Nat \X Nat : p[1] < p[2]}
<1> SUFFICES ASSUME Nat \ S # {} PROVE FALSE
  OBVIOUS
<1>1. IsWellFoundedOn(less, Nat)
  BY NatLessThanWellFounded DEF OpToRel
<1>2. PICK x \in Nat \ S : \A y \in Nat \ S : <<y, x>> \notin less
  BY <1>1, WFMin
<1>3. x # 0 /\ x - 1 \in Nat
  BY <1>2
<1>4. x - 1 \in S
  <2>1. <<x - 1, x>> \in Nat \X Nat /\ x - 1 < x
    BY <1>3
  <2> QED
    BY <1>2, <1>3, <2>1
<1> QED
  BY <1>2, <1>3, <1>4

\* There is no place in an empty list.
LEMMA NothingToCount == 1 .. 0 = {}
OBVIOUS

\* In the concatenation of two lists stands what stands in one of them.
LEMMA RangeOfBoth ==
  ASSUME NEW T, NEW v \in Seq(T), NEW w \in Seq(T)
  PROVE  v \o w \in Seq(T) /\ Range(v \o w) = Range(v) \cup Range(w)
<1> DEFINE c == v \o w
<1>1. /\ Len(v) \in Nat /\ DOMAIN v = 1 .. Len(v)
      /\ Len(w) \in Nat /\ DOMAIN w = 1 .. Len(w)
      /\ DOMAIN c = 1 .. (Len(v) + Len(w))
      /\ \A i \in 1 .. (Len(v) + Len(w)) :
            c[i] = IF i <= Len(v) THEN v[i] ELSE w[i - Len(v)]
  BY LenProperties, ConcatProperties
<1> HIDE DEF c
<1>2. ASSUME NEW x \in Range(c) PROVE x \in Range(v) \cup Range(w)
  <2>1. PICK i \in 1 .. (Len(v) + Len(w)) : x = c[i]
    BY <1>1, <1>2 DEF Range
  <2>2. CASE i <= Len(v)
    <3>1. i \in DOMAIN v /\ x = v[i]
      BY <1>1, <2>1, <2>2
    <3> QED
      BY <3>1 DEF Range
  <2>3. CASE ~(i <= Len(v))
    <3>1. i - Len(v) \in DOMAIN w /\ x = w[i - Len(v)]
      BY <1>1, <2>1, <2>3
    <3> QED
      BY <3>1 DEF Range
  <2> QED
    BY <2>2, <2>3
<1>3. ASSUME NEW x \in Range(v) PROVE x \in Range(c)
  <2>1. PICK i \in DOMAIN v : x = v[i]
    BY <1>3 DEF Range
  <2>2. i \in DOMAIN c /\ c[i] = x
    BY <1>1, <2>1
  <2> QED
    BY <2>2 DEF Range
<1>4. ASSUME NEW x \in Range(w) PROVE x \in Range(c)
  <2>1. PICK i \in DOMAIN w : x = w[i]
    BY <1>4 DEF Range
  <2>2. /\ Len(v) + i \in DOMAIN c /\ ~(Len(v) + i <= Len(v))
        /\ (Len(v) + i) - Len(v) = i
    BY <1>1, <2>1
  <2>3. c[Len(v) + i] = x
    BY <1>1, <2>1, <2>2
  <2> QED
    BY <2>2, <2>3 DEF Range
<1>5. Range(c) = Range(v) \cup Range(w)
  BY <1>2, <1>3, <1>4
<1> QED
  BY <1>5, ConcatProperties DEF c

\* In a concatenation stands what stands in one of its parts.
LEMMA FlattenRange ==
  ASSUME NEW T, NEW seqs \in Seq(Seq(T))
  PROVE  /\ FlattenSeq(seqs) \in Seq(T)
         /\ \A v : v \in Range(FlattenSeq(seqs))
                     <=> \E n \in DOMAIN seqs : v \in Range(seqs[n])
<1> DEFINE N == Len(seqs)
           V == Seq(T)
           body(f, n) == IF n = 1 THEN seqs[n] ELSE f[n - 1] \o seqs[n]
           Def(f) == f = [n \in 1 .. Len(seqs) |-> body(f, n)]
           flatten == CHOOSE f : Def(f)
           Grown(f, k) == /\ f \in [1 .. k -> V]
                          /\ \A n \in 1 .. k : f[n] = body(f, n)
<1>1. N \in Nat /\ DOMAIN seqs = 1 .. N /\ \A n \in 1 .. N : seqs[n] \in V
  BY LenProperties
<1>2. \A v \in V, w \in V : v \o w \in V
  BY ConcatProperties
<1>3. \E f : Grown(f, N)
  <2> DEFINE P == {k \in Nat : k <= N => \E f : Grown(f, k)}
  <2>1. 0 \in P
    <3>1. 1 .. 0 = {}
      BY NothingToCount
    <3>2. [n \in 1 .. 0 |-> <<>>] \in [1 .. 0 -> V]
      BY <3>1
    <3>3. Grown([n \in 1 .. 0 |-> <<>>], 0)
      BY <3>1, <3>2
    <3> QED
      BY <3>3
  <2>2. ASSUME NEW k \in Nat, k \in P PROVE k + 1 \in P
    <3> SUFFICES ASSUME k + 1 <= N PROVE \E f : Grown(f, k + 1)
      <4> HIDE DEF Grown, N
      <4> QED
        OBVIOUS
    <3>0. k <= N
      BY <1>1
    <3>1. PICK f : Grown(f, k)
      <4> HIDE DEF Grown, N
      <4> QED
        BY <2>2, <3>0
    <3>2. k + 1 \in 1 .. N /\ \A n \in 1 .. (k + 1) : n = k + 1 \/ n \in 1 .. k
      BY <1>1
    <3> DEFINE last == IF k = 0 THEN seqs[1] ELSE f[k] \o seqs[k + 1]
               g == [n \in 1 .. (k + 1) |-> IF n = k + 1 THEN last ELSE f[n]]
    <3>3. last \in V
      <4>1. k # 0 => k \in 1 .. k
        OBVIOUS
      <4> HIDE DEF V
      <4>2. k # 0 => f[k] \in V
        BY <3>1, <4>1
      <4>3. k = 0 => seqs[1] \in V
        BY <1>1, <3>2
      <4> QED
        BY <1>1, <1>2, <3>2, <4>2, <4>3
    <3> HIDE DEF last, V
    <3>4. g \in [1 .. (k + 1) -> V]
      BY <3>1, <3>2, <3>3
    <3>5. ASSUME NEW n \in 1 .. (k + 1) PROVE g[n] = body(g, n)
      <4>1. CASE n = k + 1
        <5>1. CASE k = 0
          BY <4>1, <5>1 DEF last
        <5>2. CASE k # 0
          <6>1. k \in 1 .. (k + 1) /\ k # k + 1 /\ n # 1 /\ n - 1 = k
            BY <4>1, <5>2
          <6>2. g[k] = f[k]
            BY <6>1
          <6> QED
            BY <4>1, <5>2, <6>1, <6>2 DEF last
        <5> QED
          BY <5>1, <5>2
      <4>2. CASE n # k + 1
        <5>1. n \in 1 .. k
          BY <3>2, <4>2
        <5>2. n # 1 => n - 1 \in 1 .. (k + 1) /\ n - 1 # k + 1
          BY <5>1
        <5>3. g[n] = f[n] /\ (n # 1 => g[n - 1] = f[n - 1])
          BY <4>2, <5>2
        <5> QED
          BY <3>1, <5>1, <5>3
      <4> QED
        BY <4>1, <4>2
    <3> HIDE DEF g
    <3> QED
      BY <3>4, <3>5
  <2>3. Nat \subseteq P
    <3> HIDE DEF P
    <3> QED
      BY <2>1, <2>2, Induction
  <2>4. N \in P
    <3> HIDE DEF P, N
    <3> QED
      BY <1>1, <2>3
  <2>5. N <= N
    BY <1>1
  <2> HIDE DEF Grown, N
  <2> QED
    BY <2>4, <2>5
<1>4. PICK f0 : Grown(f0, N)
  BY <1>3
<1>5. Def(f0)
  BY <1>4
<1>6. Def(flatten)
  BY <1>5
<1> HIDE DEF flatten
<1> DEFINE Holds(n) == /\ flatten[n] \in V
                       /\ \A v : v \in Range(flatten[n])
                                   <=> \E m \in 1 .. n : v \in Range(seqs[m])
<1>7. \A n \in 1 .. N : Holds(n)
  <2> DEFINE P == {n \in Nat : n \in 1 .. N => Holds(n)}
  <2>1. 0 \in P
    BY <1>1
  <2>2. ASSUME NEW k \in Nat, k \in P PROVE k + 1 \in P
    <3> SUFFICES ASSUME k + 1 \in 1 .. N PROVE Holds(k + 1)
      OBVIOUS
    <3>1. flatten[k + 1] = body(flatten, k + 1)
      BY <1>6
    <3>2. \A m \in 1 .. (k + 1) : m = k + 1 \/ m \in 1 .. k
      OBVIOUS
    <3>3. CASE k = 0
      <4>1. flatten[k + 1] = seqs[k + 1]
        BY <3>1, <3>3
      <4>2. 1 .. (k + 1) = {k + 1}
        BY <3>3
      <4> HIDE DEF V
      <4> QED
        BY <1>1, <4>1, <4>2
    <3>4. CASE k # 0
      <4>1. k \in 1 .. N /\ k + 1 # 1 /\ (k + 1) - 1 = k
        BY <1>1, <3>4
      <4>2. flatten[k + 1] = flatten[k] \o seqs[k + 1]
        BY <3>1, <4>1
      <4>3. Holds(k) /\ seqs[k + 1] \in V
        BY <1>1, <2>2, <4>1
      <4> HIDE DEF V
      <4>5. flatten[k + 1] \in V
        BY <1>2, <4>2, <4>3
      <4>6. Range(flatten[k + 1]) = Range(flatten[k]) \cup Range(seqs[k + 1])
        BY <4>2, <4>3, RangeOfBoth DEF V
      <4>7. ASSUME NEW v
            PROVE  v \in Range(flatten[k + 1])
                     <=> \E m \in 1 .. (k + 1) : v \in Range(seqs[m])
        <5>1. v \in Range(flatten[k]) <=> \E m \in 1 .. k : v \in Range(seqs[m])
          BY <4>3
        <5>2. k + 1 \in 1 .. (k + 1) /\ \A m \in 1 .. k : m \in 1 .. (k + 1)
          OBVIOUS
        <5> QED
          BY <3>2, <4>6, <5>1, <5>2
      <4> QED
        BY <4>5, <4>7
    <3> QED
      BY <3>3, <3>4
  <2>3. Nat \subseteq P
    <3> HIDE DEF P
    <3> QED
      BY <2>1, <2>2, Induction
  <2>4. \A n \in 1 .. N : n \in P
    <3> HIDE DEF P
    <3> QED
      BY <1>1, <2>3
  <2> HIDE DEF Holds, N
  <2> QED
    BY <2>4
<1>8. FlattenSeq(seqs) = IF N = 0 THEN seqs ELSE flatten[N]
  BY DEF FlattenSeq, flatten
<1>9. CASE N = 0
  <2>1. seqs = <<>> /\ FlattenSeq(seqs) = <<>>
    BY <1>8, <1>9, EmptySeq
  <2>2. Range(<<>>) = {} /\ DOMAIN seqs = {}
    BY <2>1 DEF Range
  <2> QED
    BY <2>1, <2>2, EmptySeq
<1>10. CASE N # 0
  <2>1. N \in 1 .. N
    BY <1>1, <1>10
  <2>2. FlattenSeq(seqs) = flatten[N] /\ Holds(N)
    BY <1>7, <1>8, <1>10, <2>1
  <2> QED
    BY <1>1, <2>2
<1> QED
  BY <1>9, <1>10

\* The kinds are taken one after the other, and none is left out.
LEMMA EveryKind ==
  /\ KindOrder \in [1 .. Cardinality(Kinds) -> Kinds]
  /\ \A k \in Kinds : \E j \in 1 .. Cardinality(Kinds) : KindOrder[j] = k
<1> DEFINE N == Cardinality(Kinds)
<1>1. IsFiniteSet(Kinds)
  BY RelationsAssumption
<1>2. N \in Nat /\ ExistsBijection(1 .. N, Kinds)
  BY <1>1, FS_CardinalityType
<1>3. PICK b : b \in Bijection(1 .. N, Kinds)
  BY <1>2 DEF ExistsBijection
<1>4. b \in [1 .. N -> Kinds] /\ IsInjective(b)
  BY <1>3 DEF Bijection, Injection
<1>5. KindOrder \in [1 .. N -> Kinds] /\ IsInjective(KindOrder)
  BY <1>4 DEF KindOrder, SetToSeq
<1>6. KindOrder \in Injection(1 .. N, Kinds)
  BY <1>5 DEF Injection
<1>7. Cardinality(1 .. N) = N
  <2>1. 1 \in Int /\ N \in Int
    BY <1>2
  <2>2. Cardinality(1 .. N) = IF 1 > N THEN 0 ELSE N - 1 + 1
    BY <2>1, FS_Interval
  <2> QED
    BY <1>2, <2>2
<1>8. KindOrder \in Surjection(1 .. N, Kinds)
  BY <1>1, <1>6, <1>7, FS_Injection
<1> QED
  BY <1>5, <1>8 DEF Surjection

\* What goes on the stack when e is despawned: the live entities that have a
\* cascading link to it, all of them.
LEMMA CascadeFacts ==
  ASSUME IInv, NEW e \in Live
  PROVE  /\ Cascade(e) \in Seq(Entity)
         /\ \A s : s \in Range(Cascade(e))
                     => s \in Live /\ \E k \in Cascading :
                          [kind |-> k, target |-> e] \in pairs[s.index]
         /\ \A j \in Index : \A k \in Cascading :
              [kind |-> k, target |-> e] \in pairs[j]
                => Current(j) \in Range(Cascade(e))
<1> DEFINE i == e.index
           N == Cardinality(Kinds)
           part(k) == IF k \in Cascading THEN Taken(e, k) ELSE <<>>
           seqs == [j \in 1 .. Len(KindOrder) |-> part(KindOrder[j])]
<1>1. /\ N \in Nat /\ KindOrder \in [1 .. N -> Kinds]
      /\ \A k \in Kinds : \E j \in 1 .. N : KindOrder[j] = k
  BY EveryKind, FS_CardinalityType, RelationsAssumption
<1>2. Len(KindOrder) = N
  BY <1>1
<1>3. i \in Index /\ i \in alive /\ e = Current(i)
  BY LiveFacts DEF IInv
<1>4. \A k \in Kinds : /\ part(k) \in Seq(Entity)
                       /\ k \in Cascading => part(k) = subjects[<<k, i>>]
                       /\ k \notin Cascading => part(k) = <<>>
  <2>1. \A k \in Kinds : Taken(e, k) = subjects[<<k, i>>]
    BY TakenFacts
  <2>2. \A k \in Kinds : subjects[<<k, i>>] \in Seq(Entity)
    BY <1>3 DEF IInv, Types
  <2> QED
    BY <2>1, <2>2
<1>5. Cascade(e) = FlattenSeq(seqs)
  BY DEF Cascade
<1> HIDE DEF part
<1>6. seqs \in [1 .. N -> Seq(Entity)]
  BY <1>1, <1>2, <1>4
<1>7. seqs \in Seq(Seq(Entity)) /\ DOMAIN seqs = 1 .. N
  BY <1>1, <1>6
<1>8. \A j \in 1 .. N : seqs[j] = part(KindOrder[j])
  BY <1>2
<1> HIDE DEF seqs
<1>9. /\ Cascade(e) \in Seq(Entity)
      /\ \A v : v \in Range(Cascade(e)) <=> \E n \in 1 .. N : v \in Range(seqs[n])
  BY <1>5, <1>7, FlattenRange
<1>10. Range(<<>>) = {}
  BY DEF Range
<1>11. ASSUME NEW s \in Range(Cascade(e))
       PROVE  s \in Live /\ \E k \in Cascading : [kind |-> k, target |-> e] \in pairs[s.index]
  <2>1. PICK n \in 1 .. N : s \in Range(seqs[n])
    BY <1>9, <1>11
  <2> DEFINE k == KindOrder[n]
  <2>2. k \in Kinds /\ s \in Range(part(k))
    BY <1>1, <1>8, <2>1
  <2> HIDE DEF k
  <2>3. k \in Cascading /\ s \in Range(subjects[<<k, i>>])
    BY <1>4, <1>10, <2>2
  <2> QED
    BY <1>3, <2>2, <2>3 DEF IInv, Listed
<1>12. ASSUME NEW j \in Index, NEW k \in Cascading, [kind |-> k, target |-> e] \in pairs[j]
       PROVE  Current(j) \in Range(Cascade(e))
  <2>1. k \in Kinds
    BY RelationsAssumption
  <2>2. Current(j) \in Range(subjects[<<k, i>>])
    BY <1>3, <1>12, <2>1 DEF IInv, Listed
  <2>3. PICK n \in 1 .. N : KindOrder[n] = k
    BY <1>1, <2>1
  <2>4. seqs[n] = subjects[<<k, i>>]
    BY <1>4, <1>8, <2>1, <2>3
  <2> QED
    BY <1>9, <2>2, <2>4
<1> QED
  BY <1>9, <1>11, <1>12

\* A set of entities that, given the links, leaves no subject of a cascading
\* link into it behind.
Drawn(links, living, S) ==
  \A i \in living : \A p \in links[i] :
    p.kind \in Cascading /\ p.target.index \in S => i \in S

\* Of the entities that live, exactly those outside `rest` are led to from the
\* ones that wait on the stack.
LeadsTo(links, living, waiting, rest) ==
  /\ rest \subseteq living
  /\ waiting \subseteq living \ rest
  /\ Drawn(links, living, living \ rest)
  /\ \A S \in SUBSET living :
       waiting \subseteq S /\ Drawn(links, living, S) => living \ rest \subseteq S

Waiting == {s.index : s \in Range(stack) \cap Live}

\* While a despawn is under way, it has everybody still to go on its stack, or
\* will get there from it.
DoomInv ==
  Despawning => stack \in Seq(Entity) /\ LeadsTo(pairs, alive, Waiting, expected)

\* A despawn starts with the least set that contains the entity and is drawn.
LEMMA DespawnDoom ==
  ASSUME IInv, NEW e \in Live, Despawn(e) PROVE DoomInv'
<1> DEFINE D == Doomed(e)
<1>1. /\ stack' = <<e>> /\ expected' = alive \ D
      /\ alive' = alive /\ pairs' = pairs /\ gen' = gen
  BY DEF Despawn, indexVars
<1>2. e \in Entity /\ e.index \in alive
  BY LiveFacts DEF IInv
<1>3. D = {i \in alive : \A S \in SUBSET alive :
              e.index \in S /\ Drawn(pairs, alive, S) => i \in S}
  BY DEF Doomed, Drawn
<1> HIDE DEF D
<1>4. D \subseteq alive /\ e.index \in D
  BY <1>2, <1>3
<1>5. alive \ (alive \ D) = D
  BY <1>4
<1>6. Drawn(pairs, alive, D)
  <2> SUFFICES ASSUME NEW i \in alive, NEW p \in pairs[i],
                      p.kind \in Cascading, p.target.index \in D,
                      NEW S \in SUBSET alive, e.index \in S, Drawn(pairs, alive, S)
               PROVE  i \in S
    BY <1>3 DEF Drawn
  <2>1. p.target.index \in S
    BY <1>3
  <2> QED
    BY <2>1 DEF Drawn
<1>7. \A S \in SUBSET alive : e.index \in S /\ Drawn(pairs, alive, S) => D \subseteq S
  BY <1>3
<1>8. Waiting' = {e.index}
  <2>1. Live' = Live
    BY <1>1 DEF Live, Current
  <2>2. Range(<<e>>) = {e}
    BY DEF Range
  <2> QED
    BY <1>1, <2>1, <2>2 DEF Waiting
<1>9. LeadsTo(pairs, alive, {e.index}, alive \ D)
  BY <1>4, <1>5, <1>6, <1>7 DEF LeadsTo
<1>10. stack' \in Seq(Entity)
  BY <1>1, <1>2
<1> QED
  BY <1>1, <1>8, <1>9, <1>10 DEF DoomInv

\* A list is its front and its last element.
LEMMA FrontAndLast ==
  ASSUME NEW S, NEW list \in Seq(S), list # <<>>
  PROVE  /\ Front(list) \in Seq(S) /\ Last(list) \in S
         /\ Range(list) = Range(Front(list)) \cup {Last(list)}
<1> DEFINE n == Len(list)
           front == Front(list)
<1>1. n \in Nat \ {0} /\ DOMAIN list = 1 .. n /\ \A i \in 1 .. n : list[i] \in S
  BY LenProperties, EmptySeq
<1>2. /\ front \in Seq(S) /\ Len(front) = n - 1 /\ DOMAIN front = 1 .. n - 1
      /\ \A i \in 1 .. n - 1 : front[i] = list[i]
  <2>1. \A i \in 1 .. n - 1 : list[i] \in S
    BY <1>1
  <2> QED
    BY <1>1, <2>1, SubSeqProperties, LenProperties DEF Front
<1>3. Last(list) = list[n] /\ n \in 1 .. n
  BY <1>1 DEF Last
<1> HIDE DEF front, n
<1>4. \A i \in 1 .. n : i = n \/ i \in 1 .. n - 1
  BY <1>1
<1>5. \A i \in 1 .. n - 1 : i \in 1 .. n
  BY <1>1
<1>6. Range(list) = Range(front) \cup {Last(list)}
  <2>1. \A v : v \in Range(list) <=> \E i \in 1 .. n : list[i] = v
    BY <1>1 DEF Range
  <2>2. \A v : v \in Range(front) <=> \E i \in 1 .. n - 1 : list[i] = v
    BY <1>2 DEF Range
  <2> QED
    BY <1>3, <1>4, <1>5, <2>1, <2>2
<1> QED
  BY <1>1, <1>2, <1>3, <1>6 DEF front

\* An entity that is no longer alive is dropped from the stack: nobody waits
\* because of it.
LEMMA SkipDeadWaiting ==
  ASSUME IInv, DoomInv, SkipDead
  PROVE  /\ stack' \in Seq(Entity)
         /\ LeadsTo(pairs', alive', Waiting', expected)
<1>1. /\ stack # <<>> /\ Last(stack) \notin Live /\ stack' = Front(stack)
      /\ alive' = alive /\ gen' = gen /\ pairs' = pairs
  BY DEF SkipDead, Despawning, indexVars
<1>2. stack \in Seq(Entity) /\ LeadsTo(pairs, alive, Waiting, expected)
  BY <1>1 DEF DoomInv, Despawning
<1>3. /\ Front(stack) \in Seq(Entity)
      /\ Range(stack) = Range(Front(stack)) \cup {Last(stack)}
  BY <1>1, <1>2, FrontAndLast
<1>4. Live' = Live
  BY <1>1 DEF Live, Current
<1>5. Waiting' = Waiting
  BY <1>1, <1>3, <1>4 DEF Waiting
<1> QED
  BY <1>1, <1>2, <1>3, <1>5

\* After an entity of the cascade is despawned, the others are still led to:
\* the subjects of its cascading links take its place on the stack.
LEMMA DespawnOneWaiting ==
  ASSUME IInv, DoomInv, DespawnOne
  PROVE  /\ stack' \in Seq(Entity)
         /\ LeadsTo(pairs', alive', Waiting', expected)
<1> DEFINE e == Last(stack)
           i == e.index
           D == alive \ expected
           E == alive' \ expected
<1>1. stack # <<>> /\ e \in Live /\ stack' = Front(stack) \o Cascade(e)
  BY DEF DespawnOne, Despawning
<1>2. /\ alive' = alive \ {i} /\ gen' = [gen EXCEPT ![i] = @ + 1]
      /\ pairs' = [j \in Index |-> IF j = i THEN {} ELSE {p \in pairs[j] : p.target # e}]
  BY DespawnEffect DEF DespawnDoes
<1>3. /\ stack \in Seq(Entity) /\ expected \subseteq alive
      /\ Waiting \subseteq D /\ Drawn(pairs, alive, D)
      /\ \A S \in SUBSET alive :
           Waiting \subseteq S /\ Drawn(pairs, alive, S) => D \subseteq S
  BY <1>1 DEF DoomInv, Despawning, LeadsTo
<1>4. /\ Front(stack) \in Seq(Entity)
      /\ Range(stack) = Range(Front(stack)) \cup {e}
  BY <1>1, <1>3, FrontAndLast
<1>5. /\ Cascade(e) \in Seq(Entity)
      /\ \A s : s \in Range(Cascade(e))
                  => s \in Live /\ \E k \in Cascading :
                       [kind |-> k, target |-> e] \in pairs[s.index]
      /\ \A j \in Index : \A k \in Cascading :
           [kind |-> k, target |-> e] \in pairs[j]
             => Current(j) \in Range(Cascade(e))
  BY <1>1, CascadeFacts
<1>6. /\ stack' \in Seq(Entity)
      /\ Range(stack') = Range(Front(stack)) \cup Range(Cascade(e))
  BY <1>1, <1>4, <1>5, RangeOfBoth
<1>7. /\ i \in alive /\ i \in Index /\ alive \subseteq Index
      /\ \A s \in Live : s.index \in alive /\ s = Current(s.index)
      /\ \A j \in alive : Current(j) \in Live /\ Current(j).index = j
      /\ \A c, d \in Live : d.index = c.index => d = c
  BY <1>1, LiveFacts DEF IInv, Types
<1>8. Live' = Live \ {e}
  <2>1. \A j \in alive' : Current(j)' = Current(j)
    BY <1>2, <1>7 DEF Current, IInv, Types
  <2>2. Live' = {Current(j) : j \in alive'}
    BY <2>1 DEF Live
  <2>3. Live = {Current(j) : j \in alive}
    BY DEF Live
  <2> QED
    BY <1>1, <1>2, <1>7, <2>2, <2>3
<1>9. /\ Waiting = {s.index : s \in Range(stack) \cap Live}
      /\ Waiting' = {s.index : s \in Range(stack') \cap Live'}
  BY DEF Waiting
<1>10. /\ \A j \in alive, k \in Cascading : \A p \in pairs[j] :
            /\ p.target \in Live
            /\ p.kind = k /\ p.target = e
                 => p = [kind |-> k, target |-> e]
  BY <1>7 DEF IInv, Types, LiveEnds, Pair
<1> HIDE DEF e, i, D
<1>11. i \in D
  BY <1>1, <1>3, <1>4, <1>9 DEF i
<1>12. expected \subseteq alive' /\ E = D \ {i}
  BY <1>2, <1>3, <1>11 DEF D
<1> HIDE DEF E
<1>13. Waiting' \subseteq E
  <2> SUFFICES ASSUME NEW s \in Range(stack') \cap Live' PROVE s.index \in E
    BY <1>9
  <2>1. s \in Live /\ s # e /\ s.index # i
    BY <1>1, <1>7, <1>8 DEF i
  <2>2. CASE s \in Range(Front(stack))
    BY <1>3, <1>4, <1>9, <1>12, <2>1, <2>2
  <2>3. CASE s \in Range(Cascade(e))
    <3>1. PICK k \in Cascading : [kind |-> k, target |-> e] \in pairs[s.index]
      BY <1>5, <2>3
    <3>2. s.index \in D
      BY <1>3, <1>7, <1>11, <2>1, <3>1 DEF Drawn, i
    <3> QED
      BY <1>12, <2>1, <3>2
  <2> QED
    BY <1>6, <2>2, <2>3
<1>14. Drawn(pairs', alive', E)
  <2> SUFFICES ASSUME NEW j \in alive', NEW p \in pairs'[j],
                      p.kind \in Cascading, p.target.index \in E
               PROVE  j \in E
    BY DEF Drawn
  <2>1. j \in alive /\ j # i /\ p \in pairs[j]
    BY <1>2, <1>7
  <2> QED
    BY <1>3, <1>12, <2>1 DEF Drawn
<1>15. ASSUME NEW S \in SUBSET alive', Waiting' \subseteq S, Drawn(pairs', alive', S)
       PROVE  E \subseteq S
  <2> DEFINE T == S \cup {i}
  <2>1. T \in SUBSET alive
    BY <1>2, <1>7
  <2>2. Waiting \subseteq T
    <3> SUFFICES ASSUME NEW s \in Range(stack) \cap Live PROVE s.index \in T
      BY <1>9
    <3>1. CASE s = e
      BY <3>1 DEF i
    <3>2. CASE s # e
      BY <1>4, <1>6, <1>8, <1>9, <1>15, <3>2
    <3> QED
      BY <3>1, <3>2
  <2>3. ASSUME NEW j \in alive, NEW p \in pairs[j],
               p.kind \in Cascading, p.target.index \in T
        PROVE  j \in T
    <3>1. CASE j = i
      BY <3>1
    <3>2. CASE j # i /\ p.target = e
      <4>1. Current(j) \in Range(Cascade(e))
        BY <1>5, <1>7, <1>10, <2>3, <3>2
      <4>2. Current(j) \in Live' /\ Current(j) \in Range(stack')
        BY <1>6, <1>7, <1>8, <3>2, <4>1 DEF i
      <4> QED
        BY <1>7, <1>9, <1>15, <4>2
    <3>3. CASE j # i /\ p.target # e
      <4>1. p.target.index # i
        BY <1>1, <1>7, <1>10, <2>3, <3>3 DEF i
      <4>2. p.target.index \in S /\ j \in alive' /\ p \in pairs'[j]
        BY <1>2, <1>7, <2>3, <3>3, <4>1
      <4> QED
        BY <1>15, <2>3, <4>2 DEF Drawn
    <3> QED
      BY <3>1, <3>2, <3>3
  <2>4. Drawn(pairs, alive, T)
    <3> HIDE DEF T
    <3> QED
      BY <2>3 DEF Drawn
  <2>5. D \subseteq T
    <3> HIDE DEF T
    <3> QED
      BY <1>3, <2>1, <2>2, <2>4
  <2> QED
    BY <1>12, <2>5
<1>16. LeadsTo(pairs', alive', Waiting', expected)
  BY <1>12, <1>13, <1>14, <1>15 DEF LeadsTo, E
<1> QED
  BY <1>6, <1>16

\* A step that leaves the stack empty, or is none of a despawn, needs nothing.
LEMMA DoomStep ==
  ASSUME IInv, DoomInv, SkipDead \/ DespawnOne PROVE DoomInv'
<1>1. /\ stack' \in Seq(Entity)
      /\ LeadsTo(pairs', alive', Waiting', expected)
  BY SkipDeadWaiting, DespawnOneWaiting
<1>2. stack' # <<>> => expected' = expected
  BY DEF SkipDead, DespawnOne, Forget
<1> QED
  BY <1>1, <1>2 DEF DoomInv, Despawning

LEMMA NextDoom ==
  ASSUME IInv, DoomInv, [Next]_vars PROVE DoomInv'
<1>1. ASSUME ~Despawning, stack' = stack PROVE DoomInv'
  BY <1>1 DEF DoomInv, Despawning
<1>2. ASSUME NEW e \in Live, Despawn(e) PROVE DoomInv'
  BY <1>2, DespawnDoom
<1>3. CASE SkipDead \/ DespawnOne
  BY <1>3, DoomStep
<1>4. CASE UNCHANGED vars
  <2>1. /\ stack' = stack /\ alive' = alive /\ gen' = gen /\ pairs' = pairs
        /\ expected' = expected
    BY <1>4 DEF vars, indexVars
  <2>2. Live' = Live
    BY <2>1 DEF Live, Current
  <2>3. Waiting' = Waiting
    BY <2>1, <2>2 DEF Waiting
  <2> QED
    BY <2>1, <2>3 DEF DoomInv, Despawning
<1>5. ASSUME NEW i \in Index, Spawn(i) PROVE DoomInv'
  BY <1>1, <1>5 DEF Spawn
<1>6. ASSUME NEW s, NEW k, NEW t, NEW at, AddRelation(s, k, t, at) PROVE DoomInv'
  BY <1>1, <1>6 DEF AddRelation
<1>7. ASSUME NEW s, NEW k, NEW t, RemoveRelation(s, k, t) PROVE DoomInv'
  BY <1>1, <1>7 DEF RemoveRelation
<1>8. ASSUME Reorder PROVE DoomInv'
  BY <1>1, <1>8 DEF Reorder, SetRelationIndex
<1> QED
  BY <1>2, <1>3, <1>4, <1>5, <1>6, <1>7, <1>8 DEF Next

\* A despawn takes with it exactly the entities that its cascading links lead
\* to, however the links cross: who is reached along two of them dies once, and
\* nobody who is not reached dies.
THEOREM CascadeTakesExactly == ASSUME ~StaleHandles PROVE Spec => CascadeExact
<1> DEFINE Exact == Despawning /\ stack' = <<>> => alive' = expected
<1>1. ASSUME IInv, DoomInv, [Next]_vars PROVE [Exact]_vars
  <2> SUFFICES ASSUME Next, Despawning, stack' = <<>> PROVE alive' = expected
    BY <1>1
  <2>1. SkipDead \/ DespawnOne
    BY DEF Next, Spawn, AddRelation, RemoveRelation, Reorder, SetRelationIndex, Despawn
  <2>2. LeadsTo(pairs', alive', Waiting', expected)
    BY <1>1, <2>1, SkipDeadWaiting, DespawnOneWaiting
  <2>3. Waiting' = {}
    <3>1. Range(<<>>) = {}
      BY DEF Range
    <3>2. Waiting' = {s.index : s \in Range(stack') \cap Live'}
      BY DEF Waiting
    <3> QED
      BY <3>1, <3>2
  <2>4. Drawn(pairs', alive', {})
    BY DEF Drawn
  <2> QED
    BY <2>2, <2>3, <2>4 DEF LeadsTo
<1>2. Init => IInv /\ DoomInv
  BY InitIInv DEF Init, DoomInv, Despawning
<1>3. IInv /\ DoomInv /\ [Next]_vars => (IInv /\ DoomInv)'
  BY NextIInv, NextDoom
<1>4. CascadeExact <=> [][Exact]_vars
  BY DEF CascadeExact
<1> HIDE DEF Exact
<1> QED
  BY <1>1, <1>2, <1>3, <1>4, PTL DEF Spec

-----------------------------------------------------------------------------
(* What the observers know.                                                *)

Report == [op : {"added", "removed"}, link : Edge]

LEMMA ToldFacts ==
  ASSUME NEW m, NEW ev \in Seq(Report), NEW l
  PROVE  l \in Told(m, ev)
           <=> \/ l \in m /\ \A n \in 1 .. Len(ev) : ev[n].link # l
               \/ \E n \in 1 .. Len(ev) : /\ ev[n].link = l /\ ev[n].op = "added"
                                          /\ \A j \in n + 1 .. Len(ev) : ev[j].link # l
<1>1. DOMAIN ev = 1 .. Len(ev)
  BY LenProperties
<1> QED
  BY <1>1 DEF Told

\* The same in one word, so that provers need not look into it.
Heard(m, ev, l) ==
  \/ l \in m /\ \A n \in 1 .. Len(ev) : ev[n].link # l
  \/ \E n \in 1 .. Len(ev) : /\ ev[n].link = l /\ ev[n].op = "added"
                             /\ \A j \in n + 1 .. Len(ev) : ev[j].link # l

LEMMA ToldHeard ==
  ASSUME NEW m, NEW ev \in Seq(Report), NEW l
  PROVE  l \in Told(m, ev) <=> Heard(m, ev, l)
BY ToldFacts DEF Heard

LEMMA ToldNothing == \A m : Told(m, <<>>) = m
<1> SUFFICES ASSUME NEW m PROVE Told(m, <<>>) = m
  OBVIOUS
<1> DEFINE ev == <<>>
<1>1. ev \in Seq(Report) /\ 1 .. Len(ev) = {}
  OBVIOUS
<1> HIDE DEF ev
<1>2. \A l : l \in Told(m, ev) <=> l \in m
  BY <1>1, ToldFacts
<1> QED
  BY <1>2 DEF ev

\* What stands in a concatenation.
LEMMA BothFacts ==
  ASSUME NEW q \in Seq(Report), NEW ev \in Seq(Report)
  PROVE  /\ q \o ev \in Seq(Report) /\ Len(q) \in Nat /\ Len(ev) \in Nat
         /\ Len(q \o ev) = Len(q) + Len(ev)
         /\ \A n \in 1 .. Len(q) : (q \o ev)[n] = q[n]
         /\ \A n \in 1 .. Len(ev) : (q \o ev)[Len(q) + n] = ev[n]
<1> DEFINE c == q \o ev
<1>1. /\ c \in Seq(Report) /\ Len(q) \in Nat /\ Len(ev) \in Nat /\ Len(c) = Len(q) + Len(ev)
      /\ \A n \in 1 .. Len(q) + Len(ev) : c[n] = IF n <= Len(q) THEN q[n] ELSE ev[n - Len(q)]
  BY ConcatProperties, LenProperties
<1> HIDE DEF c
<1>2. ASSUME NEW n \in 1 .. Len(q) PROVE c[n] = q[n]
  <2>1. n \in 1 .. Len(q) + Len(ev) /\ n <= Len(q)
    BY <1>1
  <2> QED
    BY <1>1, <2>1
<1>3. ASSUME NEW n \in 1 .. Len(ev) PROVE c[Len(q) + n] = ev[n]
  <2>1. /\ Len(q) + n \in 1 .. Len(q) + Len(ev) /\ ~(Len(q) + n <= Len(q))
        /\ (Len(q) + n) - Len(q) = n
    BY <1>1
  <2> QED
    BY <1>1, <2>1
<1> QED
  BY <1>1, <1>2, <1>3 DEF c

\* Removals take links away.
LEMMA ToldRemovals ==
  ASSUME NEW m, NEW q \in Seq(Report), NEW ev \in Seq(Report),
         \A n \in 1 .. Len(ev) : ev[n].op = "removed"
  PROVE  \A l : l \in Told(m, q \o ev)
                  <=> l \in Told(m, q) /\ \A n \in 1 .. Len(ev) : ev[n].link # l
<1> SUFFICES ASSUME NEW l
             PROVE  l \in Told(m, q \o ev)
                      <=> l \in Told(m, q) /\ \A n \in 1 .. Len(ev) : ev[n].link # l
  OBVIOUS
<1> DEFINE c == q \o ev
           x == Len(q)
           y == Len(ev)
<1>1. /\ c \in Seq(Report) /\ x \in Nat /\ y \in Nat /\ Len(c) = x + y
      /\ \A n \in 1 .. x : c[n] = q[n]
      /\ \A n \in 1 .. y : c[x + n] = ev[n]
  BY BothFacts
<1> HIDE DEF c
<1>2. l \in Told(m, c)
        <=> \/ l \in m /\ \A n \in 1 .. x + y : c[n].link # l
            \/ \E n \in 1 .. x + y : /\ c[n].link = l /\ c[n].op = "added"
                                     /\ \A j \in n + 1 .. x + y : c[j].link # l
  <2>1. l \in Told(m, c)
          <=> \/ l \in m /\ \A n \in 1 .. Len(c) : c[n].link # l
              \/ \E n \in 1 .. Len(c) : /\ c[n].link = l /\ c[n].op = "added"
                                        /\ \A j \in n + 1 .. Len(c) : c[j].link # l
    <3>1. c \in Seq(Report)
      BY <1>1
    <3>2. l \in Told(m, c) <=> Heard(m, c, l)
      BY <3>1, ToldHeard
    <3> QED
      BY <3>2 DEF Heard
  <2>2. Len(c) = x + y
    BY <1>1
  <2> QED
    BY <2>1, <2>2
<1>3. l \in Told(m, q)
        <=> \/ l \in m /\ \A n \in 1 .. x : q[n].link # l
            \/ \E n \in 1 .. x : /\ q[n].link = l /\ q[n].op = "added"
                                 /\ \A j \in n + 1 .. x : q[j].link # l
  BY ToldHeard DEF Heard
<1> HIDE DEF x, y
<1>4. /\ \A n \in 1 .. x : n \in 1 .. x + y
      /\ \A n \in 1 .. y : x + n \in 1 .. x + y
      /\ \A n \in 1 .. x + y : n \in 1 .. x \/ (n - x \in 1 .. y /\ x + (n - x) = n)
      /\ \A n \in 1 .. x : \A j :
           /\ j \in n + 1 .. x => j \in n + 1 .. x + y /\ j \in 1 .. x
           /\ j \in n + 1 .. x + y /\ ~(j \in 1 .. x) => j - x \in 1 .. y /\ x + (j - x) = j
           /\ j \in n + 1 .. x + y /\ j \in 1 .. x => j \in n + 1 .. x
           /\ j \in 1 .. y => x + j \in n + 1 .. x + y
  BY <1>1
<1>5. CASE \E n \in 1 .. y : ev[n].link = l
  <2>1. PICK n \in 1 .. y : ev[n].link = l
    BY <1>5
  <2>2. x + n \in 1 .. x + y /\ c[x + n].link = l
    BY <1>1, <1>4, <2>1
  <2>3. ASSUME NEW k \in 1 .. x + y, c[k].link = l, c[k].op = "added"
        PROVE  \E j \in k + 1 .. x + y : c[j].link = l
    <3>1. k \in 1 .. x
      <4>1. ASSUME ~(k \in 1 .. x) PROVE FALSE
        <5>1. k - x \in 1 .. y /\ x + (k - x) = k
          BY <1>4, <4>1
        <5>2. c[k] = ev[k - x]
          BY <1>1, <5>1
        <5>3. ev[k - x].op = "removed"
          BY <5>1 DEF y
        <5> QED
          BY <2>3, <5>2, <5>3
      <4> QED
        BY <4>1
    <3>2. x + n \in k + 1 .. x + y
      BY <1>4, <2>1, <3>1
    <3> QED
      BY <2>2, <3>2
  <2>4. l \notin Told(m, c)
    BY <1>2, <2>2, <2>3
  <2> QED
    BY <1>5, <2>4 DEF c, y
<1>6. CASE \A n \in 1 .. y : ev[n].link # l
  <2>1. \A n \in 1 .. x + y : ~(n \in 1 .. x) => c[n].link # l
    <3> SUFFICES ASSUME NEW n \in 1 .. x + y, ~(n \in 1 .. x) PROVE c[n].link # l
      OBVIOUS
    <3>1. n - x \in 1 .. y /\ x + (n - x) = n
      BY <1>4
    <3>2. c[n] = ev[n - x]
      BY <1>1, <3>1
    <3> QED
      BY <1>6, <3>1, <3>2
  <2>2. (\A n \in 1 .. x + y : c[n].link # l) <=> \A n \in 1 .. x : q[n].link # l
    BY <1>1, <1>4, <2>1
  <2>3. ASSUME NEW n \in 1 .. x
        PROVE  (\A j \in n + 1 .. x + y : c[j].link # l) <=> \A j \in n + 1 .. x : q[j].link # l
    <3>1. \A j \in n + 1 .. x : c[j] = q[j] /\ j \in n + 1 .. x + y
      BY <1>1, <1>4
    <3>2. \A j \in n + 1 .. x + y : j \in n + 1 .. x \/ (j \in 1 .. x + y /\ ~(j \in 1 .. x))
      BY <1>1, <1>4
    <3> QED
      BY <2>1, <3>1, <3>2
  <2>4. (\E n \in 1 .. x + y : /\ c[n].link = l /\ c[n].op = "added"
                               /\ \A j \in n + 1 .. x + y : c[j].link # l)
          <=> \E n \in 1 .. x : /\ q[n].link = l /\ q[n].op = "added"
                                /\ \A j \in n + 1 .. x : q[j].link # l
    BY <1>1, <1>4, <2>1, <2>3
  <2>5. l \in Told(m, c) <=> l \in Told(m, q)
    BY <1>2, <1>3, <2>2, <2>4
  <2> QED
    BY <1>6, <2>5 DEF c, y
<1> QED
  BY <1>5, <1>6 DEF y

OnlyRemoved(ev) == \A n \in 1 .. Len(ev) : ev[n].op = "removed"
Unsaid(ev, l) == \A n \in 1 .. Len(ev) : ev[n].link # l

LEMMA ToldLess ==
  ASSUME NEW m, NEW q \in Seq(Report), NEW ev \in Seq(Report), OnlyRemoved(ev)
  PROVE  \A l : l \in Told(m, q \o ev) <=> l \in Told(m, q) /\ Unsaid(ev, l)
BY ToldRemovals DEF OnlyRemoved, Unsaid

\* The last event adds a link.
LEMMA ToldAdded ==
  ASSUME NEW m, NEW q \in Seq(Report), NEW last \in Report, last.op = "added",
         NEW w \in Seq(Report), Len(w) = 1, w[1] = last
  PROVE  \A l : l \in Told(m, q \o w) <=> l \in Told(m, q) \/ l = last.link
<1> SUFFICES ASSUME NEW l
             PROVE  l \in Told(m, q \o w) <=> l \in Told(m, q) \/ l = last.link
  OBVIOUS
<1> DEFINE c == q \o w
           x == Len(q)
<1>1. /\ c \in Seq(Report) /\ x \in Nat /\ Len(c) = x + 1
      /\ \A n \in 1 .. x : c[n] = q[n]
      /\ c[x + 1] = last
  <2>1. /\ c \in Seq(Report) /\ x \in Nat /\ Len(c) = x + Len(w)
        /\ \A n \in 1 .. x : c[n] = q[n]
        /\ \A n \in 1 .. Len(w) : c[x + n] = w[n]
    BY BothFacts
  <2>2. 1 \in 1 .. Len(w)
    OBVIOUS
  <2> HIDE DEF c, x
  <2> QED
    BY <2>1, <2>2
<1> HIDE DEF c
<1>2. l \in Told(m, c)
        <=> \/ l \in m /\ \A n \in 1 .. x + 1 : c[n].link # l
            \/ \E n \in 1 .. x + 1 : /\ c[n].link = l /\ c[n].op = "added"
                                     /\ \A j \in n + 1 .. x + 1 : c[j].link # l
  <2>1. l \in Told(m, c)
          <=> \/ l \in m /\ \A n \in 1 .. Len(c) : c[n].link # l
              \/ \E n \in 1 .. Len(c) : /\ c[n].link = l /\ c[n].op = "added"
                                        /\ \A j \in n + 1 .. Len(c) : c[j].link # l
    <3>1. c \in Seq(Report)
      BY <1>1
    <3> HIDE DEF x
    <3>2. l \in Told(m, c) <=> Heard(m, c, l)
      BY <3>1, ToldHeard
    <3> QED
      BY <3>2 DEF Heard
  <2>2. Len(c) = x + 1
    BY <1>1
  <2> QED
    BY <2>1, <2>2
<1>3. l \in Told(m, q)
        <=> \/ l \in m /\ \A n \in 1 .. x : q[n].link # l
            \/ \E n \in 1 .. x : /\ q[n].link = l /\ q[n].op = "added"
                                 /\ \A j \in n + 1 .. x : q[j].link # l
  BY ToldHeard DEF Heard
<1> HIDE DEF x
<1>4. /\ x + 1 \in 1 .. x + 1 /\ (x + 1) + 1 .. x + 1 = {}
      /\ \A n \in 1 .. x + 1 : n = x + 1 \/ n \in 1 .. x
      /\ \A n \in 1 .. x : n \in 1 .. x + 1 /\ x + 1 \in n + 1 .. x + 1
      /\ \A n \in 1 .. x : \A j \in n + 1 .. x + 1 : j = x + 1 \/ (j \in n + 1 .. x /\ j \in 1 .. x)
      /\ \A n \in 1 .. x : \A j \in n + 1 .. x : j \in n + 1 .. x + 1 /\ j \in 1 .. x
  BY <1>1
<1>5. CASE l = last.link
  BY <1>1, <1>2, <1>4, <1>5 DEF c
<1>6. CASE l # last.link
  <2>1. (\A n \in 1 .. x + 1 : c[n].link # l) <=> \A n \in 1 .. x : q[n].link # l
    BY <1>1, <1>4, <1>6
  <2>2. \A n \in 1 .. x : (\A j \in n + 1 .. x + 1 : c[j].link # l)
                            <=> \A j \in n + 1 .. x : q[j].link # l
    BY <1>1, <1>4, <1>6
  <2>3. (\E n \in 1 .. x + 1 : /\ c[n].link = l /\ c[n].op = "added"
                               /\ \A j \in n + 1 .. x + 1 : c[j].link # l)
          <=> \E n \in 1 .. x : /\ q[n].link = l /\ q[n].op = "added"
                                /\ \A j \in n + 1 .. x : q[j].link # l
    BY <1>1, <1>4, <1>6, <2>2
  <2> QED
    BY <1>2, <1>3, <1>6, <2>1, <2>3 DEF c
<1> QED
  BY <1>5, <1>6

\* A finite set as a list.
LEMMA SetToSeqFacts ==
  ASSUME NEW T, NEW S, S \subseteq T, IsFiniteSet(S)
  PROVE  /\ SetToSeq(S) \in Seq(T)
         /\ \A x : x \in S <=> \E n \in 1 .. Len(SetToSeq(S)) : SetToSeq(S)[n] = x
<1> DEFINE N == Cardinality(S)
           s == SetToSeq(S)
<1>1. N \in Nat /\ ExistsBijection(1 .. N, S)
  BY FS_CardinalityType
<1>2. PICK b : b \in Bijection(1 .. N, S)
  BY <1>1 DEF ExistsBijection
<1>3. b \in [1 .. N -> S] /\ IsInjective(b)
  BY <1>2 DEF Bijection, Injection
<1>4. s \in [1 .. N -> S] /\ IsInjective(s)
  BY <1>3 DEF SetToSeq
<1> HIDE DEF s
<1>5. s \in Injection(1 .. N, S)
  BY <1>4 DEF Injection
<1>6. Cardinality(1 .. N) = N
  <2>1. 1 \in Int /\ N \in Int
    BY <1>1
  <2>2. Cardinality(1 .. N) = IF 1 > N THEN 0 ELSE N - 1 + 1
    BY <2>1, FS_Interval
  <2> QED
    BY <1>1, <2>2
<1>7. s \in Surjection(1 .. N, S)
  BY <1>5, <1>6, FS_Injection
<1>8. s \in [1 .. N -> T]
  BY <1>4
<1>9. s \in Seq(T) /\ Len(s) = N
  BY <1>1, <1>8, SeqDef
<1>10. \A x \in S : \E i \in 1 .. N : s[i] = x
  BY <1>7 DEF Surjection
<1>11. \A i \in 1 .. N : s[i] \in S
  BY <1>4
<1> QED
  BY <1>9, <1>10, <1>11 DEF s

-----------------------------------------------------------------------------
(* The observers after each operation.                                     *)

\* The inductive invariant: mirror and queue tell the links there are, and only
\* a cascade leaves something in the queue.
MirrorInv ==
  /\ hookQueue \in Seq(Report)
  /\ Told(mirror, hookQueue) = LinksBySubject
  /\ ~Despawning => hookQueue = <<>>

LEMMA MirrorInvExact == ASSUME MirrorInv PROVE MirrorExact
BY ToldNothing DEF MirrorInv, MirrorExact

\* What is delivered at once is known at once.
LEMMA Delivered ==
  ASSUME NEW ev, Deliver(ev), Told(mirror, ev) = LinksBySubject' PROVE MirrorInv'
<1>1. mirror' = LinksBySubject' /\ hookQueue' = <<>> /\ <<>> \in Seq(Report)
  BY DEF Deliver
<1>2. Told(mirror', hookQueue') = LinksBySubject'
  BY <1>1, ToldNothing
<1> QED
  BY <1>1, <1>2 DEF MirrorInv, Told

\* Links are edges.
LEMMA EdgeFacts ==
  ASSUME IInv
  PROVE  /\ LinksBySubject \subseteq Edge
         /\ \A l \in LinksBySubject : l = Link(l.kind, l.subject, l.target)
<1> SUFFICES ASSUME NEW l \in LinksBySubject
             PROVE  l \in Edge /\ l = Link(l.kind, l.subject, l.target)
  OBVIOUS
<1>1. PICK i \in Index : \E p \in pairs[i] :
        l = [kind |-> p.kind, subject |-> Current(i), target |-> p.target]
  BY LinkFacts
<1>2. PICK p \in pairs[i] : l = [kind |-> p.kind, subject |-> Current(i), target |-> p.target]
  BY <1>1
<1>3. p \in Pair
  BY DEF IInv, Types
<1>4. Current(i) \in Entity
  BY LiveFacts DEF IInv
<1> QED
  BY <1>2, <1>3, <1>4 DEF Pair, Edge, Link

\* The links of one subject.
LEMMA LinkOf ==
  ASSUME IInv, NEW s \in Live, NEW k, NEW t
  PROVE  Link(k, s, t) \in LinksBySubject <=> [kind |-> k, target |-> t] \in pairs[s.index]
<1>1. s.index \in Index /\ s = Current(s.index) /\ \A i \in Index : Current(i).index = i
  BY LiveFacts DEF IInv
<1>2. ASSUME Link(k, s, t) \in LinksBySubject PROVE [kind |-> k, target |-> t] \in pairs[s.index]
  <2>1. PICK i \in Index : \E p \in pairs[i] :
          Link(k, s, t) = [kind |-> p.kind, subject |-> Current(i), target |-> p.target]
    BY <1>2, LinkFacts
  <2>2. PICK p \in pairs[i] :
          Link(k, s, t) = [kind |-> p.kind, subject |-> Current(i), target |-> p.target]
    BY <2>1
  <2>3. k = p.kind /\ s = Current(i) /\ t = p.target
    BY <2>2 DEF Link
  <2>4. i = s.index
    BY <1>1, <2>3
  <2>5. p \in Pair
    BY DEF IInv, Types
  <2>6. p = [kind |-> p.kind, target |-> p.target]
    BY <2>5 DEF Pair
  <2> QED
    BY <2>3, <2>4, <2>6
<1>3. ASSUME [kind |-> k, target |-> t] \in pairs[s.index] PROVE Link(k, s, t) \in LinksBySubject
  <2> DEFINE p == [kind |-> k, target |-> t]
  <2>1. p \in pairs[s.index] /\ p.kind = k /\ p.target = t
    BY <1>3
  <2> HIDE DEF p
  <2>2. Link(p.kind, Current(s.index), p.target) \in LinksBySubject
    BY <1>1, <2>1, LinkFacts
  <2> QED
    BY <1>1, <2>1, <2>2
<1> QED
  BY <1>2, <1>3

\* Which links there are when only the pairs of s change.
LEMMA LinksChange ==
  ASSUME IInv, gen' = gen, NEW s \in Live, NEW P, P \subseteq Pair,
         pairs' = [pairs EXCEPT ![s.index] = P]
  PROVE  /\ LinksBySubject' \subseteq Edge
         /\ \A l \in Edge :
              l \in LinksBySubject'
                <=> IF l.subject = s THEN [kind |-> l.kind, target |-> l.target] \in P
                    ELSE l \in LinksBySubject
<1> DEFINE i == s.index
<1>1. i \in Index /\ s = Current(i) /\ \A j \in Index : Current(j).index = j
  BY LiveFacts DEF IInv
<1>2. /\ pairs \in [Index -> SUBSET Pair]
      /\ \A j \in Index : Current(j)' = Current(j)
  BY DEF IInv, Types, Current
<1>3. \A j \in Index : pairs'[j] = IF j = i THEN P ELSE pairs[j]
  BY <1>1, <1>2
<1>9. ASSUME NEW l \in LinksBySubject' PROVE l \in Edge
  <2>1. PICK j \in Index : \E p \in pairs'[j] :
          l = [kind |-> p.kind, subject |-> Current(j)', target |-> p.target]
    BY <1>9 DEF LinksBySubject, Link
  <2>2. PICK p \in pairs'[j] :
          l = [kind |-> p.kind, subject |-> Current(j)', target |-> p.target]
    BY <2>1
  <2>3. p \in Pair /\ Current(j)' = Current(j) /\ Current(j) \in Entity
    BY <1>2, <1>3, LiveFacts DEF IInv
  <2> QED
    BY <2>2, <2>3 DEF Edge, Pair
<1> SUFFICES ASSUME NEW l \in Edge
             PROVE  l \in LinksBySubject'
                      <=> IF l.subject = s THEN [kind |-> l.kind, target |-> l.target] \in P
                          ELSE l \in LinksBySubject
  BY <1>9
<1>4. l \in LinksBySubject'
        <=> \E j \in Index : \E p \in pairs'[j] :
              l = [kind |-> p.kind, subject |-> Current(j), target |-> p.target]
  BY <1>2 DEF LinksBySubject, Link
<1>5. l \in LinksBySubject
        <=> \E j \in Index : \E p \in pairs[j] :
              l = [kind |-> p.kind, subject |-> Current(j), target |-> p.target]
  BY LinkFacts
<1>6. l = [kind |-> l.kind, subject |-> l.subject, target |-> l.target]
  BY DEF Edge
<1>7. CASE l.subject = s
  <2>1. ASSUME NEW j \in Index, NEW p \in pairs'[j],
               l = [kind |-> p.kind, subject |-> Current(j), target |-> p.target]
        PROVE  [kind |-> l.kind, target |-> l.target] \in P
    <3>1. l.subject = Current(j) /\ l.kind = p.kind /\ l.target = p.target
      BY <2>1
    <3>2. j = i
      BY <1>1, <1>7, <3>1
    <3>3. p \in P
      BY <1>3, <3>2
    <3>4. p = [kind |-> p.kind, target |-> p.target]
      BY <3>3 DEF Pair
    <3> QED
      BY <3>1, <3>3, <3>4
  <2>2. ASSUME [kind |-> l.kind, target |-> l.target] \in P
        PROVE  \E j \in Index : \E p \in pairs'[j] :
                 l = [kind |-> p.kind, subject |-> Current(j), target |-> p.target]
    <3> DEFINE p == [kind |-> l.kind, target |-> l.target]
    <3>1. p \in pairs'[i] /\ p.kind = l.kind /\ p.target = l.target
      BY <1>1, <1>3, <2>2
    <3> HIDE DEF p
    <3>2. l = [kind |-> p.kind, subject |-> Current(i), target |-> p.target]
      BY <1>1, <1>6, <1>7, <3>1
    <3> QED
      BY <1>1, <3>1, <3>2
  <2> QED
    BY <1>4, <1>7, <2>1, <2>2
<1>8. CASE l.subject # s
  <2>1. \A j \in Index : \A p : l = [kind |-> p.kind, subject |-> Current(j), target |-> p.target]
                                  => j # i
    BY <1>1, <1>8
  <2>2. \A j \in Index : j # i => pairs'[j] = pairs[j]
    BY <1>3
  <2>3. l \in LinksBySubject' <=> l \in LinksBySubject
    BY <1>4, <1>5, <2>1, <2>2
  <2> QED
    BY <1>8, <2>3
<1> QED
  BY <1>7, <1>8

LEMMA RemoveRelationTold ==
  ASSUME IInv, MirrorInv, ~StaleHandles, NEW s, NEW k, NEW t, s.index \in Index,
         RemoveRelation(s, k, t)
  PROVE  MirrorInv'
<1> DEFINE x == [kind |-> k, target |-> t]
           P == pairs[s.index] \ {x}
           l0 == Link(k, s, t)
           r == Removed(k, s, t)
           ev == <<r>>
<1>1. RemoveDoes(s, k, t)
  BY RemoveRelationEffect
<1>2. /\ s \in Live /\ gen' = gen /\ x \in pairs[s.index]
      /\ pairs' = [pairs EXCEPT ![s.index] = P]
  BY <1>1 DEF RemoveDoes
<1>3. ~Despawning /\ Deliver(ev)
  BY DEF RemoveRelation
<1>4. P \subseteq Pair
  BY DEF IInv, Types
<1>5. l0 \in LinksBySubject /\ l0 \in Edge
  BY <1>2, LinkOf, EdgeFacts
<1>6. /\ r.op = "removed" /\ r.link = l0 /\ r \in Report
  BY <1>5 DEF Removed, Report
<1>7. ev \in Seq(Report) /\ Len(ev) = 1 /\ ev[1] = r
  BY <1>6
<1>8. /\ hookQueue = <<>> /\ hookQueue \in Seq(Report)
      /\ Told(mirror, hookQueue) = LinksBySubject /\ hookQueue \o ev = ev
  <2>1. hookQueue = <<>> /\ hookQueue \in Seq(Report) /\ Told(mirror, hookQueue) = LinksBySubject
    BY <1>3 DEF MirrorInv
  <2> HIDE DEF ev
  <2> QED
    BY <1>7, <2>1, ConcatEmptySeq
<1> HIDE DEF ev
<1>9. \A n \in 1 .. Len(ev) : ev[n] = r
  BY <1>7
<1>10. \A l : l \in Told(mirror, hookQueue \o ev)
                <=> l \in Told(mirror, hookQueue) /\ \A n \in 1 .. Len(ev) : ev[n].link # l
  <2>1. hookQueue \in Seq(Report) /\ ev \in Seq(Report)
    BY <1>7, <1>8
  <2>2. OnlyRemoved(ev)
    BY <1>6, <1>9 DEF OnlyRemoved
  <2>3. \A l : l \in Told(mirror, hookQueue \o ev)
                  <=> l \in Told(mirror, hookQueue) /\ Unsaid(ev, l)
    BY <2>1, <2>2, ToldLess
  <2> QED
    BY <2>3 DEF Unsaid
<1>11. \A l : l \in Told(mirror, ev) <=> l \in LinksBySubject /\ l # l0
  <2>1. 1 \in 1 .. Len(ev)
    BY <1>7
  <2> QED
    BY <1>6, <1>8, <1>9, <1>10, <2>1
<1>13. LinksBySubject \subseteq Edge /\ LinksBySubject' \subseteq Edge
  BY <1>2, <1>4, EdgeFacts, LinksChange
<1>14. \A l \in Edge : l \in LinksBySubject' <=> l \in LinksBySubject /\ l # l0
  <2> SUFFICES ASSUME NEW l \in Edge
               PROVE  l \in LinksBySubject' <=> l \in LinksBySubject /\ l # l0
    OBVIOUS
  <2>1. l \in LinksBySubject'
             <=> IF l.subject = s THEN [kind |-> l.kind, target |-> l.target] \in P
                 ELSE l \in LinksBySubject
    BY <1>2, <1>4, LinksChange
  <2>2. l = Link(l.kind, l.subject, l.target)
    BY DEF Edge, Link
  <2>3. l.subject = s => (l \in LinksBySubject <=> [kind |-> l.kind, target |-> l.target] \in pairs[s.index])
    BY <1>2, <2>2, LinkOf
  <2>4. l = l0 <=> l.subject = s /\ l.kind = k /\ l.target = t
    BY <2>2 DEF Link
  <2>5. [kind |-> l.kind, target |-> l.target] = x <=> l.kind = k /\ l.target = t
    OBVIOUS
  <2> QED
    BY <2>1, <2>3, <2>4, <2>5
<1>15. Told(mirror, ev) = LinksBySubject'
  BY <1>11, <1>13, <1>14
<1> QED
  BY <1>3, <1>15, Delivered

LEMMA AddRelationTold ==
  ASSUME IInv, MirrorInv, NEW s, NEW k \in Kinds, NEW t, NEW at \in Nat,
         AddRelation(s, k, t, at)
  PROVE  MirrorInv'
<1> DEFINE old == Replaced(s, k)
           x == [kind |-> k, target |-> t]
           P == (pairs[s.index] \ old) \cup {x}
           l0 == Link(k, s, t)
           r == Added(k, s, t)
           w == <<r>>
           R == {Removed(k, s, p.target) : p \in old}
           gone == SetToSeq(R)
           ev == gone \o w
<1>1. AddDoes(s, k, t)
  BY AddRelationEffect
<1>2. /\ s \in Live /\ t \in Live /\ gen' = gen /\ x \notin pairs[s.index]
      /\ pairs' = [pairs EXCEPT ![s.index] = P]
  BY <1>1 DEF AddDoes
<1>3. ~Despawning /\ Deliver(ev)
  BY DEF AddRelation, Removals
<1>4. s.index \in Index /\ s \in Entity /\ t \in Entity
  BY <1>2, LiveFacts DEF IInv
<1>5. P \subseteq Pair /\ pairs[s.index] \subseteq Pair /\ l0 \in Edge
  <2>1. pairs[s.index] \subseteq Pair
    BY <1>4 DEF IInv, Types
  <2> QED
    BY <1>4, <2>1 DEF Pair, Edge, Link
<1>6. r.op = "added" /\ r.link = l0 /\ r \in Report
  BY <1>5 DEF Added, Report
<1>7. w \in Seq(Report) /\ Len(w) = 1 /\ w[1] = r
  BY <1>6
<1>8. \A p \in old : p \in pairs[s.index] /\ p.kind = k /\ p = [kind |-> k, target |-> p.target]
  <2>1. old \subseteq OfKind(s.index, k)
    BY <1>4, ReplacedFacts
  <2>2. \A p \in old : p \in pairs[s.index] /\ p.kind = k /\ p \in Pair
    BY <1>5, <2>1 DEF OfKind
  <2> QED
    BY <2>2 DEF Pair
<1>9. \A p \in old : Link(k, s, p.target) \in LinksBySubject
                     /\ Removed(k, s, p.target) \in Report
  <2> SUFFICES ASSUME NEW p \in old
               PROVE  Link(k, s, p.target) \in LinksBySubject /\ Removed(k, s, p.target) \in Report
    OBVIOUS
  <2>1. [kind |-> k, target |-> p.target] \in pairs[s.index]
    BY <1>8
  <2>2. Link(k, s, p.target) \in LinksBySubject /\ Link(k, s, p.target) \in Edge
    BY <1>2, <2>1, LinkOf, EdgeFacts
  <2> QED
    BY <2>2 DEF Removed, Report
<1>10. IsFiniteSet(R)
  <2>1. old = {} \/ \E q \in OfKind(s.index, k) : old = {q}
    BY <1>4, ReplacedFacts
  <2>2. R = {} \/ \E v : R = {v}
    BY <2>1
  <2> HIDE DEF R
  <2> QED
    BY <2>2, FS_EmptySet, FS_Singleton
<1>11. R \subseteq Report /\ \A v \in R : v.op = "removed"
  BY <1>9 DEF Removed
<1>12. \A l : (\E v \in R : v.link = l) <=> \E p \in old : l = Link(k, s, p.target)
  <2>1. \A p : Removed(k, s, p.target).link = Link(k, s, p.target)
    BY DEF Removed
  <2> QED
    BY <2>1
<1> HIDE DEF R, w, old, x, r, l0
<1>13. /\ gone \in Seq(Report)
       /\ \A v : v \in R <=> \E n \in 1 .. Len(gone) : gone[n] = v
  BY <1>10, <1>11, SetToSeqFacts
<1> HIDE DEF gone
<1>14. hookQueue = <<>> /\ hookQueue \in Seq(Report)
       /\ Told(mirror, hookQueue) = LinksBySubject
  BY <1>3 DEF MirrorInv
<1>15. \A l : l \in Told(mirror, gone)
                <=> l \in LinksBySubject /\ ~\E p \in old : l = Link(k, s, p.target)
  <2>1. \A n \in 1 .. Len(gone) : gone[n].op = "removed"
    BY <1>11, <1>13
  <2>2. hookQueue \o gone = gone
    BY <1>13, <1>14, ConcatEmptySeq
  <2>3. \A l : l \in Told(mirror, hookQueue \o gone)
                 <=> l \in Told(mirror, hookQueue) /\ \A n \in 1 .. Len(gone) : gone[n].link # l
    <3>1. hookQueue \in Seq(Report) /\ gone \in Seq(Report)
      BY <1>13, <1>14
    <3>2. OnlyRemoved(gone)
      BY <2>1 DEF OnlyRemoved
    <3>3. \A l : l \in Told(mirror, hookQueue \o gone)
                   <=> l \in Told(mirror, hookQueue) /\ Unsaid(gone, l)
      BY <3>1, <3>2, ToldLess
    <3> QED
      BY <3>3 DEF Unsaid
  <2>4. \A l : (\E n \in 1 .. Len(gone) : gone[n].link = l) <=> \E v \in R : v.link = l
    BY <1>13
  <2>5. \A l : (\A n \in 1 .. Len(gone) : gone[n].link # l)
                <=> ~\E p \in old : l = Link(k, s, p.target)
    BY <1>12, <2>4
  <2>6. Told(mirror, hookQueue \o gone) = Told(mirror, gone)
    BY <2>2
  <2> QED
    BY <1>14, <2>3, <2>5, <2>6
<1>16. \A l : l \in Told(mirror, ev) <=> l \in Told(mirror, gone) \/ l = l0
  <2>1. \A l : l \in Told(mirror, gone \o w) <=> l \in Told(mirror, gone) \/ l = r.link
    BY <1>6, <1>7, <1>13, ToldAdded
  <2> QED
    BY <1>6, <2>1
<1>17. LinksBySubject \subseteq Edge /\ LinksBySubject' \subseteq Edge
  BY <1>2, <1>5, EdgeFacts, LinksChange
<1>18. ASSUME NEW l \in Edge
       PROVE  l \in LinksBySubject'
                <=> \/ l \in LinksBySubject /\ ~\E p \in old : l = Link(k, s, p.target)
                    \/ l = l0
  <2> DEFINE y == [kind |-> l.kind, target |-> l.target]
  <2>1. l \in LinksBySubject' <=> IF l.subject = s THEN y \in P ELSE l \in LinksBySubject
    BY <1>2, <1>5, LinksChange
  <2>2. l = Link(l.kind, l.subject, l.target)
    BY DEF Edge, Link
  <2>3. l.subject = s => (l \in LinksBySubject <=> y \in pairs[s.index])
    BY <1>2, <2>2, LinkOf
  <2>4. l = l0 <=> l.subject = s /\ l.kind = k /\ l.target = t
    BY <2>2 DEF Link, l0
  <2>5. y = x <=> l.kind = k /\ l.target = t
    BY DEF x
  <2>6. (\E p \in old : l = Link(k, s, p.target)) <=> l.subject = s /\ y \in old
    <3>1. \A p : Link(k, s, p.target).kind = k /\ Link(k, s, p.target).subject = s
                 /\ Link(k, s, p.target).target = p.target
      BY DEF Link
    <3>2. ASSUME NEW p \in old, l = Link(k, s, p.target) PROVE l.subject = s /\ y \in old
      <4>1. y = [kind |-> k, target |-> p.target] /\ l.subject = s
        BY <3>1, <3>2
      <4> QED
        BY <1>8, <4>1
    <3>3. ASSUME l.subject = s, y \in old PROVE l = Link(k, s, y.target)
      <4>1. y.kind = k /\ y.kind = l.kind /\ y.target = l.target
        BY <1>8, <3>3
      <4> QED
        BY <2>2, <3>3, <4>1
    <3> QED
      BY <3>2, <3>3
  <2> HIDE DEF y
  <2>7. y \in P <=> (y \in pairs[s.index] /\ y \notin old) \/ y = x
    OBVIOUS
  <2> QED
    BY <2>1, <2>3, <2>4, <2>5, <2>6, <2>7
<1>19. Told(mirror, ev) = LinksBySubject'
  <2>1. \A l : l \in Told(mirror, ev)
                 <=> \/ l \in LinksBySubject /\ ~\E p \in old : l = Link(k, s, p.target)
                     \/ l = l0
    BY <1>15, <1>16
  <2>2. \A l : l \in Told(mirror, ev) => l \in Edge
    BY <1>5, <1>17, <2>1 DEF l0
  <2>3. \A l \in Edge : l \in Told(mirror, ev) <=> l \in LinksBySubject'
    BY <1>18, <2>1
  <2> HIDE DEF ev
  <2>4. \A l : l \in Told(mirror, ev) <=> l \in LinksBySubject'
    BY <1>17, <2>2, <2>3
  <2> QED
    BY <2>4
<1> QED
  BY <1>3, <1>19, Delivered

\* What a despawn reports: the removal of each link that began or ended at the
\* entity.
LEMMA EventsFacts ==
  ASSUME IInv, NEW e \in Live
  PROVE  /\ Events(e) \in Seq(Report)
         /\ \A n \in 1 .. Len(Events(e)) : Events(e)[n].op = "removed"
         /\ \A l : (\E n \in 1 .. Len(Events(e)) : Events(e)[n].link = l)
                     <=> l \in LinksBySubject /\ (l.subject = e \/ l.target = e)
<1> DEFINE i == e.index
           N == Cardinality(Kinds)
           part(k) == [n \in 1 .. Len(Taken(e, k)) |-> Removed(k, Taken(e, k)[n], e)]
           seqs == [j \in 1 .. Len(KindOrder) |-> part(KindOrder[j])]
           R == {Removed(p.kind, e, p.target) : p \in OwnPairs(e)}
           own == SetToSeq(R)
           others == FlattenSeq(seqs)
<1>1. /\ N \in Nat /\ KindOrder \in [1 .. N -> Kinds] /\ Len(KindOrder) = N
      /\ \A k \in Kinds : \E j \in 1 .. N : KindOrder[j] = k
  BY EveryKind, FS_CardinalityType, RelationsAssumption
<1>2. i \in Index /\ i \in alive /\ e = Current(i) /\ e \in Entity
  BY LiveFacts DEF IInv
<1>3. \A k \in Kinds : Taken(e, k) = subjects[<<k, i>>] /\ Taken(e, k) \in Seq(Entity)
  BY <1>2, TakenFacts DEF IInv, Types
<1>4. OwnPairs(e) = pairs[i]
  BY <1>2 DEF OwnPairs, IInv, LiveEnds
<1>5. Events(e) = others \o own
  BY DEF Events
<1>6. \A k \in Kinds, s \in Entity : Removed(k, s, e) \in Report
  BY <1>2 DEF Removed, Report, Link, Edge
<1>7. ASSUME NEW k \in Kinds
      PROVE  /\ part(k) \in Seq(Report)
             /\ \A v : v \in Range(part(k)) <=> \E s \in Range(Taken(e, k)) : v = Removed(k, s, e)
  <2> DEFINE T == Taken(e, k)
             n == Len(T)
  <2>1. /\ T \in Seq(Entity) /\ n \in Nat /\ DOMAIN T = 1 .. n
        /\ \A m \in 1 .. n : T[m] \in Entity
    BY <1>3, LenProperties
  <2> HIDE DEF T
  <2>2. part(k) = [m \in 1 .. n |-> Removed(k, T[m], e)]
    BY DEF T
  <2>3. part(k) \in [1 .. n -> Report]
    BY <1>6, <2>1, <2>2
  <2>4. part(k) \in Seq(Report)
    BY <2>1, <2>3, SeqDef
  <2>5. DOMAIN part(k) = 1 .. n
    BY <2>2
  <2>6. \A v : v \in Range(part(k)) <=> \E m \in 1 .. n : v = Removed(k, T[m], e)
    BY <2>2, <2>5 DEF Range
  <2>7. \A v : (\E m \in 1 .. n : v = Removed(k, T[m], e)) <=> \E s \in Range(T) : v = Removed(k, s, e)
    BY <2>1 DEF Range
  <2> QED
    BY <2>4, <2>6, <2>7 DEF T
<1> HIDE DEF part
<1>8. seqs \in Seq(Seq(Report)) /\ DOMAIN seqs = 1 .. N /\ \A j \in 1 .. N : seqs[j] = part(KindOrder[j])
  <2>1. \A j \in 1 .. N : part(KindOrder[j]) \in Seq(Report)
    BY <1>1, <1>7
  <2>2. seqs \in [1 .. N -> Seq(Report)]
    BY <1>1, <2>1
  <2> QED
    BY <1>1, <2>2, SeqDef
<1> HIDE DEF seqs
<1>9. /\ others \in Seq(Report)
      /\ \A v : v \in Range(others) <=> \E j \in 1 .. N : v \in Range(seqs[j])
  BY <1>8, FlattenRange
<1>10. \A v : v \in Range(others)
               <=> \E k \in Kinds : \E s \in Range(Taken(e, k)) : v = Removed(k, s, e)
  <2> SUFFICES ASSUME NEW v
               PROVE  v \in Range(others)
                        <=> \E k \in Kinds : \E s \in Range(Taken(e, k)) : v = Removed(k, s, e)
    OBVIOUS
  <2>1. (\E j \in 1 .. N : v \in Range(seqs[j])) <=> \E k \in Kinds : v \in Range(part(k))
    BY <1>1, <1>8
  <2>2. \A k \in Kinds :
          v \in Range(part(k)) <=> \E s \in Range(Taken(e, k)) : v = Removed(k, s, e)
    BY <1>7
  <2>3. v \in Range(others) <=> \E j \in 1 .. N : v \in Range(seqs[j])
    BY <1>9
  <2> QED
    BY <2>1, <2>2, <2>3
<1>11. /\ R \subseteq Report /\ \A v \in R : v.op = "removed"
       /\ \A l : (\E v \in R : v.link = l) <=> \E p \in pairs[i] : l = Link(p.kind, e, p.target)
  <2>1. \A p \in pairs[i] : Link(p.kind, e, p.target) \in Edge
    BY <1>2, LinkFacts, EdgeFacts
  <2> DEFINE removed(p) == Removed(p.kind, e, p.target)
  <2>2. \A p : removed(p).op = "removed" /\ removed(p).link = Link(p.kind, e, p.target)
    BY DEF Removed
  <2>3. \A p \in pairs[i] : removed(p) \in Report
    BY <2>1 DEF Removed, Report
  <2>4. R = {removed(p) : p \in pairs[i]}
    BY <1>4
  <2> HIDE DEF R, removed
  <2> QED
    BY <2>2, <2>3, <2>4
<1>12. IsFiniteSet(R)
  <2> DEFINE f == [v \in R |-> v.link]
  <2>1. \A v \in R : v.link \in LinksBySubject
    BY <1>2, <1>11, LinkFacts
  <2>2. \A v \in R : v = [op |-> "removed", link |-> v.link]
    BY DEF Removed
  <2> HIDE DEF R
  <2>3. f \in [R -> LinksBySubject] /\ IsInjective(f)
    BY <2>1, <2>2 DEF IsInjective
  <2>4. f \in Injection(R, LinksBySubject)
    BY <2>3 DEF Injection
  <2>5. IsFiniteSet(LinksBySubject)
    BY FiniteLinks DEF IInv
  <2> HIDE DEF f
  <2> QED
    BY <2>4, <2>5, FS_Injection
<1> HIDE DEF R
<1>13. own \in Seq(Report) /\ \A v : v \in R <=> \E n \in 1 .. Len(own) : own[n] = v
  BY <1>11, <1>12, SetToSeqFacts
<1>14. \A v : v \in Range(own) <=> v \in R
  <2>1. DOMAIN own = 1 .. Len(own)
    BY <1>13, LenProperties
  <2> QED
    BY <1>13, <2>1 DEF Range
<1> HIDE DEF own, others
<1>15. Events(e) \in Seq(Report) /\ Range(Events(e)) = Range(others) \cup Range(own)
  BY <1>5, <1>9, <1>13, RangeOfBoth
<1>16. \A v \in Range(Events(e)) : v.op = "removed"
  BY <1>10, <1>11, <1>14, <1>15 DEF Removed
<1>17. ASSUME NEW l
       PROVE  (\E v \in Range(Events(e)) : v.link = l)
                <=> l \in LinksBySubject /\ (l.subject = e \/ l.target = e)
  <2>1. (\E v \in Range(Events(e)) : v.link = l)
          <=> \/ \E k \in Kinds : \E s \in Range(Taken(e, k)) : l = Link(k, s, e)
              \/ \E p \in pairs[i] : l = Link(p.kind, e, p.target)
    <3>1. (\E v \in Range(others) : v.link = l)
            <=> \E k \in Kinds : \E s \in Range(Taken(e, k)) : l = Link(k, s, e)
      <4>1. \A k, s : Removed(k, s, e).link = Link(k, s, e)
        BY DEF Removed
      <4> QED
        BY <1>10, <4>1
    <3>2. (\E v \in Range(own) : v.link = l) <=> \E p \in pairs[i] : l = Link(p.kind, e, p.target)
      BY <1>11, <1>14
    <3> QED
      BY <1>15, <3>1, <3>2
  <2>2. ASSUME NEW k \in Kinds, NEW s \in Range(Taken(e, k)), l = Link(k, s, e)
        PROVE  l \in LinksBySubject /\ l.target = e
    <3>1. s \in Live /\ [kind |-> k, target |-> e] \in pairs[s.index]
      BY <1>2, <1>3, <2>2 DEF IInv, Listed
    <3>2. Link(k, s, e) \in LinksBySubject
      BY <3>1, LinkOf
    <3> QED
      BY <2>2, <3>2 DEF Link
  <2>3. ASSUME NEW p \in pairs[i], l = Link(p.kind, e, p.target)
        PROVE  l \in LinksBySubject /\ l.subject = e
    <3>1. Link(p.kind, e, p.target) \in LinksBySubject
      BY <1>2, LinkFacts
    <3> QED
      BY <2>3, <3>1 DEF Link
  <2>4. ASSUME l \in LinksBySubject, l.target = e
        PROVE  \E k \in Kinds : \E s \in Range(Taken(e, k)) : l = Link(k, s, e)
    <3>1. PICK j \in Index : \E p \in pairs[j] :
            l = [kind |-> p.kind, subject |-> Current(j), target |-> p.target]
      BY <2>4, LinkFacts
    <3>2. PICK p \in pairs[j] :
            l = [kind |-> p.kind, subject |-> Current(j), target |-> p.target]
      BY <3>1
    <3>3. p \in Pair /\ p.target = e
      BY <2>4, <3>2 DEF IInv, Types
    <3>4. p = [kind |-> p.kind, target |-> Current(i)] /\ p.kind \in Kinds
      BY <1>2, <3>3 DEF Pair
    <3>5. Current(j) \in Range(subjects[<<p.kind, i>>])
      BY <1>2, <3>2, <3>4 DEF IInv, Listed
    <3>6. l = Link(p.kind, Current(j), e)
      BY <3>2, <3>3 DEF Link
    <3> QED
      BY <1>3, <3>4, <3>5, <3>6
  <2>5. ASSUME l \in LinksBySubject, l.subject = e
        PROVE  \E p \in pairs[i] : l = Link(p.kind, e, p.target)
    <3>1. PICK j \in Index : \E p \in pairs[j] :
            l = [kind |-> p.kind, subject |-> Current(j), target |-> p.target]
      BY <2>5, LinkFacts
    <3>2. PICK p \in pairs[j] :
            l = [kind |-> p.kind, subject |-> Current(j), target |-> p.target]
      BY <3>1
    <3>3. Current(j) = e /\ Current(j).index = j
      BY <2>5, <3>2, LiveFacts DEF IInv
    <3> QED
      BY <3>2, <3>3 DEF Link
  <2> QED
    BY <2>1, <2>2, <2>3, <2>4, <2>5
<1>18. DOMAIN Events(e) = 1 .. Len(Events(e))
  BY <1>15, LenProperties
<1>19. \A v : v \in Range(Events(e)) <=> \E n \in 1 .. Len(Events(e)) : v = Events(e)[n]
  BY <1>18 DEF Range
<1> QED
  BY <1>15, <1>16, <1>17, <1>19

\* One entity of the cascade: its removals go into the queue, or with the last
\* one all of the queue is delivered.
LEMMA QueueTold ==
  ASSUME MirrorInv, NEW ev \in Seq(Report), NEW rest, stack' = rest, Queue(ev, rest),
         Told(mirror, hookQueue \o ev) = LinksBySubject'
  PROVE  MirrorInv'
<1>1. CASE rest = <<>>
  <2>1. Deliver(hookQueue \o ev)
    BY <1>1 DEF Queue
  <2> QED
    BY <2>1, Delivered
<1>2. CASE rest # <<>>
  <2>1. hookQueue' = hookQueue \o ev /\ mirror' = mirror /\ Despawning'
    BY <1>2 DEF Queue, Despawning
  <2>2. hookQueue \o ev \in Seq(Report)
    BY BothFacts DEF MirrorInv
  <2>3. Told(mirror', hookQueue') = LinksBySubject'
    BY <2>1
  <2>4. hookQueue' \in Seq(Report) /\ (~Despawning' => hookQueue' = <<>>)
    BY <2>1, <2>2
  <2> QED
    BY <2>3, <2>4 DEF MirrorInv, Told
<1> QED
  BY <1>1, <1>2

LEMMA DespawnOneTold ==
  ASSUME IInv, MirrorInv, DespawnOne PROVE MirrorInv'
<1> DEFINE e == Last(stack)
           ev == Events(e)
           rest == Front(stack) \o Cascade(e)
<1>1. DespawnDoes(e)
  BY DespawnEffect
<1>2. stack' = rest /\ Queue(ev, rest)
  BY DEF DespawnOne
<1> HIDE DEF e
<1>3. e \in Live
  BY <1>1 DEF DespawnDoes
<1>4. /\ ev \in Seq(Report)
      /\ \A n \in 1 .. Len(ev) : ev[n].op = "removed"
      /\ \A l : (\E n \in 1 .. Len(ev) : ev[n].link = l)
                  <=> l \in LinksBySubject /\ (l.subject = e \/ l.target = e)
  BY <1>3, EventsFacts
<1> HIDE DEF ev
<1>5. LinksBySubject' = {l \in LinksBySubject : l.subject # e /\ l.target # e}
  BY <1>1, DespawnLinks
<1>6. hookQueue \in Seq(Report) /\ Told(mirror, hookQueue) = LinksBySubject
  BY DEF MirrorInv
<1>7. \A l : l \in Told(mirror, hookQueue \o ev)
               <=> l \in LinksBySubject /\ \A n \in 1 .. Len(ev) : ev[n].link # l
  <2>1. \A l : l \in Told(mirror, hookQueue \o ev)
                 <=> l \in Told(mirror, hookQueue) /\ \A n \in 1 .. Len(ev) : ev[n].link # l
    <3>1. OnlyRemoved(ev)
      BY <1>4 DEF OnlyRemoved
    <3>2. \A l : l \in Told(mirror, hookQueue \o ev)
                   <=> l \in Told(mirror, hookQueue) /\ Unsaid(ev, l)
      BY <1>4, <1>6, <3>1, ToldLess
    <3> QED
      BY <3>2 DEF Unsaid
  <2> QED
    BY <1>6, <2>1
<1>8. Told(mirror, hookQueue \o ev) = LinksBySubject'
  <2>1. \A l : l \in Told(mirror, hookQueue \o ev) <=> l \in LinksBySubject'
    BY <1>4, <1>5, <1>7
  <2> QED
    BY <2>1
<1> HIDE DEF rest
<1> QED
  BY <1>2, <1>4, <1>8, QueueTold

LEMMA SkipDeadTold ==
  ASSUME IInv, MirrorInv, SkipDead PROVE MirrorInv'
<1> DEFINE ev == <<>>
           rest == Front(stack)
<1>1. stack' = rest /\ Queue(ev, rest) /\ gen' = gen /\ pairs' = pairs
  BY DEF SkipDead, indexVars
<1>2. LinksBySubject' = LinksBySubject
  BY <1>1, SameLinks
<1>3. ev \in Seq(Report)
  OBVIOUS
<1>4. hookQueue \o ev = hookQueue
  BY ConcatEmptySeq DEF MirrorInv
<1> HIDE DEF ev, rest
<1>5. Told(mirror, hookQueue \o ev) = LinksBySubject'
  BY <1>2, <1>4 DEF MirrorInv
<1> QED
  BY <1>1, <1>3, <1>5, QueueTold

LEMMA InitMirrorInv == Init => MirrorInv
<1> SUFFICES ASSUME Init PROVE MirrorInv
  OBVIOUS
<1>1. hookQueue = <<>> /\ mirror = {} /\ \A i \in Index : pairs[i] = {}
  BY DEF Init
<1>2. LinksBySubject = {}
  BY <1>1, LinkFacts
<1>3. Told(mirror, hookQueue) = {}
  BY <1>1, ToldNothing
<1> QED
  BY <1>1, <1>2, <1>3 DEF MirrorInv

\* Nothing is linked or unlinked, and nothing said.
LEMMA QuietStep ==
  ASSUME MirrorInv, gen' = gen, pairs' = pairs, hookQueue' = hookQueue, mirror' = mirror,
         Despawning' \/ stack' = stack
  PROVE  MirrorInv'
BY SameLinks DEF MirrorInv, Told, Despawning

LEMMA NextMirrorInv ==
  ASSUME IInv, MirrorInv, ~StaleHandles, [Next]_vars PROVE MirrorInv'
<1>1. ASSUME NEW i \in Index, Spawn(i) PROVE MirrorInv'
  BY <1>1, QuietStep DEF Spawn, indexVars
<1>2. ASSUME NEW s \in Live, NEW t \in Live, NEW k \in Kinds,
             NEW at \in 0 .. Len(subjects[<<k, t.index>>]), AddRelation(s, k, t, at)
      PROVE  MirrorInv'
  <2>1. subjects[<<k, t.index>>] \in Seq(Entity)
    BY LiveFacts DEF IInv, Types
  <2>2. at \in Nat
    BY <2>1, LenProperties
  <2> QED
    BY <1>2, <2>2, AddRelationTold
<1>3. ASSUME NEW s \in Entity, NEW p \in pairs[s.index], RemoveRelation(s, p.kind, p.target)
      PROVE  MirrorInv'
  <2>1. s.index \in Index
    BY DEF Entity
  <2> QED
    BY <1>3, <2>1, RemoveRelationTold
<1>4. ASSUME Reorder PROVE MirrorInv'
  <2>1. PICK s \in Live, at \in Index : \E p \in pairs[s.index] :
          SetRelationIndex(s, p.kind, p.target, at)
    BY <1>4 DEF Reorder
  <2> QED
    BY <2>1, QuietStep DEF SetRelationIndex
<1>5. ASSUME NEW e \in Live, Despawn(e) PROVE MirrorInv'
  <2>1. stack' = <<e>>
    BY <1>5 DEF Despawn
  <2>2. Despawning'
    BY <2>1 DEF Despawning
  <2> QED
    BY <1>5, <2>2, QuietStep DEF Despawn, indexVars
<1>6. CASE SkipDead
  BY <1>6, SkipDeadTold
<1>7. CASE DespawnOne
  BY <1>7, DespawnOneTold
<1>8. CASE UNCHANGED vars
  BY <1>8, QuietStep DEF vars, indexVars
<1> QED
  BY <1>1, <1>2, <1>3, <1>4, <1>5, <1>6, <1>7, <1>8 DEF Next

\* Whoever follows the links by the hooks alone knows them all, whatever is
\* linked, replaced, unlinked or despawned.
THEOREM HooksFollowLinks == ASSUME ~StaleHandles PROVE Spec => []MirrorExact
<1>1. Init => IInv /\ MirrorInv
  BY InitIInv, InitMirrorInv
<1>2. IInv /\ MirrorInv /\ [Next]_vars => IInv' /\ MirrorInv'
  BY NextIInv, NextMirrorInv
<1>3. MirrorInv => MirrorExact
  BY MirrorInvExact
<1> QED
  BY <1>1, <1>2, <1>3, PTL DEF Spec

=============================================================================
