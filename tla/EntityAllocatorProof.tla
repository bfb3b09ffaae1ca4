------------------------ MODULE EntityAllocatorProof ------------------------
(***************************************************************************)
(* Proofs about EntityAllocator, for any buffers and any bounds: no index   *)
(* is issued twice or lost, handles stay current and are never revived,    *)
(* records keep step with their use, and all of it implements HandlePool.  *)
(***************************************************************************)
EXTENDS EntityAllocator, SequenceTheorems, FiniteSetTheorems, TLAPS

-----------------------------------------------------------------------------
(* Sequences without repetition. *)

LEMMA EmptyFacts ==
  /\ \A S : <<>> \in Seq(S)
  /\ Len(<<>>) = 0 /\ Range(<<>>) = {} /\ IsInjective(<<>>)
BY DEF Range, IsInjective

LEMMA ConcatFacts ==
  ASSUME NEW S, NEW s \in Seq(S), NEW t \in Seq(S)
  PROVE  /\ s \o t \in Seq(S)
         /\ Range(s \o t) = Range(s) \cup Range(t)
         /\ IsInjective(s) /\ IsInjective(t) /\ Range(s) \cap Range(t) = {}
              => IsInjective(s \o t)
<1>1. /\ s \o t \in Seq(S) /\ Len(s \o t) = Len(s) + Len(t)
      /\ \A i \in 1 .. Len(s) + Len(t) :
           (s \o t)[i] = IF i <= Len(s) THEN s[i] ELSE t[i - Len(s)]
  BY ConcatProperties
<1>2. /\ Len(s) \in Nat /\ DOMAIN s = 1 .. Len(s)
      /\ Len(t) \in Nat /\ DOMAIN t = 1 .. Len(t)
      /\ DOMAIN (s \o t) = 1 .. Len(s) + Len(t)
  BY <1>1, LenProperties
<1>3. Range(s \o t) \subseteq Range(s) \cup Range(t)
  BY <1>1, <1>2 DEF Range
<1>4. Range(s) \subseteq Range(s \o t)
  BY <1>1, <1>2 DEF Range
<1>5. ASSUME NEW x \in Range(t) PROVE x \in Range(s \o t)
  <2>1. PICK k \in 1 .. Len(t) : t[k] = x
    BY <1>2 DEF Range
  <2>2. k + Len(s) \in 1 .. Len(s) + Len(t) /\ (s \o t)[k + Len(s)] = x
    BY <1>1, <1>2, <2>1
  <2> QED
    BY <1>2, <2>2 DEF Range
<1>6. ASSUME IsInjective(s), IsInjective(t), Range(s) \cap Range(t) = {},
             NEW a \in 1 .. Len(s) + Len(t), NEW b \in 1 .. Len(s) + Len(t),
             (s \o t)[a] = (s \o t)[b]
      PROVE  a = b
  <2>1. CASE a <= Len(s) /\ b <= Len(s)
    BY <1>1, <1>2, <1>6, <2>1 DEF IsInjective
  <2>2. CASE a > Len(s) /\ b > Len(s)
    <3>1. a - Len(s) \in DOMAIN t /\ b - Len(s) \in DOMAIN t
      BY <1>2, <2>2
    <3>2. t[a - Len(s)] = t[b - Len(s)]
      BY <1>1, <1>2, <1>6, <2>2
    <3>3. a - Len(s) = b - Len(s)
      BY <1>6, <3>1, <3>2 DEF IsInjective
    <3> QED
      BY <1>2, <3>3
  <2>3. CASE a <= Len(s) /\ b > Len(s)
    <3>1. (s \o t)[a] \in Range(s)
      BY <1>1, <1>2, <2>3 DEF Range
    <3>2. b - Len(s) \in DOMAIN t /\ (s \o t)[b] = t[b - Len(s)]
      BY <1>1, <1>2, <2>3
    <3> QED
      BY <1>6, <3>1, <3>2 DEF Range
  <2>4. CASE a > Len(s) /\ b <= Len(s)
    <3>1. (s \o t)[b] \in Range(s)
      BY <1>1, <1>2, <2>4 DEF Range
    <3>2. a - Len(s) \in DOMAIN t /\ (s \o t)[a] = t[a - Len(s)]
      BY <1>1, <1>2, <2>4
    <3> QED
      BY <1>6, <3>1, <3>2 DEF Range
  <2> QED
    BY <1>2, <2>1, <2>2, <2>3, <2>4
<1> QED
  BY <1>1, <1>2, <1>3, <1>4, <1>5, <1>6 DEF IsInjective

\* Cutting a sequence in two separates its elements.
LEMMA SplitFacts ==
  ASSUME NEW S, NEW s \in Seq(S), NEW n \in 0 .. Len(s)
  PROVE  /\ SubSeq(s, 1, n) \in Seq(S) /\ SubSeq(s, n + 1, Len(s)) \in Seq(S)
         /\ Len(SubSeq(s, 1, n)) = n
         /\ \A k \in 1 .. n : SubSeq(s, 1, n)[k] = s[k]
         /\ Len(SubSeq(s, n + 1, Len(s))) = Len(s) - n
         /\ \A k \in 1 .. Len(s) - n : SubSeq(s, n + 1, Len(s))[k] = s[n + k]
<1>1. Len(s) \in Nat /\ \A k \in 1 .. Len(s) : s[k] \in S
  BY LenProperties, ElementOfSeq
<1>2. /\ SubSeq(s, 1, n) = [k \in 1 .. n |-> s[1 + k - 1]]
      /\ SubSeq(s, n + 1, Len(s)) = [k \in 1 .. Len(s) - n |-> s[n + 1 + k - 1]]
  BY <1>1, SubSeqProperties
<1>3. \A k \in 1 .. n : k \in 1 .. Len(s) /\ 1 + k - 1 = k
  BY <1>1
<1>4. \A k \in 1 .. Len(s) - n : n + k \in 1 .. Len(s) /\ n + 1 + k - 1 = n + k
  BY <1>1
<1>5. SubSeq(s, 1, n) \in Seq(S) /\ Len(SubSeq(s, 1, n)) = n
  BY <1>1, <1>2, <1>3, IsASeq
<1>6. /\ SubSeq(s, n + 1, Len(s)) \in Seq(S)
      /\ Len(SubSeq(s, n + 1, Len(s))) = Len(s) - n
  BY <1>1, <1>2, <1>4, IsASeq
<1> QED
  BY <1>2, <1>3, <1>4, <1>5, <1>6

LEMMA SplitRange ==
  ASSUME NEW S, NEW s \in Seq(S), NEW n \in 0 .. Len(s)
  PROVE  LET p == SubSeq(s, 1, n)
             q == SubSeq(s, n + 1, Len(s))
         IN  /\ Range(s) = Range(p) \cup Range(q)
             /\ IsInjective(s) => /\ IsInjective(p) /\ IsInjective(q)
                                  /\ Range(p) \cap Range(q) = {}
<1> DEFINE p == SubSeq(s, 1, n)
           q == SubSeq(s, n + 1, Len(s))
<1>1. /\ Len(s) \in Nat /\ DOMAIN s = 1 .. Len(s)
      /\ Len(p) = n /\ DOMAIN p = 1 .. n
      /\ Len(q) = Len(s) - n /\ DOMAIN q = 1 .. Len(s) - n
      /\ \A k \in 1 .. n : p[k] = s[k]
      /\ \A k \in 1 .. Len(s) - n : q[k] = s[n + k]
  BY SplitFacts, LenProperties
<1> HIDE DEF p, q
<1>2. Range(p) \subseteq Range(s)
  BY <1>1 DEF Range
<1>3. ASSUME NEW k \in 1 .. Len(s) - n PROVE q[k] \in Range(s)
  <2>1. n + k \in 1 .. Len(s)
    BY <1>1
  <2> QED
    BY <1>1, <2>1 DEF Range
<1>4. ASSUME NEW k \in 1 .. Len(s) PROVE s[k] \in Range(p) \cup Range(q)
  <2>1. CASE k <= n
    BY <1>1, <2>1 DEF Range
  <2>2. CASE k > n
    <3>1. k - n \in 1 .. Len(s) - n /\ n + (k - n) = k
      BY <1>1, <2>2
    <3>2. q[k - n] = s[k]
      BY <1>1, <3>1
    <3> QED
      BY <1>1, <3>1, <3>2 DEF Range
  <2> QED
    BY <1>1, <2>1, <2>2
<1>5. Range(s) = Range(p) \cup Range(q)
  <2>1. Range(s) \subseteq Range(p) \cup Range(q)
    <3>1. Range(s) = {s[k] : k \in 1 .. Len(s)}
      BY ONLY <1>1 DEF Range
    <3> QED
      BY ONLY <1>4, <3>1
  <2>2. Range(q) \subseteq Range(s)
    <3>1. Range(q) = {q[k] : k \in 1 .. Len(s) - n}
      BY ONLY <1>1 DEF Range
    <3> QED
      BY ONLY <1>3, <3>1
  <2> QED
    BY ONLY <1>2, <2>1, <2>2
<1>6. ASSUME IsInjective(s) PROVE IsInjective(p)
  BY <1>1, <1>6 DEF IsInjective
<1>7. ASSUME IsInjective(s), NEW a \in 1 .. Len(s) - n,
             NEW b \in 1 .. Len(s) - n, q[a] = q[b]
      PROVE  a = b
  <2>1. n + a \in 1 .. Len(s) /\ n + b \in 1 .. Len(s) /\ s[n + a] = s[n + b]
    BY <1>1, <1>7
  <2>2. n + a = n + b
    BY <1>1, <1>7, <2>1 DEF IsInjective
  <2> QED
    BY <2>2
<1>8. ASSUME IsInjective(s), NEW a \in 1 .. n, NEW b \in 1 .. Len(s) - n
      PROVE  p[a] # q[b]
  <2>1. n + b \in 1 .. Len(s) /\ n + b # a /\ a \in 1 .. Len(s)
    BY <1>1
  <2>2. s[a] # s[n + b]
    BY <1>1, <1>8, <2>1 DEF IsInjective
  <2> QED
    BY <1>1, <2>2
<1>9. IsInjective(s) => Range(p) \cap Range(q) = {}
  BY <1>1, <1>8 DEF Range
<1>10. IsInjective(s) => IsInjective(q)
  BY <1>1, <1>7 DEF IsInjective
<1> QED
  BY <1>5, <1>6, <1>9, <1>10 DEF p, q

-----------------------------------------------------------------------------
(* The same for sequences of handles, seen through their indices. *)

LEMMA EntityFields ==
  /\ \A e \in Entity : e.index \in Index /\ e.gen \in Gen
  /\ \A i \in Index, g \in Gen : [index |-> i, gen |-> g] \in Entity
BY DEF Entity

LEMMA IndicesFacts ==
  ASSUME NEW s \in Seq(Entity)
  PROVE  /\ Indices(s) \in Seq(Index) /\ Len(Indices(s)) = Len(s)
         /\ \A k \in 1 .. Len(s) : Indices(s)[k] = s[k].index
         /\ Range(Indices(s)) = EntityIndices(s)
         /\ EntityIndices(s) \subseteq Index
<1>1. Len(s) \in Nat /\ \A k \in 1 .. Len(s) : s[k].index \in Index
  BY LenProperties, ElementOfSeq, EntityFields
<1>2. Indices(s) = [k \in 1 .. Len(s) |-> s[k].index]
  BY DEF Indices
<1>3. Indices(s) \in Seq(Index) /\ Len(Indices(s)) = Len(s)
  BY <1>1, <1>2, IsASeq
<1>4. DOMAIN Indices(s) = 1 .. Len(s)
  BY <1>2
<1> QED
  BY <1>1, <1>2, <1>3, <1>4 DEF Range, EntityIndices

LEMMA IndicesConcat ==
  ASSUME NEW s \in Seq(Entity), NEW t \in Seq(Entity)
  PROVE  /\ s \o t \in Seq(Entity)
         /\ Indices(s \o t) = Indices(s) \o Indices(t)
<1>1. /\ s \o t \in Seq(Entity) /\ Len(s \o t) = Len(s) + Len(t)
      /\ \A i \in 1 .. Len(s) + Len(t) :
           (s \o t)[i] = IF i <= Len(s) THEN s[i] ELSE t[i - Len(s)]
  BY ConcatProperties
<1>2. /\ Indices(s) \in Seq(Index) /\ Len(Indices(s)) = Len(s)
      /\ Indices(t) \in Seq(Index) /\ Len(Indices(t)) = Len(t)
      /\ Indices(s \o t) \in Seq(Index)
      /\ Len(Indices(s \o t)) = Len(s) + Len(t)
      /\ \A k \in 1 .. Len(s) : Indices(s)[k] = s[k].index
      /\ \A k \in 1 .. Len(t) : Indices(t)[k] = t[k].index
      /\ \A k \in 1 .. Len(s) + Len(t) : Indices(s \o t)[k] = (s \o t)[k].index
  BY <1>1, IndicesFacts
<1> DEFINE is == Indices(s)
           it == Indices(t)
<1> HIDE DEF is, it
<1>3. /\ is \o it \in Seq(Index)
      /\ Len(is \o it) = Len(s) + Len(t)
      /\ \A i \in 1 .. Len(s) + Len(t) :
           (is \o it)[i] = IF i <= Len(s) THEN is[i] ELSE it[i - Len(s)]
  <2>1. /\ is \in Seq(Index) /\ Len(is) = Len(s)
        /\ it \in Seq(Index) /\ Len(it) = Len(t)
    BY <1>2 DEF is, it
  <2>2. /\ is \o it \in Seq(Index)
        /\ Len(is \o it) = Len(is) + Len(it)
        /\ \A i \in 1 .. Len(is) + Len(it) :
             (is \o it)[i] = IF i <= Len(is) THEN is[i] ELSE it[i - Len(is)]
    BY <2>1, ConcatProperties
  <2> QED
    BY <2>1, <2>2
<1>4. Len(s) \in Nat /\ Len(t) \in Nat
  BY LenProperties
<1>5. ASSUME NEW k \in 1 .. Len(s) + Len(t)
      PROVE  Indices(s \o t)[k] = (is \o it)[k]
  <2>1. CASE k <= Len(s)
    <3>1. k \in 1 .. Len(s)
      BY <1>4, <2>1
    <3> QED
      BY <1>1, <1>2, <1>3, <2>1, <3>1 DEF is
  <2>2. CASE ~(k <= Len(s))
    <3>1. k - Len(s) \in 1 .. Len(t)
      BY <1>4, <2>2
    <3> QED
      BY <1>1, <1>2, <1>3, <2>2, <3>1 DEF it
  <2> QED
    BY <2>1, <2>2
<1>6. Indices(s \o t) = is \o it
  BY <1>2, <1>3, <1>5, SeqEqual
<1> QED
  BY <1>1, <1>6 DEF is, it

\* Concatenating two disjoint repetition-free lists of handles.
LEMMA EntityConcat ==
  ASSUME NEW s \in Seq(Entity), NEW t \in Seq(Entity)
  PROVE  /\ s \o t \in Seq(Entity)
         /\ EntityIndices(s \o t) = EntityIndices(s) \cup EntityIndices(t)
         /\ (/\ IsInjective(Indices(s)) /\ IsInjective(Indices(t))
             /\ EntityIndices(s) \cap EntityIndices(t) = {})
              => IsInjective(Indices(s \o t))
<1>1. /\ Indices(s) \in Seq(Index) /\ Range(Indices(s)) = EntityIndices(s)
      /\ Indices(t) \in Seq(Index) /\ Range(Indices(t)) = EntityIndices(t)
  BY IndicesFacts
<1>2. s \o t \in Seq(Entity) /\ Indices(s \o t) = Indices(s) \o Indices(t)
  BY IndicesConcat
<1>3. Range(Indices(s \o t)) = EntityIndices(s \o t)
  BY <1>2, IndicesFacts
<1> DEFINE is == Indices(s)
           it == Indices(t)
<1> HIDE DEF is, it
<1>4. /\ Range(is \o it) = Range(is) \cup Range(it)
      /\ IsInjective(is) /\ IsInjective(it) /\ Range(is) \cap Range(it) = {}
           => IsInjective(is \o it)
  <2>1. is \in Seq(Index) /\ it \in Seq(Index)
    BY <1>1 DEF is, it
  <2> QED
    BY <2>1, ConcatFacts
<1>5. /\ Range(is) = EntityIndices(s) /\ Range(it) = EntityIndices(t)
      /\ Indices(s \o t) = is \o it
  BY <1>1, <1>2 DEF is, it
<1>6. EntityIndices(s \o t) = EntityIndices(s) \cup EntityIndices(t)
  BY <1>3, <1>4, <1>5
<1>7. (/\ IsInjective(is) /\ IsInjective(it)
       /\ EntityIndices(s) \cap EntityIndices(t) = {})
        => IsInjective(Indices(s \o t))
  BY <1>4, <1>5
<1> QED
  BY <1>2, <1>6, <1>7 DEF is, it

\* Cutting a repetition-free list of handles in two.
LEMMA EntitySplit ==
  ASSUME NEW s \in Seq(Entity), NEW n \in 0 .. Len(s),
         IsInjective(Indices(s))
  PROVE  LET p == SubSeq(s, 1, n)
             q == SubSeq(s, n + 1, Len(s))
         IN  /\ p \in Seq(Entity) /\ q \in Seq(Entity)
             /\ EntityIndices(s) = EntityIndices(p) \cup EntityIndices(q)
             /\ EntityIndices(p) \cap EntityIndices(q) = {}
             /\ IsInjective(Indices(p)) /\ IsInjective(Indices(q))
<1> DEFINE p == SubSeq(s, 1, n)
           q == SubSeq(s, n + 1, Len(s))
           ip == SubSeq(Indices(s), 1, n)
           iq == SubSeq(Indices(s), n + 1, Len(s))
<1>1. /\ Len(s) \in Nat
      /\ p \in Seq(Entity) /\ Len(p) = n /\ \A k \in 1 .. n : p[k] = s[k]
      /\ q \in Seq(Entity) /\ Len(q) = Len(s) - n
      /\ \A k \in 1 .. Len(s) - n : q[k] = s[n + k]
  BY SplitFacts, LenProperties
<1>2. /\ Indices(s) \in Seq(Index) /\ Len(Indices(s)) = Len(s)
      /\ \A k \in 1 .. Len(s) : Indices(s)[k] = s[k].index
      /\ Range(Indices(s)) = EntityIndices(s)
  BY IndicesFacts
<1>3. /\ ip \in Seq(Index) /\ Len(ip) = n
      /\ \A k \in 1 .. n : ip[k] = Indices(s)[k]
      /\ iq \in Seq(Index) /\ Len(iq) = Len(s) - n
      /\ \A k \in 1 .. Len(s) - n : iq[k] = Indices(s)[n + k]
  BY <1>2, SplitFacts
<1>4. /\ Range(Indices(s)) = Range(ip) \cup Range(iq)
      /\ Range(ip) \cap Range(iq) = {}
      /\ IsInjective(ip) /\ IsInjective(iq)
  BY <1>2, SplitRange
<1> HIDE DEF p, q, ip, iq
<1>5. /\ Indices(p) \in Seq(Index) /\ Len(Indices(p)) = n
      /\ \A k \in 1 .. n : Indices(p)[k] = p[k].index
      /\ Range(Indices(p)) = EntityIndices(p)
      /\ Indices(q) \in Seq(Index) /\ Len(Indices(q)) = Len(s) - n
      /\ \A k \in 1 .. Len(s) - n : Indices(q)[k] = q[k].index
      /\ Range(Indices(q)) = EntityIndices(q)
  BY <1>1, IndicesFacts
<1>6. \A k \in 1 .. n : Indices(p)[k] = ip[k]
  <2> TAKE k \in 1 .. n
  <2>1. k \in 1 .. Len(s)
    BY <1>1
  <2>2. Indices(p)[k] = p[k].index /\ p[k] = s[k]
    BY ONLY <1>1, <1>5, k \in 1 .. n
  <2>3. Indices(s)[k] = s[k].index
    BY ONLY <1>2, <2>1
  <2>4. ip[k] = Indices(s)[k]
    BY ONLY <1>3, k \in 1 .. n
  <2> QED
    BY ONLY <2>2, <2>3, <2>4
<1>7. \A k \in 1 .. Len(s) - n : Indices(q)[k] = iq[k]
  <2> TAKE k \in 1 .. Len(s) - n
  <2>1. n + k \in 1 .. Len(s)
    BY <1>1
  <2>2. Indices(q)[k] = q[k].index /\ q[k] = s[n + k]
    BY ONLY <1>1, <1>5, k \in 1 .. Len(s) - n
  <2>3. Indices(s)[n + k] = s[n + k].index
    BY ONLY <1>2, <2>1
  <2>4. iq[k] = Indices(s)[n + k]
    BY ONLY <1>3, k \in 1 .. Len(s) - n
  <2> QED
    BY ONLY <2>2, <2>3, <2>4
<1>8. Indices(p) = ip /\ Indices(q) = iq
  BY <1>3, <1>5, <1>6, <1>7, SeqEqual
<1> QED
  BY <1>1, <1>2, <1>4, <1>5, <1>8 DEF p, q

-----------------------------------------------------------------------------
(* The inductive invariant. *)

\* Every handle still to be used carries its record's generation.
AllGen(ids, g) == \A k \in 1 .. Len(ids) : g[ids[k].index] = ids[k].gen
LeaseGen(l, g) == \A k \in 1 .. l.cursor : g[l.free[k].index] = l.free[k].gen

GenCurrent ==
  /\ LeaseGen(lease, generation)
  /\ AllGen(mine, generation)
  /\ \A b \in Buffers : /\ AllGen(queue[b], generation)
                        /\ AllGen(tail[b], generation)
  /\ \A i \in Index : i >= highWater => generation[i] = 0

\* Variables whose value is fixed where the code is.
Shape ==
  /\ mainPc = "sub" => mine = <<>>
  /\ \A b \in Buffers : binding[b] = "shared" => tail[b] = <<>>

\* One owner for every index: owner[i] names the kind of place the index is in,
\* of[i] the buffer if that place belongs to one, and each place holds exactly
\* the indices that name it.
Kinds == {"unissued", "free", "lease", "dropped", "mine", "located",
          "retired", "queue", "tail"}

Holder == Buffers \cup {NoBuffer}

FreeSet     == Range(freeList)
LeaseSet    == Leased(lease)
DroppedSet  == Range(dropped)
MineSet     == EntityIndices(mine)
RetiredSet  == RetiredIn(generation)
QueueSet(b) == EntityIndices(queue[b])
TailSet(b)  == EntityIndices(tail[b])

Owned(owner, of) ==
  \A i \in Index :
    /\ owner[i] = "unissued" <=> i >= highWater
    /\ owner[i] = "free"     <=> i \in FreeSet
    /\ owner[i] = "lease"    <=> i \in LeaseSet
    /\ owner[i] = "dropped"  <=> i \in DroppedSet
    /\ owner[i] = "mine"     <=> i \in MineSet
    /\ owner[i] = "located"  <=> i \in located
    /\ owner[i] = "retired"  <=> i \in RetiredSet
    /\ owner[i] \in {"queue", "tail"} => of[i] \in Buffers
    /\ \A b \in Buffers :
         /\ (owner[i] = "queue" /\ of[i] = b) <=> i \in QueueSet(b)
         /\ (owner[i] = "tail" /\ of[i] = b)  <=> i \in TailSet(b)

OneOwner ==
  \E owner \in [Index -> Kinds], of \in [Index -> Holder] : Owned(owner, of)

IInv == TypeOK /\ Shape /\ GenCurrent /\ Distinct /\ OneOwner

-----------------------------------------------------------------------------
(* What the helpers of the actions yield. *)

\* The indices M pass to the place of kind k that belongs to c.
Moved(owner, of, owner2, of2, M, k, c) ==
  \A i \in Index : /\ owner2[i] = IF i \in M THEN k ELSE owner[i]
                   /\ of2[i] = IF i \in M THEN c ELSE of[i]

LEMMA Move ==
  ASSUME NEW owner \in [Index -> Kinds], NEW of \in [Index -> Holder],
         NEW M, NEW k \in Kinds, NEW c \in Holder
  PROVE  \E owner2 \in [Index -> Kinds], of2 \in [Index -> Holder] :
           Moved(owner, of, owner2, of2, M, k, c)
<1>1. [i \in Index |-> IF i \in M THEN k ELSE owner[i]] \in [Index -> Kinds]
  OBVIOUS
<1>2. [i \in Index |-> IF i \in M THEN c ELSE of[i]] \in [Index -> Holder]
  OBVIOUS
<1> QED
  BY <1>1, <1>2 DEF Moved

LEMMA IndexArithmetic ==
  /\ MaxIndex \in Nat /\ MaxIndex > 0 /\ MaxBatch \in Nat /\ MaxGen \in Nat
  /\ MaxGen > 0 /\ 0 \in Gen
  /\ \A i : i \in Index <=> i \in Nat /\ i < MaxIndex
BY ConstantsAssumption DEF ConstantsAssumption, Index, Gen

LEMMA ReuseRange ==
  ASSUME TypeOK, NEW n \in Nat
  PROVE  /\ Reuse(n) \in 0 .. n /\ lease.cursor \in Int
         /\ Reuse(n) <= lease.cursor \/ Reuse(n) = 0
         /\ lease.cursor - n < 0 => Reuse(n) = Larger(lease.cursor, 0)
         /\ lease.cursor - n >= 0 => Reuse(n) = n
<1> DEFINE c == lease.cursor
           r == Reuse(n)
<1>1. c \in Int
  BY DEF TypeOK
<1>2. r = IF c >= n THEN n ELSE IF c > 0 THEN c ELSE 0
  BY DEF Reuse
<1> HIDE DEF c, r
<1>3. /\ r \in 0 .. n /\ c \in Int
      /\ r <= c \/ r = 0
      /\ c - n < 0 => r = Larger(c, 0)
      /\ c - n >= 0 => r = n
  BY ONLY <1>1, <1>2, n \in Nat DEF Larger
<1> QED
  BY <1>3 DEF c, r

\* The ids from the high-water mark.
LEMMA FreshFacts ==
  ASSUME TypeOK, NEW n \in Nat, highWater + n <= MaxIndex
  PROVE  /\ FreshIds(n) \in Seq(Entity) /\ Len(FreshIds(n)) = n
         /\ EntityIndices(FreshIds(n)) = highWater .. highWater + n - 1
         /\ highWater + n \in 0 .. MaxIndex
         /\ IsInjective(Indices(FreshIds(n)))
         /\ (\A i \in Index : i >= highWater => generation[i] = 0)
              => AllGen(FreshIds(n), generation)
<1>1. highWater \in Nat /\ MaxIndex \in Nat /\ highWater + n \in 0 .. MaxIndex
  <2>1. highWater \in 0 .. MaxIndex
    BY DEF TypeOK
  <2> QED
    BY <2>1, IndexArithmetic
<1>2. \A k \in 1 .. n : highWater + k - 1 \in Index /\ highWater + k - 1 >= highWater
  BY <1>1, IndexArithmetic
<1>3. \A k \in 1 .. n : [index |-> highWater + k - 1, gen |-> 0] \in Entity
  BY <1>2, EntityFields, IndexArithmetic
<1>4. /\ FreshIds(n) \in Seq(Entity) /\ Len(FreshIds(n)) = n
      /\ \A k \in 1 .. n : FreshIds(n)[k] = [index |-> highWater + k - 1, gen |-> 0]
  BY <1>3, IsASeq DEF FreshIds
<1>5. \A k \in 1 .. n : FreshIds(n)[k].index = highWater + k - 1
                       /\ FreshIds(n)[k].gen = 0
  BY <1>4
<1> DEFINE f == FreshIds(n)
<1> HIDE DEF f
<1>6. EntityIndices(f) = highWater .. highWater + n - 1
  <2>1. EntityIndices(f) = {highWater + k - 1 : k \in 1 .. n}
    BY <1>4, <1>5 DEF EntityIndices, f
  <2>2. \A j \in highWater .. highWater + n - 1 :
          j - highWater + 1 \in 1 .. n /\ j = highWater + (j - highWater + 1) - 1
    BY <1>1
  <2>3. \A k \in 1 .. n : highWater + k - 1 \in highWater .. highWater + n - 1
    BY <1>1
  <2> QED
    BY <2>1, <2>2, <2>3
<1>7. IsInjective(Indices(f))
  <2>1. DOMAIN Indices(f) = 1 .. n /\ \A k \in 1 .. n : Indices(f)[k] = highWater + k - 1
    BY <1>4, <1>5 DEF Indices, f
  <2> QED
    BY <1>1, <2>1 DEF IsInjective
<1>8. ASSUME \A i \in Index : i >= highWater => generation[i] = 0
      PROVE  AllGen(f, generation)
  BY <1>2, <1>4, <1>5, <1>8 DEF AllGen, f
<1> QED
  BY <1>1, <1>4, <1>6, <1>7, <1>8 DEF f

\* The ids a decrement of the lease's cursor by n yields, and the lease left.
Decremented(n) == [lease EXCEPT !.cursor = @ - n]

LEMMA LeaseFacts ==
  ASSUME TypeOK, LeaseDistinct(lease), NEW n \in Nat
  PROVE  LET s == LeaseSlots(n)
             l == Decremented(n)
         IN  /\ s \in Seq(Entity) /\ Len(s) = Reuse(n)
             /\ IsInjective(Indices(s))
             /\ Leased(lease) = Leased(l) \cup EntityIndices(s)
             /\ Leased(l) \cap EntityIndices(s) = {}
             /\ Leased(lease) \subseteq Index
             /\ LeaseDistinct(l)
             /\ l.free \in Seq(Entity) /\ l.cursor \in Int
             /\ l = [free |-> l.free, cursor |-> l.cursor]
             /\ l.cursor <= Len(l.free)
             /\ LeaseGen(lease, generation) => /\ AllGen(s, generation)
                                               /\ LeaseGen(l, generation)
<1> DEFINE s == LeaseSlots(n)
           l == Decremented(n)
           c == lease.cursor
           r == Reuse(n)
           w == lease.free
<1>1. /\ w \in Seq(Entity) /\ Len(w) \in Nat
      /\ \A k \in 1 .. Len(w) : w[k] \in Entity
      /\ lease = [free |-> w, cursor |-> c] /\ c \in Int /\ c <= Len(w)
  <2>1. /\ w \in Seq(Entity) /\ c \in Int /\ c <= Len(w)
        /\ lease = [free |-> w, cursor |-> c]
    BY DEF TypeOK
  <2> QED
    BY <2>1, LenProperties, ElementOfSeq
<1>2. l = [free |-> w, cursor |-> c - n] /\ l.free = w /\ l.cursor = c - n
  BY <1>1 DEF Decremented
<1>3. /\ r \in 0 .. n /\ (r <= c \/ r = 0)
      /\ c - n < 0 => r = IF c > 0 THEN c ELSE 0
      /\ c - n >= 0 => r = n
  BY <1>1 DEF Reuse
<1>4. s = [k \in 1 .. r |-> w[c + 1 - k]]
  BY DEF LeaseSlots
<1>5. \A j, k \in 1 .. c : w[j].index = w[k].index => j = k
  BY DEF LeaseDistinct
<1>6. LeaseGen(lease, generation) =>
        \A k \in 1 .. c : generation[w[k].index] = w[k].gen
  BY DEF LeaseGen
<1>7. /\ Leased(lease) = {w[k].index : k \in 1 .. c}
      /\ Leased(l) = {w[k].index : k \in 1 .. c - n}
  BY <1>2 DEF Leased
<1> HIDE DEF s, l, c, r, w
<1>8. /\ \A k \in 1 .. r : c + 1 - k \in 1 .. c /\ c + 1 - k > c - n
      /\ \A k \in 1 .. c : k \in 1 .. Len(w)
      /\ \A k \in 1 .. c - n : k \in 1 .. c
      /\ \A k \in 1 .. c : k > c - n => c + 1 - k \in 1 .. r
                                       /\ c + 1 - (c + 1 - k) = k
  BY <1>1, <1>3
<1>9. /\ s \in Seq(Entity) /\ Len(s) = r /\ DOMAIN s = 1 .. r
      /\ \A k \in 1 .. r : s[k] = w[c + 1 - k]
  <2>1. \A k \in 1 .. r : w[c + 1 - k] \in Entity
    BY <1>1, <1>8
  <2> QED
    BY <1>3, <1>4, <2>1, IsASeq
<1>10. /\ DOMAIN Indices(s) = 1 .. r
       /\ \A k \in 1 .. r : Indices(s)[k] = w[c + 1 - k].index
  BY <1>9 DEF Indices
<1>11. IsInjective(Indices(s))
  <2>1. ASSUME NEW j \in 1 .. r, NEW k \in 1 .. r,
               w[c + 1 - j].index = w[c + 1 - k].index
        PROVE  j = k
    <3>1. c + 1 - j = c + 1 - k
      BY <1>5, <1>8, <2>1
    <3> QED
      BY <1>1, <1>3, <3>1
  <2> QED
    BY <1>10, <2>1 DEF IsInjective
<1>12. EntityIndices(s) = {w[c + 1 - k].index : k \in 1 .. r}
  BY <1>9 DEF EntityIndices
<1>13. EntityIndices(s) \subseteq Leased(lease)
  BY <1>7, <1>8, <1>12
<1>14. Leased(l) \subseteq Leased(lease)
  BY <1>7, <1>8
<1>15. ASSUME NEW k \in 1 .. c PROVE w[k].index \in Leased(l) \cup EntityIndices(s)
  <2>1. CASE k <= c - n
    <3>1. k \in 1 .. c - n
      BY <1>1, <2>1
    <3> QED
      BY <1>7, <3>1
  <2>2. CASE k > c - n
    <3>1. c + 1 - k \in 1 .. r /\ c + 1 - (c + 1 - k) = k
      BY <1>8, <2>2
    <3> QED
      BY <1>12, <3>1
  <2> QED
    BY <1>1, <2>1, <2>2
<1>16. ASSUME NEW j \in 1 .. c - n, NEW k \in 1 .. r
       PROVE  w[j].index # w[c + 1 - k].index
  <2>1. j \in 1 .. c /\ c + 1 - k \in 1 .. c /\ j # c + 1 - k
    BY <1>1, <1>8
  <2> QED
    BY <1>5, <2>1
<1>17. /\ Leased(lease) = Leased(l) \cup EntityIndices(s)
       /\ Leased(l) \cap EntityIndices(s) = {}
  <2>1. Leased(lease) \subseteq Leased(l) \cup EntityIndices(s)
    BY <1>7, <1>15
  <2>2. ASSUME NEW x \in Leased(l), NEW y \in EntityIndices(s) PROVE x # y
    <3>1. PICK j \in 1 .. c - n : x = w[j].index
      BY <1>7
    <3>2. PICK k \in 1 .. r : y = w[c + 1 - k].index
      BY <1>12
    <3> QED
      BY <1>16, <3>1, <3>2
  <2> QED
    BY <1>13, <1>14, <2>1, <2>2
<1>18. LeaseDistinct(l)
  BY <1>2, <1>5, <1>8 DEF LeaseDistinct
<1>19. Leased(lease) \subseteq Index
  <2>1. \A k \in 1 .. c : w[k].index \in Index
    BY <1>1, <1>8, EntityFields
  <2> QED
    BY ONLY <1>7, <2>1
<1>20. c - n \in Int /\ c - n <= Len(w)
  BY <1>1
<1>21. ASSUME LeaseGen(lease, generation)
       PROVE  AllGen(s, generation) /\ LeaseGen(l, generation)
  <2>1. \A k \in 1 .. c : generation[w[k].index] = w[k].gen
    BY <1>6, <1>21
  <2>2. ASSUME NEW k \in 1 .. r PROVE generation[s[k].index] = s[k].gen
    <3>1. s[k] = w[c + 1 - k] /\ c + 1 - k \in 1 .. c
      BY ONLY <1>8, <1>9, <2>2
    <3> QED
      BY ONLY <2>1, <3>1
  <2>3. AllGen(s, generation)
    BY ONLY <1>9, <2>2 DEF AllGen
  <2>4. LeaseGen(l, generation)
    BY ONLY <1>2, <1>8, <2>1 DEF LeaseGen
  <2> QED
    BY <2>3, <2>4
<1> QED
  BY <1>1, <1>2, <1>9, <1>11, <1>17, <1>18, <1>19, <1>20, <1>21 DEF s, l, r

LEMMA NoEntities ==
  /\ <<>> \in Seq(Entity) /\ <<>> \in Seq(Index)
  /\ EntityIndices(<<>>) = {} /\ Range(<<>>) = {} /\ IsInjective(<<>>)
  /\ Indices(<<>>) = <<>> /\ IsInjective(Indices(<<>>))
  /\ \A g : AllGen(<<>>, g)
<1>1. Indices(<<>>) = <<>>
  BY DEF Indices
<1> QED
  BY <1>1, EmptyFacts DEF EntityIndices, AllGen

\* The ids popped off the free list.
LEMMA PopFacts ==
  ASSUME TypeOK, IsInjective(freeList), NEW n \in 0 .. Len(freeList)
  PROVE  LET p == SubSeq(freeList, 1, Len(freeList) - n)
         IN  /\ Popped(n) \in Seq(Entity) /\ Len(Popped(n)) = n
             /\ p \in Seq(Index)
             /\ IsInjective(Indices(Popped(n))) /\ IsInjective(p)
             /\ Range(freeList) = Range(p) \cup EntityIndices(Popped(n))
             /\ Range(p) \cap EntityIndices(Popped(n)) = {}
             /\ AllGen(Popped(n), generation)
<1> DEFINE s == Popped(n)
           w == freeList
           p == SubSeq(w, 1, Len(w) - n)
           q == SubSeq(w, Len(w) - n + 1, Len(w))
<1>1. /\ w \in Seq(Index) /\ Len(w) \in Nat /\ IsInjective(w)
      /\ \A k \in 1 .. Len(w) : w[k] \in Index
      /\ generation \in [Index -> Gen] /\ DOMAIN w = 1 .. Len(w)
  <2>1. w \in Seq(Index) /\ generation \in [Index -> Gen]
    BY DEF TypeOK
  <2> QED
    BY <2>1, LenProperties, ElementOfSeq
<1>2. \A i \in Index : /\ Record(i) \in Entity
                        /\ Record(i).index = i /\ Record(i).gen = generation[i]
  BY <1>1, EntityFields DEF Record
<1>3. s = [k \in 1 .. n |-> Record(w[Len(w) + 1 - k])]
  BY DEF Popped
<1> HIDE DEF s, w, p, q
<1>4. /\ n \in Nat /\ n <= Len(w) /\ Len(w) - n \in 0 .. Len(w)
      /\ Len(w) - (Len(w) - n) = n
      /\ \A k \in 1 .. n : Len(w) + 1 - k \in 1 .. Len(w)
  <2>1. n \in 0 .. Len(w)
    BY DEF w
  <2> QED
    BY <1>1, <2>1
<1>5. \A k \in 1 .. n : /\ Record(w[Len(w) + 1 - k]) \in Entity
                         /\ s[k].index = w[Len(w) + 1 - k]
                         /\ s[k].gen = generation[s[k].index]
  BY <1>1, <1>2, <1>3, <1>4
<1>6. s \in Seq(Entity) /\ Len(s) = n /\ DOMAIN s = 1 .. n
  <2>1. n \in Nat /\ \A k \in 1 .. n : Record(w[Len(w) + 1 - k]) \in Entity
    BY <1>4, <1>5
  <2>2. DOMAIN s = 1 .. n
    BY <1>3
  <2>3. s \in Seq(Entity)
    BY <1>3, <2>1, IsASeq
  <2> QED
    BY <2>1, <2>2, <2>3, LenProperties
<1>7. /\ p \in Seq(Index) /\ q \in Seq(Index) /\ Len(q) = n
      /\ \A k \in 1 .. n : q[k] = w[Len(w) - n + k]
  BY <1>1, <1>4, SplitFacts DEF p, q
<1>8. /\ Range(w) = Range(p) \cup Range(q) /\ Range(p) \cap Range(q) = {}
      /\ IsInjective(p)
  BY <1>1, <1>4, SplitRange DEF p, q
<1>9. DOMAIN q = 1 .. n
  BY <1>7, LenProperties
<1>10. EntityIndices(s) = {w[Len(w) + 1 - k] : k \in 1 .. n}
  <2>1. EntityIndices(s) = {s[k].index : k \in 1 .. n}
    BY ONLY <1>6 DEF EntityIndices
  <2>2. \A k \in 1 .. n : s[k].index = w[Len(w) + 1 - k]
    BY ONLY <1>5
  <2> QED
    BY ONLY <2>1, <2>2
<1>11. Range(q) = EntityIndices(s)
  <2>1. Range(q) = {w[Len(w) - n + k] : k \in 1 .. n}
    <3>1. Range(q) = {q[k] : k \in 1 .. n}
      BY ONLY <1>9 DEF Range
    <3>2. \A k \in 1 .. n : q[k] = w[Len(w) - n + k]
      BY ONLY <1>7
    <3> QED
      BY ONLY <3>1, <3>2
  <2>2. \A k \in 1 .. n : n + 1 - k \in 1 .. n
                          /\ Len(w) + 1 - (n + 1 - k) = Len(w) - n + k
                          /\ Len(w) - n + (n + 1 - k) = Len(w) + 1 - k
    BY <1>1, <1>4
  <2>3. \A k \in 1 .. n : w[Len(w) - n + k] \in EntityIndices(s)
    <3>1. TAKE k \in 1 .. n
    <3>2. n + 1 - k \in 1 .. n /\ Len(w) + 1 - (n + 1 - k) = Len(w) - n + k
      BY <2>2
    <3>3. w[Len(w) + 1 - (n + 1 - k)] \in EntityIndices(s)
      BY <1>10, <3>2
    <3> QED
      BY <3>2, <3>3
  <2>4. \A k \in 1 .. n : w[Len(w) + 1 - k] \in Range(q)
    <3>1. TAKE k \in 1 .. n
    <3>2. n + 1 - k \in 1 .. n /\ Len(w) - n + (n + 1 - k) = Len(w) + 1 - k
      BY <2>2
    <3>3. w[Len(w) - n + (n + 1 - k)] \in Range(q)
      BY <2>1, <3>2
    <3> QED
      BY <3>2, <3>3
  <2> QED
    BY <1>10, <2>1, <2>3, <2>4
<1>12. IsInjective(Indices(s))
  <2>1. /\ DOMAIN Indices(s) = 1 .. n
        /\ \A k \in 1 .. n : Indices(s)[k] = w[Len(w) + 1 - k]
    BY <1>5, <1>6 DEF Indices
  <2>2. ASSUME NEW j \in 1 .. n, NEW k \in 1 .. n,
               w[Len(w) + 1 - j] = w[Len(w) + 1 - k]
        PROVE  j = k
    <3>1. Len(w) + 1 - j = Len(w) + 1 - k
      BY <1>1, <1>4, <2>2 DEF IsInjective
    <3> QED
      BY <1>1, <1>4, <3>1
  <2> QED
    BY <2>1, <2>2 DEF IsInjective
<1>13. AllGen(s, generation)
  BY <1>5, <1>6 DEF AllGen
<1> QED
  BY <1>6, <1>7, <1>8, <1>11, <1>12, <1>13 DEF s, w, p

\* The first handle of a queue and the rest of it.
LEMMA HeadFacts ==
  ASSUME NEW s \in Seq(Entity), s # <<>>, IsInjective(Indices(s))
  PROVE  /\ Head(s) \in Entity /\ Tail(s) \in Seq(Entity)
         /\ EntityIndices(s) = {Head(s).index} \cup EntityIndices(Tail(s))
         /\ Head(s).index \notin EntityIndices(Tail(s))
         /\ IsInjective(Indices(Tail(s)))
         /\ \A g : AllGen(s, g) => /\ g[Head(s).index] = Head(s).gen
                                   /\ AllGen(Tail(s), g)
<1> DEFINE h == Head(s)
           t == Tail(s)
<1>1. /\ Len(s) \in Nat /\ Len(s) >= 1
      /\ h = s[1] /\ h \in Entity /\ t \in Seq(Entity) /\ Len(t) = Len(s) - 1
      /\ \A k \in 1 .. Len(s) - 1 : t[k] = s[k + 1]
  BY HeadTailProperties, LenProperties, EmptySeq, ElementOfSeq
<1>2. /\ DOMAIN Indices(s) = 1 .. Len(s) /\ DOMAIN Indices(t) = 1 .. Len(s) - 1
      /\ \A k \in 1 .. Len(s) : Indices(s)[k] = s[k].index
      /\ \A k \in 1 .. Len(s) - 1 : Indices(t)[k] = t[k].index
  BY <1>1 DEF Indices
<1> HIDE DEF h, t
<1>3. /\ \A k \in 1 .. Len(s) - 1 : k + 1 \in 1 .. Len(s) /\ k + 1 # 1
      /\ \A k \in 1 .. Len(s) : k # 1 => k - 1 \in 1 .. Len(s) - 1
                                         /\ (k - 1) + 1 = k
      /\ 1 \in 1 .. Len(s)
  BY <1>1
<1>4. \A j, k \in 1 .. Len(s) : s[j].index = s[k].index => j = k
  BY <1>2 DEF IsInjective
<1>5. /\ EntityIndices(t) = {t[k].index : k \in 1 .. Len(s) - 1}
      /\ EntityIndices(s) = {s[k].index : k \in 1 .. Len(s)}
  BY <1>1 DEF EntityIndices
<1>6. EntityIndices(s) = {h.index} \cup EntityIndices(t)
  <2>1. ASSUME NEW k \in 1 .. Len(s) PROVE s[k].index \in {h.index} \cup EntityIndices(t)
    <3>1. CASE k = 1
      BY <1>1, <3>1
    <3>2. CASE k # 1
      <4>1. k - 1 \in 1 .. Len(s) - 1 /\ (k - 1) + 1 = k
        BY <1>3, <3>2
      <4>2. t[k - 1] = s[k]
        BY <1>1, <4>1
      <4> QED
        BY <1>5, <4>1, <4>2
    <3> QED
      BY <3>1, <3>2
  <2>2. h.index \in EntityIndices(s)
    BY <1>1, <1>3, <1>5
  <2>3. EntityIndices(t) \subseteq EntityIndices(s)
    <3>1. ASSUME NEW k \in 1 .. Len(s) - 1 PROVE t[k].index \in EntityIndices(s)
      <4>1. t[k] = s[k + 1] /\ k + 1 \in 1 .. Len(s)
        BY ONLY <1>1, <1>3, <3>1
      <4> QED
        BY ONLY <1>5, <4>1
    <3> QED
      BY ONLY <1>5, <3>1
  <2> QED
    BY <1>5, <2>1, <2>2, <2>3
<1>7. h.index \notin EntityIndices(t)
  <2> SUFFICES ASSUME NEW k \in 1 .. Len(s) - 1, h.index = t[k].index
               PROVE  FALSE
    BY <1>5
  <2>1. s[1].index = s[k + 1].index
    BY ONLY <1>1, h.index = t[k].index, k \in 1 .. Len(s) - 1
  <2> QED
    BY ONLY <1>3, <1>4, <2>1, k \in 1 .. Len(s) - 1
<1>8. IsInjective(Indices(t))
  <2>1. ASSUME NEW j \in 1 .. Len(s) - 1, NEW k \in 1 .. Len(s) - 1,
               t[j].index = t[k].index
        PROVE  j = k
    <3>1. s[j + 1].index = s[k + 1].index
      BY ONLY <1>1, <2>1
    <3>2. j + 1 = k + 1
      BY ONLY <1>3, <1>4, <2>1, <3>1
    <3> QED
      BY <1>1, <3>2
  <2> QED
    BY <1>2, <2>1 DEF IsInjective
<1>9. ASSUME NEW g, AllGen(s, g) PROVE g[h.index] = h.gen /\ AllGen(t, g)
  BY <1>1, <1>3, <1>9 DEF AllGen
<1> QED
  BY <1>1, <1>6, <1>7, <1>8, <1>9 DEF h, t

\* A change of one record's generation leaves the other handles current.
LEMMA AllGenElsewhere ==
  ASSUME NEW s \in Seq(Entity), NEW g \in [Index -> Gen], NEW i \in Index,
         NEW x, i \notin EntityIndices(s), AllGen(s, g)
  PROVE  AllGen(s, [g EXCEPT ![i] = x])
<1>1. ASSUME NEW k \in 1 .. Len(s)
      PROVE  s[k].index \in Index /\ s[k].index # i
  BY ElementOfSeq, EntityFields DEF EntityIndices
<1> QED
  BY <1>1 DEF AllGen

LEMMA LeasedInIndex ==
  ASSUME TypeOK
  PROVE  Leased(lease) \subseteq Index
<1>1. lease.free \in Seq(Entity) /\ lease.cursor \in Int /\ lease.cursor <= Len(lease.free)
  BY DEF TypeOK
<1>2. ASSUME NEW k \in 1 .. lease.cursor PROVE lease.free[k].index \in Index
  <2>1. k \in 1 .. Len(lease.free)
    BY <1>1, LenProperties
  <2> QED
    BY <1>1, <2>1, ElementOfSeq, EntityFields
<1> QED
  BY <1>2 DEF Leased

LEMMA RangeInIndex ==
  \A s \in Seq(Index) : Range(s) \subseteq Index
<1>1. ASSUME NEW s \in Seq(Index), NEW x \in Range(s) PROVE x \in Index
  <2>1. PICK k \in 1 .. Len(s) : s[k] = x
    BY LenProperties DEF Range
  <2> QED
    BY <2>1, ElementOfSeq
<1> QED
  BY <1>1

\* What flush leases: the free list, the drained abandon queue and the part of
\* the old lease nobody consumed.
LEMMA LeasableFacts ==
  ASSUME IInv
  PROVE  LET D == IF pending THEN DroppedSet ELSE {}
         IN  /\ Leasable \in Seq(Index) /\ IsInjective(Leasable)
             /\ Range(Leasable) = FreeSet \cup D \cup LeaseSet
             /\ WithDropped \in Seq(Index)
             /\ Range(WithDropped) = FreeSet \cup D
<1> DEFINE w == lease.free
           c == lease.cursor
           u == Unconsumed
           is == [k \in 1 .. u |-> w[k].index]
           wd == WithDropped
<1>1. /\ freeList \in Seq(Index) /\ dropped \in Seq(Index)
      /\ IsInjective(freeList) /\ IsInjective(dropped)
      /\ w \in Seq(Entity) /\ c \in Int /\ c <= Len(w) /\ Len(w) \in Nat
      /\ pending \in BOOLEAN
      /\ \A j, k \in 1 .. c : w[j].index = w[k].index => j = k
  <2>1. /\ freeList \in Seq(Index) /\ dropped \in Seq(Index)
        /\ w \in Seq(Entity) /\ c \in Int /\ c <= Len(w)
        /\ pending \in BOOLEAN
    BY DEF IInv, TypeOK
  <2> QED
    BY <2>1, LenProperties DEF IInv, Distinct, LeaseDistinct
<1>2. u \in Nat /\ u <= Len(w) /\ 1 .. u = 1 .. c
  BY <1>1 DEF Unconsumed, Reuse
<1>3. LeaseSet = {w[k].index : k \in 1 .. c}
  BY DEF LeaseSet, Leased
<1>4. Leasable = wd \o is
  BY DEF Leasable
<1>5. PICK owner \in [Index -> Kinds], of \in [Index -> Holder] : Owned(owner, of)
  BY DEF IInv, OneOwner
<1>6. FreeSet \cap DroppedSet = {} /\ FreeSet \cap LeaseSet = {}
      /\ DroppedSet \cap LeaseSet = {}
  <2>1. FreeSet \subseteq Index /\ DroppedSet \subseteq Index
    BY <1>1, RangeInIndex DEF FreeSet, DroppedSet
  <2> QED
    BY <1>5, <2>1 DEF Owned
<1>7. /\ wd \in Seq(Index) /\ IsInjective(wd)
      /\ Range(wd) = FreeSet \cup (IF pending THEN DroppedSet ELSE {})
  <2>1. CASE pending
    <3>1. wd = freeList \o dropped
      BY <2>1 DEF WithDropped
    <3> QED
      BY <1>1, <1>6, <2>1, <3>1, ConcatFacts DEF FreeSet, DroppedSet
  <2>2. CASE ~pending
    BY <1>1, <2>2 DEF WithDropped, FreeSet
  <2> QED
    BY <2>1, <2>2
<1> HIDE DEF w, c, u, wd
<1>8. \A k \in 1 .. u : w[k].index \in Index
  <2>1. \A k \in 1 .. u : k \in 1 .. Len(w)
    BY <1>1, <1>2
  <2> QED
    BY <1>1, <2>1, ElementOfSeq, EntityFields
<1>9. /\ is \in Seq(Index) /\ DOMAIN is = 1 .. u
      /\ \A k \in 1 .. u : is[k] = w[k].index
  <2>1. is \in Seq(Index)
    BY <1>2, <1>8, IsASeq
  <2> QED
    BY <2>1
<1> HIDE DEF is
<1>10. Range(is) = LeaseSet /\ IsInjective(is)
  <2>1. Range(is) = {w[k].index : k \in 1 .. u}
    BY <1>9 DEF Range
  <2>2. ASSUME NEW j \in 1 .. u, NEW k \in 1 .. u, is[j] = is[k] PROVE j = k
    BY <1>1, <1>2, <1>9, <2>2
  <2>3. IsInjective(is)
    BY <1>9, <2>2 DEF IsInjective
  <2> QED
    BY <1>2, <1>3, <2>1, <2>3
<1>11. /\ wd \o is \in Seq(Index)
       /\ Range(wd \o is) = Range(wd) \cup Range(is)
       /\ IsInjective(wd \o is)
  <2>1. Range(wd) \cap Range(is) = {}
    BY <1>6, <1>7, <1>10
  <2> QED
    BY <1>7, <1>9, <1>10, <2>1, ConcatFacts
<1> QED
  BY <1>4, <1>7, <1>10, <1>11 DEF wd

\* The lease made of a list of freed indices: it serves each of them once, with
\* its record's generation.
LEMMA LeaseOfFacts ==
  ASSUME NEW list \in Seq(Index), IsInjective(list),
         generation \in [Index -> Gen]
  PROVE  LET l == LeaseOf(list)
         IN  /\ l.free \in Seq(Entity) /\ l.cursor \in Int
             /\ l = [free |-> l.free, cursor |-> l.cursor]
             /\ l.cursor <= Len(l.free)
             /\ Leased(l) = Range(list)
             /\ LeaseDistinct(l) /\ LeaseGen(l, generation)
<1> DEFINE l == LeaseOf(list)
           n == Len(list)
           w == [k \in 1 .. n |-> Record(list[k])]
<1>1. /\ n \in Nat /\ DOMAIN list = 1 .. n
      /\ \A k \in 1 .. n : list[k] \in Index
  BY LenProperties, ElementOfSeq
<1>2. \A i \in Index : /\ Record(i) \in Entity
                       /\ Record(i).index = i /\ Record(i).gen = generation[i]
  BY EntityFields DEF Record
<1>3. l = [free |-> w, cursor |-> n] /\ l.free = w /\ l.cursor = n
  BY DEF LeaseOf, Record
<1> HIDE DEF l
<1>4. w \in Seq(Entity) /\ Len(w) = n
  <2>1. \A k \in 1 .. n : Record(list[k]) \in Entity
    BY <1>1, <1>2
  <2>2. w \in Seq(Entity) /\ DOMAIN w = 1 .. n
    BY <1>1, <2>1, IsASeq
  <2> QED
    BY <1>1, <2>2, LenProperties
<1>5. \A k \in 1 .. n : /\ w[k].index = list[k]
                        /\ w[k].gen = generation[list[k]]
  BY <1>1, <1>2
<1> HIDE DEF w, n
<1>6. Leased(l) = Range(list)
  BY <1>1, <1>3, <1>5 DEF Leased, Range
<1>7. LeaseDistinct(l)
  BY <1>1, <1>3, <1>5 DEF LeaseDistinct, IsInjective
<1>8. LeaseGen(l, generation)
  BY <1>1, <1>3, <1>5 DEF LeaseGen
<1> QED
  BY <1>1, <1>3, <1>4, <1>6, <1>7, <1>8 DEF l

-----------------------------------------------------------------------------
(* The actions. *)

LEMMA AllGenConcat ==
  ASSUME NEW s \in Seq(Entity), NEW t \in Seq(Entity), NEW g,
         AllGen(s, g), AllGen(t, g)
  PROVE  AllGen(s \o t, g)
<1>1. /\ Len(s) \in Nat /\ Len(t) \in Nat
      /\ Len(s \o t) = Len(s) + Len(t)
      /\ \A i \in 1 .. Len(s) + Len(t) :
           (s \o t)[i] = IF i <= Len(s) THEN s[i] ELSE t[i - Len(s)]
  BY ConcatProperties, LenProperties
<1>2. SUFFICES ASSUME NEW k \in 1 .. Len(s) + Len(t)
               PROVE  g[(s \o t)[k].index] = (s \o t)[k].gen
  BY <1>1 DEF AllGen
<1>3. CASE k <= Len(s)
  BY <1>1, <1>3 DEF AllGen
<1>4. CASE k > Len(s)
  <2>1. k - Len(s) \in 1 .. Len(t) /\ ~ (k <= Len(s))
    BY <1>1, <1>4
  <2>2. (s \o t)[k] = t[k - Len(s)]
    BY ONLY <1>1, <2>1, k \in 1 .. Len(s) + Len(t)
  <2>3. g[t[k - Len(s)].index] = t[k - Len(s)].gen
    BY ONLY <2>1, AllGen(t, g) DEF AllGen
  <2> QED
    BY ONLY <2>2, <2>3
<1> QED
  BY <1>1, <1>3, <1>4

LEMMA ReserveFromBlockStep ==
  ASSUME IInv, NEW b \in Buffers, NEW n \in 1 .. MaxBatch,
         ReserveFromBlock(b, n)
  PROVE  IInv'
<1> DEFINE p == SubSeq(tail[b], 1, n)
           q == SubSeq(tail[b], n + 1, Len(tail[b]))
<1>1. /\ tail[b] \in Seq(Entity) /\ queue[b] \in Seq(Entity)
      /\ n \in 0 .. Len(tail[b])
      /\ tail \in [Buffers -> Seq(Entity)] /\ queue \in [Buffers -> Seq(Entity)]
  <2>1. tail[b] \in Seq(Entity) /\ queue[b] \in Seq(Entity)
    BY DEF IInv, TypeOK
  <2>2. n \in Nat /\ n <= Len(tail[b]) /\ Len(tail[b]) \in Nat
    BY <2>1, LenProperties, ConstantsAssumption
       DEF ReserveFromBlock, ConstantsAssumption
  <2>3. n \in 0 .. Len(tail[b])
    BY ONLY <2>2
  <2>4. tail \in [Buffers -> Seq(Entity)] /\ queue \in [Buffers -> Seq(Entity)]
    BY DEF IInv, TypeOK
  <2> QED
    BY ONLY <2>1, <2>3, <2>4
<1>2. /\ p \in Seq(Entity) /\ q \in Seq(Entity)
      /\ EntityIndices(tail[b]) = EntityIndices(p) \cup EntityIndices(q)
      /\ EntityIndices(p) \cap EntityIndices(q) = {}
      /\ IsInjective(Indices(p)) /\ IsInjective(Indices(q))
  BY <1>1, EntitySplit DEF IInv, Distinct
<1>3. /\ queue' = [queue EXCEPT ![b] = @ \o p]
      /\ tail' = [tail EXCEPT ![b] = q]
      /\ UNCHANGED <<highWater, recordVars, poolVars, dropVars, need, binding,
                     applying, mainVars>>
  BY DEF ReserveFromBlock
<1> HIDE DEF p, q
<1>4. PICK owner \in [Index -> Kinds], of \in [Index -> Holder] : Owned(owner, of)
  BY DEF IInv, OneOwner
<1>5. EntityIndices(queue[b]) \cap EntityIndices(p) = {}
  <2>1. EntityIndices(queue[b]) \subseteq Index
    BY <1>1, IndicesFacts
  <2> QED
    BY <1>2, <1>4, <2>1 DEF Owned, QueueSet, TailSet
<1>6. /\ queue[b] \o p \in Seq(Entity)
      /\ EntityIndices(queue[b] \o p) = EntityIndices(queue[b]) \cup EntityIndices(p)
      /\ IsInjective(Indices(queue[b] \o p))
  BY <1>1, <1>2, <1>5, EntityConcat DEF IInv, Distinct
<1>7. /\ FreeSet' = FreeSet /\ LeaseSet' = LeaseSet /\ DroppedSet' = DroppedSet
      /\ MineSet' = MineSet /\ RetiredSet' = RetiredSet
      /\ located' = located /\ highWater' = highWater
  BY <1>3 DEF FreeSet, LeaseSet, DroppedSet, MineSet, RetiredSet, recordVars,
     poolVars, dropVars, mainVars
<1>8. /\ \A c \in Buffers \ {b} : QueueSet(c)' = QueueSet(c) /\ TailSet(c)' = TailSet(c)
      /\ QueueSet(b)' = QueueSet(b) \cup EntityIndices(p)
      /\ TailSet(b)' = EntityIndices(q)
      /\ TailSet(b) = EntityIndices(p) \cup EntityIndices(q)
  BY <1>1, <1>2, <1>3, <1>6 DEF QueueSet, TailSet
<1>9. TypeOK'
  BY <1>1, <1>2, <1>3, <1>6 DEF IInv, TypeOK, recordVars,
     poolVars, dropVars, mainVars
<1>10. Shape'
  BY <1>1, <1>3 DEF IInv, Shape, ReserveFromBlock, mainVars
<1>11. Distinct'
  BY <1>1, <1>2, <1>3, <1>6 DEF IInv, Distinct, recordVars,
     poolVars, dropVars, mainVars
<1>12. OneOwner'
  <2>1. PICK owner2 \in [Index -> Kinds], of2 \in [Index -> Holder] :
          Moved(owner, of, owner2, of2, EntityIndices(p), "queue", b)
    BY Move DEF Kinds, Holder
  <2>2. Owned(owner2, of2)'
    BY <1>2, <1>4, <1>7, <1>8, <2>1 DEF Owned, Moved
  <2> QED
    BY <2>2 DEF OneOwner
<1>13. GenCurrent'
  <2>1. AllGen(p, generation) /\ AllGen(q, generation)
    BY <1>1, SplitFacts DEF IInv, GenCurrent, AllGen, p, q
  <2>2. AllGen(queue[b] \o p, generation)
    BY <1>1, <1>2, <2>1, AllGenConcat DEF IInv, GenCurrent
  <2> QED
    BY <1>1, <1>3, <2>1, <2>2 DEF IInv, GenCurrent, recordVars,
     poolVars, dropVars, mainVars
<1> QED
  BY <1>9, <1>10, <1>11, <1>12, <1>13 DEF IInv

LEMMA ReserveFromLeaseStep ==
  ASSUME IInv, NEW b \in Buffers, NEW n \in 1 .. MaxBatch,
         ReserveFromLease(b, n)
  PROVE  IInv'
<1> DEFINE s == LeaseSlots(n)
           l == Decremented(n)
<1>1. /\ queue[b] \in Seq(Entity) /\ queue \in [Buffers -> Seq(Entity)]
      /\ need \in [Buffers -> Nat] /\ n \in Nat /\ n - Reuse(n) \in Nat
  <2>1. n \in Nat
    BY IndexArithmetic
  <2>2. TypeOK
    BY DEF IInv
  <2>3. Reuse(n) \in 0 .. n
    BY <2>1, <2>2, ReuseRange
  <2>4. n - Reuse(n) \in Nat
    BY <2>1, <2>3
  <2> QED
    BY <2>1, <2>2, <2>4 DEF TypeOK
<1>2. /\ s \in Seq(Entity)
      /\ IsInjective(Indices(s))
      /\ Leased(lease) = Leased(l) \cup EntityIndices(s)
      /\ Leased(l) \cap EntityIndices(s) = {}
      /\ LeaseDistinct(l)
      /\ l.free \in Seq(Entity) /\ l.cursor \in Int
      /\ l = [free |-> l.free, cursor |-> l.cursor]
      /\ l.cursor <= Len(l.free)
      /\ AllGen(s, generation) /\ LeaseGen(l, generation)
  BY <1>1, LeaseFacts DEF IInv, Distinct, GenCurrent
<1>3. /\ queue' = [queue EXCEPT ![b] = @ \o s]
      /\ need' = [need EXCEPT ![b] = n - Reuse(n)]
      /\ lease' = l
      /\ UNCHANGED <<highWater, recordVars, freeList, dropVars, binding, tail,
                     applying, mainVars>>
  BY DEF ReserveFromLease, TakeFromLease, Decremented
<1> HIDE DEF s, l
<1>4. PICK owner \in [Index -> Kinds], of \in [Index -> Holder] : Owned(owner, of)
  BY DEF IInv, OneOwner
<1>5. EntityIndices(queue[b]) \cap EntityIndices(s) = {}
  <2>1. EntityIndices(queue[b]) \subseteq Index
    BY <1>1, IndicesFacts
  <2> QED
    BY <1>2, <1>4, <2>1 DEF Owned, QueueSet, LeaseSet
<1>6. /\ queue[b] \o s \in Seq(Entity)
      /\ EntityIndices(queue[b] \o s) = EntityIndices(queue[b]) \cup EntityIndices(s)
      /\ IsInjective(Indices(queue[b] \o s))
  BY <1>1, <1>2, <1>5, EntityConcat DEF IInv, Distinct
<1>7. /\ FreeSet' = FreeSet /\ DroppedSet' = DroppedSet
      /\ MineSet' = MineSet /\ RetiredSet' = RetiredSet
      /\ located' = located /\ highWater' = highWater
      /\ LeaseSet' = Leased(l) /\ LeaseSet = Leased(l) \cup EntityIndices(s)
  BY <1>2, <1>3 DEF FreeSet, LeaseSet, DroppedSet, MineSet, RetiredSet,
     recordVars, dropVars, mainVars
<1>8. /\ \A c \in Buffers : TailSet(c)' = TailSet(c)
      /\ \A c \in Buffers \ {b} : QueueSet(c)' = QueueSet(c)
      /\ QueueSet(b)' = QueueSet(b) \cup EntityIndices(s)
  BY <1>1, <1>3, <1>6 DEF QueueSet, TailSet
<1>9. TypeOK'
  BY <1>1, <1>2, <1>3, <1>6 DEF IInv, TypeOK, recordVars, dropVars, mainVars
<1>10. Shape'
  BY <1>3 DEF IInv, Shape, mainVars
<1>11. Distinct'
  BY <1>1, <1>2, <1>3, <1>6 DEF IInv, Distinct, dropVars, mainVars
<1>12. OneOwner'
  <2>1. PICK owner2 \in [Index -> Kinds], of2 \in [Index -> Holder] :
          Moved(owner, of, owner2, of2, EntityIndices(s), "queue", b)
    BY Move DEF Kinds, Holder
  <2>2. Owned(owner2, of2)'
    BY <1>2, <1>4, <1>7, <1>8, <2>1 DEF Owned, Moved
  <2> QED
    BY <2>2 DEF OneOwner
<1>13. GenCurrent'
  <2>1. AllGen(queue[b] \o s, generation)
    BY <1>1, <1>2, AllGenConcat DEF IInv, GenCurrent
  <2> QED
    BY <1>1, <1>2, <1>3, <2>1 DEF IInv, GenCurrent, recordVars, mainVars
<1> QED
  BY <1>9, <1>10, <1>11, <1>12, <1>13 DEF IInv

LEMMA ReserveFreshStep ==
  ASSUME IInv, NEW b \in Buffers, ReserveFresh(b)
  PROVE  IInv'
<1> DEFINE n == need[b]
           f == FreshIds(n)
<1>1. /\ queue[b] \in Seq(Entity) /\ queue \in [Buffers -> Seq(Entity)]
      /\ need \in [Buffers -> Nat] /\ n \in Nat /\ highWater + n <= MaxIndex
      /\ highWater \in Nat
      /\ \A i \in Index : i >= highWater => generation[i] = 0
  <2>1. highWater \in 0 .. MaxIndex
    BY DEF IInv, TypeOK
  <2>2. highWater \in Nat
    BY <2>1, IndexArithmetic
  <2> QED
    BY <2>2 DEF IInv, TypeOK, GenCurrent, ReserveFresh
<1>2. /\ f \in Seq(Entity)
      /\ EntityIndices(f) = highWater .. highWater + n - 1
      /\ highWater + n \in 0 .. MaxIndex
      /\ IsInjective(Indices(f)) /\ AllGen(f, generation)
  BY <1>1, FreshFacts DEF IInv
<1>3. /\ queue' = [queue EXCEPT ![b] = @ \o f]
      /\ highWater' = highWater + n
      /\ need' = [need EXCEPT ![b] = 0]
      /\ UNCHANGED <<recordVars, poolVars, dropVars, binding, tail, applying,
                     mainVars>>
  BY DEF ReserveFresh
<1> HIDE DEF f, n
<1>4. PICK owner \in [Index -> Kinds], of \in [Index -> Holder] : Owned(owner, of)
  BY DEF IInv, OneOwner
<1>5. /\ \A i \in Index : i \in EntityIndices(f) => i >= highWater
      /\ \A i \in Index : i >= highWater + n <=>
                            i >= highWater /\ i \notin EntityIndices(f)
  BY <1>1, <1>2, IndexArithmetic
<1>6. EntityIndices(queue[b]) \cap EntityIndices(f) = {}
  <2>1. EntityIndices(queue[b]) \subseteq Index
    BY <1>1, IndicesFacts
  <2> QED
    BY <1>4, <1>5, <2>1 DEF Owned, QueueSet
<1>7. /\ queue[b] \o f \in Seq(Entity)
      /\ EntityIndices(queue[b] \o f) = EntityIndices(queue[b]) \cup EntityIndices(f)
      /\ IsInjective(Indices(queue[b] \o f))
  BY <1>1, <1>2, <1>6, EntityConcat DEF IInv, Distinct
<1>8. /\ FreeSet' = FreeSet /\ LeaseSet' = LeaseSet /\ DroppedSet' = DroppedSet
      /\ MineSet' = MineSet /\ RetiredSet' = RetiredSet
      /\ located' = located
      /\ \A i \in Index : i >= highWater' <=>
                            i >= highWater /\ i \notin EntityIndices(f)
  BY <1>3, <1>5 DEF FreeSet, LeaseSet, DroppedSet, MineSet, RetiredSet,
     recordVars, poolVars, dropVars, mainVars
<1>9. /\ \A c \in Buffers : TailSet(c)' = TailSet(c)
      /\ \A c \in Buffers \ {b} : QueueSet(c)' = QueueSet(c)
      /\ QueueSet(b)' = QueueSet(b) \cup EntityIndices(f)
  BY <1>1, <1>3, <1>7 DEF QueueSet, TailSet
<1>10. TypeOK'
  BY <1>1, <1>2, <1>3, <1>7 DEF IInv, TypeOK, recordVars, poolVars, dropVars,
     mainVars
<1>11. Shape'
  BY <1>3 DEF IInv, Shape, mainVars
<1>12. Distinct'
  BY <1>1, <1>2, <1>3, <1>7 DEF IInv, Distinct, poolVars, dropVars, mainVars
<1>13. OneOwner'
  <2>1. PICK owner2 \in [Index -> Kinds], of2 \in [Index -> Holder] :
          Moved(owner, of, owner2, of2, EntityIndices(f), "queue", b)
    BY Move DEF Kinds, Holder
  <2>2. Owned(owner2, of2)'
    BY <1>4, <1>5, <1>8, <1>9, <2>1 DEF Owned, Moved
  <2> QED
    BY <2>2 DEF OneOwner
<1>14. GenCurrent'
  <2>1. AllGen(queue[b] \o f, generation)
    BY <1>1, <1>2, AllGenConcat DEF IInv, GenCurrent
  <2>2. \A i \in Index : i >= highWater' => generation[i] = 0
    BY <1>1, <1>8
  <2> QED
    BY <1>1, <1>2, <1>3, <2>1, <2>2
       DEF IInv, GenCurrent, recordVars, poolVars, mainVars
<1> QED
  BY <1>10, <1>11, <1>12, <1>13, <1>14 DEF IInv

LEMMA AbandonStep ==
  ASSUME IInv, NEW b \in Buffers, Abandon(b)
  PROVE  IInv'
<1> DEFINE is == Indices(queue[b])
<1>1. /\ queue[b] \in Seq(Entity) /\ queue \in [Buffers -> Seq(Entity)]
      /\ dropped \in Seq(Index)
  BY DEF IInv, TypeOK
<1>2. /\ is \in Seq(Index) /\ Range(is) = EntityIndices(queue[b])
      /\ Range(is) \subseteq Index /\ IsInjective(is)
  BY <1>1, IndicesFacts DEF IInv, Distinct
<1>3. /\ dropped' = dropped \o is
      /\ queue' = [queue EXCEPT ![b] = <<>>]
      /\ publisher' = b
      /\ UNCHANGED <<highWater, recordVars, poolVars, pending, need, binding,
                     tail, applying, mainVars>>
  BY DEF Abandon
<1> HIDE DEF is
<1>4. PICK owner \in [Index -> Kinds], of \in [Index -> Holder] : Owned(owner, of)
  BY DEF IInv, OneOwner
<1>5. Range(dropped) \cap Range(is) = {}
  BY <1>2, <1>4 DEF Owned, QueueSet, DroppedSet
<1>6. /\ dropped \o is \in Seq(Index)
      /\ Range(dropped \o is) = Range(dropped) \cup Range(is)
      /\ IsInjective(dropped \o is)
  BY <1>1, <1>2, <1>5, ConcatFacts DEF IInv, Distinct
<1>7. /\ <<>> \in Seq(Entity) /\ EntityIndices(<<>>) = {}
      /\ Indices(<<>>) = <<>> /\ IsInjective(Indices(<<>>))
      /\ AllGen(<<>>, generation)
  BY NoEntities
<1>8. /\ FreeSet' = FreeSet /\ LeaseSet' = LeaseSet
      /\ DroppedSet' = DroppedSet \cup Range(is)
      /\ MineSet' = MineSet /\ RetiredSet' = RetiredSet
      /\ located' = located /\ highWater' = highWater
  BY <1>3, <1>6 DEF FreeSet, LeaseSet, DroppedSet, MineSet, RetiredSet,
     recordVars, poolVars, mainVars
<1>9. /\ \A c \in Buffers : TailSet(c)' = TailSet(c)
      /\ \A c \in Buffers \ {b} : QueueSet(c)' = QueueSet(c)
      /\ QueueSet(b)' = {} /\ QueueSet(b) = Range(is)
  BY <1>1, <1>2, <1>3, <1>7 DEF QueueSet, TailSet
<1>10. TypeOK'
  BY <1>1, <1>3, <1>6, <1>7 DEF IInv, TypeOK, recordVars, poolVars, mainVars
<1>11. Shape'
  BY <1>3 DEF IInv, Shape, mainVars
<1>12. Distinct'
  BY <1>1, <1>3, <1>6, <1>7 DEF IInv, Distinct, poolVars, mainVars
<1>13. OneOwner'
  <2>1. PICK owner2 \in [Index -> Kinds], of2 \in [Index -> Holder] :
          Moved(owner, of, owner2, of2, Range(is), "dropped", NoBuffer)
    BY Move DEF Kinds, Holder
  <2>2. Owned(owner2, of2)'
    BY <1>4, <1>8, <1>9, <2>1 DEF Owned, Moved
  <2> QED
    BY <2>2 DEF OneOwner
<1>14. GenCurrent'
  BY <1>1, <1>3, <1>7 DEF IInv, GenCurrent, recordVars, poolVars, mainVars
<1> QED
  BY <1>10, <1>11, <1>12, <1>13, <1>14 DEF IInv

LEMMA PublishAbandonedStep ==
  ASSUME IInv, NEW b \in Buffers, PublishAbandoned(b)
  PROVE  IInv'
<1>1. /\ pending' = TRUE /\ publisher' = NoBuffer
      /\ UNCHANGED <<highWater, recordVars, poolVars, dropped, bufferVars,
                     applying, mainVars>>
  BY DEF PublishAbandoned
<1>2. TypeOK'
  BY <1>1 DEF IInv, TypeOK, recordVars, poolVars, bufferVars, mainVars
<1>3. (Shape /\ GenCurrent /\ Distinct)'
  BY <1>1 DEF IInv, Shape, GenCurrent, Distinct, recordVars, poolVars,
     bufferVars, mainVars
<1>4. OneOwner'
  BY <1>1 DEF IInv, OneOwner, Owned, FreeSet, LeaseSet, DroppedSet, MineSet,
     RetiredSet, QueueSet, TailSet, recordVars, poolVars, bufferVars, mainVars
<1> QED
  BY <1>2, <1>3, <1>4 DEF IInv

LEMMA EndApplyStep ==
  ASSUME IInv, NEW b \in Buffers, EndApply(b)
  PROVE  IInv'
<1>1. /\ applying' = NoBuffer
      /\ binding' = [binding EXCEPT ![b] = IF @ = "block" THEN "applied" ELSE @]
      /\ UNCHANGED <<highWater, recordVars, poolVars, dropVars, queue, need,
                     tail, mainVars>>
  BY DEF EndApply
<1>2. TypeOK'
  BY <1>1 DEF IInv, TypeOK, recordVars, poolVars, dropVars, mainVars
<1>3. (Shape /\ GenCurrent /\ Distinct)'
  <2>1. binding \in [Buffers -> {"shared", "block", "applied"}]
    BY DEF IInv, TypeOK
  <2> QED
    BY <1>1, <2>1 DEF IInv, Shape, GenCurrent, Distinct, recordVars, poolVars,
       dropVars, mainVars
<1>4. OneOwner'
  BY <1>1 DEF IInv, OneOwner, Owned, FreeSet, LeaseSet, DroppedSet, MineSet,
     RetiredSet, QueueSet, TailSet, recordVars, poolVars, dropVars, mainVars
<1> QED
  BY <1>2, <1>3, <1>4 DEF IInv

LEMMA SeedBlockStep ==
  ASSUME IInv, NEW b \in Buffers, NEW n \in 1 .. MaxBatch, SeedBlock(b, n)
  PROVE  IInv'
<1> DEFINE s == LeaseSlots(n)
           l == Decremented(n)
           m == n - Reuse(n)
           f == FreshIds(m)
<1>1. /\ TypeOK /\ n \in Nat /\ m \in Nat /\ highWater \in Nat
      /\ highWater + m <= MaxIndex /\ highWater + n - Reuse(n) = highWater + m
      /\ tail \in [Buffers -> Seq(Entity)] /\ tail[b] = <<>>
      /\ binding \in [Buffers -> {"shared", "block", "applied"}]
      /\ \A i \in Index : i >= highWater => generation[i] = 0
  <2>1. TypeOK /\ n \in Nat /\ highWater \in 0 .. MaxIndex
    <3>1. TypeOK
      BY DEF IInv
    <3>2. highWater \in 0 .. MaxIndex
      BY <3>1 DEF TypeOK
    <3> QED
      BY <3>1, <3>2, IndexArithmetic
  <2>2. Reuse(n) \in 0 .. n
    BY <2>1, ReuseRange
  <2>3. /\ m \in Nat /\ highWater \in Nat
        /\ highWater + n - Reuse(n) = highWater + m
    BY <2>1, <2>2, IndexArithmetic
  <2>4. highWater + m <= MaxIndex
    BY DEF SeedBlock, Room
  <2> QED
    BY <2>1, <2>3, <2>4 DEF IInv, TypeOK, GenCurrent, Shape, SeedBlock
<1>2. /\ s \in Seq(Entity)
      /\ IsInjective(Indices(s))
      /\ Leased(lease) = Leased(l) \cup EntityIndices(s)
      /\ Leased(l) \cap EntityIndices(s) = {}
      /\ Leased(lease) \subseteq Index
      /\ LeaseDistinct(l)
      /\ l.free \in Seq(Entity) /\ l.cursor \in Int
      /\ l = [free |-> l.free, cursor |-> l.cursor]
      /\ l.cursor <= Len(l.free)
      /\ AllGen(s, generation) /\ LeaseGen(l, generation)
  BY <1>1, LeaseFacts DEF IInv, Distinct, GenCurrent
<1>3. /\ f \in Seq(Entity)
      /\ EntityIndices(f) = highWater .. highWater + m - 1
      /\ highWater + m \in 0 .. MaxIndex
      /\ IsInjective(Indices(f)) /\ AllGen(f, generation)
  BY <1>1, FreshFacts
<1>4. /\ tail' = [tail EXCEPT ![b] = s \o f]
      /\ binding' = [binding EXCEPT ![b] = "block"]
      /\ lease' = l
      /\ highWater' = highWater + m
      /\ UNCHANGED <<recordVars, freeList, dropVars, queue, need, applying,
                     mainVars>>
  BY <1>1 DEF SeedBlock, TakeFromLease, Decremented
<1> HIDE DEF s, l, m, f
<1>5. PICK owner \in [Index -> Kinds], of \in [Index -> Holder] : Owned(owner, of)
  BY DEF IInv, OneOwner
<1>6. /\ \A i \in Index : i \in EntityIndices(f) => i >= highWater
      /\ \A i \in Index : i >= highWater + m <=>
                            i >= highWater /\ i \notin EntityIndices(f)
  BY <1>1, <1>3, IndexArithmetic
<1>7. EntityIndices(s) \cap EntityIndices(f) = {}
  BY <1>2, <1>5, <1>6 DEF Owned, LeaseSet
<1>8. /\ s \o f \in Seq(Entity)
      /\ EntityIndices(s \o f) = EntityIndices(s) \cup EntityIndices(f)
      /\ IsInjective(Indices(s \o f))
  BY <1>2, <1>3, <1>7, EntityConcat
<1>9. /\ FreeSet' = FreeSet /\ DroppedSet' = DroppedSet
      /\ MineSet' = MineSet /\ RetiredSet' = RetiredSet
      /\ located' = located
      /\ LeaseSet' = Leased(l) /\ LeaseSet = Leased(l) \cup EntityIndices(s)
      /\ \A i \in Index : i >= highWater' <=>
                            i >= highWater /\ i \notin EntityIndices(f)
  BY <1>2, <1>4, <1>6 DEF FreeSet, LeaseSet, DroppedSet, MineSet, RetiredSet,
     recordVars, dropVars, mainVars
<1>10. /\ \A c \in Buffers : QueueSet(c)' = QueueSet(c)
       /\ \A c \in Buffers \ {b} : TailSet(c)' = TailSet(c)
       /\ TailSet(b)' = EntityIndices(s) \cup EntityIndices(f)
       /\ TailSet(b) = {}
  BY <1>1, <1>4, <1>8, NoEntities DEF QueueSet, TailSet
<1>11. TypeOK'
  BY <1>1, <1>2, <1>3, <1>4, <1>8 DEF TypeOK, recordVars, dropVars, mainVars
<1>12. Shape'
  BY <1>1, <1>4 DEF IInv, Shape, mainVars
<1>13. Distinct'
  BY <1>1, <1>2, <1>4, <1>8 DEF IInv, Distinct, dropVars, mainVars
<1>14. OneOwner'
  <2>1. PICK owner2 \in [Index -> Kinds], of2 \in [Index -> Holder] :
          Moved(owner, of, owner2, of2, EntityIndices(s) \cup EntityIndices(f),
                "tail", b)
    BY Move DEF Kinds, Holder
  <2>2. Owned(owner2, of2)'
    BY <1>2, <1>5, <1>6, <1>9, <1>10, <2>1 DEF Owned, Moved
  <2> QED
    BY <2>2 DEF OneOwner
<1>15. GenCurrent'
  <2>1. AllGen(s \o f, generation)
    BY <1>2, <1>3, AllGenConcat
  <2>2. \A i \in Index : i >= highWater' => generation[i] = 0
    BY <1>1, <1>9
  <2> QED
    BY <1>1, <1>2, <1>4, <2>1, <2>2 DEF IInv, GenCurrent, recordVars, mainVars
<1> QED
  BY <1>11, <1>12, <1>13, <1>14, <1>15 DEF IInv

LEMMA ReclaimBlockTailStep ==
  ASSUME IInv, NEW b \in Buffers, ReclaimBlockTail(b)
  PROVE  IInv'
<1> DEFINE is == Indices(tail[b])
<1>1. /\ tail[b] \in Seq(Entity) /\ tail \in [Buffers -> Seq(Entity)]
      /\ binding \in [Buffers -> {"shared", "block", "applied"}]
      /\ freeList \in Seq(Index)
  BY DEF IInv, TypeOK
<1>2. /\ is \in Seq(Index) /\ Range(is) = EntityIndices(tail[b])
      /\ Range(is) \subseteq Index /\ IsInjective(is)
  BY <1>1, IndicesFacts DEF IInv, Distinct
<1>3. /\ freeList' = freeList \o is
      /\ tail' = [tail EXCEPT ![b] = <<>>]
      /\ binding' = [binding EXCEPT ![b] = "shared"]
      /\ UNCHANGED <<highWater, recordVars, lease, dropVars, queue, need,
                     applying, mainVars>>
  BY DEF ReclaimBlockTail
<1> HIDE DEF is
<1>4. PICK owner \in [Index -> Kinds], of \in [Index -> Holder] : Owned(owner, of)
  BY DEF IInv, OneOwner
<1>5. Range(freeList) \cap Range(is) = {}
  BY <1>2, <1>4 DEF Owned, TailSet, FreeSet
<1>6. /\ freeList \o is \in Seq(Index)
      /\ Range(freeList \o is) = Range(freeList) \cup Range(is)
      /\ IsInjective(freeList \o is)
  BY <1>1, <1>2, <1>5, ConcatFacts DEF IInv, Distinct
<1>7. /\ <<>> \in Seq(Entity) /\ EntityIndices(<<>>) = {}
      /\ IsInjective(Indices(<<>>)) /\ AllGen(<<>>, generation)
  BY NoEntities
<1>8. /\ FreeSet' = FreeSet \cup Range(is) /\ LeaseSet' = LeaseSet
      /\ DroppedSet' = DroppedSet
      /\ MineSet' = MineSet /\ RetiredSet' = RetiredSet
      /\ located' = located /\ highWater' = highWater
  BY <1>3, <1>6 DEF FreeSet, LeaseSet, DroppedSet, MineSet, RetiredSet,
     recordVars, dropVars, mainVars
<1>9. /\ \A c \in Buffers : QueueSet(c)' = QueueSet(c)
      /\ \A c \in Buffers \ {b} : TailSet(c)' = TailSet(c)
      /\ TailSet(b)' = {} /\ TailSet(b) = Range(is)
  BY <1>1, <1>2, <1>3, <1>7 DEF QueueSet, TailSet
<1>10. TypeOK'
  BY <1>1, <1>3, <1>6, <1>7 DEF IInv, TypeOK, recordVars, dropVars, mainVars
<1>11. Shape'
  BY <1>1, <1>3 DEF IInv, Shape, mainVars
<1>12. Distinct'
  BY <1>1, <1>3, <1>6, <1>7 DEF IInv, Distinct, dropVars, mainVars
<1>13. OneOwner'
  <2>1. PICK owner2 \in [Index -> Kinds], of2 \in [Index -> Holder] :
          Moved(owner, of, owner2, of2, Range(is), "free", NoBuffer)
    BY Move DEF Kinds, Holder
  <2>2. Owned(owner2, of2)'
    BY <1>4, <1>8, <1>9, <2>1 DEF Owned, Moved
  <2> QED
    BY <2>2 DEF OneOwner
<1>14. GenCurrent'
  BY <1>1, <1>3, <1>7 DEF IInv, GenCurrent, recordVars, mainVars
<1> QED
  BY <1>10, <1>11, <1>12, <1>13, <1>14 DEF IInv

LEMMA LocateMineStep ==
  ASSUME IInv, LocateMine
  PROVE  IInv'
<1> DEFINE M == EntityIndices(mine)
<1>1. /\ mine \in Seq(Entity) /\ M \subseteq Index /\ live + Len(mine) \in Int
  <2>1. mine \in Seq(Entity) /\ live \in Int
    BY DEF IInv, TypeOK
  <2> QED
    BY <2>1, IndicesFacts, LenProperties
<1>2. /\ located' = located \cup M
      /\ live' = live + Len(mine)
      /\ mine' = <<>>
      /\ UNCHANGED <<highWater, generation, nrecords, poolVars, dropVars,
                     bufferVars, applying, mainPc, mainNeed>>
  BY DEF LocateMine, EntityIndices
<1>3. /\ <<>> \in Seq(Entity) /\ EntityIndices(<<>>) = {}
      /\ IsInjective(Indices(<<>>)) /\ AllGen(<<>>, generation)
  BY NoEntities
<1> HIDE DEF M
<1>4. PICK owner \in [Index -> Kinds], of \in [Index -> Holder] : Owned(owner, of)
  BY DEF IInv, OneOwner
<1>5. /\ FreeSet' = FreeSet /\ LeaseSet' = LeaseSet /\ DroppedSet' = DroppedSet
      /\ MineSet' = {} /\ MineSet = M /\ RetiredSet' = RetiredSet
      /\ located' = located \cup M /\ highWater' = highWater
  BY <1>2, <1>3 DEF FreeSet, LeaseSet, DroppedSet, MineSet, RetiredSet,
     poolVars, dropVars, M
<1>6. \A c \in Buffers : QueueSet(c)' = QueueSet(c) /\ TailSet(c)' = TailSet(c)
  BY <1>2 DEF QueueSet, TailSet, bufferVars
<1>7. TypeOK'
  BY <1>1, <1>2, <1>3 DEF IInv, TypeOK, poolVars, dropVars, bufferVars
<1>8. Shape'
  BY <1>2 DEF IInv, Shape, bufferVars
<1>9. Distinct'
  BY <1>2, <1>3 DEF IInv, Distinct, poolVars, dropVars, bufferVars
<1>10. OneOwner'
  <2>1. PICK owner2 \in [Index -> Kinds], of2 \in [Index -> Holder] :
          Moved(owner, of, owner2, of2, M, "located", NoBuffer)
    BY Move DEF Kinds, Holder
  <2>2. Owned(owner2, of2)'
    BY <1>4, <1>5, <1>6, <2>1 DEF Owned, Moved
  <2> QED
    BY <2>2 DEF OneOwner
<1>11. GenCurrent'
  BY <1>2, <1>3 DEF IInv, GenCurrent, poolVars, bufferVars
<1> QED
  BY <1>7, <1>8, <1>9, <1>10, <1>11 DEF IInv

\* All four allocation steps end the same way: the indices M, taken from the
\* free list, the lease or the high-water mark, join the ids of `mine`.
LEMMA MineGrows ==
  ASSUME IInv, NEW ids \in Seq(Entity), NEW owner \in [Index -> Kinds],
         NEW of \in [Index -> Holder], Owned(owner, of),
         \A i \in EntityIndices(ids) : owner[i] # "mine",
         IsInjective(Indices(ids)), AllGen(ids, generation)
  PROVE  /\ mine \o ids \in Seq(Entity)
         /\ EntityIndices(mine \o ids) = MineSet \cup EntityIndices(ids)
         /\ IsInjective(Indices(mine \o ids))
         /\ AllGen(mine \o ids, generation)
<1>1. mine \in Seq(Entity) /\ IsInjective(Indices(mine)) /\ AllGen(mine, generation)
  BY DEF IInv, TypeOK, Distinct, GenCurrent
<1>2. EntityIndices(mine) \subseteq Index /\ EntityIndices(ids) \subseteq Index
  BY <1>1, IndicesFacts
<1>3. EntityIndices(mine) \cap EntityIndices(ids) = {}
  BY <1>2 DEF Owned, MineSet
<1> QED
  BY <1>1, <1>3, EntityConcat, AllGenConcat DEF MineSet

LEMMA AllocateFreshStep ==
  ASSUME IInv, AllocateFresh
  PROVE  IInv'
<1> DEFINE f == FreshIds(mainNeed)
<1>1. /\ highWater \in Nat /\ mainNeed \in Nat /\ highWater + mainNeed <= MaxIndex
      /\ highWater + mainNeed \in 0 .. MaxIndex /\ nrecords \in 0 .. MaxIndex
      /\ Larger(nrecords, highWater + mainNeed) \in 0 .. MaxIndex
      /\ \A i \in Index : i >= highWater => generation[i] = 0
  <2>1. /\ highWater \in 0 .. MaxIndex /\ mainNeed \in Nat
        /\ nrecords \in 0 .. MaxIndex
    BY DEF IInv, TypeOK
  <2>2. highWater + mainNeed <= MaxIndex
    BY DEF AllocateFresh
  <2> QED
    BY <2>1, <2>2, IndexArithmetic DEF Larger, IInv, GenCurrent
<1>2. /\ f \in Seq(Entity)
      /\ EntityIndices(f) = highWater .. highWater + mainNeed - 1
      /\ IsInjective(Indices(f)) /\ AllGen(f, generation)
  BY <1>1, FreshFacts DEF IInv
<1>3. /\ mine' = mine \o f
      /\ highWater' = highWater + mainNeed
      /\ nrecords' = Larger(nrecords, highWater + mainNeed)
      /\ mainNeed' = 0 /\ mainPc' = "idle"
      /\ UNCHANGED <<generation, located, live, poolVars, dropVars, bufferVars,
                     applying>>
  BY DEF AllocateFresh
<1> HIDE DEF f
<1>4. PICK owner \in [Index -> Kinds], of \in [Index -> Holder] : Owned(owner, of)
  BY DEF IInv, OneOwner
<1>5. /\ \A i \in Index : i \in EntityIndices(f) => i >= highWater
      /\ \A i \in Index : i >= highWater + mainNeed <=>
                            i >= highWater /\ i \notin EntityIndices(f)
  BY <1>1, <1>2, IndexArithmetic
<1>6. /\ mine' \in Seq(Entity)
      /\ EntityIndices(mine') = MineSet \cup EntityIndices(f)
      /\ IsInjective(Indices(mine')) /\ AllGen(mine', generation)
  <2>1. EntityIndices(f) \subseteq Index
    BY <1>2, IndicesFacts
  <2>2. \A i \in EntityIndices(f) : owner[i] # "mine"
    BY <1>4, <1>5, <2>1 DEF Owned
  <2> QED
    BY <1>2, <1>3, <1>4, <2>2, MineGrows
<1>7. /\ FreeSet' = FreeSet /\ LeaseSet' = LeaseSet /\ DroppedSet' = DroppedSet
      /\ MineSet' = MineSet \cup EntityIndices(f)
      /\ RetiredSet' = RetiredSet /\ located' = located
      /\ \A i \in Index : i >= highWater' <=>
                            i >= highWater /\ i \notin EntityIndices(f)
  BY <1>3, <1>5, <1>6 DEF FreeSet, LeaseSet, DroppedSet, MineSet, RetiredSet,
     poolVars, dropVars
<1>8. \A c \in Buffers : QueueSet(c)' = QueueSet(c) /\ TailSet(c)' = TailSet(c)
  BY <1>3 DEF QueueSet, TailSet, bufferVars
<1>9. TypeOK'
  BY <1>1, <1>3, <1>6 DEF IInv, TypeOK, poolVars, dropVars, bufferVars
<1>10. Shape'
  BY <1>3 DEF IInv, Shape, bufferVars
<1>11. Distinct'
  BY <1>3, <1>6 DEF IInv, Distinct, poolVars, dropVars, bufferVars
<1>12. OneOwner'
  <2>1. PICK owner2 \in [Index -> Kinds], of2 \in [Index -> Holder] :
          Moved(owner, of, owner2, of2, EntityIndices(f), "mine", NoBuffer)
    BY Move DEF Kinds, Holder
  <2>2. Owned(owner2, of2)'
    BY <1>4, <1>5, <1>7, <1>8, <2>1 DEF Owned, Moved
  <2> QED
    BY <2>2 DEF OneOwner
<1>13. GenCurrent'
  <2>1. \A i \in Index : i >= highWater' => generation[i] = 0
    BY <1>1, <1>7
  <2> QED
    BY <1>3, <1>6, <2>1 DEF IInv, GenCurrent, poolVars, bufferVars
<1> QED
  BY <1>9, <1>10, <1>11, <1>12, <1>13 DEF IInv

LEMMA AllocateFromLeaseStep ==
  ASSUME IInv, AllocateFromLease
  PROVE  IInv'
<1> DEFINE s == LeaseSlots(1)
           l == Decremented(1)
<1>1. TypeOK /\ mine = <<>> /\ mine \in Seq(Entity)
  BY DEF IInv, TypeOK, Shape, AllocateFromLease
<1>2. Reuse(1) \in 0 .. 1 /\ lease.cursor \in Int /\ (Reuse(1) = 1 => lease.cursor > 0)
  <2>1. 1 \in Nat
    OBVIOUS
  <2> QED
    BY <1>1, <2>1, ReuseRange
<1>3. /\ s \in Seq(Entity)
      /\ IsInjective(Indices(s))
      /\ Leased(lease) = Leased(l) \cup EntityIndices(s)
      /\ Leased(l) \cap EntityIndices(s) = {}
      /\ Leased(lease) \subseteq Index
      /\ LeaseDistinct(l)
      /\ l.free \in Seq(Entity) /\ l.cursor \in Int
      /\ l = [free |-> l.free, cursor |-> l.cursor]
      /\ l.cursor <= Len(l.free)
      /\ AllGen(s, generation) /\ LeaseGen(l, generation)
  <2>1. 1 \in Nat
    OBVIOUS
  <2> QED
    BY <1>1, <2>1, LeaseFacts DEF IInv, Distinct, GenCurrent
<1>4. /\ mine' = s /\ lease' = l
      /\ mainNeed' = 1 - Reuse(1)
      /\ mainPc' = IF Reuse(1) = 1 THEN "idle" ELSE "fresh"
      /\ nrecords' = IF Reuse(1) = 1
                     THEN Larger(nrecords, lease.free[lease.cursor].index + 1)
                     ELSE nrecords
      /\ UNCHANGED <<highWater, generation, located, live, freeList, dropVars,
                     bufferVars, applying>>
  BY DEF AllocateFromLease, TakeFromLease, Decremented
<1>5. nrecords' \in 0 .. MaxIndex /\ mainNeed' \in Nat
  <2>1. nrecords \in 0 .. MaxIndex
    BY <1>1 DEF TypeOK
  <2>2. ASSUME Reuse(1) = 1
        PROVE  lease.free[lease.cursor].index + 1 \in 0 .. MaxIndex
    <3>1. lease.cursor \in Int /\ lease.cursor <= Len(lease.free)
          /\ lease.free \in Seq(Entity)
      BY <1>1 DEF TypeOK
    <3>2. lease.cursor \in 1 .. Len(lease.free)
      BY <1>2, <2>2, <3>1, LenProperties
    <3>3. lease.free[lease.cursor] \in Entity
      BY <3>1, <3>2, ElementOfSeq
    <3>4. lease.free[lease.cursor].index \in Index
      BY <3>3, EntityFields
    <3> QED
      BY <3>4, IndexArithmetic
  <2>3. CASE Reuse(1) = 1
    BY <1>2, <1>4, <2>1, <2>2, <2>3, IndexArithmetic DEF Larger
  <2>4. CASE Reuse(1) # 1
    BY <1>2, <1>4, <2>1, <2>4
  <2> QED
    BY <2>3, <2>4
<1> HIDE DEF s, l
<1>6. PICK owner \in [Index -> Kinds], of \in [Index -> Holder] : Owned(owner, of)
  BY DEF IInv, OneOwner
<1>7. /\ FreeSet' = FreeSet /\ DroppedSet' = DroppedSet
      /\ MineSet' = EntityIndices(s) /\ MineSet = {}
      /\ RetiredSet' = RetiredSet
      /\ located' = located /\ highWater' = highWater
      /\ LeaseSet' = Leased(l) /\ LeaseSet = Leased(l) \cup EntityIndices(s)
  BY <1>1, <1>3, <1>4, NoEntities DEF FreeSet, LeaseSet, DroppedSet, MineSet,
     RetiredSet, dropVars
<1>8. \A c \in Buffers : QueueSet(c)' = QueueSet(c) /\ TailSet(c)' = TailSet(c)
  BY <1>4 DEF QueueSet, TailSet, bufferVars
<1>9. TypeOK'
  <2>1. mainPc' \in {"idle", "sub", "fresh"}
    BY <1>4
  <2> QED
    BY <1>1, <1>3, <1>4, <1>5, <2>1 DEF TypeOK, dropVars, bufferVars
<1>10. Shape'
  <2>1. mainPc' # "sub"
    BY <1>4
  <2> QED
    BY <1>4, <2>1 DEF IInv, Shape, bufferVars
<1>11. Distinct'
  BY <1>3, <1>4 DEF IInv, Distinct, dropVars, bufferVars
<1>12. OneOwner'
  <2>1. PICK owner2 \in [Index -> Kinds], of2 \in [Index -> Holder] :
          Moved(owner, of, owner2, of2, EntityIndices(s), "mine", NoBuffer)
    BY Move DEF Kinds, Holder
  <2>2. Owned(owner2, of2)'
    BY <1>3, <1>6, <1>7, <1>8, <2>1 DEF Owned, Moved
  <2> QED
    BY <2>2 DEF OneOwner
<1>13. GenCurrent'
  BY <1>3, <1>4 DEF IInv, GenCurrent, bufferVars
<1> QED
  BY <1>9, <1>10, <1>11, <1>12, <1>13 DEF IInv

LEMMA AllocateStep ==
  ASSUME IInv, Allocate
  PROVE  IInv'
<1>1. TypeOK /\ freeList \in Seq(Index) /\ mine = <<>> /\ IsInjective(freeList)
  BY DEF IInv, TypeOK, Distinct, Allocate, MainIdle
<1>2. UNCHANGED <<highWater, recordVars, lease, dropVars, bufferVars, applying>>
  BY DEF Allocate
<1>3. CASE freeList # <<>>
  <2> DEFINE s == Popped(1)
             p == SubSeq(freeList, 1, Len(freeList) - 1)
  <2>1. 1 \in 0 .. Len(freeList)
    BY <1>1, <1>3, EmptySeq, LenProperties
  <2>2. /\ s \in Seq(Entity) /\ p \in Seq(Index)
        /\ IsInjective(Indices(s)) /\ IsInjective(p)
        /\ Range(freeList) = Range(p) \cup EntityIndices(s)
        /\ Range(p) \cap EntityIndices(s) = {}
        /\ AllGen(s, generation)
    BY <1>1, <2>1, PopFacts
  <2>3. freeList' = p /\ mine' = s /\ UNCHANGED <<mainPc, mainNeed>>
    BY <1>3 DEF Allocate, Pop
  <2> HIDE DEF s, p
  <2>4. PICK owner \in [Index -> Kinds], of \in [Index -> Holder] : Owned(owner, of)
    BY DEF IInv, OneOwner
  <2>5. /\ FreeSet' = Range(p) /\ FreeSet = Range(p) \cup EntityIndices(s)
        /\ MineSet' = EntityIndices(s) /\ MineSet = {}
        /\ LeaseSet' = LeaseSet /\ DroppedSet' = DroppedSet
        /\ RetiredSet' = RetiredSet
        /\ located' = located /\ highWater' = highWater
    BY <1>1, <1>2, <2>2, <2>3, NoEntities DEF FreeSet, LeaseSet, DroppedSet,
       MineSet, RetiredSet, recordVars, dropVars
  <2>6. \A c \in Buffers : QueueSet(c)' = QueueSet(c) /\ TailSet(c)' = TailSet(c)
    BY <1>2 DEF QueueSet, TailSet, bufferVars
  <2>7. TypeOK'
    BY <1>1, <1>2, <2>2, <2>3 DEF TypeOK, recordVars, dropVars, bufferVars
  <2>8. Shape'
    <3>1. mainPc' # "sub"
      BY <2>3 DEF Allocate, MainIdle
    <3> QED
      BY <1>2, <3>1 DEF IInv, Shape, bufferVars
  <2>9. Distinct'
    BY <1>2, <2>2, <2>3 DEF IInv, Distinct, dropVars, bufferVars
  <2>10. OneOwner'
    <3>1. PICK owner2 \in [Index -> Kinds], of2 \in [Index -> Holder] :
            Moved(owner, of, owner2, of2, EntityIndices(s), "mine", NoBuffer)
      BY Move DEF Kinds, Holder
    <3>2. Owned(owner2, of2)'
      BY <2>2, <2>4, <2>5, <2>6, <3>1 DEF Owned, Moved
    <3> QED
      BY <3>2 DEF OneOwner
  <2>11. GenCurrent'
    BY <1>2, <2>2, <2>3 DEF IInv, GenCurrent, recordVars, bufferVars
  <2> QED
    BY <2>7, <2>8, <2>9, <2>10, <2>11 DEF IInv
<1>4. CASE freeList = <<>>
  <2>1. /\ mainPc' = (IF lease.cursor > 0 THEN "sub" ELSE "fresh") /\ mainNeed' = 1
        /\ UNCHANGED <<freeList, mine>>
    BY <1>4 DEF Allocate
  <2>2. mainPc' \in {"idle", "sub", "fresh"}
    BY <2>1
  <2>3. TypeOK'
    BY <1>1, <1>2, <2>1, <2>2 DEF TypeOK, recordVars, dropVars, bufferVars
  <2>4. (Shape /\ GenCurrent /\ Distinct)'
    BY <1>1, <1>2, <2>1 DEF IInv, Shape, GenCurrent, Distinct, recordVars,
       dropVars, bufferVars
  <2>5. OneOwner'
    BY <1>2, <2>1 DEF IInv, OneOwner, Owned, FreeSet, LeaseSet, DroppedSet,
       MineSet, RetiredSet, QueueSet, TailSet, recordVars, dropVars, bufferVars
  <2> QED
    BY <2>3, <2>4, <2>5 DEF IInv
<1> QED
  BY <1>3, <1>4

LEMMA AllocateBatchStep ==
  ASSUME IInv, NEW n \in 1 .. MaxBatch, AllocateBatch(n)
  PROVE  IInv'
<1> DEFINE popped == IF n <= Len(freeList) THEN n ELSE Len(freeList)
           rem == n - popped
           s == Popped(popped)
           p == SubSeq(freeList, 1, Len(freeList) - popped)
           w == LeaseSlots(rem)
           l == Decremented(rem)
<1>1. TypeOK /\ freeList \in Seq(Index) /\ IsInjective(freeList)
  BY DEF IInv, TypeOK, Distinct
<1>2. /\ popped \in 0 .. Len(freeList) /\ rem \in Nat /\ rem - Reuse(rem) \in Nat
      /\ rem > Reuse(rem) \/ rem = Reuse(rem)
  <2>1. n \in Nat /\ Len(freeList) \in Nat
    BY <1>1, IndexArithmetic, LenProperties
  <2>2. popped \in 0 .. Len(freeList) /\ rem \in Nat
    BY <2>1
  <2>3. Reuse(rem) \in 0 .. rem
    BY <1>1, <2>2, ReuseRange
  <2> QED
    BY <2>2, <2>3
<1>3. /\ s \in Seq(Entity) /\ p \in Seq(Index)
      /\ IsInjective(Indices(s)) /\ IsInjective(p)
      /\ Range(freeList) = Range(p) \cup EntityIndices(s)
      /\ Range(p) \cap EntityIndices(s) = {}
      /\ AllGen(s, generation)
  BY <1>1, <1>2, PopFacts
<1>4. /\ w \in Seq(Entity)
      /\ IsInjective(Indices(w))
      /\ Leased(lease) = Leased(l) \cup EntityIndices(w)
      /\ Leased(l) \cap EntityIndices(w) = {}
      /\ LeaseDistinct(l)
      /\ l.free \in Seq(Entity) /\ l.cursor \in Int
      /\ l = [free |-> l.free, cursor |-> l.cursor]
      /\ l.cursor <= Len(l.free)
      /\ AllGen(w, generation) /\ LeaseGen(l, generation)
  BY <1>1, <1>2, LeaseFacts DEF IInv, Distinct, GenCurrent
<1>5. /\ mine' = s \o w /\ mine = <<>>
      /\ freeList' = p /\ lease' = l
      /\ mainNeed' = rem - Reuse(rem)
      /\ mainPc' = IF rem > Reuse(rem) THEN "fresh" ELSE "idle"
      /\ UNCHANGED <<highWater, recordVars, dropVars, bufferVars, applying>>
  BY DEF AllocateBatch, Pop, TakeFromLease, Decremented, MainIdle
<1> HIDE DEF popped, rem, s, p, w, l
<1>6. PICK owner \in [Index -> Kinds], of \in [Index -> Holder] : Owned(owner, of)
  BY DEF IInv, OneOwner
<1>7. EntityIndices(s) \cap EntityIndices(w) = {}
  <2>1. EntityIndices(s) \subseteq Index
    BY <1>3, IndicesFacts
  <2> QED
    BY <1>3, <1>4, <1>6, <2>1 DEF Owned, FreeSet, LeaseSet
<1>8. /\ s \o w \in Seq(Entity)
      /\ EntityIndices(s \o w) = EntityIndices(s) \cup EntityIndices(w)
      /\ IsInjective(Indices(s \o w)) /\ AllGen(s \o w, generation)
  BY <1>3, <1>4, <1>7, EntityConcat, AllGenConcat
<1>9. /\ FreeSet' = Range(p) /\ FreeSet = Range(p) \cup EntityIndices(s)
      /\ LeaseSet' = Leased(l) /\ LeaseSet = Leased(l) \cup EntityIndices(w)
      /\ MineSet' = EntityIndices(s) \cup EntityIndices(w) /\ MineSet = {}
      /\ DroppedSet' = DroppedSet /\ RetiredSet' = RetiredSet
      /\ located' = located /\ highWater' = highWater
  BY <1>3, <1>4, <1>5, <1>8, NoEntities DEF FreeSet, LeaseSet, DroppedSet,
     MineSet, RetiredSet, recordVars, dropVars
<1>10. \A c \in Buffers : QueueSet(c)' = QueueSet(c) /\ TailSet(c)' = TailSet(c)
  BY <1>5 DEF QueueSet, TailSet, bufferVars
<1>11. TypeOK'
  <2>1. mainPc' \in {"idle", "sub", "fresh"}
    BY <1>5
  <2> QED
    BY <1>1, <1>2, <1>3, <1>4, <1>5, <1>8, <2>1
       DEF TypeOK, recordVars, dropVars, bufferVars
<1>12. Shape'
  <2>1. mainPc' # "sub"
    BY <1>5
  <2> QED
    BY <1>5, <2>1 DEF IInv, Shape, bufferVars
<1>13. Distinct'
  BY <1>3, <1>4, <1>5, <1>8 DEF IInv, Distinct, dropVars, bufferVars
<1>14. OneOwner'
  <2>1. PICK owner2 \in [Index -> Kinds], of2 \in [Index -> Holder] :
          Moved(owner, of, owner2, of2, EntityIndices(s) \cup EntityIndices(w),
                "mine", NoBuffer)
    BY Move DEF Kinds, Holder
  <2>2. Owned(owner2, of2)'
    BY <1>3, <1>4, <1>6, <1>9, <1>10, <2>1 DEF Owned, Moved
  <2> QED
    BY <2>2 DEF OneOwner
<1>15. GenCurrent'
  BY <1>4, <1>5, <1>8 DEF IInv, GenCurrent, recordVars, bufferVars
<1> QED
  BY <1>11, <1>12, <1>13, <1>14, <1>15 DEF IInv

LEMMA ApplySpawnStep ==
  ASSUME IInv, NEW b \in Buffers, ApplySpawn(b)
  PROVE  IInv'
<1> DEFINE e == Head(queue[b])
           t == Tail(queue[b])
<1>1. /\ queue[b] \in Seq(Entity) /\ queue \in [Buffers -> Seq(Entity)]
      /\ queue[b] # <<>> /\ IsInjective(Indices(queue[b]))
      /\ AllGen(queue[b], generation)
  BY DEF IInv, TypeOK, Distinct, GenCurrent, ApplySpawn
<1>2. /\ e \in Entity /\ t \in Seq(Entity)
      /\ EntityIndices(queue[b]) = {e.index} \cup EntityIndices(t)
      /\ e.index \notin EntityIndices(t)
      /\ IsInjective(Indices(t))
      /\ generation[e.index] = e.gen /\ AllGen(t, generation)
      /\ e.index \in Index
  BY <1>1, HeadFacts, EntityFields
<1>3. PICK owner \in [Index -> Kinds], of \in [Index -> Holder] : Owned(owner, of)
  BY DEF IInv, OneOwner
<1>4. e.index \notin located
  <2>1. owner[e.index] = "queue"
    BY <1>2, <1>3 DEF Owned, QueueSet
  <2> QED
    BY <1>2, <1>3, <2>1 DEF Owned
<1>5. /\ queue' = [queue EXCEPT ![b] = t]
      /\ located' = located \cup {e.index}
      /\ live' = live + 1
      /\ nrecords' = Larger(nrecords, e.index + 1)
      /\ UNCHANGED <<highWater, generation, poolVars, dropVars, need, binding,
                     tail, applying, mainVars>>
  BY <1>2, <1>4 DEF ApplySpawn, IsAlive
<1>6. nrecords' \in 0 .. MaxIndex /\ live' \in Int
  <2>1. nrecords \in 0 .. MaxIndex /\ live \in Int
    BY DEF IInv, TypeOK
  <2>2. e.index + 1 \in 0 .. MaxIndex
    BY <1>2, IndexArithmetic
  <2> QED
    BY <1>5, <2>1, <2>2 DEF Larger
<1> HIDE DEF e, t
<1>7. /\ FreeSet' = FreeSet /\ LeaseSet' = LeaseSet /\ DroppedSet' = DroppedSet
      /\ MineSet' = MineSet /\ RetiredSet' = RetiredSet /\ highWater' = highWater
  BY <1>5 DEF FreeSet, LeaseSet, DroppedSet, MineSet, RetiredSet, poolVars,
     dropVars, mainVars
<1>8. /\ \A c \in Buffers : TailSet(c)' = TailSet(c)
      /\ \A c \in Buffers \ {b} : QueueSet(c)' = QueueSet(c)
      /\ QueueSet(b)' = EntityIndices(t)
      /\ QueueSet(b) = {e.index} \cup EntityIndices(t)
  BY <1>1, <1>2, <1>5 DEF QueueSet, TailSet
<1>9. TypeOK'
  BY <1>1, <1>2, <1>5, <1>6 DEF IInv, TypeOK, poolVars, dropVars, mainVars
<1>10. Shape'
  BY <1>5 DEF IInv, Shape, mainVars
<1>11. Distinct'
  BY <1>1, <1>2, <1>5 DEF IInv, Distinct, poolVars, dropVars, mainVars
<1>12. OneOwner'
  <2>1. PICK owner2 \in [Index -> Kinds], of2 \in [Index -> Holder] :
          Moved(owner, of, owner2, of2, {e.index}, "located", NoBuffer)
    BY Move DEF Kinds, Holder
  <2>2. Owned(owner2, of2)'
    BY <1>2, <1>3, <1>5, <1>7, <1>8, <2>1 DEF Owned, Moved
  <2> QED
    BY <2>2 DEF OneOwner
<1>13. GenCurrent'
  BY <1>1, <1>2, <1>5 DEF IInv, GenCurrent, poolVars, mainVars
<1> QED
  BY <1>9, <1>10, <1>11, <1>12, <1>13 DEF IInv

LEMMA DespawnStep ==
  ASSUME IInv, NEW i \in Index, Despawn(i)
  PROVE  IInv'
<1> DEFINE x == NextGen(generation[i])
           keep == x # MaxGen
<1>1. /\ i \in located /\ generation \in [Index -> Gen] /\ freeList \in Seq(Index)
      /\ live - 1 \in Int /\ located \in SUBSET Index /\ IsInjective(freeList)
  <2>1. /\ generation \in [Index -> Gen] /\ freeList \in Seq(Index)
        /\ live \in Int /\ located \in SUBSET Index
    BY DEF IInv, TypeOK
  <2>2. i \in located
    BY DEF Despawn
  <2>3. IsInjective(freeList)
    BY DEF IInv, Distinct
  <2> QED
    BY ONLY <2>1, <2>2, <2>3
<1>2. PICK owner \in [Index -> Kinds], of \in [Index -> Holder] : Owned(owner, of)
  BY DEF IInv, OneOwner
<1>3. /\ owner[i] = "located"
      /\ i \notin FreeSet /\ i \notin LeaseSet /\ i \notin MineSet
      /\ \A b \in Buffers : i \notin QueueSet(b) /\ i \notin TailSet(b)
      /\ i \notin RetiredSet /\ ~(i >= highWater)
  BY <1>1, <1>2 DEF Owned
<1>4. generation[i] # MaxGen
  BY <1>3 DEF RetiredSet, RetiredIn
<1>5. x = generation[i] + 1 /\ x \in Gen
  <2>1. generation[i] \in Gen
    BY <1>1
  <2> QED
    BY <1>4, <2>1, IndexArithmetic DEF NextGen, Gen
<1>6. /\ located' = located \ {i}
      /\ live' = live - 1
      /\ generation' = [generation EXCEPT ![i] = x]
      /\ freeList' = IF keep THEN Append(freeList, i) ELSE freeList
      /\ UNCHANGED <<highWater, nrecords, lease, dropVars, bufferVars, applying,
                     mainVars>>
  BY DEF Despawn
<1> HIDE DEF x
<1>7. /\ freeList' \in Seq(Index) /\ IsInjective(freeList')
      /\ Range(freeList') = IF keep THEN FreeSet \cup {i} ELSE FreeSet
  <2>1. CASE keep
    <3>1. /\ <<i>> \in Seq(Index) /\ Range(<<i>>) = {i} /\ IsInjective(<<i>>)
          /\ freeList' = freeList \o <<i>>
      <4>1. Append(freeList, i) = freeList \o <<i>>
        BY <1>1, AppendIsConcat
      <4> QED
        BY <1>6, <2>1, <4>1 DEF Range, IsInjective
    <3>2. Range(freeList) \cap Range(<<i>>) = {}
      BY <1>3, <3>1 DEF FreeSet
    <3> DEFINE one == <<i>>
    <3> HIDE DEF one
    <3>3. /\ one \in Seq(Index) /\ Range(one) = {i} /\ IsInjective(one)
          /\ freeList' = freeList \o one /\ Range(freeList) \cap Range(one) = {}
      BY <3>1, <3>2 DEF one
    <3>4. /\ freeList \o one \in Seq(Index) /\ IsInjective(freeList \o one)
          /\ Range(freeList \o one) = Range(freeList) \cup Range(one)
      BY <1>1, <3>3, ConcatFacts
    <3> QED
      BY <2>1, <3>3, <3>4 DEF FreeSet
  <2>2. CASE ~keep
    BY <1>1, <1>6, <2>2 DEF FreeSet
  <2> QED
    BY <2>1, <2>2
<1>8. RetiredSet' = IF keep THEN RetiredSet ELSE RetiredSet \cup {i}
  BY <1>1, <1>4, <1>6 DEF RetiredSet, RetiredIn
<1>9. /\ FreeSet' = IF keep THEN FreeSet \cup {i} ELSE FreeSet
      /\ LeaseSet' = LeaseSet /\ DroppedSet' = DroppedSet /\ MineSet' = MineSet
      /\ located' = located \ {i} /\ highWater' = highWater
  BY <1>6, <1>7 DEF FreeSet, LeaseSet, DroppedSet, MineSet, dropVars, mainVars
<1>10. \A c \in Buffers : QueueSet(c)' = QueueSet(c) /\ TailSet(c)' = TailSet(c)
  BY <1>6 DEF QueueSet, TailSet, bufferVars
<1>11. TypeOK'
  BY <1>1, <1>5, <1>6, <1>7 DEF IInv, TypeOK, dropVars, bufferVars, mainVars
<1>12. Shape'
  BY <1>6 DEF IInv, Shape, bufferVars, mainVars
<1>13. Distinct'
  BY <1>6, <1>7 DEF IInv, Distinct, dropVars, bufferVars, mainVars
<1>14. OneOwner'
  <2>1. PICK owner2 \in [Index -> Kinds], of2 \in [Index -> Holder] :
          Moved(owner, of, owner2, of2, {i},
                IF keep THEN "free" ELSE "retired", NoBuffer)
    <3>1. (IF keep THEN "free" ELSE "retired") \in Kinds
      BY DEF Kinds
    <3> QED
      BY <3>1, Move DEF Holder
  <2> HIDE DEF keep
  <2>2. Owned(owner2, of2)'
    BY <1>1, <1>2, <1>3, <1>8, <1>9, <1>10, <2>1 DEF Owned, Moved
  <2> QED
    BY <2>2 DEF OneOwner
<1>15. GenCurrent'
  <2>1. TypeOK /\ mine \in Seq(Entity)
        /\ \A b \in Buffers : queue[b] \in Seq(Entity) /\ tail[b] \in Seq(Entity)
    BY DEF IInv, TypeOK
  <2>2. AllGen(mine, generation')
    BY <1>1, <1>3, <1>6, <2>1, AllGenElsewhere DEF IInv, GenCurrent, MineSet
  <2>3. \A b \in Buffers : AllGen(queue[b], generation') /\ AllGen(tail[b], generation')
    BY <1>1, <1>3, <1>6, <2>1, AllGenElsewhere
       DEF IInv, GenCurrent, QueueSet, TailSet
  <2>4. LeaseGen(lease, generation')
    <3>1. ASSUME NEW k \in 1 .. lease.cursor
          PROVE  lease.free[k].index \in Index /\ lease.free[k].index # i
      <4>1. lease.free[k].index \in LeaseSet
        BY DEF LeaseSet, Leased
      <4>2. LeaseSet \subseteq Index
        BY <2>1, LeasedInIndex DEF LeaseSet
      <4> QED
        BY <1>3, <4>1, <4>2
    <3> QED
      BY <1>1, <1>6, <3>1 DEF IInv, GenCurrent, LeaseGen
  <2>5. \A j \in Index : j >= highWater => generation'[j] = 0
    BY <1>1, <1>3, <1>6 DEF IInv, GenCurrent
  <2> QED
    BY <1>6, <2>2, <2>3, <2>4, <2>5 DEF GenCurrent, bufferVars, mainVars
<1> QED
  BY <1>11, <1>12, <1>13, <1>14, <1>15 DEF IInv

LEMMA FlushStep ==
  ASSUME IInv, FlushBody, applying' \in Buffers \cup {NoBuffer}
  PROVE  IInv'
<1> DEFINE D == IF pending THEN DroppedSet ELSE {}
           l == LeaseOf(Leasable)
<1>1. /\ Leasable \in Seq(Index) /\ IsInjective(Leasable)
      /\ Range(Leasable) = FreeSet \cup D \cup LeaseSet
      /\ WithDropped \in Seq(Index)
      /\ Range(WithDropped) = FreeSet \cup D
  BY LeasableFacts
<1>2. /\ l.free \in Seq(Entity) /\ l.cursor \in Int
      /\ l = [free |-> l.free, cursor |-> l.cursor]
      /\ l.cursor <= Len(l.free)
      /\ Leased(l) = Range(Leasable)
      /\ LeaseDistinct(l) /\ LeaseGen(l, generation)
  BY <1>1, LeaseOfFacts DEF IInv, TypeOK
<1>3. /\ nrecords' = Larger(nrecords, highWater)
      /\ pending' = FALSE
      /\ dropped' = IF pending THEN <<>> ELSE dropped
      /\ freeList' = <<>>
      /\ lease' = IF NothingToReconcile THEN lease ELSE l
      /\ UNCHANGED <<highWater, generation, located, live, publisher,
                     bufferVars, mainVars>>
  BY DEF FlushBody
<1> HIDE DEF l
<1>4. /\ lease'.free \in Seq(Entity) /\ lease'.cursor \in Int
      /\ lease' = [free |-> lease'.free, cursor |-> lease'.cursor]
      /\ lease'.cursor <= Len(lease'.free)
      /\ LeaseSet' = FreeSet \cup D \cup LeaseSet
      /\ LeaseDistinct(lease') /\ LeaseGen(lease', generation)
  <2>1. CASE NothingToReconcile
    <3>1. FreeSet \cup D = {}
      BY <1>1, <2>1, NoEntities DEF NothingToReconcile
    <3>2. /\ lease' = lease
          /\ lease.free \in Seq(Entity) /\ lease.cursor \in Int
          /\ lease = [free |-> lease.free, cursor |-> lease.cursor]
          /\ lease.cursor <= Len(lease.free)
          /\ LeaseDistinct(lease) /\ LeaseGen(lease, generation)
      BY <1>3, <2>1 DEF IInv, TypeOK, Distinct, GenCurrent
    <3> HIDE DEF D
    <3> QED
      BY <3>1, <3>2 DEF LeaseSet
  <2>2. CASE ~NothingToReconcile
    BY <1>1, <1>2, <1>3, <2>2 DEF LeaseSet
  <2> QED
    BY <2>1, <2>2
<1>5. /\ FreeSet' = {} /\ DroppedSet' = DroppedSet \ D
      /\ MineSet' = MineSet /\ RetiredSet' = RetiredSet
      /\ located' = located /\ highWater' = highWater
  BY <1>3, NoEntities DEF FreeSet, DroppedSet, MineSet, RetiredSet, mainVars
<1>6. \A c \in Buffers : QueueSet(c)' = QueueSet(c) /\ TailSet(c)' = TailSet(c)
  BY <1>3 DEF QueueSet, TailSet, bufferVars
<1>7. TypeOK'
  <2>1. nrecords' \in 0 .. MaxIndex
    BY <1>3 DEF IInv, TypeOK, Larger
  <2>2. dropped' \in Seq(Index) /\ freeList' \in Seq(Index)
    BY <1>3, NoEntities DEF IInv, TypeOK
  <2> QED
    BY <1>3, <1>4, <2>1, <2>2 DEF IInv, TypeOK, bufferVars, mainVars
<1>8. Shape'
  BY <1>3 DEF IInv, Shape, bufferVars, mainVars
<1>9. Distinct'
  <2>1. IsInjective(dropped') /\ IsInjective(freeList')
    BY <1>3, NoEntities DEF IInv, Distinct
  <2> QED
    BY <1>3, <1>4, <2>1 DEF IInv, Distinct, bufferVars, mainVars
<1>10. OneOwner'
  <2>1. PICK owner \in [Index -> Kinds], of \in [Index -> Holder] : Owned(owner, of)
    BY DEF IInv, OneOwner
  <2>2. PICK owner2 \in [Index -> Kinds], of2 \in [Index -> Holder] :
          Moved(owner, of, owner2, of2, FreeSet \cup D, "lease", NoBuffer)
    BY Move DEF Kinds, Holder
  <2>3. D \subseteq DroppedSet
    OBVIOUS
  <2> HIDE DEF D
  <2>4. Owned(owner2, of2)'
    BY <1>4, <1>5, <1>6, <2>1, <2>2, <2>3 DEF Owned, Moved
  <2> QED
    BY <2>4 DEF OneOwner
<1>11. GenCurrent'
  BY <1>3, <1>4 DEF IInv, GenCurrent, bufferVars, mainVars
<1> QED
  BY <1>7, <1>8, <1>9, <1>10, <1>11 DEF IInv

LEMMA InitIInv == Init => IInv
<1> SUFFICES ASSUME Init PROVE IInv
  OBVIOUS
<1>1. lease.free = <<>> /\ lease.cursor = 0
  BY DEF Init
<1>2. TypeOK
  <2>1. 0 \in 0 .. MaxIndex /\ 0 \in Gen
    BY IndexArithmetic
  <2>2. generation \in [Index -> Gen]
    BY <2>1 DEF Init
  <2>3. /\ lease.free \in Seq(Entity) /\ lease.cursor \in Int
        /\ lease = [free |-> lease.free, cursor |-> lease.cursor]
        /\ lease.cursor <= Len(lease.free)
    BY <1>1, NoEntities, EmptyFacts DEF Init
  <2>4. /\ queue \in [Buffers -> Seq(Entity)] /\ tail \in [Buffers -> Seq(Entity)]
        /\ mine \in Seq(Entity) /\ freeList \in Seq(Index) /\ dropped \in Seq(Index)
    BY NoEntities DEF Init
  <2> QED
    BY <2>1, <2>2, <2>3, <2>4 DEF Init, TypeOK
<1>3. Shape
  BY DEF Init, Shape
<1>4. Distinct
  BY <1>1, NoEntities DEF Init, Distinct, LeaseDistinct
<1>5. GenCurrent
  BY <1>1, NoEntities DEF Init, GenCurrent, LeaseGen
<1>6. OneOwner
  <2>1. PICK owner \in [Index -> Kinds], of \in [Index -> Holder] :
          \A i \in Index : owner[i] = "unissued"
    <3>1. /\ [i \in Index |-> "unissued"] \in [Index -> Kinds]
          /\ [i \in Index |-> NoBuffer] \in [Index -> Holder]
      BY DEF Kinds, Holder
    <3> QED
      BY <3>1
  <2>2. /\ FreeSet = {} /\ LeaseSet = {} /\ DroppedSet = {} /\ MineSet = {}
        /\ located = {}
        /\ \A b \in Buffers : QueueSet(b) = {} /\ TailSet(b) = {}
    BY <1>1, NoEntities DEF Init, FreeSet, LeaseSet, DroppedSet, MineSet,
       QueueSet, TailSet, Leased
  <2>3. RetiredSet = {} /\ \A i \in Index : i >= highWater
    BY IndexArithmetic DEF Init, RetiredSet, RetiredIn
  <2> QED
    BY <2>1, <2>2, <2>3 DEF OneOwner, Owned
<1> QED
  BY <1>2, <1>3, <1>4, <1>5, <1>6 DEF IInv

LEMMA NextIInv == IInv /\ [Next]_vars => IInv'
<1> SUFFICES ASSUME IInv, [Next]_vars PROVE IInv'
  OBVIOUS
<1>1. ASSUME NEW b \in Buffers, BufferStep(b) PROVE IInv'
  BY <1>1, ReserveFromBlockStep, ReserveFromLeaseStep, ReserveFreshStep,
     AbandonStep, PublishAbandonedStep DEF BufferStep
<1>2. ASSUME NEW b \in Buffers, BeginApply(b) PROVE IInv'
  BY <1>2, FlushStep DEF BeginApply
<1>3. ASSUME NEW b \in Buffers, SyncStep(b) PROVE IInv'
  BY <1>2, <1>3, ApplySpawnStep, EndApplyStep, SeedBlockStep,
     ReclaimBlockTailStep DEF SyncStep
<1>4. CASE Flush
  <2>1. applying' \in Buffers \cup {NoBuffer}
    BY <1>4 DEF Flush, IInv, TypeOK
  <2> QED
    BY <1>4, <2>1, FlushStep DEF Flush
<1>5. CASE MainStep
  BY <1>4, <1>5, AllocateStep, AllocateFromLeaseStep, AllocateBatchStep,
     AllocateFreshStep, LocateMineStep, DespawnStep DEF MainStep
<1>6. CASE UNCHANGED vars
  <2>1. /\ TypeOK' = TypeOK /\ Shape' = Shape /\ GenCurrent' = GenCurrent
        /\ Distinct' = Distinct
    BY <1>6 DEF vars, recordVars, poolVars, dropVars, bufferVars, mainVars,
       TypeOK, Shape, GenCurrent, Distinct
  <2>2. OneOwner'
    BY <1>6 DEF vars, recordVars, poolVars, dropVars, bufferVars, mainVars,
       IInv, OneOwner, Owned, FreeSet, LeaseSet, DroppedSet, MineSet,
       RetiredSet, QueueSet, TailSet
  <2> QED
    BY <2>1, <2>2 DEF IInv
<1> QED
  BY <1>1, <1>3, <1>5, <1>6 DEF Next

-----------------------------------------------------------------------------
(* The theorems. *)

\* The inductive invariant holds in every state of every behaviour.
THEOREM Invariance == Spec => []IInv
<1>1. Init => IInv
  BY InitIInv
<1>2. IInv /\ [Next]_vars => IInv'
  BY NextIInv
<1> QED
  BY <1>1, <1>2, PTL DEF Spec

\* Every variable keeps its type, for any number of buffers, indices and
\* generations.
THEOREM TypeCorrect == Spec => []TypeOK
<1>1. IInv => TypeOK
  BY DEF IInv
<1> QED
  BY <1>1, Invariance, PTL

\* The owner of an index names the place it is in.
LEMMA OwnerNamesPlace ==
  ASSUME IInv, NEW owner \in [Index -> Kinds], NEW of \in [Index -> Holder],
         Owned(owner, of), NEW p \in Place, NEW i \in IndicesAt(p)
  PROVE  /\ i \in Index /\ owner[i] = p[1]
         /\ p[1] \in {"queue", "tail"} => of[i] = p[2]
         /\ p[1] \notin {"queue", "tail"} => p[2] = NoBuffer
<1>1. /\ \A s \in Seq(Entity) : EntityIndices(s) \subseteq Index
      /\ \A s \in Seq(Index) : Range(s) \subseteq Index
      /\ Leased(lease) \subseteq Index
  BY IndicesFacts, RangeInIndex, LeasedInIndex DEF IInv
<1>2. /\ FreeSet \subseteq Index /\ LeaseSet \subseteq Index
      /\ DroppedSet \subseteq Index /\ MineSet \subseteq Index
      /\ RetiredSet \subseteq Index /\ located \subseteq Index
      /\ \A b \in Buffers : QueueSet(b) \subseteq Index /\ TailSet(b) \subseteq Index
  BY <1>1 DEF IInv, TypeOK, FreeSet, LeaseSet, DroppedSet, MineSet, RetiredSet,
     RetiredIn, QueueSet, TailSet
<1>3. CASE p \in ({"free", "lease", "dropped", "mine", "located", "retired"}
                    \X {NoBuffer})
  <2>1. /\ p[1] = "free" => i \in FreeSet
        /\ p[1] = "lease" => i \in LeaseSet
        /\ p[1] = "dropped" => i \in DroppedSet
        /\ p[1] = "mine" => i \in MineSet
        /\ p[1] = "located" => i \in located
        /\ p[1] = "retired" => i \in RetiredSet
    BY DEF IndicesAt, FreeSet, LeaseSet, DroppedSet, MineSet, RetiredSet
  <2> QED
    BY <1>2, <1>3, <2>1 DEF Owned
<1>4. CASE p \in ({"queue", "tail"} \X Buffers)
  <2>1. /\ p[1] = "queue" => i \in QueueSet(p[2])
        /\ p[1] = "tail" => i \in TailSet(p[2])
    BY DEF IndicesAt, QueueSet, TailSet
  <2> QED
    BY <1>2, <1>4, <2>1 DEF Owned
<1> QED
  BY <1>3, <1>4 DEF Place

\* No index is ever in two places of the system, nor twice in one.
THEOREM NeverIssuedTwice == Spec => []NoDoubleIssue
<1>1. IInv => NoDoubleIssue
  <2> SUFFICES ASSUME IInv PROVE NoDoubleIssue
    OBVIOUS
  <2>1. PICK owner \in [Index -> Kinds], of \in [Index -> Holder] : Owned(owner, of)
    BY DEF IInv, OneOwner
  <2>2. ASSUME NEW p \in Place, NEW q \in Place, NEW i \in IndicesAt(p),
               i \in IndicesAt(q)
        PROVE  p = q
    <3>1. /\ p[1] = q[1]
          /\ p[1] \in {"queue", "tail"} => p[2] = q[2]
          /\ p[1] \notin {"queue", "tail"} => p[2] = q[2]
      BY <2>1, <2>2, OwnerNamesPlace
    <3>2. p = <<p[1], p[2]>> /\ q = <<q[1], q[2]>>
      BY DEF Place
    <3> QED
      BY <3>1, <3>2
  <2>3. \A p \in Place : \A q \in Place \ {p} : IndicesAt(p) \cap IndicesAt(q) = {}
    BY <2>2
  <2>4. Distinct
    BY DEF IInv
  <2> QED
    BY <2>3, <2>4 DEF NoDoubleIssue
<1> QED
  BY <1>1, Invariance, PTL

\* No index that was ever issued is lost.
THEOREM NeverLost == Spec => []NoIdLeak
<1>1. IInv => NoIdLeak
  <2> SUFFICES ASSUME IInv, NEW i \in 0 .. highWater - 1
               PROVE  \E p \in Place : i \in IndicesAt(p)
    BY DEF NoIdLeak
  <2>1. PICK owner \in [Index -> Kinds], of \in [Index -> Holder] : Owned(owner, of)
    BY DEF IInv, OneOwner
  <2>2. i \in Index /\ ~(i >= highWater)
    <3>1. highWater \in 0 .. MaxIndex
      BY DEF IInv, TypeOK
    <3> QED
      BY <3>1, IndexArithmetic
  <2>3. owner[i] \in Kinds \ {"unissued"}
    BY <2>1, <2>2 DEF Owned
  <2>4. CASE owner[i] \in {"queue", "tail"}
    <3>1. <<owner[i], of[i]>> \in Place
      BY <2>1, <2>2, <2>4 DEF Owned, Place
    <3>2. i \in IndicesAt(<<owner[i], of[i]>>)
      BY <2>1, <2>2, <2>4 DEF Owned, IndicesAt, QueueSet, TailSet
    <3> QED
      BY <3>1, <3>2
  <2>5. CASE owner[i] \notin {"queue", "tail"}
    <3>1. <<owner[i], NoBuffer>> \in Place
      BY <2>3, <2>5 DEF Place, Kinds
    <3>2. i \in IndicesAt(<<owner[i], NoBuffer>>)
      BY <2>1, <2>2, <2>3, <2>5 DEF Owned, Kinds, IndicesAt, FreeSet, LeaseSet,
         DroppedSet, MineSet, RetiredSet
    <3> QED
      BY <3>1, <3>2
  <2> QED
    BY <2>4, <2>5
<1> QED
  BY <1>1, Invariance, PTL

\* Every handle still to be used is current: no spawn finds its handle alive
\* already or superseded.
THEOREM HandlesStayCurrent == Spec => []HandlesCurrent
<1>1. IInv => HandlesCurrent
  <2> SUFFICES ASSUME IInv PROVE HandlesCurrent
    OBVIOUS
  <2>1. PICK owner \in [Index -> Kinds], of \in [Index -> Holder] : Owned(owner, of)
    BY DEF IInv, OneOwner
  <2>2. /\ LeaseSet \cap located = {} /\ MineSet \cap located = {}
        /\ \A b \in Buffers : /\ QueueSet(b) \cap located = {}
                              /\ TailSet(b) \cap located = {}
    <3>1. located \subseteq Index
      BY DEF IInv, TypeOK
    <3> QED
      BY <2>1, <3>1 DEF Owned
  <2>3. \A k \in 1 .. lease.cursor : Current(lease.free[k])
    BY <2>2 DEF IInv, GenCurrent, LeaseGen, LeaseSet, Leased, Current
  <2>4. \A k \in 1 .. Len(mine) : Current(mine[k])
    BY <2>2 DEF IInv, GenCurrent, AllGen, MineSet, EntityIndices, Current
  <2>5. \A b \in Buffers : /\ \A k \in 1 .. Len(queue[b]) : Current(queue[b][k])
                           /\ \A k \in 1 .. Len(tail[b]) : Current(tail[b][k])
    BY <2>2 DEF IInv, GenCurrent, AllGen, QueueSet, TailSet, EntityIndices, Current
  <2> QED
    BY <2>3, <2>4, <2>5 DEF HandlesCurrent
<1> QED
  BY <1>1, Invariance, PTL

\* No generation goes down, and an entity that dies takes its generation with
\* it: the last generation is never recycled, so the u32 never wraps.
THEOREM NeverRevived == Spec => NoRevival
<1> DEFINE Mono ==
      \A i \in Index :
        /\ generation'[i] >= generation[i]
        /\ i \in located \ located' => generation'[i] > generation[i]
<1>1. IInv /\ [Next]_vars => [Mono]_vars
  <2> SUFFICES ASSUME IInv, [Next]_vars PROVE Mono \/ UNCHANGED vars
    OBVIOUS
  <2>1. /\ generation \in [Index -> Gen]
        /\ \A i \in Index : generation[i] \in Int
    <3>1. generation \in [Index -> Gen]
      BY DEF IInv, TypeOK
    <3>2. \A g \in Gen : g \in Int
      BY IndexArithmetic DEF Gen
    <3> QED
      BY ONLY <3>1, <3>2
  <2>2. ASSUME generation' = generation, located \subseteq located' PROVE Mono
    BY <2>1, <2>2
  <2> HIDE DEF Mono
  <2>3. ASSUME NEW b \in Buffers, BufferStep(b) PROVE Mono
    BY <2>2, <2>3 DEF BufferStep, ReserveFromBlock, ReserveFromLease,
       ReserveFresh, Abandon, PublishAbandoned, recordVars
  <2>4. ASSUME NEW b \in Buffers, SyncStep(b) PROVE Mono
    BY <2>2, <2>4 DEF SyncStep, BeginApply, FlushBody, ApplySpawn, EndApply,
       SeedBlock, ReclaimBlockTail, recordVars
  <2>5. ASSUME NEW i \in Index, Despawn(i) PROVE Mono
    <3>1. PICK owner \in [Index -> Kinds], of \in [Index -> Holder] : Owned(owner, of)
      BY DEF IInv, OneOwner
    <3>2. i \notin RetiredSet
      BY <2>5, <3>1 DEF Owned, Despawn
    <3>3. generation[i] \in Gen /\ generation[i] # MaxGen
      BY <2>1, <3>2 DEF RetiredSet, RetiredIn
    <3>4. NextGen(generation[i]) = generation[i] + 1
      BY <3>3, IndexArithmetic DEF NextGen, Gen
    <3>5. /\ generation' = [generation EXCEPT ![i] = generation[i] + 1]
          /\ located' = located \ {i}
      BY <2>5, <3>4 DEF Despawn
    <3> QED
      BY <2>1, <3>5 DEF Mono
  <2>6. CASE MainStep
    BY <2>2, <2>5, <2>6 DEF MainStep, Flush, FlushBody, Allocate,
       AllocateFromLease, AllocateBatch, AllocateFresh, LocateMine, recordVars
  <2> QED
    BY <2>3, <2>4, <2>6 DEF Next
<1>2. [][Mono]_vars => NoRevival
  BY PTL DEF NoRevival
<1> QED
  BY <1>1, <1>2, Invariance, PTL DEF Spec

-----------------------------------------------------------------------------
(***************************************************************************)
(* EntityAllocator implements HandlePool.  What the pool sees of the       *)
(* allocator is which indices are held, located and retired; since no      *)
(* index is two of these (IInv), a step that changes one of the three sets *)
(* is a step of the pool.                                                  *)
(***************************************************************************)

HeldSet == {i \in Index : i \in MineSet \/ \E b \in Buffers : i \in QueueSet(b)}

\* No index is held, located and retired at once, nor two of them.
Apart ==
  /\ generation \in [Index -> Gen]
  /\ \A i \in Index : i \in HeldSet => i \notin located /\ generation[i] # MaxGen
  /\ \A i \in located : i \in Index /\ generation[i] # MaxGen

LEMMA IInvApart == IInv => Apart
<1> SUFFICES ASSUME IInv PROVE Apart
  OBVIOUS
<1>1. PICK owner \in [Index -> Kinds], of \in [Index -> Holder] : Owned(owner, of)
  BY DEF IInv, OneOwner
<1>2. \A i \in Index : i \in HeldSet => owner[i] \in {"mine", "queue"}
  BY <1>1 DEF Owned, HeldSet
<1>3. \A i \in Index : generation[i] = MaxGen => owner[i] = "retired"
  BY <1>1 DEF Owned, RetiredSet, RetiredIn
<1>4. \A i \in located : i \in Index /\ owner[i] = "located"
  BY <1>1 DEF Owned, IInv, TypeOK
<1>5. \A i \in Index : i \in located => owner[i] = "located"
  BY <1>4
<1>6. generation \in [Index -> Gen]
  BY DEF IInv, TypeOK
<1> QED
  BY <1>2, <1>3, <1>4, <1>5, <1>6 DEF Apart

\* What the pool sees of an index.
Seen(i, l, g, h) ==
  IF i \in l THEN "live"
  ELSE IF g[i] = MaxGen THEN "retired" ELSE IF i \in h THEN "held" ELSE "free"

LEMMA StatusSeen ==
  /\ \A i \in Index : HandleStatus(i) = Seen(i, located, generation, HeldSet)
  /\ \A i \in Index : HandleStatus(i)' = Seen(i, located', generation', HeldSet')
<1>1. \A i \in Index : i \in HeldSet <=> \/ i \in EntityIndices(mine)
                                         \/ \E b \in Buffers : i \in EntityIndices(queue[b])
  BY DEF HeldSet, MineSet, QueueSet
<1>2. \A i \in Index : i \in HeldSet' <=> \/ i \in EntityIndices(mine)'
                                          \/ \E b \in Buffers : i \in EntityIndices(queue[b])'
  BY DEF HeldSet, MineSet, QueueSet
<1>3. \A i \in Index : HandleStatus(i) = Seen(i, located, generation, HeldSet)
  BY <1>1 DEF HandleStatus, Seen
<1>4. \A i \in Index : HandleStatus(i)' = Seen(i, located', generation', HeldSet')
  BY <1>2 DEF HandleStatus, Seen
<1> QED
  BY <1>3, <1>4

-----------------------------------------------------------------------------
(* Changes of the three sets that are steps of the pool. *)

\* More is held, or nothing has changed.
LEMMA HandStep ==
  ASSUME Apart, Apart', UNCHANGED <<located, generation>>, HeldSet \subseteq HeldSet'
  PROVE  Pool!Next
<1> DEFINE S == HeldSet' \ HeldSet
<1>1. S \in SUBSET Index
  BY DEF HeldSet, Index
<1>2. \A i \in S : HandleStatus(i) = "free"
  BY <1>1, StatusSeen DEF Apart, Seen
<1>3. \A i \in Index : HandleStatus(i)' = IF i \in S THEN "held" ELSE HandleStatus(i)
  BY StatusSeen DEF Apart, Seen
<1> HIDE DEF S
<1>4. Pool!Hand(S)
  BY <1>1, <1>2, <1>3 DEF Pool!Hand, Pool!Become
<1> QED
  BY <1>1, <1>4 DEF Pool!Next

\* Less is held.
LEMMA ReturnStep ==
  ASSUME Apart, Apart', UNCHANGED <<located, generation>>, HeldSet' \subseteq HeldSet
  PROVE  Pool!Next
<1> DEFINE S == HeldSet \ HeldSet'
<1>1. S \in SUBSET Index
  BY DEF HeldSet
<1>2. \A i \in S : HandleStatus(i) = "held"
  BY <1>1, StatusSeen DEF Apart, Seen
<1>3. \A i \in Index : HandleStatus(i)' = IF i \in S THEN "free" ELSE HandleStatus(i)
  BY StatusSeen DEF Apart, Seen
<1> HIDE DEF S
<1>4. Pool!GiveBack(S)
  BY <1>1, <1>2, <1>3 DEF Pool!GiveBack, Pool!Become
<1> QED
  BY <1>1, <1>4 DEF Pool!Next

\* The indices M, which were held, are located.
LEMMA LiveStep ==
  ASSUME Apart, NEW M \in SUBSET HeldSet, generation' = generation,
         located' = located \cup M, HeldSet' = HeldSet \ M
  PROVE  Pool!Next
<1>1. M \in SUBSET Index
  BY DEF HeldSet
<1>2. \A i \in M : HandleStatus(i) = "held"
  BY <1>1, StatusSeen DEF Apart, Seen
<1>3. \A i \in Index : HandleStatus(i)' = IF i \in M THEN "live" ELSE HandleStatus(i)
  BY StatusSeen DEF Apart, Seen
<1>4. Pool!GoLive(M)
  BY <1>1, <1>2, <1>3 DEF Pool!GoLive, Pool!Become
<1> QED
  BY <1>1, <1>4 DEF Pool!Next

\* A located index is free again with the next generation, or retired.
LEMMA DieStep ==
  ASSUME Apart, NEW i \in located,
         generation' = [generation EXCEPT ![i] = NextGen(@)],
         located' = located \ {i}, HeldSet' = HeldSet
  PROVE  Pool!Next
<1>1. i \in Index /\ generation[i] \in Gen /\ generation[i] < MaxGen /\ i \notin HeldSet
  BY ConstantsAssumption DEF Apart, Gen
<1>2. NextGen(generation[i]) = generation[i] + 1
  BY <1>1, ConstantsAssumption DEF NextGen, Gen
<1>3. /\ generation' = [generation EXCEPT ![i] = generation[i] + 1]
      /\ \A j \in Index : generation'[j] = IF j = i THEN generation[i] + 1 ELSE generation[j]
  BY <1>1, <1>2 DEF Apart
<1>4. HandleStatus(i) = "live"
  BY <1>1, StatusSeen DEF Seen
<1>5. \A j \in Index :
        HandleStatus(j)' = IF j \in {i} THEN IF generation[i] + 1 = MaxGen THEN "retired" ELSE "free"
                           ELSE HandleStatus(j)
  BY <1>1, <1>3, StatusSeen DEF Seen
<1>6. Pool!Die(i)
  BY <1>1, <1>3, <1>4, <1>5 DEF Pool!Die, Pool!Become
<1> QED
  BY <1>1, <1>6 DEF Pool!Next

-----------------------------------------------------------------------------
(* The steps of the allocator.                                             *)

\* Ids appended to a queue are held; the others still are.
LEMMA QueueGrows ==
  ASSUME IInv, NEW b \in Buffers, NEW ids \in Seq(Entity),
         queue' = [queue EXCEPT ![b] = @ \o ids], mine' = mine
  PROVE  HeldSet \subseteq HeldSet'
<1>1. queue \in [Buffers -> Seq(Entity)]
  BY DEF IInv, TypeOK
<1>2. /\ \A c \in Buffers \ {b} : queue'[c] = queue[c]
      /\ EntityIndices(queue'[b]) = EntityIndices(queue[b]) \cup EntityIndices(ids)
  BY <1>1, EntityConcat
<1> QED
  BY <1>2 DEF HeldSet, QueueSet, MineSet, Index

\* So are those of the main thread.
LEMMA MineFilled ==
  ASSUME mine = <<>>, queue' = queue
  PROVE  HeldSet \subseteq HeldSet'
BY NoEntities DEF HeldSet, MineSet, QueueSet, Index

LEMMA HeldUnchanged == queue' = queue /\ mine' = mine => HeldSet' = HeldSet
BY DEF HeldSet, MineSet, QueueSet, Index

LEMMA ReserveSteps ==
  ASSUME IInv, NEW b \in Buffers,
         \/ \E n \in 1 .. MaxBatch : ReserveFromBlock(b, n) \/ ReserveFromLease(b, n)
         \/ ReserveFresh(b)
  PROVE  HeldSet \subseteq HeldSet' /\ UNCHANGED <<located, generation>>
<1>1. ASSUME NEW n \in 1 .. MaxBatch, ReserveFromBlock(b, n)
      PROVE  HeldSet \subseteq HeldSet' /\ UNCHANGED <<located, generation>>
  <2>1. tail[b] \in Seq(Entity) /\ n \in 0 .. Len(tail[b])
    <3>1. n \in Nat /\ n <= Len(tail[b]) /\ tail[b] \in Seq(Entity)
      BY <1>1, IndexArithmetic DEF ReserveFromBlock, IInv, TypeOK
    <3> QED
      BY <3>1, LenProperties
  <2>2. SubSeq(tail[b], 1, n) \in Seq(Entity)
    BY <2>1, SplitFacts
  <2> QED
    BY <1>1, <2>2, QueueGrows DEF ReserveFromBlock, mainVars, recordVars
<1>2. ASSUME NEW n \in 1 .. MaxBatch, ReserveFromLease(b, n)
      PROVE  HeldSet \subseteq HeldSet' /\ UNCHANGED <<located, generation>>
  <2>1. LeaseSlots(n) \in Seq(Entity)
    BY IndexArithmetic, LeaseFacts DEF IInv, Distinct
  <2> QED
    BY <1>2, <2>1, QueueGrows DEF ReserveFromLease, mainVars, recordVars
<1>3. ASSUME ReserveFresh(b)
      PROVE  HeldSet \subseteq HeldSet' /\ UNCHANGED <<located, generation>>
  <2>1. FreshIds(need[b]) \in Seq(Entity)
    BY <1>3, FreshFacts DEF IInv, TypeOK, ReserveFresh
  <2> QED
    BY <1>3, <2>1, QueueGrows DEF ReserveFresh, mainVars, recordVars
<1> QED
  BY <1>1, <1>2, <1>3

LEMMA AllocateSteps ==
  ASSUME IInv,
         \/ Allocate \/ AllocateFromLease \/ AllocateFresh
         \/ \E n \in 1 .. MaxBatch : AllocateBatch(n)
  PROVE  HeldSet \subseteq HeldSet' /\ UNCHANGED <<located, generation>>
<1>1. CASE Allocate \/ AllocateFromLease \/ \E n \in 1 .. MaxBatch : AllocateBatch(n)
  <2>1. mine = <<>>
    BY <1>1 DEF Allocate, AllocateFromLease, AllocateBatch, MainIdle, IInv, Shape
  <2>2. queue' = queue /\ UNCHANGED <<located, generation>>
    BY <1>1 DEF Allocate, AllocateFromLease, AllocateBatch, bufferVars, recordVars
  <2> QED
    BY <2>1, <2>2, MineFilled
<1>2. CASE AllocateFresh
  <2>1. FreshIds(mainNeed) \in Seq(Entity) /\ mine \in Seq(Entity)
    BY <1>2, FreshFacts DEF IInv, TypeOK, AllocateFresh
  <2>2. MineSet' = MineSet \cup EntityIndices(FreshIds(mainNeed))
    BY <1>2, <2>1, EntityConcat DEF MineSet, AllocateFresh
  <2>3. queue' = queue /\ UNCHANGED <<located, generation>>
    BY <1>2 DEF AllocateFresh, bufferVars
  <2> QED
    BY <2>2, <2>3 DEF HeldSet, QueueSet, Index
<1> QED
  BY <1>1, <1>2

\* What nobody outside sees: flushes, blocks and the abandon queue's flag.
LEMMA HiddenSteps ==
  ASSUME \/ Flush
         \/ \E b \in Buffers : \/ PublishAbandoned(b) \/ BeginApply(b) \/ EndApply(b)
                               \/ ReclaimBlockTail(b)
                               \/ \E n \in 1 .. MaxBatch : SeedBlock(b, n)
  PROVE  HeldSet' = HeldSet /\ UNCHANGED <<located, generation>>
<1>1. queue' = queue /\ mine' = mine /\ UNCHANGED <<located, generation>>
  BY DEF Flush, BeginApply, FlushBody, PublishAbandoned, EndApply, ReclaimBlockTail,
     SeedBlock, bufferVars, mainVars, recordVars
<1> QED
  BY <1>1, HeldUnchanged

LEMMA AbandonReturns ==
  ASSUME IInv, NEW b \in Buffers, Abandon(b)
  PROVE  HeldSet' \subseteq HeldSet /\ UNCHANGED <<located, generation>>
<1>1. queue' = [queue EXCEPT ![b] = <<>>] /\ queue \in [Buffers -> Seq(Entity)]
      /\ mine' = mine /\ UNCHANGED <<located, generation>>
  BY DEF Abandon, IInv, TypeOK, mainVars, recordVars
<1>2. QueueSet(b)' = {} /\ \A c \in Buffers \ {b} : QueueSet(c)' = QueueSet(c)
  BY <1>1, NoEntities DEF QueueSet
<1> QED
  BY <1>1, <1>2 DEF HeldSet, MineSet, Index

\* Every index in a queue or in the main thread's hands names its place, so
\* taking one away there takes it from the held ones.
LEMMA LocateMineLives ==
  ASSUME IInv, LocateMine
  PROVE  /\ MineSet \in SUBSET HeldSet /\ generation' = generation
         /\ located' = located \cup MineSet /\ HeldSet' = HeldSet \ MineSet
<1>1. PICK owner \in [Index -> Kinds], of \in [Index -> Holder] : Owned(owner, of)
  BY DEF IInv, OneOwner
<1>2. MineSet \subseteq Index
  BY IndicesFacts DEF IInv, TypeOK, MineSet
<1>3. /\ mine' = <<>> /\ queue' = queue /\ generation' = generation
      /\ located' = located \cup MineSet
  BY DEF LocateMine, MineSet, EntityIndices, bufferVars
<1>4. MineSet' = {} /\ \A b \in Buffers : QueueSet(b)' = QueueSet(b)
  BY <1>3, NoEntities DEF MineSet, QueueSet
<1>5. \A i \in Index : i \in MineSet => \A b \in Buffers : i \notin QueueSet(b)
  BY <1>1 DEF Owned
<1> QED
  BY <1>2, <1>3, <1>4, <1>5 DEF HeldSet, Index

LEMMA ApplySpawnLives ==
  ASSUME IInv, NEW b \in Buffers, ApplySpawn(b)
  PROVE  \E M \in SUBSET HeldSet :
           /\ generation' = generation
           /\ located' = located \cup M /\ HeldSet' = HeldSet \ M
<1> DEFINE e == Head(queue[b])
           M == {e.index}
<1>1. PICK owner \in [Index -> Kinds], of \in [Index -> Holder] : Owned(owner, of)
  BY DEF IInv, OneOwner
<1>2. /\ queue[b] \in Seq(Entity) /\ queue \in [Buffers -> Seq(Entity)]
      /\ queue[b] # <<>> /\ IsInjective(Indices(queue[b]))
      /\ AllGen(queue[b], generation)
  BY DEF IInv, TypeOK, Distinct, GenCurrent, ApplySpawn
<1>3. /\ e.index \in Index /\ generation[e.index] = e.gen
      /\ QueueSet(b) = M \cup EntityIndices(Tail(queue[b]))
      /\ e.index \notin EntityIndices(Tail(queue[b]))
  BY <1>2, HeadFacts, EntityFields DEF QueueSet
<1>4. owner[e.index] = "queue" /\ of[e.index] = b
  BY <1>1, <1>3 DEF Owned
<1>5. e.index \notin located /\ e.index \notin MineSet
      /\ \A c \in Buffers \ {b} : e.index \notin QueueSet(c)
  BY <1>1, <1>3, <1>4 DEF Owned
<1>6. /\ queue' = [queue EXCEPT ![b] = Tail(queue[b])]
      /\ located' = located \cup M
      /\ generation' = generation /\ mine' = mine
  BY <1>3, <1>5 DEF ApplySpawn, IsAlive, mainVars
<1>7. /\ QueueSet(b)' = QueueSet(b) \ M
      /\ \A c \in Buffers \ {b} : QueueSet(c)' = QueueSet(c)
      /\ MineSet' = MineSet
  BY <1>2, <1>3, <1>6 DEF QueueSet, MineSet
<1> HIDE DEF e
<1>8. M \in SUBSET HeldSet
  BY <1>3 DEF HeldSet
<1>9. HeldSet' = HeldSet \ M
  BY <1>3, <1>5, <1>7 DEF HeldSet, Index
<1> QED
  BY <1>6, <1>8, <1>9

LEMMA NextPool == IInv /\ IInv' /\ Next => Pool!Next
<1> SUFFICES ASSUME IInv, IInv', Next PROVE Pool!Next
  OBVIOUS
<1>1. Apart
  BY IInvApart
<1>2. Apart'
  BY IInvApart, PTL
<1>3. CASE /\ HeldSet \subseteq HeldSet' /\ UNCHANGED <<located, generation>>
  BY <1>1, <1>2, <1>3, HandStep
<1>4. ASSUME NEW b \in Buffers, BufferStep(b) PROVE Pool!Next
  <2>1. CASE Abandon(b)
    BY <1>1, <1>2, <2>1, AbandonReturns, ReturnStep
  <2>2. CASE PublishAbandoned(b)
    BY <1>3, <2>2, HiddenSteps
  <2>3. CASE ~Abandon(b) /\ ~PublishAbandoned(b)
    BY <1>3, <1>4, <2>3, ReserveSteps DEF BufferStep
  <2> QED
    BY <2>1, <2>2, <2>3
<1>5. ASSUME NEW b \in Buffers, SyncStep(b) PROVE Pool!Next
  <2>1. CASE ApplySpawn(b)
    BY <1>1, <2>1, ApplySpawnLives, LiveStep
  <2>2. CASE ~ApplySpawn(b)
    BY <1>3, <1>5, <2>2, HiddenSteps DEF SyncStep
  <2> QED
    BY <2>1, <2>2
<1>6. CASE MainStep
  <2>1. CASE LocateMine
    BY <1>1, <2>1, LocateMineLives, LiveStep
  <2>2. ASSUME NEW i \in Index, Despawn(i) PROVE Pool!Next
    <3>1. /\ i \in located /\ located' = located \ {i}
          /\ generation' = [generation EXCEPT ![i] = NextGen(@)]
          /\ queue' = queue /\ mine' = mine
      BY <2>2 DEF Despawn, bufferVars, mainVars
    <3> QED
      BY <1>1, <3>1, HeldUnchanged, DieStep
  <2>3. CASE Flush
    BY <1>3, <2>3, HiddenSteps
  <2>4. CASE ~LocateMine /\ ~Flush /\ ~\E i \in Index : Despawn(i)
    BY <1>3, <1>6, <2>4, AllocateSteps DEF MainStep
  <2> QED
    BY <2>1, <2>2, <2>3, <2>4
<1> QED
  BY <1>4, <1>5, <1>6 DEF Next

LEMMA InitPool == Init => Pool!Init
<1> SUFFICES ASSUME Init PROVE Pool!Init
  OBVIOUS
<1>1. \A i \in Index : generation[i] = 0 /\ MaxGen # 0 /\ i \notin located
  BY ConstantsAssumption DEF Init
<1>2. HeldSet = {}
  BY NoEntities DEF Init, HeldSet, MineSet, QueueSet
<1>3. \A i \in Index : HandleStatus(i) = "free"
  BY <1>1, <1>2, StatusSeen DEF Seen
<1> QED
  BY <1>3 DEF Init, Pool!Init

\* The lease, the blocks, the free list and the abandon queue, with all the races
\* between reservations and the main thread, are the pool of handles: an index
\* goes to one holder, is located once, and comes back free or dies for good.
THEOREM AllocatorIsAPool == Spec => ImplementsPool
<1>1. IInv /\ IInv' /\ [Next]_vars => [Pool!Next]_(Pool!vars)
  <2> SUFFICES ASSUME IInv, IInv', [Next]_vars
               PROVE  Pool!Next \/ UNCHANGED Pool!vars
    OBVIOUS
  <2>1. CASE UNCHANGED vars
    <3>1. /\ HeldSet' = HeldSet /\ UNCHANGED <<located, generation>>
      BY <2>1, HeldUnchanged DEF vars, recordVars, bufferVars, mainVars
    <3>2. \A i \in Index : HandleStatus(i)' = HandleStatus(i)
      BY <3>1, StatusSeen
    <3> QED
      BY <3>1, <3>2 DEF Pool!vars
  <2> QED
    BY <2>1, NextPool
<1> QED
  BY <1>1, InitPool, Invariance, PTL DEF Spec, ImplementsPool, Pool!Spec

-----------------------------------------------------------------------------
(* The records keep step with their use.                                   *)

\* Indices with a record.
Covered(M) == \A i \in M : i < nrecords

\* The lease and the main thread's ids have records, and so has the block of a
\* buffer from the flush that begins its application on.
TailsCovered ==
  \A b \in Buffers : binding[b] = "applied" \/ (applying = b /\ binding[b] = "block")
                       => Covered(TailSet(b))

\* The inductive invariant: the count is exact, and what is free, leased, held by
\* the main thread, located or in a block being applied has a record.
RecordInv ==
  /\ live = Cardinality(located)
  /\ Covered(FreeSet) /\ Covered(located)
  /\ Covered(LeaseSet) /\ Covered(MineSet)
  /\ TailsCovered

LEMMA LocatedFinite ==
  ASSUME IInv
  PROVE  IsFiniteSet(located) /\ Cardinality(located) \in Nat
<1>1. IsFiniteSet(Index)
  BY IndexArithmetic, FS_Interval DEF Index
<1>2. located \subseteq Index
  BY DEF IInv, TypeOK
<1> QED
  BY <1>1, <1>2, FS_Subset, FS_CardinalityType

LEMMA PlaceTypes ==
  ASSUME IInv
  PROVE  /\ FreeSet \subseteq Index /\ LeaseSet \subseteq Index /\ DroppedSet \subseteq Index
         /\ MineSet \subseteq Index /\ located \subseteq Index
         /\ \A b \in Buffers : QueueSet(b) \subseteq Index /\ TailSet(b) \subseteq Index
<1>1. FreeSet \subseteq Index /\ DroppedSet \subseteq Index
  BY RangeInIndex DEF FreeSet, DroppedSet, IInv, TypeOK
<1>2. LeaseSet \subseteq Index
  BY LeasedInIndex DEF LeaseSet, IInv
<1>3. MineSet \subseteq Index /\ \A b \in Buffers : QueueSet(b) \subseteq Index /\ TailSet(b) \subseteq Index
  BY IndicesFacts DEF MineSet, QueueSet, TailSet, IInv, TypeOK
<1> QED
  BY <1>1, <1>2, <1>3 DEF IInv, TypeOK

\* Issued indices are below the high-water mark.
LEMMA PlacesIssued ==
  ASSUME IInv
  PROVE  /\ \A i \in FreeSet \cup LeaseSet \cup MineSet \cup DroppedSet : i < highWater
         /\ \A b \in Buffers : \A i \in QueueSet(b) \cup TailSet(b) : i < highWater
<1>1. PICK owner \in [Index -> Kinds], of \in [Index -> Holder] : Owned(owner, of)
  BY DEF IInv, OneOwner
<1>2. \A i \in Index : i \in Int /\ (owner[i] # "unissued" => i < highWater)
  BY <1>1 DEF Owned, IInv, TypeOK, Index
<1>3. \A i \in FreeSet \cup LeaseSet \cup MineSet \cup DroppedSet : owner[i] # "unissued" /\ i \in Index
  BY <1>1, PlaceTypes DEF Owned
<1>4. \A b \in Buffers : \A i \in QueueSet(b) \cup TailSet(b) : owner[i] # "unissued" /\ i \in Index
  BY <1>1, PlaceTypes DEF Owned
<1> QED
  BY <1>2, <1>3, <1>4

LEMMA RecordsInv == ASSUME IInv, RecordInv PROVE RecordsInStep
<1>1. \A k \in 1 .. Len(freeList) : freeList[k] \in FreeSet
  BY LenProperties DEF FreeSet, Range, IInv, TypeOK
<1>2. \A b \in Buffers : \A k \in 1 .. Len(tail[b]) : tail[b][k].index \in TailSet(b)
  BY DEF TailSet, EntityIndices
<1> QED
  BY <1>1, <1>2 DEF RecordInv, TailsCovered, Covered, RecordsInStep

\* What has a record stays recorded, and the rest is new.
LEMMA CoverStep ==
  ASSUME IInv, RecordInv, IInv', nrecords' >= nrecords, live' = Cardinality(located'),
         NEW N, \A i \in N : i < nrecords',
         FreeSet' \cup LeaseSet' \cup MineSet' \cup located'
            \subseteq FreeSet \cup LeaseSet \cup MineSet \cup located \cup N,
         TailsCovered'
  PROVE  RecordInv'
<1>1. nrecords \in Int /\ nrecords' \in Int /\ \A i \in Index : i \in Int
  BY DEF IInv, TypeOK, Index
<1>2. \A i \in FreeSet \cup LeaseSet \cup MineSet \cup located : i \in Index /\ i < nrecords
  BY PlaceTypes DEF RecordInv, TailsCovered, Covered
<1>3. \A i \in FreeSet' \cup LeaseSet' \cup MineSet' \cup located' : i < nrecords'
  BY <1>1, <1>2
<1> QED
  BY <1>3 DEF RecordInv, TailsCovered, Covered

LEMMA TailsKept ==
  ASSUME IInv, RecordInv, IInv', nrecords' >= nrecords, UNCHANGED <<binding, tail, applying>>
  PROVE  TailsCovered'
<1>1. nrecords \in Int /\ nrecords' \in Int /\ \A i \in Index : i \in Int
  BY DEF IInv, TypeOK, Index
<1>2. \A b \in Buffers : TailSet(b)' = TailSet(b) /\ TailSet(b) \subseteq Index
  BY PlaceTypes DEF TailSet
<1> QED
  BY <1>1, <1>2 DEF RecordInv, TailsCovered, Covered

\* A block is seeded and drawn from only before its application.
KeepsBlock(b) ==
  \/ binding'[b] = binding[b] /\ tail'[b] = tail[b]
  \/ binding'[b] = "block" /\ applying # b

\* Reservations, and what abandons them, take from the lease and no more.
LEMMA ReservationRecords ==
  ASSUME IInv, RecordInv, IInv', UNCHANGED <<recordVars, freeList, applying, mine>>,
         NEW n \in Nat, lease' = lease \/ TakeFromLease(n),
         \A b \in Buffers : KeepsBlock(b)
  PROVE  RecordInv'
<1>1. LeaseSet' \subseteq LeaseSet
  <2>1. CASE lease' = lease
    BY <2>1 DEF LeaseSet
  <2>2. CASE TakeFromLease(n)
    <3>1. lease' = Decremented(n)
      BY <2>2 DEF TakeFromLease, Decremented
    <3>2. Leased(Decremented(n)) \subseteq Leased(lease)
      BY LeaseFacts DEF IInv, Distinct
    <3> QED
      BY <3>1, <3>2 DEF LeaseSet
  <2> QED
    BY <2>1, <2>2
<1>2. FreeSet' = FreeSet /\ MineSet' = MineSet /\ located' = located
      /\ nrecords' = nrecords /\ live' = live
  BY DEF FreeSet, MineSet, recordVars
<1>3. ASSUME NEW b \in Buffers, binding'[b] = "applied" \/ (applying' = b /\ binding'[b] = "block"),
             NEW i \in TailSet(b)'
      PROVE  i < nrecords'
  <2>1. binding'[b] = binding[b] /\ tail'[b] = tail[b] /\ applying' = applying
    BY <1>3, ConstantsAssumption DEF KeepsBlock
  <2> QED
    BY <1>2, <1>3, <2>1 DEF RecordInv, TailsCovered, Covered, TailSet
<1>5. TailsCovered'
  BY <1>3 DEF TailsCovered, Covered
<1>4. nrecords' >= nrecords
  BY <1>2 DEF IInv, TypeOK
<1> DEFINE N == {}
<1>6. FreeSet' \cup LeaseSet' \cup MineSet' \cup located'
         \subseteq FreeSet \cup LeaseSet \cup MineSet \cup located \cup N
  BY <1>1, <1>2
<1>7. \A i \in N : i < nrecords'
  OBVIOUS
<1> HIDE DEF N
<1>8. live' = Cardinality(located')
  BY <1>2 DEF RecordInv
<1> QED
  BY <1>4, <1>5, <1>6, <1>7, <1>8, CoverStep

LEMMA BufferRecords ==
  ASSUME IInv, RecordInv, IInv', NEW b \in Buffers, BufferStep(b) PROVE RecordInv'
<1>1. CASE \E n \in 1 .. MaxBatch : ReserveFromBlock(b, n)
  <2>1. /\ UNCHANGED <<recordVars, freeList, applying, mine>> /\ lease' = lease
        /\ \A c \in Buffers \ {b} : tail'[c] = tail[c]
        /\ binding' = binding /\ binding[b] = "block" /\ applying # b
    BY <1>1 DEF ReserveFromBlock, Idle, poolVars, mainVars, IInv, TypeOK
  <2>2. 0 \in Nat /\ \A c \in Buffers : KeepsBlock(c)
    BY <2>1 DEF KeepsBlock
  <2> QED
    BY <2>1, <2>2, ReservationRecords
<1>2. CASE \E n \in 1 .. MaxBatch : ReserveFromLease(b, n)
  <2>1. PICK n \in 1 .. MaxBatch : ReserveFromLease(b, n)
    BY <1>2
  <2>2. n \in Nat
    BY IndexArithmetic
  <2>3. /\ UNCHANGED <<recordVars, freeList, applying, mine>> /\ TakeFromLease(n)
        /\ tail' = tail /\ binding' = binding
    BY <2>1 DEF ReserveFromLease, mainVars
  <2>4. \A c \in Buffers : KeepsBlock(c)
    BY <2>3 DEF KeepsBlock
  <2> QED
    BY <2>2, <2>3, <2>4, ReservationRecords
<1>3. CASE ReserveFresh(b) \/ Abandon(b) \/ PublishAbandoned(b)
  <2>1. /\ UNCHANGED <<recordVars, freeList, applying, mine>> /\ lease' = lease
        /\ tail' = tail /\ binding' = binding
    BY <1>3 DEF ReserveFresh, Abandon, PublishAbandoned, poolVars, mainVars, bufferVars
  <2>2. 0 \in Nat /\ \A c \in Buffers : KeepsBlock(c)
    BY <2>1 DEF KeepsBlock
  <2> QED
    BY <2>1, <2>2, ReservationRecords
<1> QED
  BY <1>1, <1>2, <1>3 DEF BufferStep

LEMMA SeedBlockRecords ==
  ASSUME IInv, RecordInv, IInv', NEW b \in Buffers, NEW n \in 1 .. MaxBatch, SeedBlock(b, n)
  PROVE  RecordInv'
<1>1. n \in Nat
  BY IndexArithmetic
<1>2. /\ UNCHANGED <<recordVars, freeList, applying, mine>> /\ TakeFromLease(n)
      /\ \A c \in Buffers \ {b} : tail'[c] = tail[c] /\ binding'[c] = binding[c]
      /\ binding'[b] = "block" /\ applying # b
  BY DEF SeedBlock, Idle, mainVars, IInv, TypeOK
<1>3. \A c \in Buffers : KeepsBlock(c)
  BY <1>2 DEF KeepsBlock
<1> QED
  BY <1>1, <1>2, <1>3, ReservationRecords

LEMMA ReclaimRecords ==
  ASSUME IInv, RecordInv, IInv', NEW b \in Buffers, ReclaimBlockTail(b) PROVE RecordInv'
<1>1. /\ UNCHANGED <<recordVars, lease, applying, mine>>
      /\ freeList' = freeList \o Indices(tail[b])
      /\ \A c \in Buffers \ {b} : tail'[c] = tail[c] /\ binding'[c] = binding[c]
      /\ binding'[b] = "shared" /\ binding[b] = "applied"
  BY DEF ReclaimBlockTail, mainVars, IInv, TypeOK
<1>2. FreeSet' = FreeSet \cup TailSet(b)
  <2>1. freeList \in Seq(Index) /\ tail[b] \in Seq(Entity)
    BY DEF IInv, TypeOK
  <2> DEFINE s == Indices(tail[b])
  <2>2. s \in Seq(Index) /\ Range(s) = TailSet(b)
    BY <2>1, IndicesFacts DEF TailSet
  <2> HIDE DEF s
  <2>3. Range(freeList \o s) = Range(freeList) \cup Range(s)
    BY <2>1, <2>2, ConcatFacts
  <2> QED
    BY <1>1, <2>2, <2>3 DEF FreeSet, s
<1>3. /\ nrecords' = nrecords /\ located' = located /\ live' = live
      /\ LeaseSet' = LeaseSet /\ MineSet' = MineSet
  BY <1>1 DEF recordVars, LeaseSet, MineSet
<1>4. ASSUME NEW c \in Buffers, binding'[c] = "applied" \/ (applying' = c /\ binding'[c] = "block"),
             NEW i \in TailSet(c)'
      PROVE  i < nrecords'
  BY <1>1, <1>3, <1>4 DEF RecordInv, TailsCovered, Covered, TailSet
<1>5. TailsCovered'
  BY <1>4 DEF TailsCovered, Covered
<1>6. nrecords' >= nrecords
  BY <1>3 DEF IInv, TypeOK
<1>7. \A i \in TailSet(b) : i < nrecords'
  BY <1>1, <1>3 DEF RecordInv, TailsCovered, Covered
<1> QED
  BY <1>2, <1>3, <1>5, <1>6, <1>7, CoverStep DEF RecordInv

LEMMA EndApplyRecords ==
  ASSUME IInv, RecordInv, IInv', NEW b \in Buffers, EndApply(b) PROVE RecordInv'
<1>1. /\ UNCHANGED <<recordVars, freeList, lease, tail, mine>>
      /\ applying = b /\ applying' = NoBuffer
      /\ \A c \in Buffers : binding'[c] = IF c = b /\ binding[c] = "block" THEN "applied" ELSE binding[c]
  BY DEF EndApply, mainVars, poolVars, IInv, TypeOK
<1>2. /\ nrecords' = nrecords /\ located' = located /\ live' = live
      /\ LeaseSet' = LeaseSet /\ MineSet' = MineSet /\ FreeSet' = FreeSet
  BY <1>1 DEF recordVars, LeaseSet, MineSet, FreeSet
<1>3. ASSUME NEW c \in Buffers, binding'[c] = "applied" \/ (applying' = c /\ binding'[c] = "block"),
             NEW i \in TailSet(c)'
      PROVE  i < nrecords'
  <2>1. applying' # c
    BY <1>1, ConstantsAssumption DEF ConstantsAssumption
  <2> QED
    BY <1>1, <1>2, <1>3, <2>1 DEF RecordInv, TailsCovered, Covered, TailSet
<1>5. TailsCovered'
  BY <1>3 DEF TailsCovered, Covered
<1>4. nrecords' >= nrecords
  BY <1>2 DEF IInv, TypeOK
<1> DEFINE N == {}
<1>6. FreeSet' \cup LeaseSet' \cup MineSet' \cup located'
         \subseteq FreeSet \cup LeaseSet \cup MineSet \cup located \cup N
  BY <1>2
<1>7. \A i \in N : i < nrecords'
  OBVIOUS
<1> HIDE DEF N
<1>8. live' = Cardinality(located')
  BY <1>2 DEF RecordInv
<1> QED
  BY <1>4, <1>5, <1>6, <1>7, <1>8, CoverStep

LEMMA FlushRecords ==
  ASSUME IInv, RecordInv, IInv', FlushBody PROVE RecordInv'
<1> DEFINE D == IF pending THEN DroppedSet ELSE {}
           l == LeaseOf(Leasable)
<1>1. /\ nrecords' = Larger(nrecords, highWater)
      /\ highWater' = highWater
      /\ UNCHANGED <<located, live, tail, mine>>
      /\ freeList' = <<>>
      /\ lease' = IF NothingToReconcile THEN lease ELSE l
  BY DEF FlushBody, bufferVars, mainVars
<1>2. /\ nrecords \in Int /\ highWater \in Int /\ nrecords' \in Int
      /\ nrecords' >= nrecords /\ nrecords' >= highWater /\ \A i \in Index : i \in Int
  <2>1. nrecords \in Int /\ highWater \in Int /\ \A i \in Index : i \in Int
    BY DEF IInv, TypeOK, Index
  <2> QED
    BY <1>1, <2>1 DEF Larger
<1>3. Leased(l) = FreeSet \cup D \cup LeaseSet
  BY LeasableFacts, LeaseOfFacts DEF IInv, TypeOK
<1> HIDE DEF l
<1>4. LeaseSet' \subseteq FreeSet \cup DroppedSet \cup LeaseSet
  BY <1>1, <1>3 DEF LeaseSet
<1>5. FreeSet' = {} /\ MineSet' = MineSet /\ \A b \in Buffers : TailSet(b)' = TailSet(b)
  BY <1>1, NoEntities DEF FreeSet, MineSet, TailSet
<1> DEFINE N == {i \in Index : i < nrecords'}
<1>6. /\ FreeSet \cup DroppedSet \cup LeaseSet \cup MineSet \subseteq N
      /\ \A b \in Buffers : TailSet(b) \subseteq N
  BY <1>2, PlaceTypes, PlacesIssued
<1>7. \A i \in N : i < nrecords'
  OBVIOUS
<1> HIDE DEF N
<1>8. TailsCovered'
  BY <1>5, <1>6, <1>7 DEF TailsCovered, Covered
<1>9. live' = Cardinality(located')
  BY <1>1 DEF RecordInv
<1> QED
  BY <1>1, <1>2, <1>4, <1>5, <1>6, <1>7, <1>8, <1>9, CoverStep

LEMMA LocateMineRecords ==
  ASSUME IInv, RecordInv, IInv', LocateMine PROVE RecordInv'
<1>1. /\ located' = located \cup MineSet /\ live' = live + Len(mine) /\ nrecords' = nrecords
      /\ mine' = <<>> /\ lease' = lease /\ freeList' = freeList
      /\ UNCHANGED <<binding, tail, applying>>
  BY DEF LocateMine, MineSet, EntityIndices, poolVars, bufferVars
<1>2. MineSet' = {}
  BY <1>1, NoEntities DEF MineSet
<1>3. /\ mine \in Seq(Entity) /\ Len(mine) \in Nat
      /\ \A j, k \in 1 .. Len(mine) : mine[j].index = mine[k].index => j = k
  <2>1. mine \in Seq(Entity) /\ Len(mine) \in Nat
    BY LenProperties DEF IInv, TypeOK
  <2>2. IsInjective(Indices(mine)) /\ DOMAIN Indices(mine) = 1 .. Len(mine)
        /\ \A k \in 1 .. Len(mine) : Indices(mine)[k] = mine[k].index
    BY <2>1, IndicesFacts DEF IInv, Distinct, Indices
  <2> QED
    BY <2>1, <2>2 DEF IsInjective
<1>4. located \cap MineSet = {}
  <2>1. PICK owner \in [Index -> Kinds], of \in [Index -> Holder] : Owned(owner, of)
    BY DEF IInv, OneOwner
  <2> QED
    BY <2>1, PlaceTypes DEF Owned
<1>5. IsFiniteSet(MineSet) /\ Cardinality(MineSet) = Len(mine)
  <2> DEFINE f == [k \in 1 .. Len(mine) |-> mine[k].index]
  <2>1. f \in Bijection(1 .. Len(mine), MineSet)
    <3>1. f \in [1 .. Len(mine) -> MineSet]
      BY DEF MineSet, EntityIndices
    <3>2. \A i \in MineSet : \E k \in 1 .. Len(mine) : f[k] = i
      BY DEF MineSet, EntityIndices
    <3>3. \A j, k \in 1 .. Len(mine) : f[j] = f[k] => j = k
      BY <1>3
    <3> HIDE DEF f
    <3> QED
      BY <3>1, <3>2, <3>3 DEF Bijection, Injection, Surjection, IsInjective
  <2>2. ExistsBijection(1 .. Len(mine), MineSet)
    BY <2>1 DEF ExistsBijection
  <2>3. IsFiniteSet(1 .. Len(mine)) /\ Cardinality(1 .. Len(mine)) = Len(mine)
    <3> DEFINE n == Len(mine)
    <3>1. 1 \in Int /\ n \in Int /\ n \in Nat
      BY <1>3
    <3> HIDE DEF n
    <3>2. IsFiniteSet(1 .. n) /\ Cardinality(1 .. n) = IF 1 > n THEN 0 ELSE n - 1 + 1
      BY <3>1, FS_Interval
    <3>3. Cardinality(1 .. n) = n
      BY <3>1, <3>2
    <3> QED
      BY <3>2, <3>3 DEF n
  <2> QED
    BY <2>2, <2>3, FS_Bijection
<1>6. Cardinality(located \cup MineSet) = Cardinality(located) + Cardinality(MineSet)
  <2>1. IsFiniteSet(located) /\ Cardinality(located) \in Nat
    BY LocatedFinite
  <2>2. Cardinality(located \cup MineSet)
          = Cardinality(located) + Cardinality(MineSet) - Cardinality({})
    BY <1>4, <1>5, <2>1, FS_Union
  <2>3. Cardinality(MineSet) \in Nat /\ Cardinality({}) = 0
    BY <1>5, FS_CardinalityType, FS_EmptySet
  <2> QED
    BY <2>1, <2>2, <2>3
<1>7. \A i \in located' : i < nrecords'
  BY <1>1 DEF RecordInv, TailsCovered, Covered
<1> QED
  BY <1>1, <1>2, <1>5, <1>6, <1>7 DEF RecordInv, TailsCovered, Covered, FreeSet, LeaseSet, TailSet
\* The main thread's allocations move covered indices, or cover the fresh ones.
LEMMA MineRecords ==
  ASSUME IInv, RecordInv, IInv', UNCHANGED <<live, located, bufferVars, applying>>,
         nrecords' >= nrecords, NEW N, \A i \in N : i < nrecords',
         FreeSet' \subseteq FreeSet, LeaseSet' \subseteq LeaseSet,
         MineSet' \subseteq MineSet \cup FreeSet \cup LeaseSet \cup N
  PROVE  RecordInv'
<1>1. TailsCovered'
  BY TailsKept DEF bufferVars
<1>2. live' = Cardinality(located') /\ located' = located
  BY DEF RecordInv
<1> QED
  BY <1>1, <1>2, CoverStep

LEMMA AllocateRecords ==
  ASSUME IInv, RecordInv, IInv', Allocate PROVE RecordInv'
<1>1. /\ UNCHANGED <<live, located, bufferVars, applying>> /\ nrecords' = nrecords
      /\ lease' = lease
  BY DEF Allocate, recordVars
<1> DEFINE N == {}
<1>2. nrecords' >= nrecords /\ LeaseSet' = LeaseSet /\ \A i \in N : i < nrecords'
  BY <1>1 DEF LeaseSet, IInv, TypeOK
<1>3. FreeSet' \subseteq FreeSet /\ MineSet' \subseteq MineSet \cup FreeSet \cup LeaseSet \cup N
  <2>1. CASE freeList # <<>>
    <3>1. freeList \in Seq(Index) /\ IsInjective(freeList) /\ TypeOK
      BY DEF IInv, TypeOK, Distinct
    <3>2. 1 \in 0 .. Len(freeList)
      BY <2>1, <3>1, EmptySeq, LenProperties
    <3>3. Range(freeList) = Range(SubSeq(freeList, 1, Len(freeList) - 1)) \cup EntityIndices(Popped(1))
      BY <3>1, <3>2, PopFacts
    <3>4. freeList' = SubSeq(freeList, 1, Len(freeList) - 1) /\ mine' = Popped(1)
      BY <2>1 DEF Allocate, Pop
    <3> QED
      BY <3>3, <3>4 DEF FreeSet, MineSet
  <2>2. CASE freeList = <<>>
    BY <2>2 DEF Allocate, FreeSet, MineSet
  <2> QED
    BY <2>1, <2>2
<1> HIDE DEF N
<1> QED
  BY <1>1, <1>2, <1>3, MineRecords

LEMMA AllocateFromLeaseRecords ==
  ASSUME IInv, RecordInv, IInv', AllocateFromLease PROVE RecordInv'
<1>1. /\ UNCHANGED <<live, located, bufferVars, applying, freeList>>
      /\ lease' = Decremented(1) /\ mine' = LeaseSlots(1)
      /\ nrecords' = IF Reuse(1) = 1
                     THEN Larger(nrecords, lease.free[lease.cursor].index + 1) ELSE nrecords
  BY DEF AllocateFromLease, TakeFromLease, Decremented
<1>2. nrecords' >= nrecords
  <2>1. nrecords \in Int /\ nrecords' \in Int
    BY DEF IInv, TypeOK
  <2>3. CASE Reuse(1) = 1
    <3> DEFINE x == lease.free[lease.cursor].index + 1
    <3>1. lease.cursor \in 1 .. Len(lease.free)
      <4>1. lease.cursor \in Int /\ lease.cursor <= Len(lease.free) /\ lease.free \in Seq(Entity)
        BY DEF IInv, TypeOK
      <4>2. lease.cursor > 0
        BY <2>3, <4>1 DEF Reuse
      <4> QED
        BY <4>1, <4>2, LenProperties
    <3>2. lease.free[lease.cursor].index \in Index
      BY <3>1, ElementOfSeq, EntityFields DEF IInv, TypeOK
    <3>3. x \in Int
      BY <3>2 DEF Index
    <3>4. nrecords' = Larger(nrecords, x)
      BY <1>1, <2>3
    <3> HIDE DEF x
    <3> QED
      BY <2>1, <3>3, <3>4 DEF Larger
  <2>4. CASE Reuse(1) # 1
    BY <1>1, <2>1, <2>4
  <2> QED
    BY <2>3, <2>4
<1>3. LeaseSet' \subseteq LeaseSet /\ MineSet' \subseteq LeaseSet
  <2>1. 1 \in Nat /\ TypeOK /\ LeaseDistinct(lease)
    BY DEF IInv, Distinct
  <2>2. Leased(lease) = Leased(Decremented(1)) \cup EntityIndices(LeaseSlots(1))
    BY <2>1, LeaseFacts
  <2> QED
    BY <1>1, <2>2 DEF LeaseSet, MineSet
<1> DEFINE N == {}
<1>4. FreeSet' = FreeSet /\ MineSet' \subseteq MineSet \cup FreeSet \cup LeaseSet \cup N
      /\ \A i \in N : i < nrecords'
  BY <1>1, <1>3 DEF FreeSet
<1> HIDE DEF N
<1> QED
  BY <1>1, <1>2, <1>3, <1>4, MineRecords

LEMMA AllocateBatchRecords ==
  ASSUME IInv, RecordInv, IInv', NEW n \in 1 .. MaxBatch, AllocateBatch(n) PROVE RecordInv'
<1> DEFINE popped == IF n <= Len(freeList) THEN n ELSE Len(freeList)
           rem == n - popped
           s == Popped(popped)
           p == SubSeq(freeList, 1, Len(freeList) - popped)
           w == LeaseSlots(rem)
           l == Decremented(rem)
<1>1. /\ UNCHANGED <<live, located, bufferVars, applying>> /\ nrecords' = nrecords
      /\ mine' = s \o w /\ freeList' = p /\ lease' = l
  BY DEF AllocateBatch, Pop, TakeFromLease, Decremented, recordVars
<1>2. TypeOK /\ freeList \in Seq(Index) /\ IsInjective(freeList) /\ LeaseDistinct(lease)
  BY DEF IInv, TypeOK, Distinct
<1>3. popped \in 0 .. Len(freeList) /\ rem \in Nat
  <2>1. n \in Nat /\ Len(freeList) \in Nat
    BY <1>2, IndexArithmetic, LenProperties
  <2> QED
    BY <2>1
<1>4. s \in Seq(Entity) /\ Range(freeList) = Range(p) \cup EntityIndices(s)
  BY <1>2, <1>3, PopFacts
<1>5. w \in Seq(Entity) /\ Leased(lease) = Leased(l) \cup EntityIndices(w)
  BY <1>2, <1>3, LeaseFacts
<1> HIDE DEF s, p, w, l, popped, rem
<1>6. EntityIndices(s \o w) = EntityIndices(s) \cup EntityIndices(w)
  BY <1>4, <1>5, EntityConcat
<1> DEFINE N == {}
<1>7. /\ FreeSet' \subseteq FreeSet /\ LeaseSet' \subseteq LeaseSet
      /\ MineSet' \subseteq MineSet \cup FreeSet \cup LeaseSet \cup N
  BY <1>1, <1>4, <1>5, <1>6 DEF FreeSet, LeaseSet, MineSet
<1>8. nrecords' >= nrecords /\ \A i \in N : i < nrecords'
  BY <1>1 DEF IInv, TypeOK
<1> HIDE DEF N
<1> QED
  BY <1>1, <1>7, <1>8, MineRecords

LEMMA AllocateFreshRecords ==
  ASSUME IInv, RecordInv, IInv', AllocateFresh PROVE RecordInv'
<1> DEFINE f == FreshIds(mainNeed)
           N == EntityIndices(f)
<1>1. /\ UNCHANGED <<live, located, bufferVars, applying, freeList, lease>>
      /\ mine' = mine \o f /\ nrecords' = Larger(nrecords, highWater + mainNeed)
      /\ highWater + mainNeed <= MaxIndex
  BY DEF AllocateFresh, poolVars
<1>2. /\ highWater \in Nat /\ mainNeed \in Nat /\ nrecords \in Nat
      /\ TypeOK /\ mine \in Seq(Entity)
  <2>1. TypeOK
    BY DEF IInv
  <2>2. highWater \in Nat /\ nrecords \in Nat
    BY <2>1 DEF TypeOK
  <2>3. mainNeed \in Nat /\ mine \in Seq(Entity)
    BY <2>1 DEF TypeOK
  <2> QED
    BY <2>1, <2>2, <2>3
<1>3. f \in Seq(Entity) /\ N = highWater .. highWater + mainNeed - 1
  BY <1>1, <1>2, FreshFacts
<1>4. nrecords' >= nrecords /\ nrecords' >= highWater + mainNeed /\ nrecords' \in Nat
  BY <1>1, <1>2 DEF Larger
<1>5. \A i \in N : i < nrecords'
  BY <1>2, <1>3, <1>4
<1> HIDE DEF f
<1>6. EntityIndices(mine \o f) = EntityIndices(mine) \cup EntityIndices(f)
  BY <1>2, <1>3, EntityConcat
<1>7. /\ FreeSet' = FreeSet /\ LeaseSet' = LeaseSet
      /\ MineSet' \subseteq MineSet \cup FreeSet \cup LeaseSet \cup N
  BY <1>1, <1>6 DEF FreeSet, LeaseSet, MineSet
<1> HIDE DEF N
<1> QED
  BY <1>1, <1>4, <1>5, <1>7, MineRecords

LEMMA ApplySpawnRecords ==
  ASSUME IInv, RecordInv, IInv', NEW b \in Buffers, ApplySpawn(b) PROVE RecordInv'
<1> DEFINE e == Head(queue[b])
           N == {e.index}
<1>1. e \in Entity /\ e.index \in Index
  BY HeadFacts, EntityFields DEF IInv, TypeOK, Distinct, ApplySpawn
<1>2. /\ UNCHANGED <<lease, freeList, mine, binding, tail, applying>>
      /\ nrecords' = IF IsAlive(e) THEN nrecords ELSE Larger(nrecords, e.index + 1)
      /\ \/ UNCHANGED <<located, live>>
         \/ /\ ~IsAlive(e) /\ generation[e.index] = e.gen
            /\ located' = located \cup N /\ live' = live + 1
  BY DEF ApplySpawn, poolVars, mainVars
<1>3. nrecords \in Int /\ e.index + 1 \in Int /\ e.index \in Int
  <2>1. nrecords \in Int
    BY DEF IInv, TypeOK
  <2>2. \A i \in Index : i \in Int /\ i + 1 \in Int
    BY DEF Index
  <2> QED
    BY <1>1, <2>1, <2>2
<1> HIDE DEF e
<1>4. nrecords' >= nrecords /\ (~IsAlive(e) => nrecords' > e.index)
  BY <1>2, <1>3 DEF Larger
<1>5. FreeSet' = FreeSet /\ LeaseSet' = LeaseSet /\ MineSet' = MineSet
  BY <1>2 DEF FreeSet, LeaseSet, MineSet
<1>6. TailsCovered'
  BY <1>2, <1>4, TailsKept
<1>7. CASE UNCHANGED <<located, live>>
  <2> DEFINE none == {}
  <2>1. /\ \A i \in none : i < nrecords'
        /\ FreeSet' \cup LeaseSet' \cup MineSet' \cup located'
             \subseteq FreeSet \cup LeaseSet \cup MineSet \cup located \cup none
        /\ live' = Cardinality(located')
    BY <1>5, <1>7 DEF RecordInv
  <2> HIDE DEF none
  <2> QED
    BY <1>4, <1>6, <2>1, CoverStep
<1>8. CASE ~IsAlive(e) /\ generation[e.index] = e.gen /\ located' = located \cup N /\ live' = live + 1
  <2>1. e.index \notin located
    BY <1>8 DEF IsAlive
  <2>2. Cardinality(located') = Cardinality(located) + 1
    BY <1>8, <2>1, LocatedFinite, FS_AddElement
  <2>3. live' = Cardinality(located')
    BY <1>8, <2>2 DEF RecordInv
  <2>4. \A i \in N : i < nrecords'
    BY <1>3, <1>4, <1>8
  <2>5. FreeSet' \cup LeaseSet' \cup MineSet' \cup located'
             \subseteq FreeSet \cup LeaseSet \cup MineSet \cup located \cup N
    BY <1>5, <1>8
  <2> HIDE DEF N
  <2> QED
    BY <1>4, <1>6, <2>3, <2>4, <2>5, CoverStep
<1> QED
  BY <1>2, <1>7, <1>8

LEMMA DespawnRecords ==
  ASSUME IInv, RecordInv, IInv', NEW i \in Index, Despawn(i) PROVE RecordInv'
<1>1. /\ UNCHANGED <<lease, mine, binding, tail, applying, nrecords>>
      /\ i \in located /\ located' = located \ {i} /\ live' = live - 1
      /\ freeList' = Append(freeList, i) \/ freeList' = freeList
  BY DEF Despawn, bufferVars, mainVars
<1>2. FreeSet' \subseteq FreeSet \cup {i}
  <2>1. CASE freeList' = Append(freeList, i)
    <3> DEFINE w == <<i>>
    <3>1. freeList \in Seq(Index) /\ w \in Seq(Index) /\ Range(w) = {i}
      BY DEF IInv, TypeOK, Range
    <3>2. Append(freeList, i) = freeList \o w
      BY <3>1, AppendIsConcat
    <3> HIDE DEF w
    <3>3. Range(freeList \o w) = Range(freeList) \cup Range(w)
      BY <3>1, ConcatFacts
    <3> QED
      BY <2>1, <3>1, <3>2, <3>3 DEF FreeSet
  <2>2. CASE freeList' = freeList
    BY <2>2 DEF FreeSet
  <2> QED
    BY <1>1, <2>1, <2>2
<1>3. Cardinality(located') = Cardinality(located) - 1
  BY <1>1, LocatedFinite, FS_RemoveElement
<1>4. live' = Cardinality(located')
  BY <1>1, <1>3 DEF RecordInv
<1>5. nrecords' >= nrecords
  BY <1>1 DEF IInv, TypeOK
<1>6. TailsCovered'
  BY <1>1, <1>5, TailsKept
<1> DEFINE N == {}
<1>7. /\ FreeSet' \cup LeaseSet' \cup MineSet' \cup located'
           \subseteq FreeSet \cup LeaseSet \cup MineSet \cup located \cup N
      /\ \A j \in N : j < nrecords'
  BY <1>1, <1>2 DEF LeaseSet, MineSet
<1> HIDE DEF N
<1> QED
  BY <1>4, <1>5, <1>6, <1>7, CoverStep

LEMMA InitRecords == Init => RecordInv
<1> SUFFICES ASSUME Init PROVE RecordInv
  OBVIOUS
<1>1. FreeSet = {} /\ LeaseSet = {} /\ MineSet = {} /\ \A b \in Buffers : TailSet(b) = {}
  BY NoEntities DEF Init, FreeSet, LeaseSet, MineSet, TailSet, Leased
<1>2. live = Cardinality(located)
  BY FS_EmptySet DEF Init
<1> QED
  BY <1>1, <1>2 DEF Init, RecordInv, TailsCovered, Covered

LEMMA NextRecords ==
  ASSUME IInv, RecordInv, IInv', [Next]_vars PROVE RecordInv'
<1>1. CASE \E b \in Buffers : BufferStep(b)
  BY <1>1, BufferRecords
<1>2. CASE \E b \in Buffers : SyncStep(b)
  <2>1. PICK b \in Buffers : SyncStep(b)
    BY <1>2
  <2>2. CASE BeginApply(b)
    BY <2>2, FlushRecords DEF BeginApply
  <2>3. CASE ApplySpawn(b)
    BY <2>3, ApplySpawnRecords
  <2>4. CASE EndApply(b)
    BY <2>4, EndApplyRecords
  <2>5. CASE \E n \in 1 .. MaxBatch : SeedBlock(b, n)
    BY <2>5, SeedBlockRecords
  <2>6. CASE ReclaimBlockTail(b)
    BY <2>6, ReclaimRecords
  <2> QED
    BY <2>1, <2>2, <2>3, <2>4, <2>5, <2>6 DEF SyncStep
<1>3. CASE MainStep
  <2>1. CASE Flush
    BY <2>1, FlushRecords DEF Flush
  <2>2. CASE Allocate
    BY <2>2, AllocateRecords
  <2>3. CASE AllocateFromLease
    BY <2>3, AllocateFromLeaseRecords
  <2>4. CASE \E n \in 1 .. MaxBatch : AllocateBatch(n)
    BY <2>4, AllocateBatchRecords
  <2>5. CASE AllocateFresh
    BY <2>5, AllocateFreshRecords
  <2>6. CASE LocateMine
    BY <2>6, LocateMineRecords
  <2>7. CASE \E i \in Index : Despawn(i)
    BY <2>7, DespawnRecords
  <2> QED
    BY <1>3, <2>1, <2>2, <2>3, <2>4, <2>5, <2>6, <2>7 DEF MainStep
<1>4. CASE UNCHANGED vars
  BY <1>4 DEF vars, recordVars, poolVars, bufferVars, mainVars, RecordInv, TailsCovered, Covered,
     FreeSet, LeaseSet, MineSet, TailSet
<1> QED
  BY <1>1, <1>2, <1>3, <1>4 DEF Next

\* The count of located records is exact, and flush and reclaim_block_tail find
\* a record for every index they look up, for any number of buffers and indices.
THEOREM RecordsKeepStep == Spec => []RecordsInStep
<1>1. Init => IInv /\ RecordInv
  BY InitIInv, InitRecords
<1>2. IInv /\ RecordInv /\ [Next]_vars => IInv' /\ RecordInv'
  BY NextIInv, NextRecords
<1>3. IInv /\ RecordInv => RecordsInStep
  BY RecordsInv
<1> QED
  BY <1>1, <1>2, <1>3, PTL DEF Spec
=============================================================================
