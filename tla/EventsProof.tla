----------------------------- MODULE EventsProof -----------------------------
(***************************************************************************)
(* Proofs about Events, for any readers, events and cursors, as long as    *)
(* `clear` is only called while no cursor id is free: the count of lagging *)
(* readers is exact, each reader has a cursor of its own and gets each     *)
(* event once and in order.  And about DelayedQueue in front of it: all of *)
(* that stays so, and, until the ticks wrap around, delayed events come on *)
(* time and in order.                                                      *)
(***************************************************************************)
EXTENDS DelayedQueue, SequenceTheorems, FiniteSetTheorems, TLAPS

Types ==
    /\ events \in Seq(Event) /\ pending \in Seq(Event) /\ syncPending \in Seq(Event)
    /\ cursors \in Seq(Nat) /\ freeList \in Seq(Nat)
    /\ nextId \in 0 .. MaxCursors /\ lagging \in Nat
    /\ handle \in [Readers -> 0 .. MaxCursors]
    /\ sent \in [Lanes -> 0 .. MaxSent]

\* What lies in the buffers has been sent, so no position can be taken for
\* that of an empty slot.
Room == Len(events) + Len(pending) + Len(syncPending) <= sent["main"] + sent["sync"]

\* Every id issued has a slot: the tail that could be trimmed is never there,
\* since the slots in it are those of freed ids.
SlotPerId == Len(cursors) = nextId

\* A slot is empty if and only if its id waits in the free list, where it is
\* once.
EmptyIsFree ==
    /\ \A k \in 1 .. Len(cursors) :
         cursors[k] = Gone <=> \E j \in 1 .. Len(freeList) : freeList[j] = k - 1
    /\ \A j \in 1 .. Len(freeList) : freeList[j] < nextId
    /\ \A i, j \in 1 .. Len(freeList) : freeList[i] = freeList[j] => i = j

\* A slot in use has one reader, and a reader such a slot.
SlotInUse ==
    /\ \A r, s \in Registered : handle[r] = handle[s] => r = s
    /\ \A r \in Registered : handle[r] < nextId /\ cursors[handle[r] + 1] # Gone
    /\ \A k \in 1 .. Len(cursors) :
         cursors[k] # Gone => \E r \in Registered : handle[r] = k - 1

Slots == SlotPerId /\ EmptyIsFree /\ SlotInUse

IInv == Types /\ Room /\ Slots /\ LaggingExact

-----------------------------------------------------------------------------
(* Which slots are behind.                                                 *)

LEMMA BehindFinite ==
    ASSUME NEW cs \in Seq(Nat), NEW n \in Nat
    PROVE  IsFiniteSet(Behind(cs, n)) /\ Cardinality(Behind(cs, n)) \in Nat
<1>1. IsFiniteSet(1 .. Len(cs)) /\ Behind(cs, n) \in SUBSET (1 .. Len(cs))
  BY FS_Interval, LenProperties DEF Behind
<1>2. IsFiniteSet(Behind(cs, n))
  BY <1>1, FS_Subset
<1> QED
  BY <1>2, FS_CardinalityType

\* A slot that is set to v joins or leaves.
LEMMA BehindSet ==
    ASSUME NEW cs \in Seq(Nat), NEW n \in Nat, NEW k \in 1 .. Len(cs), NEW v \in Nat
    PROVE  LET cs2 == [cs EXCEPT ![k] = v]
               was == cs[k] # Gone /\ cs[k] < n
               is  == v # Gone /\ v < n
           IN  Cardinality(Behind(cs2, n)) =
                 IF was /\ ~is THEN Cardinality(Behind(cs, n)) - 1
                 ELSE IF ~was /\ is THEN Cardinality(Behind(cs, n)) + 1
                 ELSE Cardinality(Behind(cs, n))
<1> DEFINE cs2 == [cs EXCEPT ![k] = v]
           was == cs[k] # Gone /\ cs[k] < n
           is  == v # Gone /\ v < n
<1>1. /\ cs2 \in Seq(Nat) /\ Len(cs2) = Len(cs)
      /\ \A j \in 1 .. Len(cs) : cs2[j] = IF j = k THEN v ELSE cs[j]
  BY ExceptSeq
<1>2. k \in Behind(cs, n) <=> was
  BY DEF Behind
<1> HIDE DEF cs2
<1>3. ASSUME is PROVE Behind(cs2, n) = Behind(cs, n) \cup {k}
  BY <1>1, <1>3 DEF Behind
<1>4. ASSUME ~is PROVE Behind(cs2, n) = Behind(cs, n) \ {k}
  BY <1>1, <1>4 DEF Behind
<1>5. IsFiniteSet(Behind(cs, n))
  BY BehindFinite
<1> HIDE DEF was, is
<1>6. CASE is
  <2>1. Cardinality(Behind(cs2, n)) =
          IF k \in Behind(cs, n) THEN Cardinality(Behind(cs, n))
          ELSE Cardinality(Behind(cs, n)) + 1
    BY <1>3, <1>5, <1>6, FS_AddElement
  <2> QED
    BY <1>2, <1>6, <2>1 DEF cs2, was, is
<1>7. CASE ~is
  <2>1. Cardinality(Behind(cs2, n)) =
          IF k \in Behind(cs, n) THEN Cardinality(Behind(cs, n)) - 1
          ELSE Cardinality(Behind(cs, n))
    BY <1>4, <1>5, <1>7, FS_RemoveElement
  <2> QED
    BY <1>2, <1>7, <2>1 DEF cs2, was, is
<1> QED
  BY <1>6, <1>7

\* A slot in use that moves on leaves when it reaches the end.
LEMMA BehindAdvance ==
    ASSUME NEW cs \in Seq(Nat), NEW n \in Nat, NEW k \in 1 .. Len(cs), NEW v \in 0 .. n,
           n < Gone, cs[k] # Gone, ~(cs[k] < n) => v = n
    PROVE  Cardinality(Behind([cs EXCEPT ![k] = v], n)) =
             IF cs[k] < n /\ v >= n THEN Cardinality(Behind(cs, n)) - 1
             ELSE Cardinality(Behind(cs, n))
<1>1. v \in Nat /\ Gone \in Nat /\ v # Gone /\ (v < n <=> ~(v >= n))
  BY EventsAssumption DEF Gone
<1>2. CASE cs[k] < n /\ v >= n
  BY <1>1, <1>2, BehindSet
<1>3. CASE cs[k] < n /\ ~(v >= n)
  BY <1>1, <1>3, BehindSet
<1>4. CASE ~(cs[k] < n)
  BY <1>1, <1>4, BehindSet
<1> QED
  BY <1>2, <1>3, <1>4

\* So does a slot at the end.
LEMMA BehindAppend ==
    ASSUME NEW cs \in Seq(Nat), NEW n \in Nat
    PROVE  Cardinality(Behind(Append(cs, 0), n)) =
             IF n = 0 THEN Cardinality(Behind(cs, n)) ELSE Cardinality(Behind(cs, n)) + 1
<1> DEFINE cs2 == Append(cs, 0)
           k == Len(cs) + 1
<1>1. /\ Len(cs2) = k /\ Len(cs) \in Nat /\ cs2[k] = 0
      /\ \A j \in 1 .. Len(cs) : cs2[j] = cs[j]
  BY AppendProperties, LenProperties
<1>2. Gone # 0
  BY EventsAssumption DEF Gone
<1>3. k \notin Behind(cs, n)
  BY <1>1 DEF Behind
<1> HIDE DEF cs2
<1>4. ASSUME n = 0 PROVE Behind(cs2, n) = Behind(cs, n)
  <2>1. \A j \in 1 .. k : j = k \/ j \in 1 .. Len(cs)
    BY <1>1
  <2> QED
    BY <1>1, <1>2, <1>4, <2>1 DEF Behind
<1>5. ASSUME n # 0 PROVE Behind(cs2, n) = Behind(cs, n) \cup {k}
  <2>1. \A j \in 1 .. k : j = k \/ j \in 1 .. Len(cs)
    BY <1>1
  <2> QED
    BY <1>1, <1>2, <1>5, <2>1 DEF Behind
<1>6. IsFiniteSet(Behind(cs, n))
  BY BehindFinite
<1> QED
  BY <1>3, <1>4, <1>5, <1>6, FS_AddElement DEF cs2

\* Trimming finds nothing to drop where every empty slot is that of a freed id.
LEMMA NothingTrimmed ==
    ASSUME NEW cs \in Seq(Nat), NEW ids,
           \A k \in 1 .. Len(cs) : cs[k] = Gone => \E j \in 1 .. Len(ids) : ids[j] = k - 1
    PROVE  Trimmed(cs, ids) = cs
<1>1. Kept(cs, ids) = 1 .. Len(cs)
  BY DEF Kept
<1>2. Len(cs) \in Nat
  BY LenProperties
<1> DEFINE IsLast(n) == (n = 0 \/ n \in Kept(cs, ids)) /\ \A k \in Kept(cs, ids) : k <= n
<1>3. \E n \in 0 .. Len(cs) : IsLast(n)
  <2>1. Len(cs) \in 0 .. Len(cs) /\ IsLast(Len(cs))
    BY <1>1, <1>2
  <2> QED
    BY <2>1
<1>4. \A n \in 0 .. Len(cs) : IsLast(n) => n = Len(cs)
  BY <1>1, <1>2
<1>5. (CHOOSE n \in 0 .. Len(cs) : IsLast(n)) = Len(cs)
  BY <1>3, <1>4
<1>6. Trimmed(cs, ids) = SubSeq(cs, 1, Len(cs))
  BY <1>5 DEF Trimmed
<1> QED
  BY <1>6, SubSeqFull

-----------------------------------------------------------------------------
(* The invariant.                                                          *)

LEMMA Bounds ==
    ASSUME Types, Room
    PROVE  /\ Len(events) \in Nat /\ Len(pending) \in Nat /\ Len(syncPending) \in Nat
           /\ Len(events) + Len(pending) + Len(syncPending) < Gone
           /\ Gone \in Nat /\ Gone # 0
<1>1. Len(events) \in Nat /\ Len(pending) \in Nat /\ Len(syncPending) \in Nat
  BY LenProperties DEF Types
<1>2. sent["main"] \in 0 .. MaxSent /\ sent["sync"] \in 0 .. MaxSent
  BY DEF Types, Lanes
<1> QED
  BY <1>1, <1>2, EventsAssumption DEF Room, Gone

LEMMA InitIInv == Init => IInv
<1> SUFFICES ASSUME Init PROVE IInv
  OBVIOUS
<1>1. Types
  BY EventsAssumption, EmptySeq DEF Init, Types, NoSlot, Lanes
<1>2. Room
  BY DEF Init, Room, Lanes
<1>3. Registered = {}
  BY DEF Init, Registered
<1>4. Slots
  BY <1>3 DEF Init, Slots, SlotPerId, EmptyIsFree, SlotInUse
<1>5. LaggingExact
  <2>1. Behind(cursors, Len(events)) = {}
    BY DEF Init, Behind
  <2> QED
    BY <2>1, FS_EmptySet DEF Init, LaggingExact
<1> QED
  BY <1>1, <1>2, <1>4, <1>5 DEF IInv

LEMMA SlotsKept ==
    ASSUME Slots, UNCHANGED <<cursors, nextId, freeList, handle>>
    PROVE  Slots'
BY DEF Slots, SlotPerId, EmptyIsFree, SlotInUse, Registered, Gone, NoSlot

LEMMA SendStep == IInv /\ Send => IInv'
<1> SUFFICES ASSUME IInv, Send PROVE IInv'
  OBVIOUS
<1> USE DEF IInv
<1> DEFINE e == [lane |-> "main", n |-> sent["main"] + 1]
<1>1. sent["main"] \in 0 .. MaxSent /\ sent["main"] < MaxSent
  BY DEF Types, Lanes, Send
<1>2. e \in Event
  BY <1>1, EventsAssumption DEF Event, Lanes
<1>3. pending' \in Seq(Event) /\ Len(pending') = Len(pending) + 1
  BY <1>2, AppendProperties DEF Send, Types
<1>4. /\ sent' \in [Lanes -> 0 .. MaxSent]
      /\ sent'["main"] = sent["main"] + 1 /\ sent'["sync"] = sent["sync"]
  BY <1>1, EventsAssumption DEF Send, Types, Lanes
<1>5. Types'
  BY <1>3, <1>4 DEF Types, Send, slots
<1>6. Room'
  <2>1. sent["sync"] \in Nat
    BY DEF Types, Lanes
  <2> QED
    BY <1>1, <1>3, <1>4, <2>1, Bounds DEF Room, Send
<1>7. Slots'
  BY SlotsKept DEF Send, slots
<1>8. LaggingExact'
  BY DEF LaggingExact, Send, slots, Behind
<1> QED
  BY <1>5, <1>6, <1>7, <1>8

LEMMA SendSyncStep == IInv /\ SendSync => IInv'
<1> SUFFICES ASSUME IInv, SendSync PROVE IInv'
  OBVIOUS
<1> USE DEF IInv
<1> DEFINE e == [lane |-> "sync", n |-> sent["sync"] + 1]
<1>1. sent["sync"] \in 0 .. MaxSent /\ sent["sync"] < MaxSent
  BY EventsAssumption DEF Types, Lanes, SendSync
<1>2. e \in Event
  BY <1>1, EventsAssumption DEF Event, Lanes
<1>3. syncPending' \in Seq(Event) /\ Len(syncPending') = Len(syncPending) + 1
  BY <1>2, AppendProperties DEF SendSync, Types
<1>4. /\ sent' \in [Lanes -> 0 .. MaxSent]
      /\ sent'["sync"] = sent["sync"] + 1 /\ sent'["main"] = sent["main"]
  BY <1>1, EventsAssumption DEF SendSync, Types, Lanes
<1>5. Types'
  BY <1>3, <1>4 DEF Types, SendSync, slots
<1>6. Room'
  <2>1. sent["main"] \in Nat
    BY DEF Types, Lanes
  <2> QED
    BY <1>1, <1>3, <1>4, <2>1, Bounds DEF Room, SendSync
<1>7. Slots'
  BY SlotsKept DEF SendSync, slots
<1>8. LaggingExact'
  BY DEF LaggingExact, SendSync, slots, Behind
<1> QED
  BY <1>5, <1>6, <1>7, <1>8

LEMMA FlushSyncStep == IInv /\ FlushSync => IInv'
<1> SUFFICES ASSUME IInv, FlushSync PROVE IInv'
  OBVIOUS
<1> USE DEF IInv
<1>1. /\ pending' \in Seq(Event) /\ Len(pending') = Len(pending) + Len(syncPending)
      /\ syncPending' \in Seq(Event) /\ Len(syncPending') = 0
  BY ConcatProperties, EmptySeq DEF FlushSync, Types
<1>2. Types'
  BY <1>1 DEF Types, FlushSync, slots
<1>3. Room'
  BY <1>1, Bounds DEF Room, FlushSync
<1>4. Slots'
  BY SlotsKept DEF FlushSync, slots
<1>5. LaggingExact'
  BY DEF LaggingExact, FlushSync, slots, Behind
<1> QED
  BY <1>2, <1>3, <1>4, <1>5

\* A reader takes the id that was freed last, and its empty slot.
LEMMA RecycleStep ==
    ASSUME IInv, NEW r \in Readers, AddReader(r), Recycle(r)
    PROVE  IInv'
<1> USE DEF IInv
<1> DEFINE f == Len(freeList)
           id == freeList[f]
           n == Len(events)
<1>1. /\ f \in Nat /\ f > 0 /\ f \in 1 .. f /\ id \in Nat /\ id < nextId
      /\ Len(cursors) = nextId /\ nextId \in Nat /\ nextId <= MaxCursors
      /\ id + 1 \in 1 .. Len(cursors)
  <2>1. f \in Nat /\ f > 0
    BY EmptySeq, LenProperties DEF Types, Recycle
  <2>2. id \in Nat /\ id < nextId
    BY <2>1, ElementOfSeq DEF Types, Slots, EmptyIsFree
  <2>3. Len(cursors) = nextId /\ nextId \in Nat /\ nextId <= MaxCursors
    BY EventsAssumption DEF Slots, SlotPerId, Types
  <2> QED
    BY <2>1, <2>2, <2>3
<1>2. cursors[id + 1] = Gone
  <2>1. id = id + 1 - 1
    BY <1>1
  <2> QED
    BY <1>1, <2>1 DEF Slots, EmptyIsFree
<1>3. /\ cursors' = [cursors EXCEPT ![id + 1] = 0]
      /\ cursors' \in Seq(Nat) /\ Len(cursors') = Len(cursors)
      /\ \A k \in 1 .. Len(cursors) : cursors'[k] = IF k = id + 1 THEN 0 ELSE cursors[k]
  <2>1. cursors' = [cursors EXCEPT ![id + 1] = 0]
    BY <1>1 DEF Recycle, HasSlot
  <2> QED
    BY <1>1, <2>1, ExceptSeq DEF Types
<1>4. /\ freeList' \in Seq(Nat) /\ Len(freeList') = f - 1
      /\ \A j \in 1 .. f - 1 : freeList'[j] = freeList[j]
  <2>1. \A j \in 1 .. f : freeList[j] \in Nat
    BY ElementOfSeq DEF Types
  <2>2. freeList' = SubSeq(freeList, 1, f - 1)
    BY DEF Recycle
  <2> HIDE DEF f
  <2>3. \A j \in 1 .. f - 1 : freeList[j] \in Nat
    BY <1>1, <2>1
  <2>4. f - 1 \in Int /\ 1 \in Int /\ (f - 1) - 1 + 1 = f - 1
        /\ (IF 1 <= f - 1 THEN f - 1 - 1 + 1 ELSE 0) = f - 1
    BY <1>1
  <2>5. /\ SubSeq(freeList, 1, f - 1) \in Seq(Nat)
        /\ Len(SubSeq(freeList, 1, f - 1)) = f - 1
        /\ \A j \in 1 .. f - 1 : SubSeq(freeList, 1, f - 1)[j] = freeList[1 + j - 1]
    BY <2>3, <2>4, SubSeqProperties
  <2> QED
    BY <1>1, <2>2, <2>5
<1>5. handle' = [handle EXCEPT ![r] = id] /\ handle' \in [Readers -> 0 .. MaxCursors]
  BY <1>1, EventsAssumption DEF Recycle, Types
<1>6. lagging' = IF n = 0 THEN lagging ELSE lagging + 1
  BY EmptySeq DEF AddReader, LaggingAfterJoin, Types
<1>7. Types'
  BY <1>3, <1>4, <1>5, <1>6 DEF Types, AddReader, buffers, Recycle
<1>8. Room'
  BY DEF Room, AddReader, buffers
<1>9. SlotPerId'
  BY <1>1, <1>3 DEF SlotPerId, Recycle
<1>10. Gone # 0 /\ Gone' = Gone /\ NoSlot = MaxCursors /\ MaxCursors \in Nat
  BY EventsAssumption DEF Gone, NoSlot
<1>11. Registered' = Registered \cup {r} /\ r \notin Registered
  BY <1>1, <1>5, <1>10 DEF Registered, AddReader, Types
<1>12. \A s \in Registered : handle'[s] = handle[s] /\ s # r
  BY <1>5, <1>11 DEF Types, Registered
<1>13. handle'[r] = id
  BY <1>5 DEF Types
<1>14. EmptyIsFree'
  <2>1. ASSUME NEW k \in 1 .. Len(cursors)
        PROVE  cursors'[k] = Gone <=> \E j \in 1 .. f - 1 : freeList'[j] = k - 1
    <3>1. CASE k = id + 1
      <4>1. \A j \in 1 .. f - 1 : freeList[j] # id
        BY <1>1 DEF Slots, EmptyIsFree
      <4> QED
        BY <1>1, <1>3, <1>4, <1>10, <3>1, <4>1
    <3>2. CASE k # id + 1
      <4>1. cursors'[k] = Gone <=> \E j \in 1 .. f : freeList[j] = k - 1
        BY <1>3, <3>2 DEF Slots, EmptyIsFree
      <4>2. \A j \in 1 .. f : freeList[j] = k - 1 => j \in 1 .. f - 1
        BY <1>1, <3>2
      <4> QED
        BY <1>1, <1>4, <4>1, <4>2
    <3> QED
      BY <3>1, <3>2
  <2>2. \A j \in 1 .. f - 1 : freeList'[j] < nextId
    BY <1>1, <1>4 DEF Slots, EmptyIsFree
  <2>3. \A i, j \in 1 .. f - 1 : freeList'[i] = freeList'[j] => i = j
    BY <1>1, <1>4 DEF Slots, EmptyIsFree
  <2> QED
    BY <1>3, <1>4, <1>10, <2>1, <2>2, <2>3 DEF EmptyIsFree, Recycle
<1>15. SlotInUse'
  <2>1. \A s \in Registered : handle[s] \in Nat /\ handle[s] < nextId /\ cursors[handle[s] + 1] # Gone
    BY DEF Slots, SlotInUse, Types, Registered
  <2>2. \A s \in Registered : handle[s] # id
    BY <1>2, <2>1
  <2>3. \A s, u \in Registered' : handle'[s] = handle'[u] => s = u
    BY <1>11, <1>12, <1>13, <2>2 DEF Slots, SlotInUse
  <2>4. \A s \in Registered' : handle'[s] < nextId /\ cursors'[handle'[s] + 1] # Gone
    <3>1. \A s \in Registered : handle[s] + 1 \in 1 .. Len(cursors)
      BY <1>1, <2>1
    <3> QED
      BY <1>1, <1>3, <1>10, <1>11, <1>12, <1>13, <2>1, <3>1
  <2>5. \A k \in 1 .. Len(cursors) :
          cursors'[k] # Gone => \E s \in Registered' : handle'[s] = k - 1
    <3>1. ASSUME NEW k \in 1 .. Len(cursors), cursors'[k] # Gone
          PROVE  \E s \in Registered' : handle'[s] = k - 1
      <4>1. CASE k = id + 1
        BY <1>1, <1>11, <1>13, <4>1
      <4>2. CASE k # id + 1
        <5>1. PICK s \in Registered : handle[s] = k - 1
          BY <1>3, <3>1, <4>2 DEF Slots, SlotInUse
        <5> QED
          BY <1>11, <1>12, <5>1
      <4> QED
        BY <4>1, <4>2
    <3> QED
      BY <3>1
  <2> QED
    BY <1>3, <1>10, <2>3, <2>4, <2>5 DEF SlotInUse, Recycle
<1>16. LaggingExact'
  <2>1. n \in Nat /\ 0 \in Nat
    BY Bounds
  <2>2. Cardinality(Behind(cursors', n)) =
          IF n = 0 THEN Cardinality(Behind(cursors, n)) ELSE Cardinality(Behind(cursors, n)) + 1
    <3>1. cursors \in Seq(Nat) /\ (0 # Gone /\ 0 < n <=> n # 0)
      BY <1>10, <2>1 DEF Types
    <3> HIDE DEF n, id
    <3> QED
      BY <1>1, <1>2, <1>3, <2>1, <3>1, BehindSet
  <2>3. events' = events
    BY DEF AddReader, buffers
  <2> QED
    BY <1>6, <2>2, <2>3 DEF LaggingExact, Behind, Gone
<1> QED
  BY <1>7, <1>8, <1>9, <1>14, <1>15, <1>16 DEF Slots

\* Or the next id, and a new slot.
LEMMA NewSlotStep ==
    ASSUME IInv, NEW r \in Readers, AddReader(r), NewSlot(r)
    PROVE  IInv'
<1> USE DEF IInv
<1> DEFINE n == Len(events)
<1>1. /\ nextId \in Nat /\ nextId < MaxCursors /\ Len(cursors) = nextId
      /\ nextId' = nextId + 1 /\ MaxCursors \in Nat
  BY EventsAssumption DEF Slots, SlotPerId, Types, NewSlot
<1>2. /\ cursors' = Append(cursors, 0)
      /\ cursors' \in Seq(Nat) /\ Len(cursors') = nextId + 1
      /\ \A k \in 1 .. nextId : cursors'[k] = cursors[k]
      /\ cursors'[nextId + 1] = 0
  BY <1>1, AppendProperties DEF NewSlot, Types
<1>3. freeList' = <<>> /\ Len(freeList) = 0 /\ Len(freeList') = 0
  BY EmptySeq DEF NewSlot
<1>4. handle' = [handle EXCEPT ![r] = nextId] /\ handle' \in [Readers -> 0 .. MaxCursors]
  BY <1>1 DEF NewSlot, Types
<1>5. lagging' = IF n = 0 THEN lagging ELSE lagging + 1
  BY EmptySeq DEF AddReader, LaggingAfterJoin, Types
<1>6. Types'
  BY <1>1, <1>2, <1>3, <1>4, <1>5 DEF Types, AddReader, buffers, NewSlot
<1>7. Room'
  BY DEF Room, AddReader, buffers
<1>8. SlotPerId'
  BY <1>1, <1>2 DEF SlotPerId
<1>9. Gone # 0 /\ Gone' = Gone /\ NoSlot = MaxCursors
  BY EventsAssumption DEF Gone, NoSlot
<1>10. Registered' = Registered \cup {r} /\ r \notin Registered
  BY <1>1, <1>4, <1>9 DEF Registered, AddReader, Types
<1>11. \A s \in Registered : handle'[s] = handle[s] /\ s # r
  BY <1>4, <1>10 DEF Types, Registered
<1>12. handle'[r] = nextId
  BY <1>4 DEF Types
<1>13. \A k \in 1 .. nextId + 1 : k = nextId + 1 \/ k \in 1 .. nextId
  BY <1>1
<1>14. EmptyIsFree'
  <2>1. \A k \in 1 .. nextId : cursors[k] # Gone
    BY <1>1, <1>3 DEF Slots, EmptyIsFree
  <2>2. \A k \in 1 .. nextId + 1 : cursors'[k] # Gone
    BY <1>2, <1>9, <1>13, <2>1
  <2> QED
    BY <1>2, <1>3, <1>9, <2>2 DEF EmptyIsFree
<1>15. SlotInUse'
  <2>1. \A s \in Registered : handle[s] \in Nat /\ handle[s] < nextId /\ cursors[handle[s] + 1] # Gone
    BY DEF Slots, SlotInUse, Types, Registered
  <2>2. \A s, u \in Registered' : handle'[s] = handle'[u] => s = u
    BY <1>1, <1>10, <1>11, <1>12, <2>1 DEF Slots, SlotInUse
  <2>3. \A s \in Registered' : handle'[s] < nextId' /\ cursors'[handle'[s] + 1] # Gone
    <3>1. \A s \in Registered : handle[s] + 1 \in 1 .. nextId
      BY <1>1, <2>1
    <3> QED
      BY <1>1, <1>2, <1>9, <1>10, <1>11, <1>12, <2>1, <3>1
  <2>4. ASSUME NEW k \in 1 .. nextId + 1, cursors'[k] # Gone
        PROVE  \E s \in Registered' : handle'[s] = k - 1
    <3>1. CASE k = nextId + 1
      BY <1>1, <1>10, <1>12, <3>1
    <3>2. CASE k \in 1 .. nextId
      <4>1. PICK s \in Registered : handle[s] = k - 1
        BY <1>1, <1>2, <2>4, <3>2 DEF Slots, SlotInUse
      <4> QED
        BY <1>10, <1>11, <4>1
    <3> QED
      BY <1>13, <3>1, <3>2
  <2> QED
    BY <1>2, <1>9, <2>2, <2>3, <2>4 DEF SlotInUse
<1>16. LaggingExact'
  <2>1. Cardinality(Behind(cursors', n)) =
          IF n = 0 THEN Cardinality(Behind(cursors, n)) ELSE Cardinality(Behind(cursors, n)) + 1
    BY <1>2, Bounds, BehindAppend DEF Types
  <2>2. events' = events
    BY DEF AddReader, buffers
  <2> QED
    BY <1>5, <2>1, <2>2 DEF LaggingExact, Behind, Gone
<1> QED
  BY <1>6, <1>7, <1>8, <1>14, <1>15, <1>16 DEF Slots

LEMMA AddReaderStep == ASSUME NEW r \in Readers PROVE IInv /\ AddReader(r) => IInv'
BY RecycleStep, NewSlotStep DEF AddReader

\* A reader that leaves: its slot is emptied, its id freed, nothing trimmed.
LEMMA RemoveReaderStep ==
    ASSUME NEW r \in Readers, IInv, RemoveReader(r)
    PROVE  IInv'
<1> USE DEF IInv
<1> DEFINE id == handle[r]
           n == Len(events)
           f == Len(freeList)
           gone == [cursors EXCEPT ![id + 1] = Gone]
           freed == Append(freeList, id)
<1>1. r \in Registered /\ id \in Nat /\ id # NoSlot
  BY DEF RemoveReader, Registered, Types
<1>2. /\ nextId \in Nat /\ Len(cursors) = nextId /\ id < nextId
      /\ id + 1 \in 1 .. nextId /\ cursors[id + 1] # Gone
      /\ nextId' = nextId
  <2>1. nextId \in Nat /\ Len(cursors) = nextId /\ id < nextId /\ cursors[id + 1] # Gone
    BY <1>1, EventsAssumption DEF Slots, SlotPerId, SlotInUse, Types
  <2> QED
    BY <1>1, <2>1 DEF RemoveReader
<1>3. Gone \in Nat /\ Gone' = Gone /\ n \in Nat /\ n < Gone
  BY Bounds DEF Gone
<1>4. /\ gone \in Seq(Nat) /\ Len(gone) = nextId
      /\ \A k \in 1 .. nextId : gone[k] = IF k = id + 1 THEN Gone ELSE cursors[k]
  BY <1>2, <1>3, ExceptSeq DEF Types
<1>5. /\ f \in Nat /\ freed \in Seq(Nat) /\ Len(freed) = f + 1
      /\ \A j \in 1 .. f : freed[j] = freeList[j]
      /\ freed[f + 1] = id
  BY <1>1, AppendProperties, LenProperties DEF Types
<1>6. \A k \in 1 .. nextId : gone[k] = Gone <=> \E j \in 1 .. f + 1 : freed[j] = k - 1
  <2>1. ASSUME NEW k \in 1 .. nextId
        PROVE  gone[k] = Gone <=> \E j \in 1 .. f + 1 : freed[j] = k - 1
    <3>1. CASE k = id + 1
      BY <1>1, <1>4, <1>5, <3>1
    <3>2. CASE k # id + 1
      <4>1. gone[k] = Gone <=> \E j \in 1 .. f : freeList[j] = k - 1
        BY <1>2, <1>4, <3>2 DEF Slots, EmptyIsFree
      <4>2. \A j \in 1 .. f + 1 : j = f + 1 \/ j \in 1 .. f
        BY <1>5
      <4>3. \A j \in 1 .. f : j \in 1 .. f + 1
        BY <1>5
      <4>4. id # k - 1
        BY <1>1, <3>2
      <4> HIDE DEF gone, freed, f, id
      <4> QED
        BY <1>5, <4>1, <4>2, <4>3, <4>4
    <3> QED
      BY <3>1, <3>2
  <2> QED
    BY <2>1
<1>7. cursors' = gone /\ freeList' = freed
  <2>1. HasSlot(id)
    BY <1>2 DEF HasSlot
  <2>2. Trimmed(gone, freed) = gone
    <3> HIDE DEF gone, freed, f
    <3>1. \A k \in 1 .. Len(gone) : gone[k] = Gone => \E j \in 1 .. Len(freed) : freed[j] = k - 1
      BY <1>4, <1>5, <1>6
    <3> QED
      BY <1>4, <3>1, NothingTrimmed
  <2> QED
    BY <2>1, <2>2 DEF RemoveReader
<1>8. handle' = [handle EXCEPT ![r] = NoSlot] /\ handle' \in [Readers -> 0 .. MaxCursors]
  BY EventsAssumption DEF RemoveReader, Types, NoSlot
<1>9. NoSlot' = NoSlot /\ Registered' = Registered \ {r}
  BY <1>8 DEF Registered, Types, NoSlot
<1>10. \A s \in Registered' : s \in Registered /\ s # r /\ handle'[s] = handle[s] /\ handle[s] # id
  BY <1>1, <1>8, <1>9 DEF Registered, Types, Slots, SlotInUse
<1>11. IsReading(id) /\ Pos(id) = cursors[id + 1] /\ cursors[id + 1] \in Nat
  BY <1>2, ElementOfSeq DEF IsReading, HasSlot, Pos, Types
<1>12. lagging = Cardinality(Behind(cursors, n)) /\ IsFiniteSet(Behind(cursors, n))
  BY <1>3, BehindFinite DEF LaggingExact, Types
<1>13. cursors[id + 1] < n => lagging # 0
  <2>1. cursors[id + 1] < n => id + 1 \in Behind(cursors, n)
    BY <1>2 DEF Behind
  <2> QED
    BY <1>12, <2>1, FS_EmptySet
<1>14. lagging' = IF cursors[id + 1] < n THEN lagging - 1 ELSE lagging
  BY <1>11, <1>13 DEF RemoveReader, Minus1
<1>15. Types'
  <2>1. lagging' \in Nat
    BY <1>13, <1>14 DEF Types
  <2> QED
    BY <1>4, <1>5, <1>7, <1>8, <2>1 DEF Types, RemoveReader, buffers
<1>16. Room'
  BY DEF Room, RemoveReader, buffers
<1>17. SlotPerId'
  BY <1>2, <1>4, <1>7 DEF SlotPerId
<1>18. EmptyIsFree'
  <2>1. \A j \in 1 .. f : freeList[j] # id
    <3>1. id = (id + 1) - 1 /\ id + 1 \in 1 .. Len(cursors)
      BY <1>1, <1>2
    <3>2. \A j \in 1 .. f : freeList[j] # (id + 1) - 1
      BY <1>2, <3>1 DEF Slots, EmptyIsFree
    <3> QED
      BY <3>1, <3>2
  <2>2. \A j \in 1 .. f + 1 : j = f + 1 \/ j \in 1 .. f
    BY <1>5
  <2>3. \A j \in 1 .. f + 1 : freed[j] < nextId
    BY <1>2, <1>5, <2>2 DEF Slots, EmptyIsFree
  <2>4. \A i, j \in 1 .. f + 1 : freed[i] = freed[j] => i = j
    <3>1. \A i, j \in 1 .. f : freeList[i] = freeList[j] => i = j
      BY DEF Slots, EmptyIsFree
    <3> HIDE DEF freed, f, id
    <3> QED
      BY <1>5, <2>1, <2>2, <3>1
  <2> HIDE DEF gone, freed
  <2> QED
    BY <1>2, <1>3, <1>4, <1>5, <1>6, <1>7, <2>3, <2>4 DEF EmptyIsFree
<1>19. SlotInUse'
  <2>1. \A s, u \in Registered' : handle'[s] = handle'[u] => s = u
    BY <1>10 DEF Slots, SlotInUse
  <2>2. \A s \in Registered' : handle'[s] < nextId' /\ gone[handle'[s] + 1] # Gone
    <3>1. ASSUME NEW s \in Registered'
          PROVE  handle'[s] < nextId' /\ gone[handle'[s] + 1] # Gone
      <4>1. s \in Registered /\ handle'[s] = handle[s] /\ handle[s] # id /\ handle[s] \in Nat
        BY <1>10 DEF Registered, Types
      <4>2. handle[s] < nextId /\ cursors[handle[s] + 1] # Gone
        BY <4>1 DEF Slots, SlotInUse
      <4>3. handle[s] + 1 \in 1 .. nextId /\ handle[s] + 1 # id + 1
        BY <1>1, <1>2, <4>1, <4>2
      <4> HIDE DEF gone
      <4> QED
        BY <1>2, <1>4, <4>1, <4>2, <4>3
    <3> QED
      BY <3>1
  <2>3. ASSUME NEW k \in 1 .. nextId, gone[k] # Gone
        PROVE  \E s \in Registered' : handle'[s] = k - 1
    <3>1. k # id + 1 /\ cursors[k] # Gone
      BY <1>4, <2>3
    <3>2. PICK s \in Registered : handle[s] = k - 1
      BY <1>2, <3>1 DEF Slots, SlotInUse
    <3>3. s # r
      BY <1>1, <3>1, <3>2
    <3> QED
      BY <1>9, <1>10, <3>2, <3>3
  <2> HIDE DEF gone
  <2> QED
    BY <1>3, <1>4, <1>7, <2>1, <2>2, <2>3 DEF SlotInUse
<1>20. LaggingExact'
  <2>1. Cardinality(Behind(gone, n)) =
          IF cursors[id + 1] < n THEN Cardinality(Behind(cursors, n)) - 1
          ELSE Cardinality(Behind(cursors, n))
    <3>1. cursors \in Seq(Nat) /\ id + 1 \in 1 .. Len(cursors)
      BY <1>2 DEF Types
    <3> HIDE DEF n, id
    <3> QED
      BY <1>2, <1>3, <3>1, BehindSet
  <2>2. events' = events
    BY DEF RemoveReader, buffers
  <2> QED
    BY <1>7, <1>12, <1>14, <2>1, <2>2 DEF LaggingExact, Behind, Gone
<1> QED
  BY <1>15, <1>16, <1>17, <1>18, <1>19, <1>20 DEF Slots

\* A reader's position moves to v, which is in the buffer or at its end.
LEMMA AdvanceStep ==
    ASSUME IInv, NEW r \in Registered, NEW v \in 0 .. Len(events),
           cursors' = [cursors EXCEPT ![handle[r] + 1] = v],
           lagging' = IF Pos(handle[r]) < Len(events) /\ v >= Len(events)
                      THEN Minus1(lagging) ELSE lagging,
           ~(Pos(handle[r]) < Len(events)) => v = Len(events),
           UNCHANGED <<buffers, nextId, freeList, handle, sent>>
    PROVE  IInv'
<1> USE DEF IInv
<1> DEFINE id == handle[r]
           n == Len(events)
<1>1. id \in Nat /\ Gone' = Gone /\ Gone \in Nat /\ n \in Nat /\ n < Gone /\ NoSlot' = NoSlot
  BY Bounds DEF Registered, Types, Gone, NoSlot
<1>2. /\ nextId \in Nat /\ Len(cursors) = nextId /\ id + 1 \in 1 .. nextId
      /\ cursors[id + 1] # Gone /\ cursors \in Seq(Nat)
  BY <1>1 DEF Slots, SlotPerId, SlotInUse, Types
<1>3. v \in Nat /\ v # Gone /\ v <= n
  BY <1>1
<1>4. /\ cursors' \in Seq(Nat) /\ Len(cursors') = nextId
      /\ \A k \in 1 .. nextId : cursors'[k] = IF k = id + 1 THEN v ELSE cursors[k]
  BY <1>2, <1>3, ExceptSeq
<1>5. \A k \in 1 .. nextId : cursors'[k] = Gone <=> cursors[k] = Gone
  BY <1>2, <1>3, <1>4
<1>6. cursors[id + 1] \in Nat /\ Pos(id) = cursors[id + 1]
  BY <1>2, ElementOfSeq DEF Pos
<1>7. lagging = Cardinality(Behind(cursors, n)) /\ IsFiniteSet(Behind(cursors, n))
  BY <1>1, <1>2, BehindFinite DEF LaggingExact
<1>8. cursors[id + 1] < n => lagging # 0
  <2>1. cursors[id + 1] < n => id + 1 \in Behind(cursors, n)
    BY <1>2 DEF Behind
  <2> QED
    BY <1>7, <2>1, FS_EmptySet
<1>9. lagging' = IF cursors[id + 1] < n /\ v >= n THEN lagging - 1 ELSE lagging
  BY <1>6, <1>8 DEF Minus1
<1>10. lagging \in Nat /\ lagging' \in Nat
  <2>1. lagging \in Nat
    BY DEF Types
  <2> QED
    BY <1>8, <1>9, <2>1
<1>11. Types'
  BY <1>4, <1>10 DEF Types, buffers
<1>12. Room'
  BY DEF Room, buffers
<1>13. Registered' = Registered
  BY <1>1 DEF Registered
<1>14. \A s \in Registered : handle[s] + 1 \in 1 .. nextId
  BY <1>2 DEF Slots, SlotInUse, Registered, Types
<1>15. SlotPerId' /\ EmptyIsFree'
  BY <1>1, <1>2, <1>4, <1>5 DEF Slots, SlotPerId, EmptyIsFree
<1>16. SlotInUse'
  BY <1>1, <1>2, <1>4, <1>5, <1>13, <1>14 DEF Slots, SlotInUse
<1>17. LaggingExact'
  <2>1. Cardinality(Behind(cursors', n)) =
          IF cursors[id + 1] < n /\ v >= n THEN Cardinality(Behind(cursors, n)) - 1
          ELSE Cardinality(Behind(cursors, n))
    <3>1. id + 1 \in 1 .. Len(cursors) /\ cursors' = [cursors EXCEPT ![id + 1] = v]
      BY <1>2
    <3>2. (~(cursors[id + 1] < n) => v = n) /\ v \in 0 .. n
      BY <1>6
    <3> DEFINE k == id + 1
               moved == [cursors EXCEPT ![k] = v]
    <3>3. /\ cursors \in Seq(Nat) /\ n \in Nat /\ k \in 1 .. Len(cursors) /\ v \in 0 .. n
          /\ n < Gone /\ cursors[k] # Gone /\ (~(cursors[k] < n) => v = n)
      BY <1>1, <1>2, <3>1, <3>2
    <3>4. Cardinality(Behind(moved, n)) =
            IF cursors[k] < n /\ v >= n THEN Cardinality(Behind(cursors, n)) - 1
            ELSE Cardinality(Behind(cursors, n))
      <4> HIDE DEF n, k
      <4> QED
        BY ONLY <3>3, BehindAdvance
    <3>5. cursors' = moved
      BY <3>1
    <3> HIDE DEF moved, n
    <3> QED
      BY <3>4, <3>5
  <2>2. events' = events
    BY DEF buffers
  <2> QED
    BY <1>7, <1>9, <2>1, <2>2 DEF LaggingExact, Behind, Gone
<1> QED
  BY <1>11, <1>12, <1>15, <1>16, <1>17 DEF Slots

LEMMA ReadStep == ASSUME NEW r \in Readers PROVE IInv /\ Read(r) => IInv'
<1> SUFFICES ASSUME IInv, Read(r) PROVE IInv'
  OBVIOUS
<1>1. r \in Registered /\ Len(events) \in Nat /\ Len(events) \in 0 .. Len(events)
  BY Bounds DEF Read, Registered, IInv
<1>2. /\ cursors' = [cursors EXCEPT ![handle[r] + 1] = Len(events)]
      /\ lagging' = IF Pos(handle[r]) < Len(events) THEN Minus1(lagging) ELSE lagging
      /\ UNCHANGED <<buffers, nextId, freeList, handle, sent>>
  BY DEF Read
<1>3. Len(events) >= Len(events)
  BY <1>1
<1> QED
  BY <1>1, <1>2, <1>3, AdvanceStep

LEMMA ReadPartialStep ==
    ASSUME NEW r \in Readers, NEW m \in 1 .. 2 * MaxSent
    PROVE  IInv /\ ReadPartial(r, m) => IInv'
<1> SUFFICES ASSUME IInv, ReadPartial(r, m) PROVE IInv'
  OBVIOUS
<1> DEFINE id    == handle[r]
           n     == Len(events)
           count == IF m <= Len(Unread(id)) THEN m ELSE Len(Unread(id))
           pos   == IF Pos(id) + count <= n THEN Pos(id) + count ELSE n
<1>1. r \in Registered /\ n \in Nat /\ IsReading(id) /\ m \in Nat
  BY Bounds, EventsAssumption DEF ReadPartial, Registered, IInv
<1>2. Pos(id) \in Nat
  <2>1. id \in Nat
    BY EventsAssumption DEF IInv, Types
  <2>2. id < Len(cursors) /\ Len(cursors) \in Nat
    BY <1>1, LenProperties DEF IsReading, HasSlot, IInv, Types
  <2>3. id + 1 \in 1 .. Len(cursors)
    BY <2>1, <2>2
  <2> QED
    BY <2>3, ElementOfSeq DEF Pos, IInv, Types
<1>3. Len(Unread(id)) = IF Pos(id) < n THEN n - Pos(id) ELSE 0
  <2>1. CASE Pos(id) < n
    <3>1. \A i \in Pos(id) + 1 .. n : events[i] \in Event
      BY <1>2, ElementOfSeq DEF IInv, Types
    <3>2. Len(SubSeq(events, Pos(id) + 1, n)) =
            IF Pos(id) + 1 <= n THEN n - (Pos(id) + 1) + 1 ELSE 0
      <4>1. Pos(id) + 1 \in Int /\ n \in Int
        BY <1>1, <1>2
      <4> QED
        BY <3>1, <4>1, SubSeqProperties
    <3> QED
      BY <1>1, <1>2, <2>1, <3>2 DEF Unread
  <2>2. CASE ~(Pos(id) < n)
    BY <1>1, <2>2, EmptySeq DEF Unread
  <2> QED
    BY <2>1, <2>2
<1> HIDE DEF n
<1>4. count \in Nat
  BY <1>1, <1>2, <1>3
<1> HIDE DEF count
<1>5. pos \in 0 .. n /\ (~(Pos(id) < n) => pos = n)
  BY <1>1, <1>2, <1>4
<1>6. /\ cursors' = [cursors EXCEPT ![id + 1] = pos]
      /\ lagging' = IF Pos(id) < n /\ pos >= n THEN Minus1(lagging) ELSE lagging
      /\ UNCHANGED <<buffers, nextId, freeList, handle, sent>>
  BY DEF ReadPartial, n, count
<1> HIDE DEF pos
<1> QED
  BY <1>1, <1>5, <1>6, AdvanceStep DEF n

\* Positions go back to 0, empty slots stay empty.
LEMMA RewoundFacts ==
    ASSUME IInv
    PROVE  /\ Rewound \in Seq(Nat) /\ Len(Rewound) = Len(cursors)
           /\ \A k \in 1 .. Len(cursors) : Rewound[k] = Gone <=> cursors[k] = Gone
<1>1. Len(cursors) \in Nat
  BY LenProperties DEF IInv, Types
<1>2. Gone \in Nat /\ Gone # 0
  BY Bounds DEF IInv
<1>3. Rewound \in [1 .. Len(cursors) -> Nat]
  BY <1>2 DEF Rewound
<1>4. Rewound \in Seq(Nat) /\ Len(Rewound) = Len(cursors)
  BY <1>1, <1>3
<1> QED
  BY <1>2, <1>4 DEF Rewound

\* Emptiness is all that the slots' invariant looks at.
LEMMA SlotsPreserved ==
    ASSUME IInv, NEW cs \in {cursors, Rewound}, cursors' = cs,
           UNCHANGED <<nextId, handle>>, freeList' = freeList
    PROVE  cursors' \in Seq(Nat) /\ Slots'
<1>1. /\ cs \in Seq(Nat) /\ Len(cs) = Len(cursors)
      /\ \A k \in 1 .. Len(cursors) : cs[k] = Gone <=> cursors[k] = Gone
  BY RewoundFacts DEF IInv, Types
<1>2. Gone' = Gone /\ Registered' = Registered
  BY DEF Gone, Registered, NoSlot
<1>3. \A s \in Registered : handle[s] + 1 \in 1 .. Len(cursors)
  BY DEF IInv, Slots, SlotPerId, SlotInUse, Registered, Types
<1> QED
  BY <1>1, <1>2, <1>3 DEF IInv, Slots, SlotPerId, EmptyIsFree, SlotInUse

LEMMA UpdateStep == IInv /\ Update => IInv'
<1> SUFFICES ASSUME IInv, Update PROVE IInv'
  OBVIOUS
<1>1. /\ NewEvents \in Seq(Event)
      /\ Len(NewEvents) = Len(pending) + Len(syncPending)
  BY ConcatProperties DEF IInv, Types, NewEvents
<1>2. /\ pending' = <<>> /\ syncPending' = <<>> /\ Len(<<>>) = 0
      /\ UNCHANGED <<nextId, freeList, handle, sent>>
  BY EmptySeq DEF Update
<1>3. /\ events' \in Seq(Event)
      /\ Len(events') <= Len(events) + Len(pending) + Len(syncPending)
      /\ cursors' \in {cursors, Rewound}
  <2>1. CASE events = <<>> /\ NewEvents = <<>>
    BY <2>1, Bounds DEF Update, IInv, Types
  <2>2. CASE Replace
    BY <1>1, <2>2, Bounds DEF Replace, IInv
  <2>3. CASE Retain
    BY <1>1, <2>3, Bounds, ConcatProperties DEF Retain, Retained, IInv, Types
  <2> QED
    BY <2>1, <2>2, <2>3 DEF Update
<1>4. cursors' \in Seq(Nat) /\ Slots'
  BY <1>2, <1>3, SlotsPreserved
<1>5. Len(events') \in Nat
  BY <1>3, LenProperties
<1>6. LaggingExact' /\ lagging' \in Nat
  <2>1. CASE events = <<>> /\ NewEvents = <<>>
    BY <2>1 DEF Update, LaggingExact, Behind, Gone, IInv, Types
  <2>2. CASE ~(events = <<>> /\ NewEvents = <<>>)
    <3>1. lagging' = Cardinality(Behind(cursors', Len(events')))
      BY <2>2 DEF Update
    <3> QED
      BY <1>4, <1>5, <3>1, BehindFinite DEF LaggingExact, Behind, Gone
  <2> QED
    BY <2>1, <2>2
<1>7. Types'
  BY <1>2, <1>3, <1>4, <1>6, EmptySeq DEF IInv, Types
<1>8. Room'
  <2>1. sent["main"] \in Nat /\ sent["sync"] \in Nat
    BY DEF IInv, Types, Lanes
  <2> QED
    BY <1>2, <1>3, <1>5, <2>1, Bounds DEF IInv, Room
<1> QED
  BY <1>4, <1>6, <1>7, <1>8 DEF IInv

LEMMA ClearStep == ASSUME ~ClearAnytime PROVE IInv /\ Clear => IInv'
<1> SUFFICES ASSUME IInv, Clear PROVE IInv'
  OBVIOUS
<1>1. /\ freeList = <<>> /\ freeList' = freeList
      /\ cursors' = Rewound /\ lagging' = 0
      /\ events' = <<>> /\ pending' = <<>> /\ syncPending' = <<>> /\ Len(<<>>) = 0
      /\ UNCHANGED <<nextId, handle, sent>>
  BY EmptySeq DEF Clear
<1>2. cursors' \in Seq(Nat) /\ Slots'
  BY <1>1, SlotsPreserved
<1>3. Types'
  BY <1>1, <1>2, EmptySeq DEF IInv, Types
<1>4. Room'
  <2>1. sent["main"] \in Nat /\ sent["sync"] \in Nat
    BY DEF IInv, Types, Lanes
  <2> QED
    BY <1>1, <2>1 DEF Room
<1>5. LaggingExact'
  <2>1. \A k \in 1 .. Len(cursors') : cursors'[k] \in Nat
    BY <1>2, ElementOfSeq
  <2>2. \A k \in 1 .. Len(cursors') : ~(cursors'[k] < Len(events'))
    BY <1>1, <2>1
  <2>3. Behind(cursors', Len(events')) = {}
    BY <2>2 DEF Behind
  <2>4. LaggingExact' <=> lagging' = Cardinality(Behind(cursors', Len(events')))
    BY DEF LaggingExact, Behind, Gone
  <2> QED
    BY <1>1, <2>3, <2>4, FS_EmptySet
<1> QED
  BY <1>2, <1>3, <1>4, <1>5 DEF IInv

LEMMA NextIInv == ASSUME ~ClearAnytime PROVE IInv /\ [Next]_vars => IInv'
<1> SUFFICES ASSUME IInv, [Next]_vars PROVE IInv'
  OBVIOUS
<1>1. CASE Send
  BY <1>1, SendStep
<1>2. CASE SendSync
  BY <1>2, SendSyncStep
<1>3. CASE FlushSync
  BY <1>3, FlushSyncStep
<1>4. CASE Update
  BY <1>4, UpdateStep
<1>5. CASE Clear
  BY <1>5, ClearStep
<1>6. ASSUME NEW r \in Readers, ReaderStep(r) PROVE IInv'
  BY <1>6, AddReaderStep, RemoveReaderStep, ReadStep, ReadPartialStep DEF ReaderStep
<1>7. CASE UNCHANGED vars
  <2>1. Slots' /\ LaggingExact'
    BY <1>7, SlotsKept DEF IInv, vars, slots, buffers, LaggingExact, Behind, Gone
  <2> QED
    BY <1>7, <2>1 DEF IInv, vars, slots, buffers, Types, Room
<1> QED
  BY <1>1, <1>2, <1>3, <1>4, <1>5, <1>6, <1>7 DEF Next

LEMMA Invariance == ASSUME ~ClearAnytime PROVE Spec => []IInv
<1>1. IInv /\ [Next]_vars => IInv'
  BY NextIInv
<1> QED
  BY <1>1, InitIInv, PTL DEF Spec

-----------------------------------------------------------------------------
(* The theorems.                                                           *)

\* As many slots are in use as there are readers, since handles are a bijection
\* between them.
LEMMA InUseCounted ==
    ASSUME IInv
    PROVE  Cardinality(Registered) = Cardinality({k \in 1 .. Len(cursors) : cursors[k] # Gone})
<1> DEFINE T == {k \in 1 .. Len(cursors) : cursors[k] # Gone}
<1>1. \A r \in Registered : handle[r] \in Nat /\ handle[r] + 1 \in 1 .. Len(cursors)
  BY DEF IInv, Slots, SlotPerId, SlotInUse, Registered, Types
<1>2. \A k \in T : k \in Nat /\ \E r \in Registered : handle[r] = k - 1
  BY LenProperties DEF IInv, Slots, SlotInUse, Types
<1> DEFINE reader == [k \in T |-> CHOOSE r \in Registered : handle[r] = k - 1]
<1>3. \A k \in T : reader[k] \in Registered /\ handle[reader[k]] = k - 1
  BY <1>2
<1>4. reader \in Bijection(T, Registered)
  <2>1. reader \in Injection(T, Registered)
    <3>1. ASSUME NEW k \in T, NEW m \in T, reader[k] = reader[m] PROVE k = m
      BY <1>2, <1>3, <3>1
    <3> HIDE DEF T
    <3>2. reader \in [T -> Registered]
      BY <1>3
    <3> HIDE DEF reader
    <3> QED
      BY <3>1, <3>2 DEF Injection, IsInjective
  <2>2. reader \in Surjection(T, Registered)
    <3>1. ASSUME NEW r \in Registered PROVE \E k \in T : reader[k] = r
      <4>1. handle[r] + 1 \in T
        BY <1>1 DEF IInv, Slots, SlotInUse
      <4>2. handle[reader[handle[r] + 1]] = handle[r]
        BY <1>1, <1>3, <4>1
      <4> QED
        BY <1>3, <4>1, <4>2 DEF IInv, Slots, SlotInUse
    <3> HIDE DEF T
    <3>2. reader \in [T -> Registered]
      BY <1>3
    <3> HIDE DEF reader
    <3> QED
      BY <3>1, <3>2 DEF Surjection
  <2> QED
    BY <2>1, <2>2 DEF Bijection
<1>5. ExistsBijection(T, Registered)
  BY <1>4 DEF ExistsBijection
<1>6. IsFiniteSet(T)
  <2>1. IsFiniteSet(1 .. Len(cursors)) /\ T \in SUBSET (1 .. Len(cursors))
    BY FS_Interval, LenProperties DEF IInv, Types
  <2> QED
    BY <2>1, FS_Subset
<1> HIDE DEF T
<1>7. Cardinality(Registered) = Cardinality(T)
  BY <1>5, <1>6, FS_Bijection
<1> QED
  BY <1>7 DEF T

LEMMA OwnCursorHolds == ASSUME IInv PROVE OwnCursor
<1> USE DEF IInv
<1>1. \A r \in Registered : /\ handle[r] \in Nat /\ handle[r] < Len(cursors)
                            /\ handle[r] + 1 \in 1 .. Len(cursors)
                            /\ cursors[handle[r] + 1] # Gone
  BY DEF Slots, SlotPerId, SlotInUse, Registered, Types
<1>2. ASSUME NEW r \in Registered, NEW j \in 1 .. Len(freeList)
      PROVE  freeList[j] # handle[r]
  <2>1. (handle[r] + 1) - 1 = handle[r]
    BY <1>1
  <2>2. freeList[j] # (handle[r] + 1) - 1
    BY <1>1 DEF Slots, EmptyIsFree
  <2> QED
    BY <2>1, <2>2
<1>3. \A r \in Registered : IsReading(handle[r])
  BY <1>1 DEF IsReading, HasSlot, Pos
<1>4. \A r, s \in Registered : handle[r] = handle[s] => r = s
  BY DEF Slots, SlotInUse
<1> QED
  BY <1>2, <1>3, <1>4, InUseCounted DEF OwnCursor

\* The count by which `update` decides whether unread events may go is the
\* number of readers that are behind, if `clear` is only called while no cursor
\* id is free.
THEOREM LaggardsAreCounted == ASSUME ~ClearAnytime PROVE Spec => []LaggingExact
<1>1. IInv => LaggingExact
  BY DEF IInv
<1> QED
  BY <1>1, Invariance, PTL

\* No two readers share a cursor, none has an id that may be issued again, and
\* each has a slot, under the same condition: trimming the tail of the slots
\* never takes one whose id is in use or waits to be used.
THEOREM ReadersOwnTheirCursors == ASSUME ~ClearAnytime PROVE Spec => []OwnCursor
<1>1. IInv => OwnCursor
  BY OwnCursorHolds
<1> QED
  BY <1>1, Invariance, PTL

-----------------------------------------------------------------------------
(* Where the events of a lane lie.                                         *)

\* After each position lie the last ones that were sent.
Runs(u, st) ==
    \A p \in 0 .. Len(u), lane \in Lanes :
      \E b \in 0 .. st[lane] : After(u, p, lane) = b + 1 .. st[lane]

Flow(u, st) == InOrder(u) /\ Runs(u, st)

LEMMA AfterFacts ==
    ASSUME NEW s, NEW p, NEW lane, NEW x
    PROVE  x \in After(s, p, lane)
             <=> \E k \in p + 1 .. Len(s) : s[k].lane = lane /\ s[k].n = x
BY DEF After

\* What is dropped from the front was the oldest.
LEMMA Dropped ==
    ASSUME NEW u \in Seq(Event), NEW st \in [Lanes -> Nat], Flow(u, st),
           NEW d \in 0 .. Len(u), NEW v \in Seq(Event), Len(v) = Len(u) - d,
           \A k \in 1 .. Len(v) : v[k] = u[d + k]
    PROVE  /\ Flow(v, st)
           /\ \A p \in 0 .. Len(v), lane \in Lanes : After(v, p, lane) = After(u, d + p, lane)
<1>1. Len(u) \in Nat /\ Len(v) \in Nat /\ d \in Nat
  BY LenProperties
<1>2. ASSUME NEW p \in 0 .. Len(v), NEW lane \in Lanes
      PROVE  After(v, p, lane) = After(u, d + p, lane)
  <2>1. ASSUME NEW x PROVE x \in After(v, p, lane) <=> x \in After(u, d + p, lane)
    <3>1. ASSUME NEW k \in p + 1 .. Len(v), v[k].lane = lane, v[k].n = x
          PROVE  \E j \in d + p + 1 .. Len(u) : u[j].lane = lane /\ u[j].n = x
      <4>1. d + k \in d + p + 1 .. Len(u) /\ k \in 1 .. Len(v)
        BY <1>1
      <4> QED
        BY <3>1, <4>1
    <3>2. ASSUME NEW j \in d + p + 1 .. Len(u), u[j].lane = lane, u[j].n = x
          PROVE  \E k \in p + 1 .. Len(v) : v[k].lane = lane /\ v[k].n = x
      <4>1. j - d \in p + 1 .. Len(v) /\ j - d \in 1 .. Len(v) /\ d + (j - d) = j
        BY <1>1
      <4>2. v[j - d] = u[j]
        BY <4>1
      <4> QED
        BY <3>2, <4>1, <4>2
    <3>3. x \in After(v, p, lane) <=> \E k \in p + 1 .. Len(v) : v[k].lane = lane /\ v[k].n = x
      BY ONLY AfterFacts
    <3>4. x \in After(u, d + p, lane)
            <=> \E j \in d + p + 1 .. Len(u) : u[j].lane = lane /\ u[j].n = x
      BY ONLY AfterFacts
    <3> QED
      BY <3>1, <3>2, <3>3, <3>4
  <2> QED
    BY <2>1
<1>3. InOrder(v)
  <2> SUFFICES ASSUME NEW k \in 1 .. Len(v), NEW j \in 1 .. k - 1, v[j].lane = v[k].lane
               PROVE  v[j].n < v[k].n
    BY DEF InOrder
  <2>1. d + k \in 1 .. Len(u) /\ d + j \in 1 .. (d + k) - 1 /\ j \in 1 .. Len(v)
    BY <1>1
  <2>2. v[k] = u[d + k] /\ v[j] = u[d + j]
    BY <2>1
  <2> QED
    BY <2>1, <2>2 DEF Flow, InOrder
<1>4. Runs(v, st)
  <2> SUFFICES ASSUME NEW p \in 0 .. Len(v), NEW lane \in Lanes
               PROVE  \E b \in 0 .. st[lane] : After(v, p, lane) = b + 1 .. st[lane]
    BY DEF Runs
  <2>1. d + p \in 0 .. Len(u)
    BY <1>1
  <2>2. \E b \in 0 .. st[lane] : After(u, d + p, lane) = b + 1 .. st[lane]
    BY <2>1 DEF Flow, Runs
  <2> QED
    BY <1>2, <2>2
<1> QED
  BY <1>2, <1>3, <1>4 DEF Flow

\* A reader that gets the events between two positions knows where it is.
Reading(u, st, p, q, part, lane, sn) ==
    /\ u \in Seq(Event) /\ st \in [Lanes -> Nat] /\ Flow(u, st)
    /\ p \in 0 .. Len(u) /\ q \in p .. Len(u)
    /\ Len(part) = q - p /\ \A k \in 1 .. q - p : part[k] = u[p + k]
    /\ lane \in Lanes /\ sn \in 0 .. st[lane]
    /\ After(u, p, lane) = sn + 1 .. st[lane]

LEMMA Taken ==
    ASSUME NEW u, NEW st, NEW p, NEW q, NEW part, NEW lane, NEW sn,
           Reading(u, st, p, q, part, lane, sn)
    PROVE  LET g == Greatest({sn} \cup After(part, 0, lane))
           IN  g \in 0 .. st[lane] /\ After(u, q, lane) = g + 1 .. st[lane]
<1>0. /\ u \in Seq(Event) /\ st \in [Lanes -> Nat] /\ Flow(u, st)
      /\ p \in 0 .. Len(u) /\ q \in p .. Len(u)
      /\ Len(part) = q - p /\ \A k \in 1 .. q - p : part[k] = u[p + k]
      /\ lane \in Lanes /\ sn \in 0 .. st[lane]
      /\ After(u, p, lane) = sn + 1 .. st[lane]
  BY DEF Reading
<1> USE <1>0
<1> DEFINE S == {sn} \cup After(part, 0, lane)
<1>1. Len(u) \in Nat /\ p \in Nat /\ q \in Nat /\ p <= q /\ q <= Len(u) /\ st[lane] \in Nat /\ sn \in Nat
  BY LenProperties
<1>2. \A x : x \in After(part, 0, lane) <=> \E k \in p + 1 .. q : u[k].lane = lane /\ u[k].n = x
  <2>1. ASSUME NEW x PROVE x \in After(part, 0, lane) <=> \E k \in p + 1 .. q : u[k].lane = lane /\ u[k].n = x
    <3>1. ASSUME NEW k \in 0 + 1 .. Len(part), part[k].lane = lane, part[k].n = x
          PROVE  \E j \in p + 1 .. q : u[j].lane = lane /\ u[j].n = x
      <4>1. p + k \in p + 1 .. q /\ part[k] = u[p + k]
        BY <1>1
      <4> QED
        BY <3>1, <4>1
    <3>2. ASSUME NEW j \in p + 1 .. q, u[j].lane = lane, u[j].n = x
          PROVE  \E k \in 0 + 1 .. Len(part) : part[k].lane = lane /\ part[k].n = x
      <4>1. j - p \in 0 + 1 .. Len(part) /\ j - p \in 1 .. q - p /\ p + (j - p) = j
        BY <1>1
      <4>2. part[j - p] = u[j]
        BY <4>1
      <4> QED
        BY <3>2, <4>1, <4>2
    <3>3. x \in After(part, 0, lane)
            <=> \E k \in 0 + 1 .. Len(part) : part[k].lane = lane /\ part[k].n = x
      BY ONLY AfterFacts
    <3> QED
      BY <3>1, <3>2, <3>3
  <2> QED
    BY <2>1
<1>3. PICK b \in 0 .. st[lane] : After(u, q, lane) = b + 1 .. st[lane]
  <2>1. q \in 0 .. Len(u)
    BY <1>1
  <2> QED
    BY <2>1 DEF Flow, Runs
<1>4. \A x : x \in After(u, p, lane) <=> x \in After(part, 0, lane) \/ x \in After(u, q, lane)
  <2>1. \A k : k \in p + 1 .. Len(u) <=> k \in p + 1 .. q \/ k \in q + 1 .. Len(u)
    BY <1>1
  <2>2. \A x : x \in After(u, p, lane) <=> \E k \in p + 1 .. Len(u) : u[k].lane = lane /\ u[k].n = x
    BY ONLY AfterFacts
  <2>3. \A x : x \in After(u, q, lane) <=> \E k \in q + 1 .. Len(u) : u[k].lane = lane /\ u[k].n = x
    BY ONLY AfterFacts
  <2> QED
    BY <1>2, <2>1, <2>2, <2>3
<1>5. ASSUME NEW x \in After(part, 0, lane) PROVE x \in sn + 1 .. st[lane] /\ x <= b
  <2>1. x \in sn + 1 .. st[lane]
    BY <1>4
  <2>2. PICK k \in p + 1 .. q : u[k].lane = lane /\ u[k].n = x
    BY <1>2
  <2>3. ASSUME x > b PROVE FALSE
    <3>1. x \in After(u, q, lane)
      BY <1>1, <1>3, <2>1, <2>3
    <3>2. PICK j \in q + 1 .. Len(u) : u[j].lane = lane /\ u[j].n = x
      BY <3>1, AfterFacts
    <3>3. j \in 1 .. Len(u) /\ k \in 1 .. j - 1
      BY <1>1
    <3>4. x < x
      BY <2>2, <3>2, <3>3 DEF Flow, InOrder
    <3> QED
      BY <1>1, <2>1, <3>4
  <2> QED
    BY <1>1, <2>1, <2>3
<1>6. b >= sn
  <2>1. ASSUME b < sn PROVE FALSE
    <3>1. sn \in After(u, q, lane)
      BY <1>1, <1>3, <2>1
    <3>2. sn \in sn + 1 .. st[lane]
      BY <1>4, <3>1
    <3> QED
      BY <1>1, <3>2
  <2> QED
    BY <1>1, <2>1
<1>7. b \in S
  <2>1. CASE b = sn
    BY <2>1
  <2>2. CASE b # sn
    <3>1. b \in sn + 1 .. st[lane] /\ b \notin b + 1 .. st[lane]
      BY <1>1, <1>6, <2>2
    <3> QED
      BY <1>3, <1>4, <3>1
  <2> QED
    BY <2>1, <2>2
<1>8. \A x \in S : x \in Nat /\ x <= b
  BY <1>1, <1>5, <1>6
<1> HIDE DEF S
<1>9. Greatest(S) \in S /\ \A x \in S : x <= Greatest(S)
  BY <1>7, <1>8 DEF Greatest
<1>10. Greatest(S) = b
  <2>1. Greatest(S) \in Nat /\ b \in Nat /\ Greatest(S) <= b /\ b <= Greatest(S)
    BY <1>7, <1>8, <1>9
  <2> QED
    BY <2>1
<1> QED
  BY <1>3, <1>10 DEF S

\* What a reader that joins has missed.
LEMMA Joining ==
    ASSUME NEW u \in Seq(Event), NEW st \in [Lanes -> Nat], Flow(u, st), NEW lane \in Lanes
    PROVE  LET g == Greatest((0 .. st[lane]) \ After(u, 0, lane))
           IN  g \in 0 .. st[lane] /\ After(u, 0, lane) = g + 1 .. st[lane]
<1> DEFINE S == (0 .. st[lane]) \ After(u, 0, lane)
<1>1. PICK b \in 0 .. st[lane] : After(u, 0, lane) = b + 1 .. st[lane]
  <2>1. 0 \in 0 .. Len(u)
    BY LenProperties
  <2> QED
    BY <2>1 DEF Flow, Runs
<1>2. b \in S /\ \A x \in S : x \in Nat /\ x <= b
  BY <1>1
<1> HIDE DEF S
<1>3. Greatest(S) \in S /\ \A x \in S : x <= Greatest(S)
  BY <1>2 DEF Greatest
<1>4. Greatest(S) = b
  <2>1. Greatest(S) \in Nat /\ b \in Nat /\ Greatest(S) <= b /\ b <= Greatest(S)
    BY <1>2, <1>3
  <2> QED
    BY <2>1
<1> QED
  BY <1>1, <1>4 DEF S

\* The next c events of a lane are put in after position a, where none of the
\* lane comes later.
Insertion(u, st, v, w, a, c, lane) ==
    /\ u \in Seq(Event) /\ st \in [Lanes -> Nat] /\ Flow(u, st)
    /\ v \in Seq(Event) /\ w \in [Lanes -> Nat]
    /\ a \in 0 .. Len(u) /\ c \in Nat /\ lane \in Lanes
    /\ Len(v) = Len(u) + c
    /\ \A k \in 1 .. a : v[k] = u[k]
    /\ \A k \in 1 .. c : v[a + k].lane = lane /\ v[a + k].n = st[lane] + k
    /\ \A k \in a + 1 .. Len(u) : v[c + k] = u[k] /\ u[k].lane # lane
    /\ w[lane] = st[lane] + c
    /\ \A l \in Lanes : l # lane => w[l] = st[l]

LEMMA Inserted ==
    ASSUME NEW u, NEW st, NEW v, NEW w, NEW a, NEW c, NEW lane,
           Insertion(u, st, v, w, a, c, lane)
    PROVE  /\ Flow(v, w)
           /\ \A p \in 0 .. a, l \in Lanes : \A b \in 0 .. st[l] :
                After(u, p, l) = b + 1 .. st[l] => After(v, p, l) = b + 1 .. w[l]
<1>0. /\ u \in Seq(Event) /\ st \in [Lanes -> Nat] /\ Flow(u, st)
      /\ v \in Seq(Event) /\ w \in [Lanes -> Nat]
      /\ a \in 0 .. Len(u) /\ c \in Nat /\ lane \in Lanes
      /\ Len(v) = Len(u) + c
      /\ \A k \in 1 .. a : v[k] = u[k]
      /\ \A k \in 1 .. c : v[a + k].lane = lane /\ v[a + k].n = st[lane] + k
      /\ \A k \in a + 1 .. Len(u) : v[c + k] = u[k] /\ u[k].lane # lane
      /\ w[lane] = st[lane] + c
      /\ \A l \in Lanes : l # lane => w[l] = st[l]
  BY DEF Insertion
<1> USE <1>0
<1> DEFINE m == Len(u)
           x == st[lane]
<1>1. m \in Nat /\ a \in Nat /\ a <= m /\ x \in Nat /\ Len(v) = m + c /\ Len(v) \in Nat
  BY LenProperties
<1>2. \A k \in 1 .. m : u[k].n \in Nat /\ u[k].lane \in Lanes
  <2> SUFFICES ASSUME NEW k \in 1 .. m PROVE u[k].n \in Nat /\ u[k].lane \in Lanes
    OBVIOUS
  <2>1. u[k] \in Event
    BY ElementOfSeq
  <2>2. u[k].lane \in Lanes /\ u[k].n \in 1 .. MaxSent
    BY <2>1 DEF Event
  <2> QED
    BY <2>2
<1>3. ASSUME NEW k \in 1 .. m, u[k].lane = lane PROVE u[k].n <= x /\ k <= a
  <2>1. PICK b \in 0 .. st[lane] : After(u, 0, lane) = b + 1 .. st[lane]
    <3>1. 0 \in 0 .. Len(u)
      BY <1>1
    <3> QED
      BY <3>1 DEF Flow, Runs
  <2>2. u[k].n \in After(u, 0, lane)
    <3>1. k \in 0 + 1 .. Len(u) /\ u[k].lane = lane
      BY <1>1, <1>3
    <3> QED
      BY ONLY <3>1, AfterFacts
  <2>3. u[k].n <= x
    BY <2>1, <2>2
  <2>4. ~(k \in a + 1 .. Len(u))
    BY <1>3
  <2> QED
    BY <1>1, <2>3, <2>4
\* Each position of v is one of u, or a new one.
<1> DEFINE Old(k) == k \in 1 .. a \/ k \in a + c + 1 .. m + c
           At(k) == IF k <= a THEN k ELSE k - c
<1>4. ASSUME NEW k \in 1 .. m + c
      PROVE  \/ /\ Old(k) /\ At(k) \in 1 .. m /\ v[k] = u[At(k)]
                /\ k > a + c => At(k) > a /\ u[At(k)].lane # lane
             \/ /\ k \in a + 1 .. a + c /\ v[k].lane = lane /\ v[k].n = x + (k - a)
  <2>1. CASE k \in 1 .. a
    BY <1>1, <2>1
  <2>2. CASE k \in a + 1 .. a + c
    <3>1. k - a \in 1 .. c /\ a + (k - a) = k
      BY <1>1, <2>2
    <3>2. v[a + (k - a)].lane = lane /\ v[a + (k - a)].n = st[lane] + (k - a)
      BY <3>1
    <3> QED
      BY <2>2, <3>1, <3>2
  <2>3. CASE k \in a + c + 1 .. m + c
    <3>1. k - c \in a + 1 .. Len(u) /\ c + (k - c) = k /\ k - c \in 1 .. m /\ k - c > a /\ ~(k <= a)
      BY <1>1, <2>3
    <3>2. v[c + (k - c)] = u[k - c] /\ u[k - c].lane # lane
      BY <3>1
    <3> QED
      BY <2>3, <3>1, <3>2
  <2> QED
    BY <1>1, <2>1, <2>2, <2>3
<1>10. \A l \in Lanes : /\ st[l] <= w[l] /\ st[l] \in Nat /\ w[l] \in Nat
                        /\ l = lane => w[l] = x + c
                        /\ l # lane => w[l] = st[l]
  <2> SUFFICES ASSUME NEW l \in Lanes
               PROVE  /\ st[l] <= w[l] /\ st[l] \in Nat /\ w[l] \in Nat
                      /\ l = lane => w[l] = x + c
                      /\ l # lane => w[l] = st[l]
    OBVIOUS
  <2>1. st[l] \in Nat /\ w[l] \in Nat
    OBVIOUS
  <2>2. CASE l = lane
    BY <1>1, <2>1, <2>2
  <2>3. CASE l # lane
    BY <1>1, <2>1, <2>3
  <2> QED
    BY <2>2, <2>3
<1>5. InOrder(v)
  <2> SUFFICES ASSUME NEW k \in 1 .. Len(v), NEW j \in 1 .. k - 1, v[j].lane = v[k].lane
               PROVE  v[j].n < v[k].n
    BY DEF InOrder
  <2>1. k \in 1 .. m + c /\ j \in 1 .. m + c /\ j < k
    BY <1>1
  <2>2. CASE k \in a + 1 .. a + c
    <3>1. v[k].lane = lane /\ v[k].n = x + (k - a)
      BY <1>1, <1>4, <2>1, <2>2
    <3>2. CASE j \in a + 1 .. a + c
      <4>1. v[j].n = x + (j - a)
        BY <1>1, <1>4, <2>1, <3>2
      <4> QED
        BY <1>1, <2>1, <2>2, <3>1, <3>2, <4>1
    <3>3. CASE ~(j \in a + 1 .. a + c)
      <4>1. At(j) \in 1 .. m /\ v[j] = u[At(j)]
        BY <1>4, <2>1, <3>3
      <4>2. u[At(j)].n <= x /\ u[At(j)].n \in Nat
        BY <1>2, <1>3, <3>1, <4>1
      <4>3. v[j].n <= x /\ v[j].n \in Nat
        BY <4>1, <4>2
      <4> HIDE DEF At
      <4> QED
        BY <1>1, <2>2, <3>1, <4>3
    <3> QED
      BY <3>2, <3>3
  <2>3. CASE ~(k \in a + 1 .. a + c)
    <3>1. At(k) \in 1 .. m /\ v[k] = u[At(k)] /\ Old(k) /\ (k > a + c => u[At(k)].lane # lane)
      BY <1>4, <2>1, <2>3
    <3>2. ~(j \in a + 1 .. a + c)
      <4>1. ASSUME j \in a + 1 .. a + c PROVE FALSE
        <5>1. v[j].lane = lane
          BY <1>1, <1>4, <2>1, <4>1
        <5>2. k > a + c
          BY <1>1, <2>1, <3>1, <4>1
        <5> QED
          BY <3>1, <5>1, <5>2
      <4> QED
        BY <4>1
    <3>3. At(j) \in 1 .. m /\ v[j] = u[At(j)] /\ Old(j)
      BY <1>4, <2>1, <3>2
    <3>4. At(j) \in 1 .. At(k) - 1
      <4>1. CASE k <= a
        BY <1>1, <2>1, <4>1
      <4>2. CASE k > a + c /\ j <= a
        BY <1>1, <1>4, <2>1, <2>3, <4>2
      <4>3. CASE k > a + c /\ j > a + c
        BY <1>1, <2>1, <4>3
      <4> QED
        BY <1>1, <2>1, <2>3, <3>2, <4>1, <4>2, <4>3
    <3> HIDE DEF At, Old
    <3> QED
      BY <3>1, <3>3, <3>4 DEF Flow, InOrder
  <2> QED
    BY <2>2, <2>3
<1>6. ASSUME NEW p \in 0 .. a, NEW l \in Lanes, NEW b \in 0 .. st[l],
             After(u, p, l) = b + 1 .. st[l]
      PROVE  After(v, p, l) = b + 1 .. w[l]
  <2>1. ASSUME NEW y PROVE y \in After(v, p, l) <=> y \in b + 1 .. w[l]
    <3>1. ASSUME NEW k \in p + 1 .. Len(v), v[k].lane = l, v[k].n = y PROVE y \in b + 1 .. w[l]
      <4>1. k \in 1 .. m + c
        BY <1>1
      <4>2. CASE k \in a + 1 .. a + c
        <5>1. l = lane /\ y = x + (k - a)
          BY <1>1, <1>4, <3>1, <4>1, <4>2
        <5> QED
          BY <1>1, <4>2, <5>1
      <4>3. CASE ~(k \in a + 1 .. a + c)
        <5>1. At(k) \in 1 .. m /\ v[k] = u[At(k)] /\ Old(k)
          BY <1>4, <4>1, <4>3
        <5>2. At(k) \in p + 1 .. Len(u)
          BY <1>1, <5>1
        <5>3. u[At(k)].lane = l /\ u[At(k)].n = y
          BY <3>1, <5>1
        <5> HIDE DEF At
        <5>4. y \in After(u, p, l)
          BY ONLY <5>2, <5>3, AfterFacts
        <5>5. y \in b + 1 .. st[l]
          BY <1>6, <5>4
        <5> QED
          BY <1>10, <5>5
      <4> QED
        BY <4>2, <4>3
    <3>2. ASSUME y \in b + 1 .. w[l]
          PROVE  \E k \in p + 1 .. Len(v) : v[k].lane = l /\ v[k].n = y
      <4>1. CASE y \in b + 1 .. st[l]
        <5>1. y \in After(u, p, l)
          BY <1>6, <4>1
        <5>2. PICK j \in p + 1 .. Len(u) : u[j].lane = l /\ u[j].n = y
          BY ONLY <5>1, AfterFacts
        <5>3. CASE j <= a
          <6>1. v[j] = u[j] /\ j \in p + 1 .. Len(v)
            BY <1>1, <5>3
          <6> QED
            BY <5>2, <6>1
        <5>4. CASE j > a
          <6>1. v[c + j] = u[j] /\ c + j \in p + 1 .. Len(v)
            BY <1>1, <5>4
          <6> QED
            BY <5>2, <6>1
        <5> QED
          BY <1>1, <5>3, <5>4
      <4>2. CASE ~(y \in b + 1 .. st[l])
        <5>1. l = lane /\ y - x \in 1 .. c /\ x + (y - x) = y
          BY <1>1, <3>2, <4>2
        <5>2. v[a + (y - x)].lane = lane /\ v[a + (y - x)].n = x + (y - x)
          BY <5>1
        <5>3. a + (y - x) \in p + 1 .. Len(v)
          BY <1>1, <5>1
        <5> QED
          BY <5>1, <5>2, <5>3
      <4> QED
        BY <4>1, <4>2
    <3>3. y \in After(v, p, l) <=> \E k \in p + 1 .. Len(v) : v[k].lane = l /\ v[k].n = y
      BY ONLY AfterFacts
    <3> QED
      BY <3>1, <3>2, <3>3
  <2> QED
    BY <2>1
<1>7. ASSUME NEW p \in a + 1 .. a + c
      PROVE  /\ After(v, p, lane) = (x + (p - a)) + 1 .. w[lane]
             /\ \A l \in Lanes : l # lane => After(v, p, l) = After(u, a, l)
  <2>1. ASSUME NEW y PROVE y \in After(v, p, lane) <=> y \in (x + (p - a)) + 1 .. w[lane]
    <3>1. ASSUME NEW k \in p + 1 .. Len(v), v[k].lane = lane, v[k].n = y
          PROVE  y \in (x + (p - a)) + 1 .. w[lane]
      <4>1. k \in 1 .. m + c /\ k > a /\ ~(k \in 1 .. a) /\ ~(k <= a)
        BY <1>1
      <4>2. k \in a + 1 .. a + c
        <5>1. ASSUME ~(k \in a + 1 .. a + c) PROVE FALSE
          <6>1. k > a + c
            BY <1>1, <4>1, <5>1
          <6>2. v[k] = u[At(k)] /\ u[At(k)].lane # lane
            BY <1>4, <4>1, <5>1, <6>1
          <6> QED
            BY <3>1, <6>2
        <5> QED
          BY <5>1
      <4>3. y = x + (k - a)
        BY <1>1, <1>4, <3>1, <4>1, <4>2
      <4> QED
        BY <1>1, <4>2, <4>3
    <3>2. ASSUME y \in (x + (p - a)) + 1 .. w[lane]
          PROVE  \E k \in p + 1 .. Len(v) : v[k].lane = lane /\ v[k].n = y
      <4>1. y - x \in 1 .. c /\ x + (y - x) = y /\ a + (y - x) \in p + 1 .. Len(v)
        <5>1. w[lane] = x + c /\ p \in Int /\ p > a /\ p <= a + c
          BY <1>1, <1>10
        <5>2. y \in (x + (p - a)) + 1 .. x + c
          BY <3>2, <5>1
        <5> QED
          BY <1>1, <5>1, <5>2
      <4>2. v[a + (y - x)].lane = lane /\ v[a + (y - x)].n = x + (y - x)
        BY <4>1
      <4> QED
        BY <4>1, <4>2
    <3>3. y \in After(v, p, lane) <=> \E k \in p + 1 .. Len(v) : v[k].lane = lane /\ v[k].n = y
      BY ONLY AfterFacts
    <3> QED
      BY <3>1, <3>2, <3>3
  <2>2. ASSUME NEW l \in Lanes, l # lane, NEW y PROVE y \in After(v, p, l) <=> y \in After(u, a, l)
    <3>1. ASSUME NEW k \in p + 1 .. Len(v), v[k].lane = l, v[k].n = y
          PROVE  \E j \in a + 1 .. Len(u) : u[j].lane = l /\ u[j].n = y
      <4>1. k \in 1 .. m + c /\ k > a /\ ~(k \in 1 .. a) /\ ~(k <= a)
        BY <1>1
      <4>2. ~(k \in a + 1 .. a + c)
        BY <1>1, <1>4, <2>2, <3>1, <4>1
      <4>3. k - c \in a + 1 .. Len(u) /\ v[k] = u[k - c]
        BY <1>1, <1>4, <4>1, <4>2
      <4> QED
        BY <3>1, <4>3
    <3>2. ASSUME NEW j \in a + 1 .. Len(u), u[j].lane = l, u[j].n = y
          PROVE  \E k \in p + 1 .. Len(v) : v[k].lane = l /\ v[k].n = y
      <4>1. v[c + j] = u[j] /\ c + j \in p + 1 .. Len(v)
        BY <1>1
      <4> QED
        BY <3>2, <4>1
    <3>3. y \in After(v, p, l) <=> \E k \in p + 1 .. Len(v) : v[k].lane = l /\ v[k].n = y
      BY ONLY AfterFacts
    <3>4. y \in After(u, a, l) <=> \E j \in a + 1 .. Len(u) : u[j].lane = l /\ u[j].n = y
      BY ONLY AfterFacts
    <3> QED
      BY <3>1, <3>2, <3>3, <3>4
  <2> QED
    BY <2>1, <2>2
<1>8. ASSUME NEW p \in a + c + 1 .. m + c
      PROVE  /\ After(v, p, lane) = {}
             /\ \A l \in Lanes : l # lane => After(v, p, l) = After(u, p - c, l)
  <2>1. \A k \in p + 1 .. Len(v) : k - c \in a + 1 .. Len(u) /\ v[k] = u[k - c] /\ v[k].lane # lane
    <3> SUFFICES ASSUME NEW k \in p + 1 .. Len(v)
                 PROVE  k - c \in a + 1 .. Len(u) /\ v[k] = u[k - c] /\ v[k].lane # lane
      OBVIOUS
    <3>1. k - c \in a + 1 .. Len(u) /\ c + (k - c) = k
      BY <1>1
    <3>2. v[c + (k - c)] = u[k - c] /\ u[k - c].lane # lane
      BY <3>1
    <3> QED
      BY <3>1, <3>2
  <2>2. After(v, p, lane) = {}
    BY <2>1 DEF After
  <2>3. ASSUME NEW l \in Lanes, NEW y PROVE y \in After(v, p, l) <=> y \in After(u, p - c, l)
    <3>1. ASSUME NEW k \in p + 1 .. Len(v), v[k].lane = l, v[k].n = y
          PROVE  \E j \in p - c + 1 .. Len(u) : u[j].lane = l /\ u[j].n = y
      <4>1. k - c \in p - c + 1 .. Len(u)
        BY <1>1
      <4> QED
        BY <2>1, <3>1, <4>1
    <3>2. ASSUME NEW j \in p - c + 1 .. Len(u), u[j].lane = l, u[j].n = y
          PROVE  \E k \in p + 1 .. Len(v) : v[k].lane = l /\ v[k].n = y
      <4>1. j \in a + 1 .. Len(u) /\ c + j \in p + 1 .. Len(v)
        BY <1>1
      <4> QED
        BY <3>2, <4>1
    <3>3. y \in After(v, p, l) <=> \E k \in p + 1 .. Len(v) : v[k].lane = l /\ v[k].n = y
      BY ONLY AfterFacts
    <3>4. y \in After(u, p - c, l) <=> \E j \in p - c + 1 .. Len(u) : u[j].lane = l /\ u[j].n = y
      BY ONLY AfterFacts
    <3> QED
      BY <3>1, <3>2, <3>3, <3>4
  <2> QED
    BY <2>2, <2>3
<1>9. Runs(v, w)
  <2> SUFFICES ASSUME NEW p \in 0 .. Len(v), NEW l \in Lanes
               PROVE  \E b \in 0 .. w[l] : After(v, p, l) = b + 1 .. w[l]
    BY DEF Runs
  <2>1. w[lane] = x + c /\ w[lane] \in Nat /\ st[l] <= w[l] /\ st[l] \in Nat /\ w[l] \in Nat
    BY <1>1
  <2>2. \A q \in 0 .. Len(u) : \E b \in 0 .. st[l] : After(u, q, l) = b + 1 .. st[l]
    BY DEF Flow, Runs
  <2>3. CASE p \in 0 .. a
    <3>1. p \in 0 .. Len(u)
      BY <1>1, <2>3
    <3>2. PICK b \in 0 .. st[l] : After(u, p, l) = b + 1 .. st[l]
      BY <2>2, <3>1
    <3>3. After(v, p, l) = b + 1 .. w[l]
      BY <1>6, <2>3, <3>2
    <3>4. b \in 0 .. w[l]
      BY <2>1
    <3> QED
      BY <3>3, <3>4
  <2>4. CASE p \in a + 1 .. a + c
    <3>1. CASE l = lane
      <4>1. x + (p - a) \in 0 .. w[l]
        BY <1>1, <2>1, <2>4, <3>1
      <4>2. After(v, p, l) = (x + (p - a)) + 1 .. w[l]
        BY <1>7, <2>4, <3>1
      <4> QED
        BY <4>1, <4>2
    <3>2. CASE l # lane
      <4>1. After(v, p, l) = After(u, a, l) /\ w[l] = st[l]
        BY <1>7, <2>4, <3>2
      <4> QED
        BY <2>2, <4>1
    <3> QED
      BY <3>1, <3>2
  <2>5. CASE p \in a + c + 1 .. m + c
    <3>1. CASE l = lane
      <4>1. w[l] \in 0 .. w[l] /\ w[l] + 1 .. w[l] = {}
        BY <2>1
      <4>2. After(v, p, l) = {}
        BY <1>8, <2>5, <3>1
      <4> QED
        BY <4>1, <4>2
    <3>2. CASE l # lane
      <4>1. After(v, p, l) = After(u, p - c, l) /\ w[l] = st[l]
        BY <1>8, <2>5, <3>2
      <4>2. p - c \in 0 .. Len(u)
        BY <1>1, <2>5
      <4> QED
        BY <2>2, <4>1, <4>2
    <3> QED
      BY <3>1, <3>2
  <2> QED
    BY <1>1, <2>3, <2>4, <2>5
<1> QED
  BY <1>5, <1>6, <1>9 DEF Flow

LEMMA Both ==
    ASSUME NEW S, NEW x \in Seq(S), NEW y \in Seq(S)
    PROVE  /\ x \o y \in Seq(S) /\ Len(x \o y) = Len(x) + Len(y)
           /\ Len(x) \in Nat /\ Len(y) \in Nat
           /\ \A k \in 1 .. Len(x) : (x \o y)[k] = x[k]
           /\ \A k \in 1 .. Len(y) : (x \o y)[Len(x) + k] = y[k]
OBVIOUS

\* Three buffers in a row.
LEMMA Joined ==
    ASSUME NEW x \in Seq(Event), NEW y \in Seq(Event), NEW z \in Seq(Event)
    PROVE  LET u == x \o y \o z
           IN  /\ u \in Seq(Event) /\ Len(u) = Len(x) + Len(y) + Len(z)
               /\ Len(x) \in Nat /\ Len(y) \in Nat /\ Len(z) \in Nat
               /\ \A k \in 1 .. Len(x) : u[k] = x[k]
               /\ \A k \in 1 .. Len(y) : u[Len(x) + k] = y[k]
               /\ \A k \in 1 .. Len(z) : u[Len(x) + Len(y) + k] = z[k]
<1> DEFINE t == x \o y
           u == t \o z
<1>1. /\ t \in Seq(Event) /\ Len(t) = Len(x) + Len(y) /\ Len(x) \in Nat /\ Len(y) \in Nat
      /\ \A k \in 1 .. Len(x) : t[k] = x[k]
      /\ \A k \in 1 .. Len(y) : t[Len(x) + k] = y[k]
  OBVIOUS
<1> HIDE DEF t
<1>2. /\ t \o z \in Seq(Event) /\ Len(t \o z) = Len(t) + Len(z) /\ Len(z) \in Nat
      /\ \A k \in 1 .. Len(t) : (t \o z)[k] = t[k]
      /\ \A k \in 1 .. Len(z) : (t \o z)[Len(t) + k] = z[k]
  <2>1. t \in Seq(Event) /\ z \in Seq(Event)
    BY <1>1
  <2> QED
    BY ONLY <2>1, Both
<1>6. /\ u \in Seq(Event) /\ Len(u) = Len(t) + Len(z)
      /\ \A k \in 1 .. Len(t) : u[k] = t[k]
      /\ \A k \in 1 .. Len(z) : u[Len(t) + k] = z[k]
  BY <1>2
<1> HIDE DEF u
<1>3. \A k \in 1 .. Len(x) : k \in 1 .. Len(t)
  BY <1>1
<1>4. \A k \in 1 .. Len(y) : Len(x) + k \in 1 .. Len(t)
  BY <1>1
<1>5. /\ u \in Seq(Event) /\ Len(u) = Len(x) + Len(y) + Len(z)
      /\ Len(x) \in Nat /\ Len(y) \in Nat /\ Len(z) \in Nat
      /\ \A k \in 1 .. Len(x) : u[k] = x[k]
      /\ \A k \in 1 .. Len(y) : u[Len(x) + k] = y[k]
      /\ \A k \in 1 .. Len(z) : u[Len(x) + Len(y) + k] = z[k]
  <2>1. \A k \in 1 .. Len(x) : u[k] = x[k]
    BY <1>1, <1>3, <1>6
  <2>2. \A k \in 1 .. Len(y) : u[Len(x) + k] = y[k]
    BY <1>1, <1>4, <1>6
  <2> QED
    BY <1>1, <1>2, <1>6, <2>1, <2>2
<1> QED
  BY <1>5 DEF u, t

-----------------------------------------------------------------------------
(* What each reader still gets.                                            *)

\* A reader at p has got, or was never due, the events up to sn.
UpTo(u, st, p, sn) ==
    \A lane \in Lanes : sn[lane] \in 0 .. st[lane] /\ After(u, p, lane) = sn[lane] + 1 .. st[lane]

ReadersUpTo ==
    \A r \in Registered : /\ Pos(handle[r]) \in 0 .. Len(events)
                          /\ UpTo(Upcoming, sent, Pos(handle[r]), seen[r])

SyncOnly == \A k \in 1 .. Len(syncPending) : syncPending[k].lane = "sync"

FlowInv == Flow(Upcoming, sent) /\ SyncOnly /\ ReadersUpTo /\ seen \in [Readers -> [Lanes -> Nat]]

LEMMA Sorts ==
    ASSUME IInv
    PROVE  /\ events \in Seq(Event) /\ pending \in Seq(Event) /\ syncPending \in Seq(Event)
           /\ Upcoming \in Seq(Event) /\ sent \in [Lanes -> Nat]
           /\ Len(events) \in Nat /\ Len(pending) \in Nat /\ Len(syncPending) \in Nat
           /\ Len(Upcoming) = Len(events) + Len(pending) + Len(syncPending)
<1>1. events \in Seq(Event) /\ pending \in Seq(Event) /\ syncPending \in Seq(Event)
  BY DEF IInv, Types
<1>2. sent \in [Lanes -> Nat]
  <2>1. sent \in [Lanes -> 0 .. MaxSent] /\ 0 .. MaxSent \subseteq Nat
    BY EventsAssumption DEF IInv, Types
  <2> QED
    BY <2>1
<1>3. /\ events \o pending \o syncPending \in Seq(Event)
      /\ Len(events) \in Nat /\ Len(pending) \in Nat /\ Len(syncPending) \in Nat
      /\ Len(events \o pending \o syncPending) = Len(events) + Len(pending) + Len(syncPending)
  BY <1>1, Joined
<1> QED
  BY <1>1, <1>2, <1>3 DEF Upcoming

\* A reader has a slot.
LEMMA ReaderSlot ==
    ASSUME IInv, NEW r \in Registered
    PROVE  /\ r \in Readers /\ handle[r] \in Nat /\ handle[r] # NoSlot
           /\ handle[r] + 1 \in 1 .. Len(cursors) /\ Len(cursors) = nextId /\ nextId \in Nat
           /\ cursors[handle[r] + 1] # Gone
           /\ Pos(handle[r]) = cursors[handle[r] + 1] /\ IsReading(handle[r])
<1>1. r \in Readers /\ handle[r] \in Nat /\ handle[r] # NoSlot
  BY EventsAssumption DEF Registered, IInv, Types
<1>2. Len(cursors) = nextId /\ nextId \in Nat /\ handle[r] < nextId /\ cursors[handle[r] + 1] # Gone
  BY EventsAssumption DEF IInv, Types, Slots, SlotPerId, SlotInUse
<1>3. handle[r] + 1 \in 1 .. Len(cursors) /\ Pos(handle[r]) = cursors[handle[r] + 1]
  BY <1>1, <1>2 DEF Pos
<1> QED
  BY <1>1, <1>2, <1>3 DEF IsReading, HasSlot

\* What a reader can see.
LEMMA UnreadFacts ==
    ASSUME IInv, FlowInv, NEW r \in Registered
    PROVE  LET p == Pos(handle[r])
               un == Unread(handle[r])
           IN  /\ p \in Nat /\ p <= Len(events) /\ Len(events) \in Nat
               /\ un \in Seq(Event) /\ Len(un) = Len(events) - p
               /\ \A k \in 1 .. Len(events) - p : un[k] = events[p + k]
<1> DEFINE p == Pos(handle[r])
           un == Unread(handle[r])
<1>1. IsReading(handle[r]) /\ p \in Nat /\ p <= Len(events)
  BY ReaderSlot, Sorts DEF FlowInv, ReadersUpTo
<1>2. un \in Seq(Event) /\ Len(un) = Len(events) - p /\ \A k \in 1 .. Len(events) - p : un[k] = events[p + k]
  <2>1. CASE p < Len(events)
    <3>1. un = SubSeq(events, p + 1, Len(events))
      BY <1>1, <2>1 DEF Unread
    <3>2. p + 1 \in 1 .. Len(events) /\ Len(events) \in 1 .. Len(events) /\ events \in Seq(Event)
      BY <1>1, <2>1, Sorts
    <3> HIDE DEF p, un
    <3>3. /\ un \in Seq(Event) /\ Len(un) = Len(events) - (p + 1) + 1
          /\ \A k \in 1 .. Len(un) : un[k] = events[(p + 1) + k - 1]
      BY <3>1, <3>2
    <3> QED
      BY <1>1, <3>3, Sorts
  <2>2. CASE ~(p < Len(events))
    <3>1. un = <<>> /\ Len(events) = p
      BY <1>1, <2>2, Sorts DEF Unread
    <3> QED
      BY <1>1, <3>1, Sorts
  <2> QED
    BY <2>1, <2>2
<1> QED
  BY <1>1, <1>2, Sorts

\* The property, reader by reader.
LEMMA FlowInvOnce == ASSUME IInv, FlowInv PROVE EachEventOnce
<1> SUFFICES ASSUME NEW r \in Registered
             PROVE  LET coming == Unread(handle[r]) \o pending \o syncPending
                    IN  /\ InOrder(coming)
                        /\ \A lane \in Lanes :
                             After(coming, 0, lane) = seen[r][lane] + 1 .. sent[lane]
  BY DEF EachEventOnce
<1> DEFINE p == Pos(handle[r])
           un == Unread(handle[r])
           coming == un \o pending \o syncPending
<1>1. IsReading(handle[r]) /\ p \in Nat /\ p <= Len(events) /\ UpTo(Upcoming, sent, p, seen[r])
  BY ReaderSlot, Sorts DEF FlowInv, ReadersUpTo
<1>2. un \in Seq(Event) /\ Len(un) = Len(events) - p /\ \A k \in 1 .. Len(un) : un[k] = events[p + k]
  BY UnreadFacts
<1> HIDE DEF p, un
<1>3. /\ coming \in Seq(Event) /\ Len(coming) = Len(un) + Len(pending) + Len(syncPending)
      /\ \A k \in 1 .. Len(un) : coming[k] = un[k]
      /\ \A k \in 1 .. Len(pending) : coming[Len(un) + k] = pending[k]
      /\ \A k \in 1 .. Len(syncPending) : coming[Len(un) + Len(pending) + k] = syncPending[k]
  <2>1. un \in Seq(Event) /\ pending \in Seq(Event) /\ syncPending \in Seq(Event)
    BY <1>2, Sorts
  <2> QED
    BY ONLY <2>1, Joined
<1>4. /\ \A k \in 1 .. Len(events) : Upcoming[k] = events[k]
      /\ \A k \in 1 .. Len(pending) : Upcoming[Len(events) + k] = pending[k]
      /\ \A k \in 1 .. Len(syncPending) : Upcoming[Len(events) + Len(pending) + k] = syncPending[k]
  BY Sorts, Joined DEF Upcoming
<1> HIDE DEF coming
<1>5. Len(coming) = Len(Upcoming) - p /\ p \in 0 .. Len(Upcoming)
  BY <1>1, <1>2, <1>3, Sorts
<1>6. ASSUME NEW k \in 1 .. Len(coming) PROVE coming[k] = Upcoming[p + k]
  <2>1. CASE k \in 1 .. Len(un)
    <3>1. p + k \in 1 .. Len(events)
      BY <1>1, <1>2, <2>1, Sorts
    <3> QED
      BY <1>2, <1>3, <1>4, <2>1, <3>1
  <2>2. CASE k - Len(un) \in 1 .. Len(pending)
    <3>1. Len(un) + (k - Len(un)) = k /\ Len(events) + (k - Len(un)) = p + k
      BY <1>1, <1>2, <2>2, Sorts
    <3>2. coming[Len(un) + (k - Len(un))] = pending[k - Len(un)]
      BY <1>3, <2>2
    <3>3. Upcoming[Len(events) + (k - Len(un))] = pending[k - Len(un)]
      BY <1>4, <2>2
    <3> QED
      BY <3>1, <3>2, <3>3
  <2>3. CASE k - (Len(un) + Len(pending)) \in 1 .. Len(syncPending)
    <3> DEFINE j == k - (Len(un) + Len(pending))
    <3>1. Len(un) + Len(pending) + j = k /\ Len(events) + Len(pending) + j = p + k
      BY <1>1, <1>2, <2>3, Sorts
    <3>2. coming[Len(un) + Len(pending) + j] = syncPending[j]
      BY <1>3, <2>3
    <3>3. Upcoming[Len(events) + Len(pending) + j] = syncPending[j]
      BY <1>4, <2>3
    <3> QED
      BY <3>1, <3>2, <3>3
  <2>4. Len(un) \in Nat
    BY <1>1, <1>2, Sorts
  <2> QED
    BY <1>3, <2>1, <2>2, <2>3, <2>4, Sorts
<1>7. /\ Flow(coming, sent)
      /\ \A q \in 0 .. Len(coming), lane \in Lanes :
           After(coming, q, lane) = After(Upcoming, p + q, lane)
  <2>1. Upcoming \in Seq(Event) /\ sent \in [Lanes -> Nat] /\ Flow(Upcoming, sent)
    BY Sorts DEF FlowInv
  <2> QED
    BY ONLY <1>3, <1>5, <1>6, <2>1, Dropped
<1>8. ASSUME NEW lane \in Lanes PROVE After(coming, 0, lane) = seen[r][lane] + 1 .. sent[lane]
  <2>1. 0 \in 0 .. Len(coming) /\ p + 0 = p
    BY <1>1, <1>3, LenProperties
  <2>2. After(coming, 0, lane) = After(Upcoming, p, lane)
    BY <1>7, <2>1
  <2> QED
    BY <1>1, <2>2 DEF UpTo
<1> QED
  BY <1>7, <1>8 DEF Flow, coming, un

\* Nothing moves.
LEMMA SameFlow ==
    ASSUME FlowInv, UNCHANGED <<buffers, handle, sent, seen>>,
           \A r \in Registered : Pos(handle[r])' = Pos(handle[r])
    PROVE  FlowInv'
<1>1. /\ events' = events /\ pending' = pending /\ syncPending' = syncPending
      /\ Registered' = Registered /\ Upcoming' = Upcoming
      /\ sent' = sent /\ seen' = seen /\ handle' = handle
  BY DEF buffers, Registered, NoSlot, Upcoming
<1>2. ReadersUpTo'
  <2> SUFFICES ASSUME NEW r \in Registered
               PROVE  /\ Pos(handle[r])' \in 0 .. Len(events')
                      /\ UpTo(Upcoming', sent', Pos(handle[r])', seen'[r])
    BY <1>1 DEF ReadersUpTo
  <2> QED
    BY <1>1 DEF FlowInv, ReadersUpTo
<1>3. Flow(Upcoming', sent') /\ SyncOnly'
  BY <1>1 DEF FlowInv, SyncOnly
<1> QED
  BY <1>1, <1>2, <1>3 DEF FlowInv

\* Events of a lane arrive behind the others of the lane, wherever the other
\* lane has its own.
LEMMA Arrived ==
    ASSUME IInv, FlowInv, NEW lane \in Lanes, NEW c \in Nat,
           NEW a \in Len(events) .. Len(Upcoming),
           Upcoming' \in Seq(Event), Len(Upcoming') = Len(Upcoming) + c,
           \A k \in 1 .. a : Upcoming'[k] = Upcoming[k],
           \A k \in 1 .. c : Upcoming'[a + k].lane = lane /\ Upcoming'[a + k].n = sent[lane] + k,
           \A k \in a + 1 .. Len(Upcoming) : Upcoming'[c + k] = Upcoming[k] /\ Upcoming[k].lane # lane,
           sent' = [sent EXCEPT ![lane] = @ + c],
           events' = events, UNCHANGED <<cursors, handle, seen>>, SyncOnly'
    PROVE  FlowInv'
<1> DEFINE u == Upcoming
<1>8. PICK v \in Seq(Event) : v = Upcoming'
  OBVIOUS
<1>9. PICK w : w = sent'
  OBVIOUS
<1>1. u \in Seq(Event) /\ sent \in [Lanes -> Nat] /\ Flow(u, sent) /\ Len(events) \in Nat
  BY Sorts DEF FlowInv
<1>2. a \in 0 .. Len(u) /\ a >= Len(events)
  BY <1>1, LenProperties
<1>3. /\ w \in [Lanes -> Nat] /\ w[lane] = sent[lane] + c
      /\ \A l \in Lanes : l # lane => w[l] = sent[l]
  BY <1>1, <1>9
<1>4. /\ Flow(v, w)
      /\ \A p \in 0 .. a, l \in Lanes : \A b \in 0 .. sent[l] :
           After(u, p, l) = b + 1 .. sent[l] => After(v, p, l) = b + 1 .. w[l]
  <2>1. /\ v \in Seq(Event) /\ Len(v) = Len(u) + c
        /\ \A k \in 1 .. a : v[k] = u[k]
        /\ \A k \in 1 .. c : v[a + k].lane = lane /\ v[a + k].n = sent[lane] + k
        /\ \A k \in a + 1 .. Len(u) : v[c + k] = u[k] /\ u[k].lane # lane
    BY <1>8
  <2> HIDE DEF u
  <2>2. Insertion(u, sent, v, w, a, c, lane)
    BY <1>1, <1>2, <1>3, <2>1 DEF Insertion
  <2> QED
    BY <2>2, Inserted
<1>5. Registered' = Registered /\ \A r \in Registered : Pos(handle[r])' = Pos(handle[r]) /\ seen'[r] = seen[r]
  BY DEF Registered, NoSlot, Pos
<1>6. ReadersUpTo'
  <2> SUFFICES ASSUME NEW r \in Registered
               PROVE  /\ Pos(handle[r]) \in 0 .. Len(events)
                      /\ UpTo(v, w, Pos(handle[r]), seen[r])
    BY <1>5, <1>8, <1>9 DEF ReadersUpTo
  <2>1. Pos(handle[r]) \in 0 .. Len(events) /\ UpTo(u, sent, Pos(handle[r]), seen[r])
    BY DEF FlowInv, ReadersUpTo
  <2>2. Pos(handle[r]) \in 0 .. a
    BY <1>1, <1>2, <2>1
  <2> HIDE DEF u
  <2>3. ASSUME NEW l \in Lanes
        PROVE  /\ seen[r][l] \in 0 .. w[l]
               /\ After(v, Pos(handle[r]), l) = seen[r][l] + 1 .. w[l]
    <3>1. seen[r][l] \in 0 .. sent[l] /\ After(u, Pos(handle[r]), l) = seen[r][l] + 1 .. sent[l]
      BY <2>1 DEF UpTo
    <3>2. sent[l] <= w[l] /\ sent[l] \in Nat /\ w[l] \in Nat
      <4>1. sent[l] \in Nat /\ w[l] \in Nat
        BY <1>1, <1>3
      <4>2. w[l] = sent[l] \/ w[l] = sent[l] + c
        BY <1>3
      <4> QED
        BY <4>1, <4>2
    <3> QED
      BY <1>4, <2>2, <3>1, <3>2
  <2> QED
    BY <2>1, <2>3 DEF UpTo
<1>7. seen' \in [Readers -> [Lanes -> Nat]]
  BY DEF FlowInv
<1> QED
  BY <1>4, <1>6, <1>7, <1>8, <1>9 DEF FlowInv

\* With `send`, or by a flush of the delayed queue: behind what is pending.
LEMMA MainArrived ==
    ASSUME IInv, FlowInv, NEW new \in Seq(Event),
           \A k \in 1 .. Len(new) : new[k].lane = "main" /\ new[k].n = sent["main"] + k,
           pending' = pending \o new, sent' = [sent EXCEPT !["main"] = @ + Len(new)],
           UNCHANGED <<events, syncPending, cursors, handle, seen>>
    PROVE  FlowInv'
<1> DEFINE a == Len(events) + Len(pending)
           c == Len(new)
           x == Len(events)
           y == Len(pending)
           z == Len(syncPending)
<1>1. /\ events \in Seq(Event) /\ pending \in Seq(Event) /\ syncPending \in Seq(Event)
      /\ Upcoming \in Seq(Event) /\ x \in Nat /\ y \in Nat /\ z \in Nat /\ c \in Nat
      /\ Len(Upcoming) = x + y + z
  BY Sorts, LenProperties
<1>2. /\ pending' \in Seq(Event) /\ Len(pending') = y + c
      /\ \A k \in 1 .. y : pending'[k] = pending[k]
      /\ \A k \in 1 .. c : pending'[y + k] = new[k]
  BY <1>1, Both
<1>3. Upcoming' = events \o pending' \o syncPending
  BY DEF Upcoming
<1>4. /\ \A k \in 1 .. x : Upcoming[k] = events[k]
      /\ \A k \in 1 .. y : Upcoming[x + k] = pending[k]
      /\ \A k \in 1 .. z : Upcoming[x + y + k] = syncPending[k]
  BY <1>1, Joined DEF Upcoming
<1>5. /\ Upcoming' \in Seq(Event) /\ Len(Upcoming') = x + (y + c) + z
      /\ \A k \in 1 .. x : Upcoming'[k] = events[k]
      /\ \A k \in 1 .. y + c : Upcoming'[x + k] = pending'[k]
      /\ \A k \in 1 .. z : Upcoming'[x + (y + c) + k] = syncPending[k]
  <2>4. PICK pp : pp = pending'
    OBVIOUS
  <2> DEFINE vv == events \o pp \o syncPending
  <2>1. events \in Seq(Event) /\ pp \in Seq(Event) /\ syncPending \in Seq(Event)
    BY <1>1, <1>2, <2>4
  <2>5. Len(pp) = y + c
    BY <1>2, <2>4
  <2>2. /\ vv \in Seq(Event) /\ Len(vv) = x + Len(pp) + z
        /\ \A k \in 1 .. x : vv[k] = events[k]
        /\ \A k \in 1 .. Len(pp) : vv[x + k] = pp[k]
        /\ \A k \in 1 .. z : vv[x + Len(pp) + k] = syncPending[k]
    BY ONLY <2>1, Joined
  <2>3. Upcoming' = vv
    BY <1>3, <2>4
  <2> HIDE DEF vv
  <2> QED
    BY <2>2, <2>3, <2>4, <2>5
<1>6. a \in Len(events) .. Len(Upcoming) /\ Len(Upcoming') = Len(Upcoming) + c
  BY <1>1, <1>5
<1>7. ASSUME NEW k \in 1 .. a PROVE Upcoming'[k] = Upcoming[k]
  <2>1. CASE k \in 1 .. x
    BY <1>4, <1>5, <2>1
  <2>2. CASE k - x \in 1 .. y
    <3>1. x + (k - x) = k /\ k - x \in 1 .. y + c
      BY <1>1, <2>2
    <3>2. Upcoming'[x + (k - x)] = pending'[k - x] /\ Upcoming[x + (k - x)] = pending[k - x]
      BY <1>4, <1>5, <2>2, <3>1
    <3> QED
      BY <1>2, <2>2, <3>1, <3>2
  <2> QED
    BY <1>1, <2>1, <2>2
<1>8. ASSUME NEW k \in 1 .. c
      PROVE  Upcoming'[a + k].lane = "main" /\ Upcoming'[a + k].n = sent["main"] + k
  <2>1. y + k \in 1 .. y + c /\ x + (y + k) = a + k
    BY <1>1
  <2>2. Upcoming'[x + (y + k)] = pending'[y + k] /\ pending'[y + k] = new[k]
    BY <1>2, <1>5, <2>1
  <2> QED
    BY <2>1, <2>2
<1>9. ASSUME NEW k \in a + 1 .. Len(Upcoming)
      PROVE  Upcoming'[c + k] = Upcoming[k] /\ Upcoming[k].lane # "main"
  <2> DEFINE j == k - a
  <2>1. j \in 1 .. z /\ x + y + j = k /\ x + (y + c) + j = c + k
    BY <1>1
  <2> HIDE DEF j
  <2>2. Upcoming[x + y + j] = syncPending[j] /\ Upcoming'[x + (y + c) + j] = syncPending[j]
    BY <1>4, <1>5, <2>1
  <2>3. syncPending[j].lane = "sync"
    BY <2>1 DEF FlowInv, SyncOnly
  <2> QED
    BY <2>1, <2>2, <2>3
<1>10. SyncOnly'
  BY DEF FlowInv, SyncOnly
<1>11. "main" \in Lanes
  BY DEF Lanes
<1> HIDE DEF a, c
<1> QED
  BY <1>1, <1>5, <1>6, <1>7, <1>8, <1>9, <1>10, <1>11, Arrived DEF c

LEMMA SendFlow == ASSUME IInv, FlowInv, Send PROVE FlowInv'
<1> DEFINE e == [lane |-> "main", n |-> sent["main"] + 1]
           new == <<e>>
<1>1. e \in Event
  BY EventsAssumption DEF Send, IInv, Types, Event, Lanes
<1>2. /\ new \in Seq(Event) /\ Len(new) = 1
      /\ \A k \in 1 .. Len(new) : new[k].lane = "main" /\ new[k].n = sent["main"] + k
  BY <1>1
<1>3. /\ pending' = Append(pending, e) /\ sent' = [sent EXCEPT !["main"] = @ + 1]
      /\ UNCHANGED <<events, syncPending, cursors, handle, seen>>
  BY DEF Send, slots
<1>4. Append(pending, e) = pending \o new
  <2>1. pending \in Seq(Event)
    BY Sorts
  <2> HIDE DEF e
  <2> QED
    BY ONLY <1>1, <2>1
<1> HIDE DEF new
<1> QED
  BY <1>2, <1>3, <1>4, MainArrived

\* With `send_sync`: behind everything.
LEMMA SendSyncFlow == ASSUME IInv, FlowInv, SendSync PROVE FlowInv'
<1> DEFINE e == [lane |-> "sync", n |-> sent["sync"] + 1]
<1>1. e \in Event
  BY EventsAssumption DEF SendSync, IInv, Types, Event, Lanes
<1>2. /\ events \in Seq(Event) /\ pending \in Seq(Event) /\ syncPending \in Seq(Event)
      /\ Upcoming \in Seq(Event) /\ Len(events) \in Nat /\ Len(Upcoming) \in Nat
      /\ Len(events) <= Len(Upcoming)
  BY Sorts
<1>3. /\ syncPending' = Append(syncPending, e) /\ sent' = [sent EXCEPT !["sync"] = @ + 1]
      /\ events' = events /\ pending' = pending
      /\ UNCHANGED <<events, cursors, handle, seen>>
  BY DEF SendSync, slots
<1>4. Upcoming' = Append(Upcoming, e)
  <2>1. Upcoming' = events \o pending \o Append(syncPending, e)
    BY <1>3 DEF Upcoming
  <2>2. events \o pending \in Seq(Event)
    BY <1>2
  <2> DEFINE q == events \o pending
  <2> HIDE DEF e, q
  <2>3. q \o Append(syncPending, e) = Append(q \o syncPending, e)
    <3>1. q \in Seq(Event) /\ syncPending \in Seq(Event) /\ e \in Event
      BY <1>1, <1>2, <2>2 DEF q
    <3> QED
      BY ONLY <3>1
  <2> QED
    BY <2>1, <2>3 DEF Upcoming, q
<1>5. /\ Upcoming' \in Seq(Event) /\ Len(Upcoming') = Len(Upcoming) + 1
      /\ \A k \in 1 .. Len(Upcoming) : Upcoming'[k] = Upcoming[k]
      /\ Upcoming'[Len(Upcoming) + 1] = e
  BY <1>1, <1>2, <1>4, AppendProperties
<1>6. /\ \A k \in 1 .. 1 : Upcoming'[Len(Upcoming) + k].lane = "sync"
                           /\ Upcoming'[Len(Upcoming) + k].n = sent["sync"] + k
      /\ Len(Upcoming) + 1 .. Len(Upcoming) = {}
      /\ Len(Upcoming) \in Len(events) .. Len(Upcoming) /\ 1 \in Nat /\ "sync" \in Lanes
  BY <1>2, <1>5 DEF Lanes
<1>7. SyncOnly'
  <2>1. /\ Len(syncPending') = Len(syncPending) + 1 /\ Len(syncPending) \in Nat
        /\ \A k \in 1 .. Len(syncPending) : syncPending'[k] = syncPending[k]
        /\ syncPending'[Len(syncPending) + 1] = e
    BY <1>1, <1>2, <1>3, AppendProperties, LenProperties
  <2> QED
    BY <2>1 DEF FlowInv, SyncOnly
<1> HIDE DEF e
<1> DEFINE a == Len(Upcoming)
<1>8. /\ a \in Len(events) .. Len(Upcoming)
      /\ \A k \in 1 .. a : Upcoming'[k] = Upcoming[k]
      /\ \A k \in 1 .. 1 : Upcoming'[a + k].lane = "sync" /\ Upcoming'[a + k].n = sent["sync"] + k
      /\ \A k \in a + 1 .. Len(Upcoming) : Upcoming'[1 + k] = Upcoming[k] /\ Upcoming[k].lane # "sync"
  BY <1>5, <1>6
<1> HIDE DEF a
<1> QED
  BY <1>3, <1>5, <1>6, <1>7, <1>8, Arrived

\* The buffers are only cut elsewhere.
LEMMA FlushSyncFlow == ASSUME IInv, FlowInv, FlushSync PROVE FlowInv'
<1>1. events \in Seq(Event) /\ pending \in Seq(Event) /\ syncPending \in Seq(Event)
  BY Sorts
<1>2. /\ events' = events /\ pending' = pending \o syncPending /\ syncPending' = <<>>
      /\ UNCHANGED <<cursors, handle, sent, seen>>
  BY DEF FlushSync, slots
<1>3. Upcoming' = Upcoming
  <2>1. Upcoming' = events \o (pending \o syncPending) \o <<>>
    BY <1>2 DEF Upcoming
  <2>2. events \o (pending \o syncPending) = events \o pending \o syncPending
    BY ONLY <1>1
  <2>3. events \o pending \o syncPending \in Seq(Event)
    BY <1>1, Joined
  <2>4. (events \o pending \o syncPending) \o <<>> = events \o pending \o syncPending
    BY ONLY <2>3, ConcatEmptySeq
  <2> QED
    BY <2>1, <2>2, <2>4 DEF Upcoming
<1>4. Registered' = Registered /\ \A r \in Registered : Pos(handle[r])' = Pos(handle[r])
  BY <1>2 DEF Registered, NoSlot, Pos
<1>5. ReadersUpTo'
  <2> SUFFICES ASSUME NEW r \in Registered
               PROVE  /\ Pos(handle[r])' \in 0 .. Len(events')
                      /\ UpTo(Upcoming', sent', Pos(handle[r])', seen'[r])
    BY <1>2, <1>4 DEF ReadersUpTo
  <2> QED
    BY <1>2, <1>3, <1>4 DEF FlowInv, ReadersUpTo
<1>6. Flow(Upcoming', sent') /\ SyncOnly'
  BY <1>2, <1>3 DEF FlowInv, SyncOnly
<1> QED
  BY <1>2, <1>5, <1>6 DEF FlowInv

\* One reader moves, joins or leaves.
LEMMA OneReader ==
    ASSUME FlowInv, NEW r, UNCHANGED <<buffers, sent>>,
           seen' \in [Readers -> [Lanes -> Nat]],
           \A s \in Registered' : s # r =>
             s \in Registered /\ Pos(handle[s])' = Pos(handle[s]) /\ seen'[s] = seen[s],
           r \in Registered' =>
             Pos(handle[r])' \in 0 .. Len(events) /\ UpTo(Upcoming, sent, Pos(handle[r])', seen'[r])
    PROVE  FlowInv'
<1>1. Upcoming' = Upcoming /\ sent' = sent /\ events' = events /\ syncPending' = syncPending
  BY DEF buffers, Upcoming
<1>2. ReadersUpTo'
  <2> SUFFICES ASSUME NEW s \in Registered'
               PROVE  /\ Pos(handle[s])' \in 0 .. Len(events)
                      /\ UpTo(Upcoming, sent, Pos(handle[s])', seen'[s])
    BY <1>1 DEF ReadersUpTo
  <2>1. CASE s = r
    BY <2>1
  <2>2. CASE s # r
    BY <2>2 DEF FlowInv, ReadersUpTo
  <2> QED
    BY <2>1, <2>2
<1>3. Flow(Upcoming', sent') /\ SyncOnly'
  BY <1>1 DEF FlowInv, SyncOnly
<1> QED
  BY <1>2, <1>3 DEF FlowInv

LEMMA AddReaderFlow ==
    ASSUME IInv, FlowInv, IInv', NEW r \in Readers, AddReader(r) PROVE FlowInv'
<1> DEFINE id == handle'[r]
<1>1. /\ UNCHANGED <<buffers, sent>> /\ handle[r] = NoSlot
      /\ seen' = [seen EXCEPT ![r] = SeenAtJoin]
      /\ handle' = [handle EXCEPT ![r] = id]
      /\ NoSlot' = NoSlot /\ Gone' = Gone
  BY DEF AddReader, Recycle, NewSlot, IInv, Types, NoSlot, Gone
<1>2. handle' \in [Readers -> 0 .. MaxCursors] /\ handle \in [Readers -> 0 .. MaxCursors]
  BY DEF IInv, Types
<1>3. \A s \in Registered' : s # r => s \in Registered /\ handle'[s] = handle[s]
  BY <1>1, <1>2 DEF Registered
\* The slots of the others are as they were, and the new one is 0.
<1>4. /\ \A s \in Registered' : s # r => cursors'[handle'[s] + 1] = cursors[handle[s] + 1]
      /\ cursors'[id + 1] = 0
  <2>1. \A s \in Registered' : s # r => handle'[s] # id /\ handle[s] \in Nat /\ id \in Nat
    <3>1. r \in Registered' \/ r \notin Registered'
      OBVIOUS
    <3>2. r \in Registered'
      <4>1. id # NoSlot
        <5>1. CASE Recycle(r)
          <6>1. Len(freeList) \in 1 .. Len(freeList)
            BY <5>1, EmptySeq, LenProperties DEF Recycle, IInv, Types
          <6>2. freeList[Len(freeList)] < nextId /\ freeList[Len(freeList)] \in Nat
            BY <6>1, ElementOfSeq DEF IInv, Types, Slots, EmptyIsFree
          <6>3. id = freeList[Len(freeList)]
            BY <1>2, <5>1 DEF Recycle
          <6>4. nextId \in Nat /\ nextId <= MaxCursors /\ MaxCursors \in Nat
            BY EventsAssumption DEF IInv, Types
          <6> QED
            BY <6>2, <6>3, <6>4 DEF NoSlot
        <5>2. CASE NewSlot(r)
          BY <1>2, <5>2, EventsAssumption DEF NewSlot, NoSlot, IInv, Types
        <5> QED
          BY <5>1, <5>2 DEF AddReader
      <4> QED
        BY <1>1, <4>1 DEF Registered
    <3>3. \A s \in Registered' : handle'[s] = id => s = r
      BY <3>2 DEF IInv, Slots, SlotInUse
    <3> QED
      <4>1. \A s \in Readers : handle[s] \in Nat /\ handle'[s] \in Nat
        BY <1>2, EventsAssumption
      <4>2. \A s \in Registered' : s \in Readers
        BY DEF Registered
      <4> HIDE DEF id
      <4>3. id \in Nat
        BY <4>1 DEF id
      <4> QED
        BY <3>3, <4>1, <4>2, <4>3
  <2>2. \A s \in Registered : handle[s] + 1 \in 1 .. Len(cursors) /\ Len(cursors) = nextId /\ nextId \in Nat
    BY ReaderSlot
  <2>3. CASE Recycle(r)
    <3>1. Len(freeList) \in 1 .. Len(freeList)
      BY <2>3, EmptySeq, LenProperties DEF Recycle, IInv, Types
    <3>2. id = freeList[Len(freeList)] /\ id \in Nat /\ id < nextId
      <4>1. id = freeList[Len(freeList)]
        BY <1>2, <2>3 DEF Recycle
      <4>2. freeList[Len(freeList)] < nextId /\ freeList[Len(freeList)] \in Nat
        BY <3>1, ElementOfSeq DEF IInv, Types, Slots, EmptyIsFree
      <4> QED
        BY <4>1, <4>2
    <3>3. Len(cursors) = nextId /\ nextId \in Nat /\ cursors \in Seq(Nat)
      BY EventsAssumption DEF IInv, Types, Slots, SlotPerId
    <3>4. cursors' = [cursors EXCEPT ![id + 1] = 0]
      BY <2>3, <3>2, <3>3 DEF Recycle, HasSlot
    <3> HIDE DEF id
    <3>5. /\ \A k \in 1 .. Len(cursors) : k # id + 1 => cursors'[k] = cursors[k]
          /\ cursors'[id + 1] = 0
      <4>1. id + 1 \in 1 .. Len(cursors)
        BY <3>2, <3>3
      <4> QED
        BY <3>3, <3>4, <4>1
    <3> QED
      BY <1>3, <2>1, <2>2, <3>2, <3>5
  <2>4. CASE NewSlot(r)
    <3>1. id = nextId /\ cursors' = Append(cursors, 0) /\ cursors \in Seq(Nat)
      BY <1>2, <2>4 DEF NewSlot, IInv, Types
    <3>2. Len(cursors) = nextId /\ nextId \in Nat
      BY EventsAssumption DEF IInv, Types, Slots, SlotPerId
    <3>3. /\ \A k \in 1 .. Len(cursors) : cursors'[k] = cursors[k]
          /\ cursors'[id + 1] = 0
      BY <3>1, <3>2, AppendProperties
    <3> QED
      BY <1>3, <2>2, <3>3
  <2> QED
    BY <2>3, <2>4 DEF AddReader
<1>5. SeenAtJoin \in [Lanes -> Nat] /\ UpTo(Upcoming, sent, 0, SeenAtJoin)
  <2>1. ASSUME NEW lane \in Lanes
        PROVE  /\ SeenAtJoin[lane] \in 0 .. sent[lane] /\ sent[lane] \in Nat
               /\ After(Upcoming, 0, lane) = SeenAtJoin[lane] + 1 .. sent[lane]
    <3>1. Upcoming \in Seq(Event) /\ sent \in [Lanes -> Nat] /\ Flow(Upcoming, sent)
      BY Sorts DEF FlowInv
    <3>2. SeenAtJoin[lane] = Greatest((0 .. sent[lane]) \ After(Upcoming, 0, lane))
      BY DEF SeenAtJoin
    <3> DEFINE g == Greatest((0 .. sent[lane]) \ After(Upcoming, 0, lane))
    <3>3. g \in 0 .. sent[lane] /\ After(Upcoming, 0, lane) = g + 1 .. sent[lane]
      BY <3>1, Joining
    <3> QED
      BY <3>1, <3>2, <3>3
  <2>2. SeenAtJoin = [lane \in Lanes |-> SeenAtJoin[lane]]
    BY DEF SeenAtJoin
  <2>3. \A lane \in Lanes : SeenAtJoin[lane] \in Nat
    BY <2>1
  <2> QED
    BY <2>1, <2>2, <2>3 DEF UpTo
<1>6. seen' \in [Readers -> [Lanes -> Nat]] /\ seen'[r] = SeenAtJoin
      /\ \A s \in Readers : s # r => seen'[s] = seen[s]
  BY <1>1, <1>5 DEF FlowInv
<1>7. Pos(handle[r])' = 0 /\ 0 \in 0 .. Len(events)
      /\ \A s \in Registered' : s # r => Pos(handle[s])' = Pos(handle[s]) /\ s \in Readers
  BY <1>3, <1>4, Sorts DEF Pos, Registered
<1> QED
  BY <1>1, <1>3, <1>5, <1>6, <1>7, OneReader

LEMMA RemoveReaderFlow ==
    ASSUME IInv, FlowInv, IInv', NEW r \in Readers, RemoveReader(r) PROVE FlowInv'
<1> DEFINE id    == handle[r]
           gone  == [cursors EXCEPT ![id + 1] = Gone]
<1>1. /\ UNCHANGED <<buffers, sent, nextId>> /\ id # NoSlot
      /\ seen' = [seen EXCEPT ![r] = NothingSeen]
      /\ handle' = [handle EXCEPT ![r] = NoSlot]
      /\ NoSlot' = NoSlot
  BY DEF RemoveReader, NoSlot
<1>2. r \in Registered /\ handle' \in [Readers -> 0 .. MaxCursors] /\ handle \in [Readers -> 0 .. MaxCursors]
  BY <1>1 DEF IInv, Types, Registered
<1>3. /\ r \notin Registered'
      /\ \A s \in Registered' : s \in Registered /\ handle'[s] = handle[s] /\ s # r /\ handle[s] # id
  <2>1. r \notin Registered' /\ \A s \in Registered' : s \in Registered /\ handle'[s] = handle[s] /\ s # r
    BY <1>1, <1>2 DEF Registered
  <2> QED
    BY <1>2, <2>1 DEF IInv, Slots, SlotInUse
<1>4. /\ id \in Nat /\ id + 1 \in 1 .. Len(cursors) /\ Len(cursors) = nextId /\ nextId \in Nat
  BY <1>2, ReaderSlot
<1>5. cursors' = gone
  <2> DEFINE freed == Append(freeList, id)
             f == Len(freeList)
  <2>1. cursors' = Trimmed(gone, freed)
    BY <1>4 DEF RemoveReader, HasSlot
  <2>2. /\ gone \in Seq(Nat) /\ Len(gone) = Len(cursors)
        /\ \A k \in 1 .. Len(cursors) : k # id + 1 => gone[k] = cursors[k]
    <3>1. cursors \in Seq(Nat) /\ Gone \in Nat
      BY Bounds DEF IInv, Types
    <3> HIDE DEF id
    <3> QED
      BY <1>4, <3>1, ExceptSeq
  <2>3. /\ f \in Nat /\ Len(freed) = f + 1 /\ freed[f + 1] = id
        /\ \A k \in 1 .. f : freed[k] = freeList[k]
    BY <1>4, AppendProperties, LenProperties DEF IInv, Types
  <2>4. ASSUME NEW k \in 1 .. Len(gone), gone[k] = Gone
        PROVE  \E j \in 1 .. Len(freed) : freed[j] = k - 1
    <3>1. CASE k = id + 1
      <4>1. f + 1 \in 1 .. Len(freed) /\ k - 1 = id
        BY <1>4, <2>3, <3>1
      <4> QED
        BY <2>3, <4>1
    <3>2. CASE k # id + 1
      <4>1. cursors[k] = Gone /\ k \in 1 .. Len(cursors)
        BY <2>2, <2>4, <3>2
      <4>2. PICK j \in 1 .. f : freeList[j] = k - 1
        BY <4>1 DEF IInv, Slots, EmptyIsFree
      <4>3. j \in 1 .. Len(freed) /\ freed[j] = freeList[j]
        BY <2>3
      <4> QED
        BY <4>2, <4>3
    <3> QED
      BY <3>1, <3>2
  <2> HIDE DEF gone, freed
  <2> QED
    BY <2>1, <2>2, <2>4, NothingTrimmed
<1>6. \A s \in Registered' : Pos(handle[s])' = Pos(handle[s])
  <2> SUFFICES ASSUME NEW s \in Registered' PROVE cursors'[handle'[s] + 1] = cursors[handle[s] + 1]
    BY DEF Pos
  <2>1. handle'[s] = handle[s] /\ handle[s] \in Nat /\ handle[s] # id /\ handle[s] + 1 \in 1 .. Len(cursors)
    BY <1>3, ReaderSlot
  <2>4. cursors \in Seq(Nat)
    BY DEF IInv, Types
  <2> HIDE DEF id
  <2>2. handle[s] + 1 # id + 1 /\ cursors \in Seq(Nat)
    BY <1>4, <2>1, <2>4
  <2>3. \A k \in 1 .. Len(cursors) : k # id + 1 => cursors'[k] = cursors[k]
    BY <1>4, <1>5, <2>2
  <2> QED
    BY <2>1, <2>2, <2>3
<1>7. seen' \in [Readers -> [Lanes -> Nat]] /\ \A s \in Readers : s # r => seen'[s] = seen[s]
  BY <1>1 DEF FlowInv, NothingSeen
<1>8. \A s \in Registered' : s \in Readers
  BY DEF Registered
<1> QED
  BY <1>1, <1>3, <1>6, <1>7, <1>8, OneReader

-----------------------------------------------------------------------------
(* Reading, and the end of a tick.                                         *)

\* A reader gets the events from its position up to v.
LEMMA MovesTo ==
    ASSUME IInv, FlowInv, NEW r \in Registered, NEW part,
           NEW v \in Pos(handle[r]) .. Len(events),
           Len(part) = v - Pos(handle[r]),
           \A k \in 1 .. v - Pos(handle[r]) : part[k] = events[Pos(handle[r]) + k],
           Got(r, part), cursors' = [cursors EXCEPT ![handle[r] + 1] = v],
           UNCHANGED <<buffers, handle, sent>>
    PROVE  FlowInv'
<1> DEFINE p == Pos(handle[r])
           sn == seen[r]
<1>1. p \in 0 .. Len(events) /\ UpTo(Upcoming, sent, p, sn)
  BY DEF FlowInv, ReadersUpTo
<1>2. /\ Upcoming \in Seq(Event) /\ sent \in [Lanes -> Nat] /\ Flow(Upcoming, sent)
      /\ Len(events) \in Nat /\ Len(events) <= Len(Upcoming) /\ Len(Upcoming) \in Nat
      /\ \A k \in 1 .. Len(events) : Upcoming[k] = events[k]
  <2>1. \A k \in 1 .. Len(events) : Upcoming[k] = events[k]
    BY Sorts, Joined DEF Upcoming
  <2> QED
    BY <2>1, Sorts DEF FlowInv
<1>3. /\ r \in Readers /\ handle[r] \in Nat /\ handle[r] + 1 \in 1 .. Len(cursors)
      /\ cursors \in Seq(Nat) /\ Registered' = Registered
  BY ReaderSlot DEF Registered, NoSlot, IInv, Types
<1> DEFINE new == [lane \in Lanes |-> Greatest({sn[lane]} \cup After(part, 0, lane))]
<1>4. seen' = [seen EXCEPT ![r] = new]
  BY DEF Got
<1>5. ASSUME NEW lane \in Lanes
      PROVE  /\ new[lane] \in 0 .. sent[lane] /\ sent[lane] \in Nat
             /\ After(Upcoming, v, lane) = new[lane] + 1 .. sent[lane]
  <2>1. /\ sn[lane] \in 0 .. sent[lane] /\ sent[lane] \in Nat
        /\ After(Upcoming, p, lane) = sn[lane] + 1 .. sent[lane]
    BY <1>1, <1>2 DEF UpTo
  <2>2. p \in 0 .. Len(Upcoming) /\ v \in p .. Len(Upcoming)
    BY <1>1, <1>2
  <2>3. Len(part) = v - p /\ \A k \in 1 .. v - p : part[k] = Upcoming[p + k]
    <3>1. ASSUME NEW k \in 1 .. v - p PROVE part[k] = Upcoming[p + k]
      <4>1. part[k] = events[p + k]
        OBVIOUS
      <4>2. v \in p .. Len(events) /\ k \in 1 .. v - p
        OBVIOUS
      <4>3. p + k \in 1 .. Len(events)
        <5> HIDE DEF p
        <5> QED
          BY <1>1, <1>2, <4>2
      <4> HIDE DEF p
      <4> QED
        BY <1>2, <4>1, <4>3
    <3> QED
      BY <3>1
  <2> DEFINE g == Greatest({sn[lane]} \cup After(part, 0, lane))
             n == sn[lane]
             u == Upcoming
  <2>4. g \in 0 .. sent[lane] /\ After(Upcoming, v, lane) = g + 1 .. sent[lane]
    <3>1. Reading(u, sent, p, v, part, lane, n)
      BY <1>2, <2>1, <2>2, <2>3 DEF Reading
    <3> HIDE DEF n, p, u
    <3>2. LET h == Greatest({n} \cup After(part, 0, lane))
          IN  h \in 0 .. sent[lane] /\ After(u, v, lane) = h + 1 .. sent[lane]
      BY ONLY <3>1, Taken
    <3> QED
      BY <3>2 DEF n, u
  <2>5. new[lane] = g
    OBVIOUS
  <2> QED
    BY <2>1, <2>4, <2>5
<1>6. new \in [Lanes -> Nat]
  <2>2. new = [lane \in Lanes |-> new[lane]]
    OBVIOUS
  <2> HIDE DEF new
  <2>1. \A lane \in Lanes : new[lane] \in Nat
    BY <1>5
  <2> QED
    BY <2>1, <2>2
<1>7. UpTo(Upcoming, sent, v, new)
  <2> HIDE DEF new
  <2> QED
    BY <1>5 DEF UpTo
<1> HIDE DEF new
<1>8. /\ seen' \in [Readers -> [Lanes -> Nat]] /\ seen'[r] = new
      /\ \A s \in Readers : s # r => seen'[s] = seen[s]
  BY <1>3, <1>4, <1>6 DEF FlowInv
<1>9. /\ Pos(handle[r])' = v
      /\ \A s \in Registered : s # r => Pos(handle[s])' = Pos(handle[s]) /\ s \in Readers
  <2>1. ASSUME NEW s \in Registered, s # r PROVE Pos(handle[s])' = Pos(handle[s]) /\ s \in Readers
    <3>1. handle[s] # handle[r]
      BY <2>1 DEF IInv, Slots, SlotInUse
    <3>2. handle[s] \in Nat /\ handle[s] + 1 \in 1 .. Len(cursors) /\ s \in Readers
      BY ReaderSlot
    <3>3. handle[s] + 1 # handle[r] + 1
      BY <1>3, <3>1, <3>2
    <3>4. cursors'[handle[s] + 1] = cursors[handle[s] + 1] /\ handle' = handle
      BY <1>3, <3>2, <3>3
    <3> QED
      BY <3>2, <3>4 DEF Pos
  <2>2. cursors'[handle[r] + 1] = v /\ handle' = handle
    BY <1>3
  <2> QED
    BY <2>1, <2>2 DEF Pos
<1>10. v \in 0 .. Len(events)
  BY <1>1, <1>2
<1> QED
  BY <1>3, <1>7, <1>8, <1>9, <1>10, OneReader

LEMMA ReadFlow == ASSUME IInv, FlowInv, NEW r \in Readers, Read(r) PROVE FlowInv'
<1> DEFINE p == Pos(handle[r])
           un == Unread(handle[r])
           n == Len(events)
<1>1. r \in Registered
  BY DEF Read, Registered
<1>2. /\ p \in Nat /\ p <= n /\ n \in Nat /\ Len(un) = n - p
      /\ \A k \in 1 .. n - p : un[k] = events[p + k]
  BY <1>1, UnreadFacts
<1>3. n \in p .. n
  BY <1>2
<1>4. /\ Got(r, un) /\ cursors' = [cursors EXCEPT ![handle[r] + 1] = n]
      /\ UNCHANGED <<buffers, handle, sent>>
  BY DEF Read
<1> HIDE DEF un
<1> QED
  BY <1>1, <1>2, <1>3, <1>4, MovesTo

LEMMA ReadPartialFlow ==
    ASSUME IInv, FlowInv, NEW r \in Readers, NEW m \in 1 .. 2 * MaxSent, ReadPartial(r, m)
    PROVE  FlowInv'
<1> DEFINE p == Pos(handle[r])
           un == Unread(handle[r])
           n == Len(events)
           count == IF m <= Len(un) THEN m ELSE Len(un)
           part == SubSeq(un, 1, count)
           v == IF p + count <= n THEN p + count ELSE n
<1>1. r \in Registered
  BY DEF ReadPartial, Registered
<1>2. /\ p \in Nat /\ p <= n /\ n \in Nat /\ un \in Seq(Event) /\ Len(un) = n - p
      /\ \A k \in 1 .. n - p : un[k] = events[p + k]
  BY <1>1, UnreadFacts
<1>3. /\ Got(r, part) /\ cursors' = [cursors EXCEPT ![handle[r] + 1] = v]
      /\ UNCHANGED <<buffers, handle, sent>>
  BY DEF ReadPartial
<1> HIDE DEF un
<1>4. count \in Nat /\ count <= n - p
  BY <1>2, EventsAssumption
<1> HIDE DEF count
<1>5. Len(part) = count /\ \A k \in 1 .. count : part[k] = un[k]
  <2>1. un \in Seq(Event) /\ count \in 0 .. Len(un)
    BY <1>2, <1>4
  <2> QED
    BY ONLY <2>1
<1>6. v = p + count
  BY <1>2, <1>4
<1> HIDE DEF p, part, v
<1>7. /\ v \in p .. n /\ Len(part) = v - p
      /\ \A k \in 1 .. v - p : part[k] = events[p + k]
  <2>1. v - p = count /\ v \in p .. n
    BY <1>2, <1>4, <1>6
  <2>2. \A k \in 1 .. count : k \in 1 .. n - p
    BY <1>2, <1>4
  <2> QED
    BY <1>2, <1>5, <2>1, <2>2
<1> QED
  BY <1>1, <1>3, <1>7, MovesTo DEF p

\* What is left of all the buffers is now in the one for reading.
LEMMA Settles ==
    ASSUME IInv, FlowInv, NEW d \in 0 .. Len(Upcoming),
           pending' = <<>>, syncPending' = <<>>, UNCHANGED <<handle, sent, seen>>,
           events' \in Seq(Event), Len(events') = Len(Upcoming) - d,
           \A k \in 1 .. Len(events') : events'[k] = Upcoming[d + k],
           \A r \in Registered : Pos(handle[r])' \in Nat /\ d + Pos(handle[r])' = Pos(handle[r])
    PROVE  FlowInv'
<1>1. PICK v \in Seq(Event) : v = events'
  OBVIOUS
<1>2. Upcoming' = v
  <2>1. Upcoming' = v \o <<>> \o <<>>
    BY <1>1 DEF Upcoming
  <2>2. v \o <<>> = v
    BY ONLY v \in Seq(Event), ConcatEmptySeq
  <2> QED
    BY <2>1, <2>2
<1>3. Upcoming \in Seq(Event) /\ sent \in [Lanes -> Nat] /\ Flow(Upcoming, sent)
  BY Sorts DEF FlowInv
<1>4. /\ Flow(v, sent)
      /\ \A p \in 0 .. Len(v), lane \in Lanes : After(v, p, lane) = After(Upcoming, d + p, lane)
  <2>1. /\ v \in Seq(Event) /\ Len(v) = Len(Upcoming) - d /\ d \in 0 .. Len(Upcoming)
        /\ \A k \in 1 .. Len(v) : v[k] = Upcoming[d + k]
    BY <1>1
  <2> QED
    BY ONLY <1>3, <2>1, Dropped
<1>5. Registered' = Registered /\ sent' = sent /\ seen' = seen /\ handle' = handle
  BY DEF Registered, NoSlot
<1>6. ReadersUpTo'
  <2> SUFFICES ASSUME NEW r \in Registered
               PROVE  /\ Pos(handle[r])' \in 0 .. Len(v)
                      /\ UpTo(v, sent, Pos(handle[r])', seen[r])
    BY <1>1, <1>2, <1>5 DEF ReadersUpTo
  <2>1. PICK p : p = Pos(handle[r])'
    OBVIOUS
  <2>2. p \in Nat /\ d + p = Pos(handle[r])
    BY <2>1
  <2>3. Pos(handle[r]) \in 0 .. Len(events) /\ UpTo(Upcoming, sent, Pos(handle[r]), seen[r])
    BY DEF FlowInv, ReadersUpTo
  <2>4. p \in 0 .. Len(v)
    BY <1>1, <2>2, <2>3, Sorts
  <2>5. ASSUME NEW lane \in Lanes
        PROVE  seen[r][lane] \in 0 .. sent[lane] /\ After(v, p, lane) = seen[r][lane] + 1 .. sent[lane]
    BY <1>4, <2>2, <2>3, <2>4 DEF UpTo
  <2> QED
    BY <2>1, <2>4, <2>5 DEF UpTo
<1>7. Flow(Upcoming', sent')
  BY <1>2, <1>4, <1>5
<1>8. SyncOnly'
  BY EmptySeq DEF SyncOnly
<1> QED
  BY <1>5, <1>6, <1>7, <1>8 DEF FlowInv

\* Nobody lags: everybody is at the end of the buffer.
LEMMA NobodyBehind ==
    ASSUME IInv, FlowInv, lagging = 0, NEW r \in Registered PROVE Pos(handle[r]) = Len(events)
<1>1. Behind(cursors, Len(events)) = {}
  <2>1. cursors \in Seq(Nat) /\ Len(events) \in Nat
    BY Sorts DEF IInv, Types
  <2>2. IsFiniteSet(Behind(cursors, Len(events)))
    BY <2>1, BehindFinite
  <2>3. Cardinality(Behind(cursors, Len(events))) = 0
    BY DEF IInv, LaggingExact
  <2> QED
    BY <2>2, <2>3, FS_EmptySet
<1>2. handle[r] + 1 \in 1 .. Len(cursors) /\ cursors[handle[r] + 1] # Gone
      /\ Pos(handle[r]) = cursors[handle[r] + 1]
  BY ReaderSlot
<1>3. ~(Pos(handle[r]) < Len(events))
  BY <1>1, <1>2 DEF Behind
<1>4. Pos(handle[r]) \in 0 .. Len(events) /\ Len(events) \in Nat
  BY Sorts DEF FlowInv, ReadersUpTo
<1> QED
  BY <1>3, <1>4

LEMMA UpdateFlow == ASSUME IInv, FlowInv, Update PROVE FlowInv'
<1> DEFINE x == Len(events)
           n == Len(NewEvents)
<1>1. /\ events \in Seq(Event) /\ pending \in Seq(Event) /\ syncPending \in Seq(Event)
      /\ Upcoming \in Seq(Event) /\ x \in Nat /\ Len(Upcoming) \in Nat
  BY Sorts
<1>2. /\ pending' = <<>> /\ syncPending' = <<>> /\ UNCHANGED <<handle, sent, seen>>
  BY DEF Update
<1>3. NewEvents \in Seq(Event) /\ n \in Nat
  BY <1>1, Both DEF NewEvents
<1>4. Upcoming = events \o NewEvents
  <2>1. events \o (pending \o syncPending) = events \o pending \o syncPending
    BY ONLY <1>1
  <2> QED
    BY <2>1 DEF Upcoming, NewEvents
<1>5. /\ Len(Upcoming) = x + n
      /\ \A k \in 1 .. x : Upcoming[k] = events[k]
      /\ \A k \in 1 .. n : Upcoming[x + k] = NewEvents[k]
  BY <1>1, <1>3, <1>4, Both
<1>6. \A r \in Registered : Pos(handle[r]) \in 0 .. x /\ Pos(handle[r]) \in Nat
  BY <1>1 DEF FlowInv, ReadersUpTo
<1>7. CASE events = <<>> /\ NewEvents = <<>>
  <2>1. events' = <<>> /\ cursors' = cursors
    BY <1>7 DEF Update
  <2>2. Len(Upcoming) = 0 /\ Len(events') = 0 /\ events' \in Seq(Event)
    BY <1>5, <1>7, <2>1
  <2>3. \A r \in Registered : Pos(handle[r])' \in Nat /\ 0 + Pos(handle[r])' = Pos(handle[r])
    BY <1>2, <1>6, <2>1 DEF Pos
  <2> DEFINE d == 0
  <2>4. /\ d \in 0 .. Len(Upcoming) /\ Len(events') = Len(Upcoming) - d
        /\ \A k \in 1 .. Len(events') : events'[k] = Upcoming[d + k]
        /\ \A r \in Registered : Pos(handle[r])' \in Nat /\ d + Pos(handle[r])' = Pos(handle[r])
    BY <2>2, <2>3
  <2> HIDE DEF d
  <2> QED
    BY <1>2, <2>2, <2>4, Settles
<1>8. CASE Replace
  <2>1. events' = NewEvents /\ cursors' = Rewound
    BY <1>8 DEF Replace
  <2>2. \A r \in Registered : Pos(handle[r])' \in Nat /\ x + Pos(handle[r])' = Pos(handle[r])
    <3> SUFFICES ASSUME NEW r \in Registered PROVE Pos(handle[r])' = 0 /\ Pos(handle[r]) = x
      BY <1>1
    <3>1. Pos(handle[r]) = x
      BY <1>8, NobodyBehind DEF Replace
    <3>2. handle[r] + 1 \in 1 .. Len(cursors) /\ cursors[handle[r] + 1] # Gone
      BY ReaderSlot
    <3>3. Rewound[handle[r] + 1] = 0
      BY <3>2 DEF Rewound
    <3> QED
      BY <1>2, <2>1, <3>1, <3>3 DEF Pos
  <2>3. /\ x \in 0 .. Len(Upcoming) /\ events' \in Seq(Event) /\ Len(events') = Len(Upcoming) - x
        /\ \A k \in 1 .. Len(events') : events'[k] = Upcoming[x + k]
    BY <1>1, <1>3, <1>5, <2>1
  <2> HIDE DEF x
  <2> QED
    BY <1>2, <2>2, <2>3, Settles
<1>9. CASE Retain
  <2>1. events' = Upcoming /\ cursors' = cursors
    BY <1>4, <1>9 DEF Retain, Retained
  <2>2. \A r \in Registered : Pos(handle[r])' \in Nat /\ 0 + Pos(handle[r])' = Pos(handle[r])
    BY <1>2, <1>6, <2>1 DEF Pos
  <2> DEFINE d == 0
  <2>3. /\ d \in 0 .. Len(Upcoming) /\ events' \in Seq(Event) /\ Len(events') = Len(Upcoming) - d
        /\ \A k \in 1 .. Len(events') : events'[k] = Upcoming[d + k]
        /\ \A r \in Registered : Pos(handle[r])' \in Nat /\ d + Pos(handle[r])' = Pos(handle[r])
    BY <1>1, <2>1, <2>2
  <2> HIDE DEF d
  <2> QED
    BY <1>2, <2>3, Settles
<1> QED
  BY <1>7, <1>8, <1>9 DEF Update

\* No event is left, and none is due.
LEMMA NothingLeft ==
    ASSUME NEW st \in [Lanes -> Nat]
    PROVE  Flow(<<>>, st) /\ UpTo(<<>>, st, 0, st)
<1>1. ASSUME NEW p \in Nat, NEW lane \in Lanes PROVE After(<<>>, p, lane) = {}
  <2>1. p + 1 .. Len(<<>>) = {}
    BY EmptySeq
  <2> QED
    BY <2>1 DEF After
<1>2. \A lane \in Lanes : st[lane] \in 0 .. st[lane] /\ st[lane] + 1 .. st[lane] = {}
  <2> SUFFICES ASSUME NEW lane \in Lanes
               PROVE  st[lane] \in 0 .. st[lane] /\ st[lane] + 1 .. st[lane] = {}
    OBVIOUS
  <2>1. st[lane] \in Nat
    OBVIOUS
  <2> QED
    BY <2>1
<1>3. Runs(<<>>, st)
  <2> SUFFICES ASSUME NEW p \in 0 .. Len(<<>>), NEW lane \in Lanes
               PROVE  \E b \in 0 .. st[lane] : After(<<>>, p, lane) = b + 1 .. st[lane]
    BY DEF Runs
  <2>1. p \in Nat
    BY EmptySeq
  <2>2. After(<<>>, p, lane) = st[lane] + 1 .. st[lane]
    BY <1>1, <1>2, <2>1
  <2> QED
    BY <1>2, <2>2
<1>4. InOrder(<<>>)
  BY EmptySeq DEF InOrder
<1>5. UpTo(<<>>, st, 0, st)
  BY <1>1, <1>2 DEF UpTo
<1> QED
  BY <1>3, <1>4, <1>5 DEF Flow

LEMMA NoneUpcoming == (events = <<>> /\ pending = <<>> /\ syncPending = <<>>) => Upcoming = <<>>
BY DEF Upcoming

LEMMA ClearFlow == ASSUME IInv, FlowInv, Clear PROVE FlowInv'
<1>1. /\ events' = <<>> /\ pending' = <<>> /\ syncPending' = <<>> /\ cursors' = Rewound
      /\ seen' = [r \in Readers |-> IF handle[r] = NoSlot THEN NothingSeen ELSE sent]
      /\ handle' = handle /\ sent' = sent
  BY DEF Clear
<1>2. Upcoming' = <<>>
  BY <1>1 DEF Upcoming
<1>3. sent \in [Lanes -> Nat]
  BY Sorts
<1>4. Flow(Upcoming', sent') /\ UpTo(Upcoming', sent', 0, sent)
  BY <1>1, <1>2, <1>3, NothingLeft
<1>5. Registered' = Registered
  BY <1>1 DEF Registered, NoSlot
<1>6. ReadersUpTo'
  <2> SUFFICES ASSUME NEW r \in Registered
               PROVE  /\ Pos(handle[r])' \in 0 .. Len(events')
                      /\ UpTo(Upcoming', sent', Pos(handle[r])', seen'[r])
    BY <1>1, <1>5 DEF ReadersUpTo
  <2>1. handle[r] + 1 \in 1 .. Len(cursors) /\ cursors[handle[r] + 1] # Gone
        /\ r \in Readers /\ handle[r] # NoSlot
    BY ReaderSlot
  <2>2. Pos(handle[r])' = 0
    BY <1>1, <2>1 DEF Pos, Rewound
  <2>3. seen'[r] = sent /\ 0 \in 0 .. Len(events')
    BY <1>1, <2>1, EmptySeq
  <2> QED
    BY <1>4, <2>2, <2>3
<1>7. SyncOnly'
  BY <1>1, EmptySeq DEF SyncOnly
<1>8. seen' \in [Readers -> [Lanes -> Nat]]
  BY <1>1, <1>3 DEF NothingSeen
<1> QED
  BY <1>4, <1>6, <1>7, <1>8 DEF FlowInv

LEMMA InitFlow == Init => FlowInv
<1> SUFFICES ASSUME Init PROVE FlowInv
  OBVIOUS
<1>1. Upcoming = <<>>
  BY NoneUpcoming DEF Init
<1>2. sent \in [Lanes -> Nat]
  BY DEF Init
<1>3. Flow(Upcoming, sent)
  BY <1>1, <1>2, NothingLeft
<1>4. Registered = {}
  BY DEF Init, Registered
<1>5. ReadersUpTo
  BY <1>4 DEF ReadersUpTo
<1>6. SyncOnly
  BY EmptySeq DEF Init, SyncOnly
<1>7. seen \in [Readers -> [Lanes -> Nat]]
  BY DEF Init, NothingSeen
<1> QED
  BY <1>3, <1>5, <1>6, <1>7 DEF FlowInv

LEMMA NextFlow == ASSUME IInv, FlowInv, IInv', [Next]_vars PROVE FlowInv'
<1>1. CASE Send
  BY <1>1, SendFlow
<1>2. CASE SendSync
  BY <1>2, SendSyncFlow
<1>3. CASE FlushSync
  BY <1>3, FlushSyncFlow
<1>4. CASE Update
  BY <1>4, UpdateFlow
<1>5. CASE Clear
  BY <1>5, ClearFlow
<1>6. ASSUME NEW r \in Readers, ReaderStep(r) PROVE FlowInv'
  BY <1>6, AddReaderFlow, RemoveReaderFlow, ReadFlow, ReadPartialFlow DEF ReaderStep
<1>7. CASE UNCHANGED vars
  BY <1>7, SameFlow DEF vars, slots, buffers, Pos
<1> QED
  BY <1>1, <1>2, <1>3, <1>4, <1>5, <1>6, <1>7 DEF Next

\* Every reader gets every event that is sent while it is registered once, in
\* the order of its lane: whatever lags, joins, leaves or is flushed in
\* between, if `clear` is only called while no cursor id is free.
THEOREM EventsComeOnce == ASSUME ~ClearAnytime PROVE Spec => []EachEventOnce
<1>1. IInv /\ FlowInv /\ [Next]_vars => (IInv /\ FlowInv)'
  BY NextIInv, NextFlow
<1>2. Init => IInv /\ FlowInv
  BY InitIInv, InitFlow
<1>3. IInv /\ FlowInv => EachEventOnce
  BY FlowInvOnce
<1> QED
  BY <1>1, <1>2, <1>3, PTL DEF Spec

-----------------------------------------------------------------------------
(* Delayed events: what is kept back until it is due.                      *)

Entry == [at : Nat, seq : Nat, event : Nat, due : Nat]

\* Ticks that do not wrap around are plain times.
NoWrap == FirstTick + MaxDelay < TickMod /\ MaxNow + MaxDelay < TickMod

InTime == now \in Nat /\ now + MaxDelay < TickMod

Waiting ==
    /\ heap \in SUBSET Entry /\ IsFiniteSet(heap)
    /\ sequence \in Nat /\ delayed \in Nat
    /\ \A e \in heap : e.at = e.due /\ e.seq < sequence /\ e.event <= delayed
    /\ \A d, e \in heap : d.seq < e.seq => d.event < e.event

\* What one flush put out knows where it began.
Flushed ==
    /\ out \in Seq([entry : Entry, from : Nat])
    /\ \A k \in 1 .. Len(out) : out[k].from < k /\ out[k].entry.due <= now

DelayInv == InTime /\ Waiting /\ Flushed /\ DueOrder

LEMMA TickIsTime == ASSUME NEW n \in Nat, n < TickMod PROVE Tick(n) = n
BY DelayedAssumption DEF Tick

\* What an order of the entries that are due looks like.
LEMMA PoppedFacts ==
    ASSUME DelayInv, NEW order \in Popped
    PROVE  /\ order \in Seq(Entry) /\ Len(order) \in Nat /\ DOMAIN order = 1 .. Len(order)
           /\ \A k \in 1 .. Len(order) : order[k] \in heap /\ order[k].due <= now
           /\ \A j, k \in 1 .. Len(order) : j < k =>
                \/ order[j].due < order[k].due
                \/ order[j].due = order[k].due /\ order[j].event < order[k].event
           /\ \A e \in heap \ DueNow : e.due > now
<1> DEFINE n == Cardinality(DueNow)
<1>1. now \in Nat /\ Tick(now) = now
  BY TickIsTime, DelayedAssumption DEF DelayInv, InTime
<1>2. \A e \in heap : e \in Entry /\ e.at = e.due /\ e.due \in Nat /\ e.event \in Nat /\ e.seq \in Nat
  BY DEF DelayInv, Waiting, Entry
<1>3. DueNow \subseteq heap /\ n \in Nat
  <2>1. DueNow \in SUBSET heap
    BY DEF DueNow
  <2>2. IsFiniteSet(DueNow)
    BY <2>1, FS_Subset DEF DelayInv, Waiting
  <2> QED
    BY <2>1, <2>2, FS_CardinalityType
<1>4. /\ order \in [1 .. n -> DueNow]
      /\ \A j, k \in 1 .. n : j < k => Higher(order[j], order[k])
  BY DEF Popped
<1> HIDE DEF n
<1>5. order \in [1 .. n -> Entry] /\ \A k \in 1 .. n : order[k] \in heap
  BY <1>2, <1>3, <1>4
<1>6. order \in Seq(Entry) /\ Len(order) = n /\ DOMAIN order = 1 .. n
  BY <1>3, <1>5
<1>7. \A e \in DueNow : e.due <= now
  BY <1>1, <1>2 DEF DueNow, Ready
<1>8. \A e \in heap \ DueNow : e.due > now
  BY <1>1, <1>2 DEF DueNow, Ready
<1>9. ASSUME NEW j \in 1 .. n, NEW k \in 1 .. n, j < k
      PROVE  \/ order[j].due < order[k].due
             \/ order[j].due = order[k].due /\ order[j].event < order[k].event
  <2>1. Higher(order[j], order[k]) /\ order[j] \in heap /\ order[k] \in heap
    BY <1>4, <1>5, <1>9
  <2>2. order[j].seq < order[k].seq => order[j].event < order[k].event
    BY <2>1 DEF DelayInv, Waiting
  <2>3. order[j].at = order[j].due /\ order[k].at = order[k].due
    BY <1>2, <2>1
  <2> QED
    BY <2>1, <2>2, <2>3 DEF Higher
<1>10. \A k \in 1 .. n : order[k].due <= now
  BY <1>4, <1>7
<1> QED
  BY <1>3, <1>5, <1>6, <1>8, <1>9, <1>10

\* The entries of one flush go out together.
LEMMA OutFacts ==
    ASSUME DelayInv, NEW order \in Popped,
           out' = out \o [k \in DOMAIN order |-> [entry |-> order[k], from |-> Len(out)]]
    PROVE  /\ out' \in Seq([entry : Entry, from : Nat])
           /\ Len(out) \in Nat /\ Len(out') = Len(out) + Len(order)
           /\ \A k \in 1 .. Len(out) : out'[k] = out[k]
           /\ \A k \in 1 .. Len(order) :
                out'[Len(out) + k] = [entry |-> order[k], from |-> Len(out)]
<1> DEFINE n == Len(order)
           m == Len(out)
           Rec == [entry : Entry, from : Nat]
           add == [k \in 1 .. n |-> [entry |-> order[k], from |-> m]]
<1>1. /\ n \in Nat /\ DOMAIN order = 1 .. n /\ \A k \in 1 .. n : order[k] \in Entry
  BY PoppedFacts, ElementOfSeq
<1>2. out \in Seq(Rec) /\ m \in Nat
  BY LenProperties DEF DelayInv, Flushed
<1>3. add \in [1 .. n -> Rec]
  BY <1>1, <1>2
<1>4. add \in Seq(Rec) /\ Len(add) = n /\ \A k \in 1 .. n : add[k] = [entry |-> order[k], from |-> m]
  BY <1>1, <1>3
<1>5. out' = out \o add
  BY <1>1
<1> HIDE DEF add, Rec, n, m
<1>6. /\ out \o add \in Seq(Rec) /\ Len(out \o add) = Len(out) + Len(add)
      /\ \A k \in 1 .. Len(out) : (out \o add)[k] = out[k]
      /\ \A k \in 1 .. Len(add) : (out \o add)[Len(out) + k] = add[k]
  <2>1. out \in Seq(Rec) /\ add \in Seq(Rec)
    BY <1>2, <1>4
  <2> QED
    BY ONLY <2>1, Both
<1> QED
  BY <1>2, <1>4, <1>5, <1>6 DEF Rec, n, m

LEMMA FlushDelayInv == ASSUME DelayInv, FlushDelayed PROVE DelayInv'
<1>1. PICK order \in Popped :
        /\ heap' = heap \ DueNow
        /\ out' = out \o [k \in DOMAIN order |-> [entry |-> order[k], from |-> Len(out)]]
        /\ UNCHANGED <<now, sequence, delayed>>
  BY DEF FlushDelayed
<1> DEFINE n == Len(order)
           m == Len(out)
<1>2. /\ order \in Seq(Entry) /\ n \in Nat
      /\ \A k \in 1 .. n : order[k] \in heap /\ order[k].due <= now
      /\ \A j, k \in 1 .. n : j < k =>
           \/ order[j].due < order[k].due
           \/ order[j].due = order[k].due /\ order[j].event < order[k].event
  BY PoppedFacts
<1>3. /\ out' \in Seq([entry : Entry, from : Nat])
      /\ m \in Nat /\ Len(out') = m + n
      /\ \A k \in 1 .. m : out'[k] = out[k]
      /\ \A k \in 1 .. n : out'[m + k] = [entry |-> order[k], from |-> m]
  BY <1>1, OutFacts
<1>4. \A k \in 1 .. m : out[k].from \in Nat /\ out[k].from < k /\ out[k].entry.due <= now
  <2> SUFFICES ASSUME NEW k \in 1 .. Len(out)
               PROVE  out[k].from \in Nat /\ out[k].from < k /\ out[k].entry.due <= now
    OBVIOUS
  <2>1. out[k] \in [entry : Entry, from : Nat]
    BY ElementOfSeq DEF DelayInv, Flushed
  <2> QED
    BY <2>1 DEF DelayInv, Flushed
<1> HIDE DEF n, m
<1>5. ASSUME NEW k \in 1 .. m + n
      PROVE  \/ k \in 1 .. m
             \/ k - m \in 1 .. n /\ out'[k].entry = order[k - m] /\ out'[k].from = m /\ k > m
  <2>1. CASE k \in m + 1 .. m + n
    <3>1. k - m \in 1 .. n /\ m + (k - m) = k /\ k > m
      BY <1>2, <1>3, <2>1
    <3>2. out'[m + (k - m)] = [entry |-> order[k - m], from |-> m]
      BY <1>3, <3>1
    <3> QED
      BY <3>1, <3>2
  <2> QED
    BY <1>2, <1>3, <2>1
<1>6. Flushed'
  <2>1. ASSUME NEW k \in 1 .. m + n PROVE out'[k].from < k /\ out'[k].entry.due <= now
    <3>1. CASE k \in 1 .. m
      BY <1>3, <1>4, <3>1
    <3>2. CASE k - m \in 1 .. n /\ out'[k].entry = order[k - m] /\ out'[k].from = m /\ k > m
      BY <1>2, <3>2
    <3> QED
      BY <1>5, <3>1, <3>2
  <2> QED
    BY <1>1, <1>3, <2>1 DEF Flushed
<1>7. DueOrder'
  <2> DEFINE Before(j, k) == \/ out'[j].entry.due < out'[k].entry.due
                             \/ out'[j].entry.due = out'[k].entry.due
                                /\ out'[j].entry.event < out'[k].entry.event
  <2>1. ASSUME NEW j \in 1 .. m + n, NEW k \in 1 .. m + n, j < k, out'[j].from = out'[k].from
        PROVE  Before(j, k)
    <3>1. CASE j \in 1 .. m /\ k \in 1 .. m
      <4>1. out'[j] = out[j] /\ out'[k] = out[k]
        BY <1>3, <3>1
      <4>2. \/ out[j].entry.due < out[k].entry.due
            \/ out[j].entry.due = out[k].entry.due /\ out[j].entry.event < out[k].entry.event
        BY <2>1, <3>1, <4>1 DEF DelayInv, DueOrder, m
      <4> QED
        BY <4>1, <4>2
    <3>2. CASE j \in 1 .. m /\ k > m
      <4>1. out'[k].from = m
        BY <1>3, <1>5, <3>2
      <4>2. out'[j].from < j /\ j <= m /\ out'[j].from \in Nat
        BY <1>3, <1>4, <3>2
      <4> QED
        BY <1>3, <2>1, <4>1, <4>2
    <3>3. CASE j > m
      <4>1. /\ j - m \in 1 .. n /\ out'[j].entry = order[j - m]
            /\ k - m \in 1 .. n /\ out'[k].entry = order[k - m] /\ j - m < k - m
        BY <1>3, <1>5, <2>1, <3>3
      <4> QED
        BY <1>2, <4>1
    <3> QED
      BY <1>2, <1>3, <2>1, <3>1, <3>2, <3>3
  <2> QED
    BY <1>3, <2>1 DEF DueOrder
<1>8. Waiting'
  <2>1. IsFiniteSet(heap') /\ heap' \in SUBSET heap
    BY <1>1, FS_Subset DEF DelayInv, Waiting
  <2> QED
    BY <1>1, <2>1 DEF DelayInv, Waiting
<1>9. InTime'
  BY <1>1 DEF DelayInv, InTime
<1> QED
  BY <1>6, <1>7, <1>8, <1>9 DEF DelayInv

LEMMA SendDelayInv ==
    ASSUME DelayInv, NEW delay \in 0 .. MaxDelay, SendDelayed(delay) PROVE DelayInv'
<1> DEFINE e == [at    |-> Tick(Tick(now) + delay), seq |-> sequence,
                 event |-> delayed + 1, due |-> now + delay]
<1>1. heap' = heap \cup {e} /\ sequence' = sequence + 1 /\ delayed' = delayed + 1
      /\ now' = now /\ out' = out
  BY DEF SendDelayed
<1>2. now \in Nat /\ delay \in Nat /\ now + delay < TickMod /\ now < TickMod
  BY DelayedAssumption DEF DelayInv, InTime
<1>3. Tick(Tick(now) + delay) = now + delay
  <2>1. Tick(now) = now
    BY <1>2, TickIsTime
  <2> QED
    BY <1>2, <2>1, TickIsTime
<1>4. sequence \in Nat /\ delayed \in Nat
  BY DEF DelayInv, Waiting
<1>5. /\ e \in Entry /\ e.at = e.due /\ e.seq = sequence /\ e.event = delayed + 1
  BY <1>2, <1>3, <1>4 DEF Entry
<1> HIDE DEF e
<1>6. \A d \in heap : /\ d.at = d.due /\ d.seq < sequence /\ d.event <= delayed
                      /\ d.seq \in Nat /\ d.event \in Nat
  BY DEF DelayInv, Waiting, Entry
<1>7. Waiting'
  <2>1. heap' \in SUBSET Entry /\ IsFiniteSet(heap')
    BY <1>1, <1>5, FS_AddElement DEF DelayInv, Waiting
  <2>2. \A d \in heap' : d.at = d.due /\ d.seq < sequence' /\ d.event <= delayed'
    BY <1>1, <1>4, <1>5, <1>6
  <2>3. ASSUME NEW d \in heap', NEW f \in heap', d.seq < f.seq PROVE d.event < f.event
    <3>1. CASE d \in heap /\ f \in heap
      BY <2>3, <3>1 DEF DelayInv, Waiting
    <3>2. CASE d \in heap /\ f = e
      BY <1>4, <1>5, <1>6, <3>2
    <3>3. CASE d = e
      <4>1. ~(e.seq < f.seq)
        BY <1>1, <1>4, <1>5, <1>6
      <4> QED
        BY <2>3, <3>3, <4>1
    <3> QED
      BY <1>1, <3>1, <3>2, <3>3
  <2> QED
    BY <1>1, <1>4, <2>1, <2>2, <2>3 DEF Waiting
<1> QED
  BY <1>1, <1>7 DEF DelayInv, InTime, Flushed, DueOrder

LEMMA InitDelayInv == ASSUME NoWrap PROVE InitDelayed => DelayInv
<1> SUFFICES ASSUME InitDelayed PROVE DelayInv
  OBVIOUS
<1>1. InTime
  BY DelayedAssumption DEF NoWrap, InitDelayed, InTime
<1>2. Waiting
  BY FS_EmptySet DEF InitDelayed, Waiting
<1>3. out = <<>> /\ Len(<<>>) = 0
  BY EmptySeq DEF InitDelayed
<1>4. Flushed /\ DueOrder
  BY <1>3 DEF Flushed, DueOrder
<1> QED
  BY <1>1, <1>2, <1>4 DEF DelayInv

LEMMA NextDelayInv == ASSUME NoWrap PROVE DelayInv /\ [NextDelayed]_allVars => DelayInv'
<1> SUFFICES ASSUME DelayInv, [NextDelayed]_allVars PROVE DelayInv'
  OBVIOUS
<1>1. CASE UNCHANGED waiting
  BY <1>1 DEF waiting, DelayInv, InTime, Waiting, Flushed, DueOrder
<1>2. CASE Advance
  <2>1. /\ now' = now + 1 /\ now < MaxNow /\ out' = <<>> /\ Len(<<>>) = 0
        /\ UNCHANGED <<heap, sequence, delayed>>
    BY <1>2, EmptySeq DEF Advance
  <2>2. InTime'
    BY <2>1, DelayedAssumption DEF DelayInv, InTime, NoWrap
  <2>3. Waiting'
    BY <2>1 DEF DelayInv, Waiting
  <2>4. Flushed' /\ DueOrder'
    BY <2>1 DEF Flushed, DueOrder
  <2> QED
    BY <2>2, <2>3, <2>4 DEF DelayInv
<1>3. ASSUME NEW delay \in 0 .. MaxDelay, SendDelayed(delay) PROVE DelayInv'
  BY <1>3, SendDelayInv
<1>4. CASE FlushDelayed
  BY <1>4, FlushDelayInv
<1>5. CASE ClearDelayed
  <2>1. heap' = {} /\ sequence' = 0 /\ UNCHANGED <<now, delayed, out>>
    BY <1>5 DEF ClearDelayed
  <2>2. Waiting'
    BY <2>1, FS_EmptySet DEF DelayInv, Waiting
  <2> QED
    BY <2>1, <2>2 DEF DelayInv, InTime, Flushed, DueOrder
<1>6. CASE UNCHANGED allVars
  BY <1>1, <1>6 DEF allVars
<1> QED
  BY <1>1, <1>2, <1>3, <1>4, <1>5, <1>6 DEF NextDelayed

\* Delayed events that are flushed together come out as they fall due, and as
\* they were sent when they fall due together, until the tick counter wraps
\* around.
THEOREM DelayedInOrder == ASSUME NoWrap PROVE SpecDelayed => []DueOrder
<1>1. DelayInv => DueOrder
  BY DEF DelayInv
<1> QED
  BY <1>1, InitDelayInv, NextDelayInv, PTL DEF SpecDelayed

\* A flush lets nothing out early and leaves nothing behind that is due, until
\* the tick counter wraps around.
THEOREM DelayedOnTime == ASSUME NoWrap PROVE SpecDelayed => OnTime
<1> DEFINE A == out' # out /\ out' # <<>> =>
                  /\ \A k \in 1 .. Len(out') : out'[k].entry.due <= now
                  /\ \A e \in heap' : e.due > now
<1>1. ASSUME DelayInv, DelayInv', [NextDelayed]_allVars PROVE [A]_allVars
  <2>1. CASE out' = out \/ out' = <<>>
    BY <2>1
  <2>2. CASE FlushDelayed
    <3>1. PICK order \in Popped : heap' = heap \ DueNow /\ now' = now
      BY <2>2 DEF FlushDelayed
    <3>2. \A e \in heap' : e.due > now
      BY <1>1, <3>1, PoppedFacts
    <3>3. \A k \in 1 .. Len(out') : out'[k].entry.due <= now
      BY <1>1, <3>1 DEF DelayInv, Flushed
    <3> QED
      BY <3>2, <3>3
  <2> QED
    BY <1>1, <2>1, <2>2
       DEF NextDelayed, waiting, allVars, Advance, SendDelayed, ClearDelayed
<1> QED
  BY <1>1, InitDelayInv, NextDelayInv, PTL DEF SpecDelayed, OnTime

-----------------------------------------------------------------------------
(* The two queues together.                                                *)

HeapFinite == IsFiniteSet(heap)

\* A flush writes as a writer would, one event after the other.
LEMMA FlushWrites ==
    ASSUME IInv, HeapFinite, FlushDelayed
    PROVE  \E new \in Seq(Event) :
             /\ \A k \in 1 .. Len(new) : new[k].lane = "main" /\ new[k].n = sent["main"] + k
             /\ Len(new) \in Nat /\ sent["main"] + Len(new) <= MaxSent
             /\ pending' = pending \o new /\ sent' = [sent EXCEPT !["main"] = @ + Len(new)]
             /\ UNCHANGED <<events, syncPending, slots, handle, seen>>
             /\ heap' = heap \ DueNow
<1>1. PICK order \in Popped :
        /\ sent["main"] + Len(order) <= MaxSent
        /\ pending' =
             pending \o [k \in DOMAIN order |-> [lane |-> "main", n |-> sent["main"] + k]]
        /\ sent' = [sent EXCEPT !["main"] = @ + Len(order)]
        /\ UNCHANGED <<events, syncPending, slots, handle, seen>>
        /\ heap' = heap \ DueNow
  BY DEF FlushDelayed
<1> DEFINE n == Cardinality(DueNow)
           x == sent["main"]
           new == [k \in 1 .. n |-> [lane |-> "main", n |-> x + k]]
<1>2. n \in Nat
  <2>1. DueNow \in SUBSET heap
    BY DEF DueNow
  <2> QED
    BY <2>1, FS_Subset, FS_CardinalityType DEF HeapFinite
<1>3. order \in [1 .. n -> DueNow]
  BY DEF Popped
<1>4. DOMAIN order = 1 .. n /\ Len(order) = n
  <2> HIDE DEF n
  <2>1. order \in Seq(DueNow)
    BY <1>2, <1>3
  <2>2. DOMAIN order = 1 .. n
    BY <1>3
  <2> QED
    BY <1>2, <2>1, <2>2
<1>5. x \in Nat /\ x + n <= MaxSent /\ MaxSent \in Nat
  <2>1. x \in 0 .. MaxSent /\ MaxSent \in Nat
    BY EventsAssumption DEF IInv, Types, Lanes
  <2> QED
    BY <1>1, <1>4, <2>1
<1> HIDE DEF n, x
<1>6. \A k \in 1 .. n : [lane |-> "main", n |-> x + k] \in Event
  <2>1. \A k \in 1 .. n : x + k \in 1 .. MaxSent
    BY <1>2, <1>5
  <2> QED
    BY <2>1 DEF Event, Lanes
<1>7. new \in [1 .. n -> Event]
  BY <1>6
<1>8. new \in Seq(Event) /\ Len(new) = n
  BY <1>2, <1>7
<1>9. \A k \in 1 .. n : new[k].lane = "main" /\ new[k].n = x + k
  OBVIOUS
<1>10. pending' = pending \o new
  BY <1>1, <1>4 DEF x
<1> HIDE DEF new
<1> QED
  BY <1>1, <1>2, <1>4, <1>5, <1>8, <1>9, <1>10 DEF x

LEMMA FlushDelayedStep == ASSUME IInv, HeapFinite, FlushDelayed PROVE IInv'
<1>1. PICK new \in Seq(Event) :
        /\ Len(new) \in Nat /\ sent["main"] + Len(new) <= MaxSent
        /\ pending' = pending \o new /\ sent' = [sent EXCEPT !["main"] = @ + Len(new)]
        /\ UNCHANGED <<events, syncPending, slots, handle, seen>>
  BY FlushWrites
<1>2. pending \in Seq(Event)
  BY DEF IInv, Types
<1>3. pending \o new \in Seq(Event) /\ Len(pending \o new) = Len(pending) + Len(new)
  BY ONLY <1>1, <1>2, Both
<1>4. sent["main"] \in 0 .. MaxSent /\ sent["sync"] \in 0 .. MaxSent /\ MaxSent \in Nat
  BY EventsAssumption DEF IInv, Types, Lanes
<1>5. /\ sent' \in [Lanes -> 0 .. MaxSent]
      /\ sent'["main"] = sent["main"] + Len(new) /\ sent'["sync"] = sent["sync"]
  <2>1. sent["main"] + Len(new) \in 0 .. MaxSent
    BY <1>1, <1>4
  <2> QED
    BY <1>1, <2>1 DEF IInv, Types, Lanes
<1>6. Types'
  BY <1>1, <1>3, <1>5 DEF IInv, Types, slots
<1>7. Room'
  BY <1>1, <1>3, <1>4, <1>5, Bounds DEF IInv, Room
<1>8. Slots'
  BY <1>1, SlotsKept DEF IInv, slots
<1>9. LaggingExact'
  BY <1>1 DEF IInv, LaggingExact, slots, Behind, Gone
<1> QED
  BY <1>6, <1>7, <1>8, <1>9 DEF IInv

LEMMA FlushDelayedFlow == ASSUME IInv, FlowInv, HeapFinite, FlushDelayed PROVE FlowInv'
<1>1. PICK new \in Seq(Event) :
        /\ \A k \in 1 .. Len(new) : new[k].lane = "main" /\ new[k].n = sent["main"] + k
        /\ pending' = pending \o new /\ sent' = [sent EXCEPT !["main"] = @ + Len(new)]
        /\ UNCHANGED <<events, syncPending, slots, handle, seen>>
  BY FlushWrites
<1>2. UNCHANGED <<events, syncPending, cursors, handle, seen>>
  BY <1>1 DEF slots
<1> QED
  BY <1>1, <1>2, MainArrived

LEMMA NextHeapFinite ==
    ASSUME IInv, HeapFinite, [NextDelayed]_allVars PROVE HeapFinite'
<1>1. CASE UNCHANGED waiting
  BY <1>1 DEF waiting, HeapFinite
<1>2. CASE Advance
  BY <1>2 DEF Advance, HeapFinite
<1>3. ASSUME NEW delay \in 0 .. MaxDelay, SendDelayed(delay) PROVE HeapFinite'
  BY <1>3, FS_AddElement DEF SendDelayed, HeapFinite
<1>4. CASE FlushDelayed
  <2>1. heap' \in SUBSET heap
    BY <1>4, FlushWrites
  <2> QED
    BY <2>1, FS_Subset DEF HeapFinite
<1>5. CASE ClearDelayed
  BY <1>5, FS_EmptySet DEF ClearDelayed, HeapFinite
<1>6. CASE UNCHANGED allVars
  BY <1>1, <1>6 DEF allVars
<1> QED
  BY <1>1, <1>2, <1>3, <1>4, <1>5, <1>6 DEF NextDelayed

LEMMA NextBoth ==
    ASSUME ~ClearAnytime, IInv, FlowInv, HeapFinite, [NextDelayed]_allVars
    PROVE  IInv' /\ FlowInv'
<1>1. CASE FlushDelayed
  BY <1>1, FlushDelayedStep, FlushDelayedFlow
<1>2. CASE ~FlushDelayed
  <2>1. [Next]_vars
    BY <1>2 DEF NextDelayed, Advance, SendDelayed, ClearDelayed, allVars
  <2>2. IInv'
    BY <2>1, NextIInv
  <2> QED
    BY <2>1, <2>2, NextFlow
<1> QED
  BY <1>1, <1>2

\* What is flushed from the delayed queue reaches the readers as what is sent
\* at once does, and the count of the lagging and the cursors stay right.
THEOREM DelayedEventsComeOnce ==
    ASSUME ~ClearAnytime PROVE SpecDelayed => [](EachEventOnce /\ LaggingExact /\ OwnCursor)
<1> DEFINE I == IInv /\ FlowInv /\ HeapFinite
<1>1. InitDelayed => I
  BY InitIInv, InitFlow, FS_EmptySet DEF InitDelayed, HeapFinite
<1>2. I /\ [NextDelayed]_allVars => I'
  BY NextBoth, NextHeapFinite
<1>3. I => EachEventOnce /\ LaggingExact /\ OwnCursor
  BY FlowInvOnce, OwnCursorHolds DEF IInv
<1> QED
  BY <1>1, <1>2, <1>3, PTL DEF SpecDelayed

=============================================================================
