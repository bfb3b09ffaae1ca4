--------------------------- MODULE EntityAllocator ---------------------------
(***************************************************************************)
(* The generational id allocator of apex-core (entity.rs) together with    *)
(* the code that consumes its ids: World::spawn and World::despawn on the  *)
(* main thread, command buffers that reserve ids from other threads, the   *)
(* deterministic id blocks the scheduler seeds, and the abandon queue.     *)
(*                                                                         *)
(* One action is one atomic step of the code: an atomic read-modify-write, *)
(* a critical section, or a stretch of `&mut World` code no other thread   *)
(* can observe.  Reservations run on any thread; `flush` and the seeding   *)
(* of a block run at the scheduler's synchronisation point, where no       *)
(* reservation is in progress (entity.rs:94-96).                           *)
(***************************************************************************)
EXTENDS Integers, Sequences, FiniteSets, Functions

CONSTANTS
  Buffers,    \* command buffers, each holding an EntityReserver
  NoBuffer,   \* no buffer
  MaxIndex,   \* bound: indices are 0 .. MaxIndex - 1
  MaxGen,     \* the last generation, u32::MAX in the code
  MaxBatch    \* bound: ids asked for by one batch reservation

ASSUME ConstantsAssumption ==
  /\ MaxIndex \in Nat \ {0}
  /\ MaxGen \in Nat \ {0}
  /\ MaxBatch \in Nat \ {0}
  /\ NoBuffer \notin Buffers

Index  == 0 .. MaxIndex - 1
Gen    == 0 .. MaxGen
Entity == [index : Index, gen : Gen]

VARIABLES
  highWater,   \* AtomicU32: indices below it have been issued at least once
  generation,  \* records[i].generation (0 where no record exists yet)
  located,     \* indices whose record has a location
  nrecords,    \* records.len()
  live,        \* the maintained count of located records
  freeList,    \* indices freed since the last flush, a stack
  lease,       \* ReserveLease: the free slots and the decrementing cursor
  dropped,     \* AbandonQueue.indices
  pending,     \* AbandonQueue.pending
  publisher,   \* the buffer between its push to `dropped` and its flag store
  queue,       \* per buffer: ids of its queued, un-applied Spawn commands
  need,        \* per buffer: fresh ids its reservation in progress still needs
  binding,     \* per buffer: which reserver it holds
  tail,        \* per buffer: the ids its block has not handed out yet
  applying,    \* the buffer whose commands are being applied
  mainPc,      \* where the main thread is inside `allocate`
  mainNeed,    \* fresh ids the main thread's allocation still needs
  mine         \* ids `allocate` returned whose location is not set yet

recordVars == <<generation, located, nrecords, live>>
poolVars   == <<freeList, lease>>
dropVars   == <<dropped, pending, publisher>>
bufferVars == <<queue, need, binding, tail>>
mainVars   == <<mainPc, mainNeed, mine>>
vars == <<highWater, recordVars, poolVars, dropVars, bufferVars, applying,
          mainVars>>

Larger(a, b) == IF a > b THEN a ELSE b

-----------------------------------------------------------------------------
(* Taking ids from the lease and from the high-water mark. *)

\* How many of n requested ids the lease can serve: old.max(0).min(n).
Reuse(n) ==
  IF lease.cursor >= n THEN n ELSE IF lease.cursor > 0 THEN lease.cursor ELSE 0

\* The slots a `cursor.fetch_sub(n)` yields, highest first.
LeaseSlots(n) == [k \in 1 .. Reuse(n) |-> lease.free[lease.cursor + 1 - k]]

\* The ids a `high_water.fetch_add(n)` yields.
FreshIds(n) == [k \in 1 .. n |-> [index |-> highWater + k - 1, gen |-> 0]]

TakeFromLease(n) == lease' = [lease EXCEPT !.cursor = @ - n]

\* Bound: n more fresh ids fit, also beside those already promised to a
\* reservation or an allocation in progress.
Room(n) ==
  /\ highWater + n <= MaxIndex
  /\ highWater + n + mainNeed + SumFunction(need) <= MaxIndex

-----------------------------------------------------------------------------
(* Reservation: EntityReserver::reserve / reserve_n, from any thread. *)

Idle(b)   == need[b] = 0 /\ publisher # b /\ applying # b
Quiescent == \A b \in Buffers : need[b] = 0
MainIdle  == mainPc = "idle" /\ mine = <<>>

\* Wrong on purpose: the block keeps the last id it handed out.
ReserveFromBlockOffByOne(b, n) ==
  /\ Idle(b) /\ binding[b] = "block"
  /\ n <= Len(tail[b])
  /\ queue' = [queue EXCEPT ![b] = @ \o SubSeq(tail[b], 1, n)]
  /\ tail' = [tail EXCEPT ![b] = SubSeq(@, n, Len(@))]
  /\ UNCHANGED <<highWater, recordVars, poolVars, dropVars, need, binding,
                 applying, mainVars>>

\* A bound block serves the request if it still holds all the ids asked for.
ReserveFromBlock(b, n) ==
  /\ Idle(b) /\ binding[b] = "block"
  /\ n <= Len(tail[b])
  /\ queue' = [queue EXCEPT ![b] = @ \o SubSeq(tail[b], 1, n)]
  /\ tail' = [tail EXCEPT ![b] = SubSeq(@, n + 1, Len(@))]
  /\ UNCHANGED <<highWater, recordVars, poolVars, dropVars, need, binding,
                 applying, mainVars>>

\* Without a block, or past its end: one fetch_sub on the shared cursor.
ReserveFromLease(b, n) ==
  /\ Idle(b) /\ binding[b] # "applied"
  /\ binding[b] = "block" => n > Len(tail[b])
  /\ Room(n - Reuse(n))
  /\ queue' = [queue EXCEPT ![b] = @ \o LeaseSlots(n)]
  /\ need' = [need EXCEPT ![b] = n - Reuse(n)]
  /\ TakeFromLease(n)
  /\ UNCHANGED <<highWater, recordVars, freeList, dropVars, binding, tail,
                 applying, mainVars>>

\* The rest of the request comes from the high-water mark.
ReserveFresh(b) ==
  /\ need[b] > 0
  /\ highWater + need[b] <= MaxIndex
  /\ queue' = [queue EXCEPT ![b] = @ \o FreshIds(need[b])]
  /\ highWater' = highWater + need[b]
  /\ need' = [need EXCEPT ![b] = 0]
  /\ UNCHANGED <<recordVars, poolVars, dropVars, binding, tail, applying,
                 mainVars>>

-----------------------------------------------------------------------------
(* Abandoning: a buffer dropped or cleared with un-applied reservations.   *)
(* The indices are pushed under the queue's lock; the flag is stored       *)
(* before the lock is released.                                            *)

Indices(ids) == [k \in 1 .. Len(ids) |-> ids[k].index]

Abandon(b) ==
  /\ Idle(b) /\ publisher = NoBuffer
  /\ queue[b] # <<>>
  /\ dropped' = dropped \o Indices(queue[b])
  /\ queue' = [queue EXCEPT ![b] = <<>>]
  /\ publisher' = b
  /\ UNCHANGED <<highWater, recordVars, poolVars, pending, need, binding,
                 tail, applying, mainVars>>

PublishAbandoned(b) ==
  /\ publisher = b
  /\ pending' = TRUE
  /\ publisher' = NoBuffer
  /\ UNCHANGED <<highWater, recordVars, poolVars, dropped, bufferVars,
                 applying, mainVars>>

-----------------------------------------------------------------------------
(* EntityAllocator::flush: grow the records, drain the abandon queue, give *)
(* the unconsumed lease slots back and lease the whole free list again.    *)

\* Wrong on purpose: every slot of the old lease is given back, the consumed
\* ones too.
UnconsumedAll == Len(lease.free)

\* Wrong on purpose: the abandon queue is emptied but not returned.
WithoutDropped == freeList

\* Wrong on purpose: one slot too many, or a new generation for every slot.
LeaseOfTooLong(list) ==
  [free   |-> [k \in 1 .. Len(list) |->
                 [index |-> list[k], gen |-> generation[list[k]]]],
   cursor |-> Len(list) + 1]
LeaseOfNew(list) ==
  [free   |-> [k \in 1 .. Len(list) |-> [index |-> list[k], gen |-> 0]],
   cursor |-> Len(list)]

Unconsumed  == Reuse(Len(lease.free))
WithDropped == IF pending THEN freeList \o dropped ELSE freeList
Leasable    ==
  WithDropped \o [k \in 1 .. Unconsumed |-> lease.free[k].index]
LeaseOf(list) ==
  [free   |-> [k \in 1 .. Len(list) |->
                 [index |-> list[k], gen |-> generation[list[k]]]],
   cursor |-> Len(list)]

NothingToReconcile ==
  WithDropped = <<>> /\ Unconsumed = Len(lease.free)

\* Wrong on purpose: the fast path is taken before the queue is drained.
FlushFastPathFirst ==
  LET fast == freeList = <<>> /\ Unconsumed = Len(lease.free) IN
  /\ Quiescent /\ MainIdle
  /\ pending => publisher = NoBuffer
  /\ nrecords' = Larger(nrecords, highWater)
  /\ pending' = FALSE
  /\ dropped' = IF pending /\ ~fast THEN <<>> ELSE dropped
  /\ freeList' = <<>>
  /\ lease' = IF fast THEN lease ELSE LeaseOf(Leasable)
  /\ UNCHANGED <<highWater, generation, located, live, publisher, bufferVars,
                 mainVars>>

\* The flag is swapped and the queue locked in one step: ids pushed in between are
\* drained by this flush instead of the next, which their flag announces.
FlushBody ==
  /\ Quiescent /\ MainIdle
  /\ pending => publisher = NoBuffer
  /\ nrecords' = Larger(nrecords, highWater)
  /\ pending' = FALSE
  /\ dropped' = IF pending THEN <<>> ELSE dropped
  /\ freeList' = <<>>
  /\ lease' = IF NothingToReconcile THEN lease ELSE LeaseOf(Leasable)
  /\ UNCHANGED <<highWater, generation, located, live, publisher, bufferVars,
                 mainVars>>

Flush == FlushBody /\ UNCHANGED applying

-----------------------------------------------------------------------------
(* Commands::apply: flush, then locate the queued entities one by one.     *)

\* Wrong on purpose: an empty buffer is applied without a flush.
BeginApplyLazily(b) ==
  /\ Idle(b) /\ applying = NoBuffer
  /\ IF queue[b] = <<>>
     THEN UNCHANGED <<highWater, recordVars, poolVars, dropVars, bufferVars,
                      mainVars>>
     ELSE FlushBody
  /\ applying' = b

BeginApply(b) ==
  /\ Idle(b) /\ applying = NoBuffer
  /\ FlushBody
  /\ applying' = b

IsAlive(e) == generation[e.index] = e.gen /\ e.index \in located

\* World::spawn_at: refuse a live entity, cover the index with a record,
\* store the location if the handle is current.
ApplySpawn(b) ==
  /\ applying = b /\ MainIdle /\ queue[b] # <<>>
  /\ queue' = [queue EXCEPT ![b] = Tail(@)]
  /\ LET e == Head(queue[b]) IN
       IF IsAlive(e) \/ generation[e.index] # e.gen
       THEN UNCHANGED <<located, live>>
       ELSE /\ located' = located \cup {e.index}
            /\ live' = live + 1
  /\ nrecords' = IF IsAlive(Head(queue[b])) THEN nrecords
                 ELSE Larger(nrecords, Head(queue[b]).index + 1)
  /\ UNCHANGED <<highWater, generation, poolVars, dropVars, need, binding,
                 tail, applying, mainVars>>

EndApply(b) ==
  /\ applying = b /\ MainIdle /\ queue[b] = <<>>
  /\ applying' = NoBuffer
  /\ binding' = [binding EXCEPT ![b] = IF @ = "block" THEN "applied" ELSE @]
  /\ UNCHANGED <<highWater, recordVars, poolVars, dropVars, queue, need, tail,
                 mainVars>>

-----------------------------------------------------------------------------
(* Deterministic id blocks, seeded and reclaimed by the scheduler.         *)

SeedBlock(b, n) ==
  /\ Quiescent /\ MainIdle /\ Idle(b)
  /\ binding[b] = "shared" /\ queue[b] = <<>>
  /\ Room(n - Reuse(n))
  /\ tail' = [tail EXCEPT ![b] = LeaseSlots(n) \o FreshIds(n - Reuse(n))]
  /\ binding' = [binding EXCEPT ![b] = "block"]
  /\ TakeFromLease(n)
  /\ highWater' = highWater + n - Reuse(n)
  /\ UNCHANGED <<recordVars, freeList, dropVars, queue, need, applying,
                 mainVars>>

\* commit_spawn_history returns the tail; reset_for_reuse unbinds the block
\* before the buffer is used again.
ReclaimBlockTail(b) ==
  /\ MainIdle /\ applying = NoBuffer
  /\ binding[b] = "applied"
  /\ freeList' = freeList \o Indices(tail[b])
  /\ tail' = [tail EXCEPT ![b] = <<>>]
  /\ binding' = [binding EXCEPT ![b] = "shared"]
  /\ UNCHANGED <<highWater, recordVars, lease, dropVars, queue, need,
                 applying, mainVars>>

-----------------------------------------------------------------------------
(* The main thread: World::spawn / spawn_many and World::despawn.          *)

Record(i) == [index |-> i, gen |-> generation[i]]

\* The last n freed ids, and the stack without them.
Popped(n) == [k \in 1 .. n |-> Record(freeList[Len(freeList) + 1 - k])]
Pop(n)    == freeList' = SubSeq(freeList, 1, Len(freeList) - n)

\* allocate: pop the free list, else look at the shared cursor first.
Allocate ==
  /\ MainIdle
  /\ IF freeList # <<>>
     THEN /\ Pop(1)
          /\ mine' = Popped(1)
          /\ UNCHANGED <<mainPc, mainNeed>>
     ELSE /\ Room(1)
          /\ mainPc' = IF lease.cursor > 0 THEN "sub" ELSE "fresh"
          /\ mainNeed' = 1
          /\ UNCHANGED <<freeList, mine>>
  /\ UNCHANGED <<highWater, recordVars, lease, dropVars, bufferVars, applying>>

\* ... then decrement it, unless a reserver won the race for the last slot.
AllocateFromLease ==
  /\ mainPc = "sub"
  /\ TakeFromLease(1)
  /\ mine' = LeaseSlots(1)
  /\ mainNeed' = 1 - Reuse(1)
  /\ mainPc' = IF Reuse(1) = 1 THEN "idle" ELSE "fresh"
  /\ nrecords' = IF Reuse(1) = 1
                 THEN Larger(nrecords, lease.free[lease.cursor].index + 1)
                 ELSE nrecords
  /\ UNCHANGED <<highWater, generation, located, live, freeList, dropVars,
                 bufferVars, applying>>

\* allocate_batch: the free list's end, then one fetch_sub for the rest.
AllocateBatch(n) ==
  LET popped    == IF n <= Len(freeList) THEN n ELSE Len(freeList)
      remaining == n - popped
  IN
  /\ MainIdle
  /\ Room(remaining - Reuse(remaining))
  /\ mine' = Popped(popped) \o LeaseSlots(remaining)
  /\ Pop(popped)
  /\ TakeFromLease(remaining)
  /\ mainNeed' = remaining - Reuse(remaining)
  /\ mainPc' = IF remaining > Reuse(remaining) THEN "fresh" ELSE "idle"
  /\ UNCHANGED <<highWater, recordVars, dropVars, bufferVars, applying>>

AllocateFresh ==
  /\ mainPc = "fresh"
  /\ highWater + mainNeed <= MaxIndex
  /\ mine' = mine \o FreshIds(mainNeed)
  /\ highWater' = highWater + mainNeed
  /\ nrecords' = Larger(nrecords, highWater + mainNeed)
  /\ mainNeed' = 0
  /\ mainPc' = "idle"
  /\ UNCHANGED <<generation, located, live, poolVars, dropVars, bufferVars,
                 applying>>

\* spawn_at / set_locations_batch publish the rows of the allocated ids.
LocateMine ==
  /\ mainPc = "idle" /\ mine # <<>>
  /\ located' = located \cup {mine[k].index : k \in 1 .. Len(mine)}
  /\ live' = live + Len(mine)
  /\ mine' = <<>>
  /\ UNCHANGED <<highWater, generation, nrecords, poolVars, dropVars,
                 bufferVars, applying, mainPc, mainNeed>>

\* EntityAllocator::free, reached from World::despawn for a live entity.
\* A slot that reaches the last generation is retired.
NextGen(g) == (g + 1) % (MaxGen + 1)

\* Wrong on purpose: a slot at the last generation is recycled too.
DespawnNeverRetires(i) ==
  /\ MainIdle /\ i \in located
  /\ located' = located \ {i}
  /\ live' = live - 1
  /\ generation' = [generation EXCEPT ![i] = NextGen(@)]
  /\ freeList' = Append(freeList, i)
  /\ UNCHANGED <<highWater, nrecords, lease, dropVars, bufferVars, applying,
                 mainVars>>

Despawn(i) ==
  /\ MainIdle /\ i \in located
  /\ located' = located \ {i}
  /\ live' = live - 1
  /\ generation' = [generation EXCEPT ![i] = NextGen(@)]
  /\ freeList' = IF NextGen(generation[i]) # MaxGen THEN Append(freeList, i)
                 ELSE freeList
  /\ UNCHANGED <<highWater, nrecords, lease, dropVars, bufferVars, applying,
                 mainVars>>

-----------------------------------------------------------------------------
Init ==
  /\ highWater = 0 /\ nrecords = 0 /\ live = 0 /\ located = {}
  /\ generation = [i \in Index |-> 0]
  /\ freeList = <<>>
  /\ lease = [free |-> <<>>, cursor |-> 0]
  /\ dropped = <<>> /\ pending = FALSE /\ publisher = NoBuffer
  /\ queue = [b \in Buffers |-> <<>>]
  /\ need = [b \in Buffers |-> 0]
  /\ binding = [b \in Buffers |-> "shared"]
  /\ tail = [b \in Buffers |-> <<>>]
  /\ applying = NoBuffer
  /\ mainPc = "idle" /\ mainNeed = 0 /\ mine = <<>>

BufferStep(b) ==
  \/ \E n \in 1 .. MaxBatch : ReserveFromBlock(b, n)
  \/ \E n \in 1 .. MaxBatch : ReserveFromLease(b, n)
  \/ ReserveFresh(b)
  \/ Abandon(b)
  \/ PublishAbandoned(b)

SyncStep(b) ==
  \/ BeginApply(b)
  \/ ApplySpawn(b)
  \/ EndApply(b)
  \/ \E n \in 1 .. MaxBatch : SeedBlock(b, n)
  \/ ReclaimBlockTail(b)

MainStep ==
  \/ Flush
  \/ Allocate
  \/ AllocateFromLease
  \/ \E n \in 1 .. MaxBatch : AllocateBatch(n)
  \/ AllocateFresh
  \/ LocateMine
  \/ \E i \in Index : Despawn(i)

Next ==
  \/ \E b \in Buffers : BufferStep(b) \/ SyncStep(b)
  \/ MainStep

Spec == Init /\ [][Next]_vars

\* The scheduler joins its systems and applies their buffers in every frame, so
\* no reservation or allocation stays half done and the flush keeps coming.
Fairness ==
  /\ \A b \in Buffers : /\ WF_vars(ReserveFresh(b))
                        /\ WF_vars(PublishAbandoned(b))
                        /\ WF_vars(ApplySpawn(b))
                        /\ WF_vars(EndApply(b))
  /\ WF_vars(AllocateFromLease)
  /\ WF_vars(AllocateFresh)
  /\ WF_vars(LocateMine)
  /\ SF_vars(Flush)

FairSpec == Spec /\ Fairness

-----------------------------------------------------------------------------
(* Properties. *)

\* Type correctness of the allocator and of the buffers around it.
TypeOK ==
  /\ highWater \in 0 .. MaxIndex
  /\ generation \in [Index -> Gen]
  /\ located \in SUBSET Index
  /\ nrecords \in 0 .. MaxIndex
  /\ live \in Int
  /\ freeList \in Seq(Index)
  /\ lease.free \in Seq(Entity) /\ lease.cursor \in Int
  /\ lease = [free |-> lease.free, cursor |-> lease.cursor]
  /\ lease.cursor <= Len(lease.free)
  /\ dropped \in Seq(Index) /\ pending \in BOOLEAN
  /\ publisher \in Buffers \cup {NoBuffer}
  /\ queue \in [Buffers -> Seq(Entity)]
  /\ need \in [Buffers -> Nat]
  /\ binding \in [Buffers -> {"shared", "block", "applied"}]
  /\ tail \in [Buffers -> Seq(Entity)]
  /\ applying \in Buffers \cup {NoBuffer}
  /\ mainPc \in {"idle", "sub", "fresh"}
  /\ mainNeed \in Nat /\ mine \in Seq(Entity)

\* The places an index can be in, and the indices in each.  Retired: freed
\* with the last generation.
Place == ({"free", "lease", "dropped", "mine", "located", "retired"}
            \X {NoBuffer})
         \cup ({"queue", "tail"} \X Buffers)

RetiredIn(g) == {i \in Index : g[i] = MaxGen}

EntityIndices(ids) == {ids[k].index : k \in 1 .. Len(ids)}

Leased(l) == {l.free[k].index : k \in 1 .. l.cursor}

IndicesAt(p) ==
  CASE p[1] = "free"    -> Range(freeList)
    [] p[1] = "lease"   -> Leased(lease)
    [] p[1] = "dropped" -> Range(dropped)
    [] p[1] = "mine"    -> EntityIndices(mine)
    [] p[1] = "located" -> located
    [] p[1] = "retired" -> RetiredIn(generation)
    [] p[1] = "queue"   -> EntityIndices(queue[p[2]])
    [] p[1] = "tail"    -> EntityIndices(tail[p[2]])

\* No list of ids holds an index twice.
LeaseDistinct(l) == \A j, k \in 1 .. l.cursor :
                      l.free[j].index = l.free[k].index => j = k

Distinct ==
  /\ IsInjective(freeList) /\ IsInjective(dropped)
  /\ LeaseDistinct(lease)
  /\ IsInjective(Indices(mine))
  /\ \A b \in Buffers : /\ IsInjective(Indices(queue[b]))
                        /\ IsInjective(Indices(tail[b]))

\* No index is handed out twice: however reservations, allocations, despawns,
\* blocks and flushes interleave, an index is in at most one place of the
\* system, and there once, so no two holders ever own it (the double issue of
\* B2).
NoDoubleIssue ==
  /\ \A p \in Place : LET here == IndicesAt(p) IN
       here # {} => \A q \in Place \ {p} : here \cap IndicesAt(q) = {}
  /\ Distinct

\* No index is lost: every index ever issued is located, retired, held by
\* someone or on its way back to the pool (the id-space leak of B5).
NoIdLeak == \A i \in 0 .. highWater - 1 : \E p \in Place : i \in IndicesAt(p)

\* A handle still to be used carries its record's current generation and its
\* index has no location, so spawn_at neither refuses it nor writes a row whose
\* location set_location then ignores.
Current(e) == generation[e.index] = e.gen /\ e.index \notin located
HandlesCurrent ==
  /\ \A k \in 1 .. lease.cursor : Current(lease.free[k])
  /\ \A k \in 1 .. Len(mine) : Current(mine[k])
  /\ \A b \in Buffers : /\ \A k \in 1 .. Len(queue[b]) : Current(queue[b][k])
                        /\ \A k \in 1 .. Len(tail[b]) : Current(tail[b][k])

\* The records keep step with their use: len(), maintained by five operations,
\* is the number of located records, and whatever flush and reclaim_block_tail
\* look up is covered: the free list, the live entities and the block tails of
\* an applied stage.
RecordsInStep ==
  /\ live = Cardinality(located)
  /\ \A k \in 1 .. Len(freeList) : freeList[k] < nrecords
  /\ \A i \in located : i < nrecords
  /\ \A b \in Buffers : binding[b] = "applied" =>
       \A k \in 1 .. Len(tail[b]) : tail[b][k].index < nrecords

\* An entity that stops being located never comes back: its generation moves
\* strictly up, and no generation of any index ever goes down.
NoRevival ==
  [][\A i \in Index :
       /\ generation'[i] >= generation[i]
       /\ i \in located \ located' => generation'[i] > generation[i]]_vars

\* An abandoned reservation is eventually given back to the pool.
AbandonedReclaimed ==
  \A i \in Index : i \in Range(dropped) ~> i \notin Range(dropped)

-----------------------------------------------------------------------------
(* The allocator implements the pool of handles. *)

HandleStatus(i) ==
  IF i \in located THEN "live"
  ELSE IF generation[i] = MaxGen THEN "retired"
  ELSE IF \/ i \in EntityIndices(mine)
          \/ \E b \in Buffers : i \in EntityIndices(queue[b]) THEN "held"
  ELSE "free"

Pool == INSTANCE HandlePool WITH
          status <- [i \in Index |-> HandleStatus(i)]

\* Every step hands out free indices, makes held ones live, takes held ones
\* back or kills a live one, and does nothing else to any handle: the lease,
\* the free list, the blocks and the abandon queue are invisible from outside.
ImplementsPool == Pool!Spec

=============================================================================
