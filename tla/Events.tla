------------------------------- MODULE Events -------------------------------
(***************************************************************************)
(* Events<T> of apex-core (events.rs): a double-buffered event queue with  *)
(* a cursor per reader.  Writers fill `pending` (or, from parallel         *)
(* systems, the mutex-protected sync buffer), `update` makes the pending   *)
(* events readable, and the read buffer is dropped only when no cursor     *)
(* lags behind its end.                                                    *)
(*                                                                         *)
(* An event is the n-th one of its lane: "main" for those sent with `send` *)
(* (EventWriter), "sync" for those sent with `send_sync`.  Every operation *)
(* takes `&mut Events` or the lock of the sync buffer, so an operation is  *)
(* one step; the interleaving is between writers, readers and the          *)
(* scheduler's `update`.                                                   *)
(***************************************************************************)
EXTENDS Naturals, Sequences, FiniteSets

CONSTANTS
  Readers,       \* who may register a reader
  MaxSent,       \* bound: events sent with `send`
  MaxSync,       \* bound: events sent with `send_sync`, no more than that
  MaxCursors,    \* bound: cursor ids created
  ClearAnytime   \* whether `clear` is called after a reader has left, too

ASSUME EventsAssumption ==
  /\ MaxSent \in Nat \ {0} /\ MaxSync \in 0 .. MaxSent /\ MaxCursors \in Nat \ {0}
  /\ ClearAnytime \in BOOLEAN

Lanes  == {"main", "sync"}
Event  == [lane : Lanes, n : 1 .. MaxSent]
NoSlot == MaxCursors         \* a reader without a cursor id
Gone   == 2 * MaxSent + 1    \* a cursor slot that is None

VARIABLES
  events,      \* the buffer available for reading
  pending,     \* the buffer events are written into
  syncPending, \* the buffer of send_sync
  cursors,     \* the position of each slot, or Gone
  nextId,      \* next_cursor_id
  freeList,    \* freed cursor ids, a stack
  lagging,     \* lagging_count
  handle,      \* the EventCursor each reader holds
  sent,        \* history: events sent in each lane
  seen         \* history: the last event of each lane a reader got or was
               \* never due

buffers == <<events, pending, syncPending>>
slots   == <<cursors, nextId, freeList, lagging>>
vars    == <<buffers, slots, handle, sent, seen>>

NothingSeen == [lane \in Lanes |-> 0]

\* The events of a lane that lie in s after position p, as their numbers.
After(s, p, lane) == {s[k].n : k \in {j \in p + 1 .. Len(s) : s[j].lane = lane}}

Greatest(S) == CHOOSE n \in S : \A m \in S : m <= n

\* Slot ids count from 0, the sequence of slots from 1.
HasSlot(id)  == id < Len(cursors)
Pos(id)      == cursors[id + 1]
IsReading(id) == HasSlot(id) /\ Pos(id) # Gone

Registered == {r \in Readers : handle[r] # NoSlot}

Behind(cs, n) == {k \in 1 .. Len(cs) : cs[k] # Gone /\ cs[k] < n}

Minus1(n) == IF n = 0 THEN 0 ELSE n - 1     \* saturating_sub(1)

-----------------------------------------------------------------------------
(* Writers. *)

Send ==
  /\ sent["main"] < MaxSent
  /\ pending' = Append(pending, [lane |-> "main", n |-> sent["main"] + 1])
  /\ sent' = [sent EXCEPT !["main"] = @ + 1]
  /\ UNCHANGED <<events, syncPending, slots, handle, seen>>

SendSync ==
  /\ sent["sync"] < MaxSync
  /\ syncPending' = Append(syncPending, [lane |-> "sync", n |-> sent["sync"] + 1])
  /\ sent' = [sent EXCEPT !["sync"] = @ + 1]
  /\ UNCHANGED <<events, pending, slots, handle, seen>>

FlushSync ==
  /\ syncPending # <<>>
  /\ pending' = pending \o syncPending
  /\ syncPending' = <<>>
  /\ UNCHANGED <<events, slots, handle, sent, seen>>

-----------------------------------------------------------------------------
(* Readers come and go. *)

\* A new reader starts at the beginning of the read buffer.
Upcoming   == events \o pending \o syncPending
SeenAtJoin ==
  [lane \in Lanes |-> Greatest((0 .. sent[lane]) \ After(Upcoming, 0, lane))]

\* Wrong on purpose: a new reader starts behind the buffer but counts as
\* caught up.
LaggingAfterJoinForgotten == lagging

LaggingAfterJoin == IF events = <<>> THEN lagging ELSE lagging + 1

\* Wrong on purpose: the id stays in the free list.
RecycleKeepsId(r) ==
  LET id == freeList[Len(freeList)] IN
  /\ freeList # <<>>
  /\ cursors' = IF HasSlot(id) THEN [cursors EXCEPT ![id + 1] = 0] ELSE cursors
  /\ handle' = [handle EXCEPT ![r] = id]
  /\ UNCHANGED <<nextId, freeList>>

Recycle(r) ==
  LET id == freeList[Len(freeList)] IN
  /\ freeList # <<>>
  /\ freeList' = SubSeq(freeList, 1, Len(freeList) - 1)
  /\ cursors' = IF HasSlot(id) THEN [cursors EXCEPT ![id + 1] = 0] ELSE cursors
  /\ handle' = [handle EXCEPT ![r] = id]
  /\ UNCHANGED nextId

NewSlot(r) ==
  /\ freeList = <<>>
  /\ nextId < MaxCursors
  /\ cursors' = Append(cursors, 0)
  /\ handle' = [handle EXCEPT ![r] = nextId]
  /\ nextId' = nextId + 1
  /\ UNCHANGED freeList

AddReader(r) ==
  /\ handle[r] = NoSlot
  /\ Recycle(r) \/ NewSlot(r)
  /\ lagging' = LaggingAfterJoin
  /\ seen' = [seen EXCEPT ![r] = SeenAtJoin]
  /\ UNCHANGED <<buffers, sent>>

\* The tail of empty slots is dropped, up to the last slot in use or in `ids`.
Kept(cs, ids) ==
  {k \in 1 .. Len(cs) : cs[k] # Gone \/ \E j \in 1 .. Len(ids) : ids[j] = k - 1}

\* Wrong on purpose: empty slots go although their ids may be issued again.
TrimmedWhole(cs, ids) ==
  SubSeq(cs, 1, CHOOSE n \in 0 .. Len(cs) :
                  /\ n = 0 \/ n \in Kept(cs, <<>>)
                  /\ \A k \in Kept(cs, <<>>) : k <= n)

Trimmed(cs, ids) ==
  SubSeq(cs, 1, CHOOSE n \in 0 .. Len(cs) :
                  /\ n = 0 \/ n \in Kept(cs, ids)
                  /\ \A k \in Kept(cs, ids) : k <= n)

RemoveReader(r) ==
  LET id    == handle[r]
      freed == IF HasSlot(id) THEN Append(freeList, id) ELSE freeList
      gone  == IF HasSlot(id) THEN [cursors EXCEPT ![id + 1] = Gone] ELSE cursors
  IN
  /\ id # NoSlot
  /\ lagging' = IF IsReading(id) /\ Pos(id) < Len(events)
                THEN Minus1(lagging) ELSE lagging
  /\ freeList' = freed
  /\ cursors' = Trimmed(gone, freed)
  /\ handle' = [handle EXCEPT ![r] = NoSlot]
  /\ seen' = [seen EXCEPT ![r] = NothingSeen]
  /\ UNCHANGED <<buffers, nextId, sent>>

-----------------------------------------------------------------------------
(* Reading. *)

\* iter: what the reader with this id can see; nothing without a slot.
Unread(id) ==
  IF IsReading(id) /\ Pos(id) < Len(events)
  THEN SubSeq(events, Pos(id) + 1, Len(events)) ELSE <<>>

Got(r, part) ==
  seen' = [seen EXCEPT ![r] =
             [lane \in Lanes |-> Greatest({@[lane]} \cup After(part, 0, lane))]]

\* Dropping a read guard, or the persistent reader of a system that ran:
\* advance_reader_mut.
Read(r) ==
  LET id == handle[r] IN
  /\ id # NoSlot /\ IsReading(id)
  /\ Got(r, Unread(id))
  /\ lagging' = IF Pos(id) < Len(events) THEN Minus1(lagging) ELSE lagging
  /\ cursors' = [cursors EXCEPT ![id + 1] = Len(events)]
  /\ UNCHANGED <<buffers, nextId, freeList, handle, sent>>

\* read_partial(n): advance_reader_by the events the guard showed.
ReadPartial(r, n) ==
  LET id    == handle[r]
      count == IF n <= Len(Unread(id)) THEN n ELSE Len(Unread(id))
      pos   == IF Pos(id) + count <= Len(events) THEN Pos(id) + count
               ELSE Len(events)
  IN
  /\ id # NoSlot /\ IsReading(id)
  /\ Got(r, SubSeq(Unread(id), 1, count))
  /\ lagging' = IF Pos(id) < Len(events) /\ pos >= Len(events)
                THEN Minus1(lagging) ELSE lagging
  /\ cursors' = [cursors EXCEPT ![id + 1] = pos]
  /\ UNCHANGED <<buffers, nextId, freeList, handle, sent>>

-----------------------------------------------------------------------------
(* The end of a tick. *)

NewEvents == pending \o syncPending

\* Wrong on purpose: the new events are put in front of the unread ones.
RetainedReversed == NewEvents \o events

Retained == events \o NewEvents

Rewound == [k \in 1 .. Len(cursors) |-> IF cursors[k] = Gone THEN Gone ELSE 0]

\* Everyone has read the buffer: the new events replace it.
Replace ==
  /\ lagging = 0
  /\ events' = NewEvents
  /\ cursors' = Rewound

\* Some reader is behind: the new events go after the unread ones.
Retain ==
  /\ lagging # 0
  /\ events' = Retained
  /\ UNCHANGED cursors

Update ==
  /\ pending' = <<>> /\ syncPending' = <<>>
  /\ IF events = <<>> /\ NewEvents = <<>>
     THEN UNCHANGED <<events, cursors, lagging>>
     ELSE /\ Replace \/ Retain
          /\ lagging' = Cardinality(Behind(cursors', Len(events')))
  /\ UNCHANGED <<nextId, freeList, handle, sent, seen>>

\* clear: drop everything, rewind the cursors, forget the freed ids.
Clear ==
  /\ ClearAnytime \/ freeList = <<>>
  /\ events' = <<>> /\ pending' = <<>> /\ syncPending' = <<>>
  /\ freeList' = <<>>
  /\ cursors' = Rewound
  /\ lagging' = 0
  /\ seen' = [r \in Readers |-> IF handle[r] = NoSlot THEN NothingSeen ELSE sent]
  /\ UNCHANGED <<nextId, handle, sent>>

-----------------------------------------------------------------------------
Init ==
  /\ events = <<>> /\ pending = <<>> /\ syncPending = <<>>
  /\ cursors = <<>> /\ nextId = 0 /\ freeList = <<>> /\ lagging = 0
  /\ handle = [r \in Readers |-> NoSlot]
  /\ sent = [lane \in Lanes |-> 0]
  /\ seen = [r \in Readers |-> NothingSeen]

ReaderStep(r) ==
  \/ AddReader(r)
  \/ RemoveReader(r)
  \/ Read(r)
  \/ \E n \in 1 .. 2 * MaxSent : ReadPartial(r, n)

Next ==
  \/ Send
  \/ SendSync
  \/ FlushSync
  \/ Update
  \/ Clear
  \/ \E r \in Readers : ReaderStep(r)

Spec == Init /\ [][Next]_vars

\* The scheduler flushes the queue in every frame, and a reader that runs
\* reads to the end.
Fairness == WF_vars(Update) /\ \A r \in Readers : WF_vars(Read(r))

FairSpec == Spec /\ Fairness

-----------------------------------------------------------------------------
(* Properties. *)

\* The incremental count of lagging readers, which alone decides whether
\* `update` drops the buffer, is exact.
LaggingExact == lagging = Cardinality(Behind(cursors, Len(events)))

\* What is still to come for a registered reader is, lane by lane, exactly the
\* events sent since the last one it got, in order: none lost while a reader
\* lags or is gated, none delivered twice, none overtaken (F1).
InOrder(s) ==
  \A k \in 1 .. Len(s) : \A j \in 1 .. k - 1 : s[j].lane = s[k].lane => s[j].n < s[k].n
EachEventOnce ==
  \A r \in Registered :
    LET coming == Unread(handle[r]) \o pending \o syncPending IN
    /\ InOrder(coming)
    /\ \A lane \in Lanes : After(coming, 0, lane) = seen[r][lane] + 1 .. sent[lane]

\* No two readers share a cursor, a cursor id that may be issued again has no
\* reader, and every registered reader has a slot, so that none is deaf and no
\* slot lags with nobody to advance it: "their slot indices must stay valid even
\* after tail compression".
OwnCursor ==
  /\ \A r, s \in Registered : handle[r] = handle[s] => r = s
  /\ \A r \in Registered : \A j \in 1 .. Len(freeList) : freeList[j] # handle[r]
  /\ \A r \in Registered : IsReading(handle[r])
  /\ Cardinality(Registered) = Cardinality({k \in 1 .. Len(cursors) : cursors[k] # Gone})

\* A reader that keeps running gets every event, or leaves.
Delivered ==
  \A r \in Readers, lane \in Lanes :
    \A n \in 1 .. (IF lane = "main" THEN MaxSent ELSE MaxSync) :
    (handle[r] # NoSlot /\ sent[lane] >= n) ~>
      (handle[r] = NoSlot \/ seen[r][lane] >= n)

=============================================================================
