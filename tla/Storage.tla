------------------------------ MODULE Storage ------------------------------
(***************************************************************************)
(* Where a World keeps its entities: one archetype for each set of         *)
(* components, with the entities in rows and one column of values for each  *)
(* component, and for each entity the location of its row.  Rows are closed *)
(* by moving the last one into the hole.  Hooks are queued by structural    *)
(* operations and called when the operation is over; they may perform       *)
(* further ones (apex-core/src/world.rs, archetype.rs).                     *)
(*                                                                         *)
(* A handle is used once; EntityAllocator shows why that may be assumed.    *)
(* An archetype is its set of components: they are never removed, and the   *)
(* caches of edges between them lead where the sets say.  A value is the    *)
(* entity it was written for, with its two ticks.                           *)
(***************************************************************************)
EXTENDS Integers, Sequences, FiniteSets, SequencesExt

CONSTANTS
    Entity, Component,
    Requires,     \* what each component requires
    Nothing,
    Bundles,      \* what is spawned: sets of components
    Batches,      \* what is inserted at once: sequences of components
    Watched,      \* components with hooks
    MaxSpawn,     \* bound: entities in one bulk spawn
    MaxTick,      \* bound: the world's tick
    MaxQueue,     \* bound: events queued when a hook performs an operation
    Manual        \* are bundles written by a manual impl, whole rows at a time?

ASSUME StorageAssumption ==
    /\ Requires \in [Component -> SUBSET Component]
    /\ Nothing \notin [arch : SUBSET Component, row : Nat]
    /\ \A A \in SUBSET Component : Nothing \notin [A -> [added : Nat, changed : Nat]]
    /\ Bundles \subseteq SUBSET Component
    /\ Batches \subseteq Seq(Component)
    /\ Watched \subseteq Component /\ IsFiniteSet(Watched)
    /\ MaxSpawn \in Nat /\ MaxTick \in Nat /\ MaxQueue \in Nat
    /\ Manual \in BOOLEAN

Archetype == SUBSET Component

VARIABLES
    rows,      \* entities of each archetype, in row order
    columns,   \* cells of each column of each archetype
    location,  \* [arch, row] of each entity, or Nothing
    used,      \* handles that have been issued
    now,       \* current_tick
    hookQueue, \* events not delivered yet
    inHook,    \* is a hook running?
    mirror     \* what an observer of the hooks has seen, of watched components

store == <<rows, columns, location>>
hooks == <<hookQueue, inHook, mirror>>
vars  == <<store, used, now, hooks>>

Cell(e, added, changed) == [of |-> e, added |-> added, changed |-> changed]
Fresh(e) == Cell(e, now, now)

Located(e) == location[e] # Nothing
ArchOf(e)  == location[e].arch
RowOf(e)   == location[e].row

Init ==
    /\ rows = [A \in Archetype |-> <<>>]
    /\ columns = [A \in Archetype |-> [c \in A |-> <<>>]]
    /\ location = [e \in Entity |-> Nothing]
    /\ used = {} /\ now = 0
    /\ hookQueue = <<>> /\ inHook = FALSE
    /\ mirror = [e \in Entity |-> {}]

-----------------------------------------------------------------------------
(* Rows and columns.                                                       *)

\* The last element fills the hole.
SwapRemove(s, i) ==
    [j \in 1..(Len(s) - 1) |-> IF j = i THEN s[Len(s)] ELSE s[j]]

\* Wrong on purpose: the entity that moved keeps its old location.
DisplacedNever(s, i) == location

\* The location of the entity that was last moves to the hole.
Displaced(s, i) ==
    IF i = Len(s) THEN location
    ELSE [location EXCEPT ![s[Len(s)]].row = i]

\* Wrong on purpose: the columns close the hole by shifting.
RowDroppedInOrder(cols, row) == [c \in DOMAIN cols |-> RemoveAt(cols[c], row)]

\* Every column of an archetype without one row.
RowDropped(cols, row) == [c \in DOMAIN cols |-> SwapRemove(cols[c], row)]

\* Wrong on purpose: what is required is not asked what it requires.
NeededDirectly(present, gained) ==
    gained \cup (UNION {Requires[c] : c \in gained} \ present)

\* The components that arrive when `gained` do: what they require and the
\* entity lacks, transitively.
Needed(present, gained) ==
    LET complete(S) == gained \subseteq S /\ \A c \in S : Requires[c] \ present \subseteq S
    IN  {c \in Component : \A S \in SUBSET Component : complete(S) => c \in S}

-----------------------------------------------------------------------------
(* Hooks.                                                                  *)

\* An operation of the program, or one of any number a hook performs while it is
\* dispatched.
MayOperate == hookQueue = <<>> \/ (inHook /\ Len(hookQueue) < MaxQueue)

Events(kind, e, comps) ==
    SetToSeq({[kind |-> kind, entity |-> e, component |-> c] : c \in comps \cap Watched})

\* Wrong on purpose: what a hook does to the world is not told.
QueueUnlessInHook(events) ==
    /\ hookQueue' = IF inHook THEN hookQueue ELSE hookQueue \o events
    /\ UNCHANGED <<inHook, mirror>>

\* flush_hooks: while a dispatch is going on, the events wait in its queue.
Queue(events) ==
    /\ hookQueue' = hookQueue \o events
    /\ UNCHANGED <<inHook, mirror>>

Seen(seen, event) ==
    [seen EXCEPT ![event.entity] =
        IF event.kind = "added" THEN @ \cup {event.component}
        ELSE @ \ {event.component}]

\* flush_hooks_slow: the hook of the first event is called.
CallHook ==
    /\ ~inHook /\ hookQueue # <<>>
    /\ mirror' = Seen(mirror, Head(hookQueue))
    /\ hookQueue' = Tail(hookQueue)
    /\ inHook' = TRUE
    /\ UNCHANGED <<store, used, now>>

HookReturns ==
    /\ inHook
    /\ inHook' = FALSE
    /\ UNCHANGED <<store, used, now, hookQueue, mirror>>

-----------------------------------------------------------------------------
(* Structural operations.                                                  *)

\* spawn_at for one handle, spawn_many_inner and spawn_bundles_bulk for more.
Spawn(new, bundle) ==
    LET arch  == Needed({}, bundle)
        first == Len(rows[arch])
        row(e) == first + (CHOOSE i \in DOMAIN new : new[i] = e)
    IN  /\ MayOperate
        /\ rows' = [rows EXCEPT ![arch] = @ \o new]
        /\ columns' = [columns EXCEPT ![arch] =
               [c \in arch |-> @[c] \o [i \in DOMAIN new |-> Fresh(new[i])]]]
        /\ location' = [e \in Entity |->
               IF e \in ToSet(new) THEN [arch |-> arch, row |-> row(e)]
               ELSE location[e]]
        /\ used' = used \cup ToSet(new)
        /\ Queue(FlattenSeq([i \in DOMAIN new |-> Events("added", new[i], arch)]))
        /\ UNCHANGED now

\* BulkSpawnRollback: the closure panics after some rows are written.  The rows
\* are cut off again; the handles are lost.
SpawnPanics(new, bundle, written) ==
    LET arch == Needed({}, bundle)
        extra(c) == IF Manual /\ c \in bundle
                    THEN [i \in 1..written |-> Fresh(new[i])] ELSE <<>>
    IN  /\ hookQueue = <<>> /\ ~inHook
        /\ bundle # {}
        /\ columns' = [columns EXCEPT ![arch] = [c \in arch |-> @[c] \o extra(c)]]
        /\ used' = used \cup ToSet(new)
        /\ UNCHANGED <<rows, location, now, hooks>>

\* move_entity: the columns both archetypes have are carried over with their
\* ticks, the others dropped; `put` are the cells written to the new row, then
\* the location is set.
Move(e, to, put) ==
    LET from == ArchOf(e)
        row  == RowOf(e)
        cell(c) == IF c \in DOMAIN put THEN put[c] ELSE columns[from][c][row]
    IN  /\ rows' = [rows EXCEPT ![to] = Append(@, e), ![from] = SwapRemove(@, row)]
        /\ columns' = [columns EXCEPT
               ![to]   = [c \in to |-> Append(@[c], cell(c))],
               ![from] = RowDropped(@, row)]
        /\ location' = [Displaced(rows[from], row) EXCEPT
               ![e] = [arch |-> to, row |-> Len(rows[to]) + 1]]

\* insert, insert_raw and insert_parts: one move for all.
Insert(e, parts) ==
    LET given  == ToSet(parts)
        from   == ArchOf(e)
        gained == Needed(from, given \ from)
        changed(c) == [columns[from][c][RowOf(e)] EXCEPT !.changed = now]
        put == [c \in gained \cup given |-> IF c \in from THEN changed(c) ELSE Fresh(e)]
    IN  /\ MayOperate /\ Located(e)
        /\ IF gained = {}
           THEN /\ columns' = [columns EXCEPT ![from] =
                       [c \in from |-> IF c \in given
                                       THEN [@[c] EXCEPT ![RowOf(e)] = changed(c)]
                                       ELSE @[c]]]
                /\ UNCHANGED <<rows, location>>
           ELSE Move(e, from \cup gained, put)
        /\ Queue(Events("added", e, gained))
        /\ UNCHANGED <<used, now>>

\* remove, remove_raw
RemoveComponent(e, c) ==
    /\ MayOperate /\ Located(e) /\ c \in ArchOf(e)
    /\ Move(e, ArchOf(e) \ {c}, <<>>)
    /\ Queue(Events("removed", e, {c}))
    /\ UNCHANGED <<used, now>>

\* despawn, as far as the storage goes: Relations has the cascade.
Despawn(e) ==
    LET arch == ArchOf(e)
        row  == RowOf(e)
    IN  /\ MayOperate /\ Located(e)
        /\ rows' = [rows EXCEPT ![arch] = SwapRemove(@, row)]
        /\ columns' = [columns EXCEPT ![arch] = RowDropped(@, row)]
        /\ location' = [Displaced(rows[arch], row) EXCEPT ![e] = Nothing]
        /\ Queue(Events("removed", e, arch))
        /\ UNCHANGED <<used, now>>

Advance ==
    /\ hookQueue = <<>> /\ ~inHook /\ now < MaxTick
    /\ now' = now + 1
    /\ UNCHANGED <<store, used, hooks>>

\* What may be spawned at once: handles nobody has had.
NewHandles ==
    {s \in UNION {[1..n -> Entity \ used] : n \in 1..MaxSpawn} : IsInjective(s)}

Next ==
    \/ \E new \in NewHandles, bundle \in Bundles :
          \/ Spawn(new, bundle)
          \/ \E written \in 0..(Len(new) - 1) : SpawnPanics(new, bundle, written)
    \/ \E e \in Entity :
          \/ \E parts \in Batches : Insert(e, parts)
          \/ \E c \in Component : RemoveComponent(e, c)
          \/ Despawn(e)
    \/ CallHook
    \/ HookReturns
    \/ Advance

Spec == Init /\ [][Next]_vars

-----------------------------------------------------------------------------
(* Correctness.                                                            *)

\* What a cell of a column holds.
Cells == [of : Entity, added : Nat, changed : Nat]

\* The location of an entity is the row it is in, and each row belongs to the
\* entity that is located there: none is in two rows, none in a row unlocated.
RowsMatch ==
    /\ \A A \in Archetype : \A i \in DOMAIN rows[A] :
          location[rows[A][i]] = [arch |-> A, row |-> i]
    /\ \A e \in Entity : Located(e) =>
          RowOf(e) \in DOMAIN rows[ArchOf(e)] /\ rows[ArchOf(e)][RowOf(e)] = e

\* Each column has one value for each row, the one written for the entity of
\* the row, whatever was moved and removed around it.
ValuesFollow ==
    \A A \in Archetype : \A c \in A :
        /\ Len(columns[A][c]) = Len(rows[A])
        /\ \A i \in DOMAIN rows[A] : columns[A][c][i].of = rows[A][i]

\* What a listener knows of component c of e, once it has heard the first n of
\* the events that are queued: the last word on it counts.
Knows(e, c, n) ==
    LET about(i) == hookQueue[i].entity = e /\ hookQueue[i].component = c
    IN  \/ c \in mirror[e] /\ \A i \in 1..n : ~about(i)
        \/ \E i \in 1..n :
              about(i) /\ hookQueue[i].kind = "added" /\ \A j \in (i + 1)..n : ~about(j)

\* Whoever listens to the hooks knows, once it has heard what is queued, which
\* entities have the component, and each call is news: no gain or loss is told
\* twice or not at all, nor in the wrong order, also of operations that hooks
\* perform.
HooksTell ==
    /\ \A e \in Entity, c \in Component :
          Knows(e, c, Len(hookQueue)) <=> c \in Watched /\ Located(e) /\ c \in ArchOf(e)
    /\ \A n \in DOMAIN hookQueue :
          Knows(hookQueue[n].entity, hookQueue[n].component, n - 1)
             <=> hookQueue[n].kind = "removed"

\* To the program, all this is a map from entities to their components, each
\* with the ticks of its arrival and its last change, which moves between
\* archetypes leave alone; none arrives without what it requires.
Ticks(cell) == [added |-> cell.added, changed |-> cell.changed]

Held ==
    [e \in Entity |->
        IF Located(e) THEN [c \in ArchOf(e) |-> Ticks(columns[ArchOf(e)][c][RowOf(e)])]
        ELSE Nothing]

Map == INSTANCE EntityMap WITH entities <- Held

ImplementsMap == Map!Spec
=============================================================================
