# Verification of apex-ecs in TLA+

apex-ecs is an entity-component-system library in Rust: worlds of entities with
components, a scheduler that runs systems over them in parallel, relations
between entities, event queues, change detection, and crates around them
(isolated worlds, hot reload, serialization, scripting). This directory holds
TLA+ models of its core logic, the TLC runs that check them, and proofs of the
theorems that matter most. Paths below are relative to the repository's
`crates/`.

## The system

| Part | State it keeps | Operations | What is hard | What makes it correct |
|---|---|---|---|---|
| Entity allocator (`apex-core/src/entity.rs`) | records (generation, location), free list, the lease of free slots with an atomic cursor, the atomic high-water mark, the queue of abandoned ids | reserve and reserve_n from any thread; allocate, allocate_batch, free, flush, blocks on the main thread | lock-free reservation beside the main thread's, ids that change hands five times before they are free again | no id issued twice, none lost, no handle revived |
| Command buffers (`apex-core/src/commands.rs`) | queue, arena, a reserver | record, apply, clear, drop | ids reserved long before the entity exists; buffers dropped un-applied | every reserved id is used once or given back |
| World and storage (`apex-core/src/world.rs`, `archetype.rs`) | archetypes with columns, locations, hook queue | spawn singly and in bulk, insert, remove, despawn, moves between archetypes | swap-remove changes the location of another entity; hooks call back; a bulk spawn panics half-way | locations and rows agree; the world is a map from entities to components |
| Relations (`apex-core/src/relations.rs`) | subject index, target index with ordered lists, per-entity counts | add, insert at, remove, reorder, cascade despawn | two indexes keyed by recycled indices | indexes agree, hierarchies are acyclic, order is kept |
| Events (`apex-core/src/events.rs`, `system_param.rs`) | read buffer, pending and sync buffers, cursors, freed ids, count of lagging readers | send, send_sync, read, read_partial, add/remove reader, update, clear | an incremental count decides whether the buffer is dropped; ids and slots are recycled | each reader gets each event once, in order |
| Delayed events (`events.rs`) | a heap by delivery tick | send_delayed, flush_delayed, clear | ticks wrap around; ties | nothing early, nothing left behind, in order |
| Change detection (`component.rs`, `archetype.rs`, `query.rs`, `executor.rs`, `registration.rs`) | tick, stamps per row, an aggregate per column, a window per system | write, tick with periodic clamp, open and close a stage, compile | a wrapping counter, systems that sit out | a system sees exactly what changed since it ran |
| Scheduler (`apex-scheduler/src/`, with `apex-graph`) | systems, orderings, dependency graph, plan, conditions, command slots, history of spawns | register, order, remove, compile, run | parallel stages from declared accesses; a graph kept from one compile to the next | conflicting systems never overlap, orderings hold, every system is in the plan once |
| States, conditions, fixed step (`states.rs`, `conditions.rs`, `fixed.rs`) | current and requested state, transition flags, accumulator, counters | set, transition, accumulate, drain, evaluate | requests at any time of the frame, long frames, counted conditions | each transition is told once, no lost time |
| Isolated worlds (`apex-isolated/src/lib.rs`) | a bounded channel each way, a policy, counters | send, drain, tick, drop a bridge | both worlds block on each other's full channel; cloned bridges; a peer that goes away | no message unaccounted for, no mutual wait |
| Transforms (`apex-core/src/transform.rs`) | local and world transforms, the tick of the last pass, the stamps of what changed | a pass: collect, seed, descend in parallel, insert what is missing | a pass visits only what changed, in threads that write without locks; changes hide below other changes and below gaps | what has not changed since is up to date; no row has two writers |
| Serialization, hot reload, scripting, macros | snapshots, watchers, an interpreter | save, restore, reload | conversion of data, notifications of the operating system; a reload that fails half-way | not modelled, see below |

They interact as follows. The scheduler opens a stage (tick, windows), seeds a
block of ids for each system with commands, runs the systems, applies their
buffers (`flush`, then spawn_at for each reserved id), folds the use of the
blocks into its history and gives the rest of them back, updates the event
queues, and moves the systems' windows. `World::despawn` cleans both relation
indexes, walks the cascade, removes the row, frees the ids and then delivers the
hooks. After the systems have run, the transform pass reads the stamps of change
detection and the links of ChildOf. An isolated world runs its own scheduler and
drains its channel at the start of each tick.

## The modules

**EntityAllocator** (with **HandlePool**, **EntityAllocatorProof**). State: the allocator's fields, one queue, block and
pending need per command buffer, and where the main thread is inside
`allocate`. An action is one atomic instruction, one critical section, or a
stretch of `&mut World` code nobody else can see: `reserve_n` is two actions
(the decrement of the cursor, then the increment of the high-water mark), so is
`take_reused_or_fresh`, and `abandon` is a push and a store of the flag. A flush
waits for reservations in progress, as `entity.rs:94-96` requires. `HandlePool` is
the promise without the machinery: an index is free, held, live or retired.

**Events** (with **EventsProof**). An event is the n-th of its lane, "main" for `send`, "sync" for
`send_sync`. `seen` records the last event of each lane a reader got or was never
due. Reading covers both ways a cursor moves: to the end (guards, persistent
readers) and by a count (`read_partial`).

**DelayedQueue** composes a delayed queue with a whole Events: a flush sends what
it pops, into the buffer the writers fill. The heap is a set, popping it gives the
order of what is due in which each entry is nearer the top than the next
(`Popped`); ticks are taken modulo `TickMod`. Its proofs are in EventsProof.

**SpawnBlocks** (with **SpawnBlocksMC**, and proofs in **FrameProof**). Block sizes, the two ways of drawing ids and the history. An id
is only "from the block" or "from the shared allocator".

**Relations** (with **RelationsMC**, **RelationsProof**). Both indexes as in the code, keyed by bare indices; despawn is one
step per entity of the cascade. An observer rebuilds the links from hook events
alone (`mirror`).

**ChangeDetection** (with **ChangeDetectionMC**, **ChangeDetectionProof**). One
column. `now` is true time, the code's ticks are `now`
modulo `TickMod`; `unseen` is what each system should see. Two systems that
conflict are in different stages, which is an assumption about the plan
(`ChangeAssumption`) here and what Schedule's NoRace proves of it.

**Schedule** (with **ScheduleMC**, **ScheduleProof**). A system is its name in `Catalogue`, with the accesses it declares.
Registration, orderings by id and by a name that may not be registered yet,
removal, label order, and event ordering change the registry; `Compile` follows
`compile()`: resolve names, add the edges of the systems that are new (or of all,
if none is) to the graph kept from the last time, refuse a cycle, take levels,
group by label, split at deferred commands. `Frame` lays out the stages of a
frame, the FixedUpdate block once per step. A stage is skipped, or opened with
the systems whose conditions hold, in sequence or in parallel (which of the two
the cost model says is a free choice); in parallel, systems start and finish one
by one. `passed` counts how often the stage of a system has let go of it.

**Storage** (with **EntityMap**, **StorageMC**, **StorageProof**). `rows` and
`columns` of every archetype, a `location` for each entity. An operation is one
action: it runs under `&mut World`. `Spawn` covers one entity and many;
`SpawnPanics` is the rollback of a bulk spawn; `Insert` takes several components
in order, as `insert_parts` does, and brings what they require; `Move` is
`move_entity` with its swap-remove. Hooks are delivered one by one
after the operation, and while one runs it may perform any number of operations itself,
whose events join the queue. `EntityMap` is the promise: a map from entities to
components with the ticks of their arrival and of their last change.

**Exchange** (with **ExchangeMC**, **ExchangeProof**). A world drains, then its
systems run and send, from several threads if the bridge is cloned; a send is
the entry into the channel, then the count. `Close` drops one end.

**Frame** (with **FrameProof**). One frame is Startup (the first time), the non-exclusive part of
First, the transition, the FixedUpdate steps and the rest. Any system may ask for
another state; one system has a counted condition under a conjunction. Time is
in integers.

**Transforms** (with **TransformsMC**, and proofs in **ChangeDetectionProof**). A local
transform is a version, a world transform the path of versions from the root, so
that composing is appending. The entities above another are those in every set
that is closed under parents from it (`Above`). GlobalsExact compares a world
transform with the parent's, composed with the entity's own; the same holds of the
parent, so it is the whole path that is compared. `BeginPass` collects what
changed, writes the simple entities and seeds the descent; `Visit` is one entity
taken off the stack of any thread, so the widening, the sequential and the
parallel road are all orders of visits; `EndPass` inserts what was missing and
moves the window. A pass is exclusive: the world is edited between passes
(`Write`, `Strip`, `Attach`, `Detach`, `Despawn`, `Spawn`). `moved` remembers who was
re-parented, since `add_relation` leaves the transform to its caller
(`relations.rs:767-776`).

Definitions under the comment "Wrong on purpose" are variants of the definition
that follows them, with a plausible mistake. No specification uses them; putting
one in the place of the original makes TLC report the property it belongs to.

## The runs

| Run | Checks | Bounds and why they suffice |
|---|---|---|
| `allocator` | TypeOK, NoDoubleIssue, NoIdLeak, HandlesCurrent, RecordsInStep, NoRevival, ImplementsPool, AbandonedReclaimed | two buffers, two indices, generations up to 2, batches of 2: a race for the last slot, a batch split between lease and fresh ids, reuse and retirement all happen; no symmetry, since one property is temporal; all but AbandonedReclaimed are also proved for every bound |
| `events` | LaggingExact, EachEventOnce, OwnCursor, Delivered, DueOrder, OnTime | two readers that come and go for ever, two events with `send` or from the delayed queue, one with `send_sync`: recycled ids, a trimmed tail, one reader ahead of the other, partial reads; two delayed events with delays of 0 and 1, due in one flush or in two, a `clear` between; no wrap within the times explored; 80,000 states |
| `blocks` | SpikeWithinMargin, ExhaustedGrows | two systems, three frames, eight spawns: initial, grown, floored and missing blocks |
| `relations` | IndexesAgree, ParentsAcyclic, MirrorExact, CascadeExact, SiblingsKeepOrder | four indices, four spawns in all, three links, three kinds (exclusive and cascading; cascading; plain): three siblings, a grandparent, a diamond, a respawned index |
| `transforms` | GlobalsExact, RowsAreApart | four entities in any hierarchy, two versions, three edits and any number of re-spawns around three passes, transforms taken away and put back: a changed grandparent and grandchild, a chain moved under another, an edit right after a pass; 950,000 states |
| `transforms_gap` | ChangesApplied fails | the same instance |
| `changes` | NothingMissed, NothingInvented | ticks wrap at 32 and time runs to 48; age 9 and interval 4 keep the code's proportions (both together below half the range); pauses up to 9; a recompilation early |
| `schedule` | NoRace, PlanExact, OrderKept, LabelsInOrder, EmitFirst, CyclesAreReal | a catalogue of seven (parallel, main-thread and exclusive; two labels; pairs of one label that share nothing but a component both write, an event both emit or an event both listen to, and others that conflict by the whole world, by a write and a read, or by an emitter and a listener; two that feed each other across labels), three registered at a time, one ordering, two FixedUpdate steps: the smallest number of systems where an edge can come from a path, and with removals and re-registrations every order of three; the run takes 330,000 states |
| `schedule_late` | NoRace fails | a catalogue of two writers of one component and a reader, two systems at a time, of which one may be registered after a compile; the trace has the two writers in one stage |
| `storage` | RowsMatch, ValuesFollow, HooksTell, ImplementsMap | three entities, three components in a chain of requirements, bulk spawns of two, two ticks, two watched components, hooks that operate on the world while fewer than two events wait, as often as they like: a row in front of the last one, an archetype left and entered, a hook inside a hook's operation, two events about one entity; 185,000 states |
| `exchange` | Accounted, NeverStuck, Arrives | two threads on one side, one on the other, channels of two, both policies, three sends each way, ends that close |
| `frame` | FlagsTell, TimeKept | three states, four frames, steps of 2 and at most two of them in a frame, frames of 0 to 5 units: a frame with no step, one with as many as allowed, one with more, and others after it |

Deadlock is checked for `allocator`, `events`, `schedule` and
`schedule_late`; in the others the bounds on time, frames, spawns, messages or
events end every behaviour, so it is off.

### Fairness

`EntityAllocator!FairSpec`: the steps of an operation in progress are weakly
fair (a thread inside a function goes on), and `Flush` is strongly fair: the
executor applies every buffer of a stage, and each `apply` flushes, at a point
where the systems have been joined; that point comes again and again but is
not permanent. `Events!Fairness`, which `DelayedQueue!SpecDelayed` takes over: `update` in every frame, and readers that run
read to the end ("running is reading", ADR-010). `Exchange!FairSpec`: each world
goes on with its tick, and a send that can go on does; this is what "when both
worlds are ticking" (`apex-isolated/src/lib.rs:47`) means. No fairness is put on
sending, flushing the delayed queue, joining, leaving or closing.

### Where the code and its documents disagree

Two disagreements are runs:

- `stage.rs:90-91` promises that systems of a stage do not conflict. When a
  system joins a schedule that has been compiled before, it is compared with the
  others, but an edge for a symmetric conflict (two writers, two emitters, two
  listeners) is only added where the compared system has the lower index, and a
  new one never has. Both land in one stage and run at once (`schedule_late`,
  `LateConflicts = TRUE`, shows it with two writers). A removal resets the graph and with it the omission.

- `transform.rs:542` promises that a pass recomputes every entity whose transform
  has changed. A changed entity with a changed ancestor is left to that one's
  descent (`:738`), but a descent ends at an entity without a LocalTransform
  (`:856`). With a changed grandparent, a parent without a LocalTransform, and a
  changed child, the child is reached by nobody, and when the pass is over its
  change is forgotten (`transforms_gap`). It is applied when the child is written
  again without its grandparent, or an ancestor's descent comes past once the
  gap is filled. Without gaps (`Holes = FALSE`) ChangesApplied is proved.

Others show when constants of a passing run are changed, or a definition is
checked that no run checks, as named below:

- Scheduler, `LateConflicts = TRUE`: an ordering between two older systems,
  declared together with a new system, gets no edge from the recompile it causes
  (OrderKept fails); edges are never taken back, so ordering two systems the other
  way round later is refused as a cycle (with `MaxOrderings = 2`, CyclesAreReal
  fails).
- Scheduler, `Retry = TRUE`: `resolve_pending_orderings` empties its list before it
  meets an unknown name, so compiling again, after the missing system has been
  registered, drops the orderings behind it (OrderKept fails).
- Scheduler, `EventOrders = {TRUE, FALSE}` and a catalogue with two emitters of one
  label that share nothing else: without event ordering they share a stage and
  push into one vector (NoRace fails). And if it is turned on after a compile without
  it and a system is registered before the next one, that compile adds the edges of
  the new system only: an emitter and its listener that were there stay in one stage
  (EmitFirst fails).
  `registration.rs:1236` only speaks of the order.
- Two listeners of one event "do not conflict" and "may run in parallel", say the
  doc of `detect_conflict_kind` (`apex-scheduler/src/lib.rs:991`) and that of
  `AccessDescriptor` (`apex-core/src/access.rs:28`). The code keeps them apart
  (`lib.rs:1123-1136`), because each moves its cursor in the registry of the same
  queue, and NoRace counts them as a race with the code: `SymmetricButListeners` is
  what the documents say, and violates it.
- "guaranteed to run before" (`registration.rs:1233`) holds unless something else
  puts the listener first; EmitFirst lists what. Of two systems that listen to each
  other, the one processed first gets the edge.
- `stage.rs:5-8` says stages run strictly one after another. Several custom labels
  take turns, level by level, in the standard order; LabelsInOrder treats them
  as one. An ordering between systems of different labels against the order of
  labels has no effect, without a warning. Exclusive systems can share a stage with
  each other or with declared ones (an explicit ordering past the barrier), and
  then the stage runs in sequence.
- A chain of explicit orderings against the registration order of two systems
  that both write something is refused as a cycle, since only direct orderings
  silence the conflict's edge; CyclesAreReal allows it as an ordering against
  the order of registration.
- Relations, `StaleHandles = TRUE`: `remove_relation` does not look at whether its
  subject is alive. A stale handle removes a link of the entity that has the
  index now, from the subject index only (IndexesAgree fails).
- Relations: the cycle check walks up along the first target of each ancestor.
  For a cascading kind that is not exclusive, a cycle through another target
  passes (HierarchiesAcyclic fails). The exclusive kinds are safe: ParentsAcyclic.
- Events, `ClearAnytime = TRUE, MaxCursors = 3`: `Events::clear` forgets the freed
  cursor ids but neither their slots nor the next id; the next reader may be deaf
  (OwnCursor and EachEventOnce fail). Cleared while no id is free, the queue is fine, and the
  run `events` does that.
- Events: the doc of `update` (`events.rs:273-275`) has the old events appended
  to the new ones while a reader lags. The code appends the new ones to the old
  (`events.rs:314-324`, with the reason), and so does `Update`.
- Spawn blocks: a batch that does not fit its deterministic block leaves the
  block's cursor where it is, so the block does not grow (GrowsAfterOverflow
  fails). A block drawn to its end does: ExhaustedGrows.
- Delayed events, `TickMod = 8, FirstTick = 6, MaxNow = 9`: `send_delayed` adds with
  wrap-around and `flush_delayed` compares as plain numbers, so events come early
  (OnTime fails). A comment says that `World::tick()` calls `flush_delayed`; nothing
  does, the program calls it.
- Change detection, a reader in `Commanders`, or in one stage with a system whose
  commands write what it reads: the commands of a stage are applied at the tick
  the stage ran at, which is also the new baseline of its systems; they never
  see what the commands wrote (NothingMissed fails). Commands of an earlier
  or later stage are seen.
- Storage, `Manual = TRUE`: `BulkSpawnRollback` (`world.rs:286-288`) relies on columns
  that are untouched until the loop ends, but the default `write_data_into_batch`
  appends whole rows; after a panic such columns are longer than the entities
  (ValuesFollow fails). RowsMatch holds all the same.
- Exchange: "Correct when both worlds are ticking" (`lib.rs:47`) needs more. If both
  worlds send more in a tick than a channel holds (`PerTick` above `Capacity`), or
  messages send while they are applied (`BlockingReplies = TRUE`), both may
  wait for ever in the middle of their ticks (NeverStuck fails).
- States: `states.rs:23` says the whole frame sees one state. Startup and the
  non-exclusive systems of First run before the transition and see the old one;
  a request they make is applied in the same frame, not the next. `on_enter` of a
  FixedUpdate system holds once per step, so perhaps never or several times.
- `executor.rs:842` says conditions are evaluated exactly once a frame; those of
  FixedUpdate systems are evaluated once per step, and counted ones count each.

### Limits of the passing runs

They are bounded where the code is known to go wrong (the constants above) or
where its documents are silent:

- `schedule` lets a system join a compiled schedule only if it has no symmetric
  conflict with an older one, and an ordering only if the later of the two systems
  is new (`MayJoin`, `MayOrder`).
- `blocks` says nothing of a system without a block. One frame with no spawn, or
  with its condition false, records a use of 0, and the system gets no block
  from then on; its ids come from the shared allocator and no overflow is
  counted, since there is no block to overflow.
- `changes` bounds how long a condition may keep a system out (`MaxPause`) by the
  age to which stamps are clamped, since the windows themselves are never
  clamped; with `MaxPause = 19, MaxNow = 24`, changes made meanwhile are missed.
  In the code that is 2^31 ticks. It compiles the plan only while the tick is in
  the first half of its range (`LastRecompile`), since `Tick::ZERO`, to which
  compile resets the windows, lies in the future afterwards; with
  `LastRecompile = 20, MaxNow = 20` changes are missed.
- `transforms`: GlobalsExact speaks of entities whose whole chain has a local
  transform, is unchanged since the last pass and was not re-parented without a
  write. It starts with four fresh entities in any hierarchy (`MCInit`), which
  spawns and `Attach` reach too, to have all edits left for what comes after.
- `transforms`: entities are spawned without a GlobalTransform, and only the pass
  writes one.
- `storage`: of the rollback of a bulk spawn there is the outcome only. The ids it
  had allocated count as used up; the code does not give them back, and nothing
  here says that it should.
- `exchange`: messages that sit in a channel when its receiver is dropped stay
  counted as sent. A world whose peer never stops sending under DropLoud may
  drain without end.

## The proofs

**EntityAllocatorProof** proves, for any finite or infinite set of buffers and any
bounds (`ConstantsAssumption`), that the allocator's specification implies
TypeOK, NoDoubleIssue, NoIdLeak, HandlesCurrent, NoRevival and RecordsInStep.

The inductive invariant is `IInv == TypeOK /\ Shape /\ GenCurrent /\ Distinct /\
OneOwner`. `Shape` fixes variables where the code is: no id in hand between the
look at the cursor and its decrement, no tail without a block. `GenCurrent` says
that every handle waiting in the lease, a queue, a block or the main thread's
hands carries its record's generation, and that an index never issued is at
generation 0: without it, flush could lease an index under an old generation.
`OneOwner` says that there is a function naming for each index the one kind of
place it is in (never issued, free, lease, dropped, mine, located, retired, a
queue, a tail) and each place holds exactly the indices that name it. Both
directions are needed: that a place holds only its own gives NoDoubleIssue, that
it holds all of them gives NoIdLeak. `Distinct` adds that no list holds an index
twice. The lemma `Move` is what most steps come down to: a set of indices that
one place holds passes to another. There is one lemma per action
(`ReserveFromLeaseStep`, `FlushStep`, ...); `NextIInv` and `Invariance` combine
them, and the theorems follow from `IInv`, NoRevival from a step under it.

Its second part proves ImplementsPool. The pool sees three sets of indices, held,
located and retired. `Apart` follows from `OneOwner`: no index is in two of them.
Then a step of the allocator is one of four kinds for the pool: more is held
(`HandStep`), held indices come back or die (`ReturnStep`), they become located
(`LiveStep`), or located ones are freed (`DieStep`); every other action leaves the
three sets alone.

RecordsInStep, that there is a record for whatever is free or located and that the
count of the living is right, has an invariant beside that one, `RecordInv`. Records
are made late: an id drawn from the high-water mark has none until a flush. So
`RecordInv` says which places are covered already: the free list, the lease, the main
thread's ids, the located ones, and the block of a buffer from the flush on with which
its application begins (`TailsCovered`).

**StorageProof** proves RowsMatch for any entities, components, requirements and
bounds (`StorageAssumption`), and under `~Manual` also ValuesFollow and the
refinement of EntityMap. `RInv` is `Placed` (rows and locations agree, with
their types) and `NeverBefore` (a handle that was never issued is not located:
what makes the rows of a bulk spawn new). `CInv` adds `Filled`, that each column is
as long as its archetype's rows and holds the values written for them, and that
the tick is a number. Two pairs of lemmas carry the argument: `RemovalPlaced` and
`RemovalFilled` for a row that goes away, with the last one relocated into its
place, `AdditionPlaced` and `AdditionFilled` for rows that are appended; spawns are
additions, despawns removals, and a move is both (`MovePlaced`, `MoveFilled`).
`Held` is the refinement mapping; `SpawnSteps`, `InsertSteps`, `RemoveSteps` and
`DespawnSteps` show that each operation, also one that is refused or rolled back,
is a step of EntityMap or leaves it alone.

HooksTell needs no more than that the set of watched components is finite. An
observer that follows the events should know which entities have which watched
component. `HookInv` says that at any time, for each such pair, the last queued event
about it, or what the observer knows if there is none, is what holds (`Tells`). The
events of an operation are about pairs that change, each once (`EventsTurn`; `SpawnTells`
for a bulk spawn of several entities), and turn what is told into what holds
afterwards (`QueueTells`); delivering the first event of the queue changes nothing that
is told (`HeardTells`). With the queue empty, it is the observer who knows.

**ExchangeProof** proves NeverStuck for any threads and any capacity, if `PerTick
<= Capacity` and messages being applied do not send. The invariant says that a
world that drains, or has closed its end, is not sending (`SilentSendsNothing`);
that what a world is sending is within what it has begun in this tick, and that
within `PerTick` (`WithinBudget`); and that at any time one of the two worlds is
silent, or everything on its way to it, sent or about to be, was begun in its peer's
current tick (`OneHasRoom`). The last conjunct is the argument: the world that
began its tick last has found its channel empty, so its peer has room for all
it may send before it drains again.

It also proves Accounted, with no assumption on how the bridge is used: what a world's
threads began to send is counted as sent or dropped or still on its way into the
channel, what was counted lies in the channel or has come, and each thread's messages
come once and in order. The counters are compared with cardinalities of sets of
messages (`Tally`). For one step to change each set by one message, a message must
not be in two places or in one place twice, so the invariant, `CountInv`, also says
that what has come from a thread, followed by what the channel holds of it, ascends
(`Ascending`), within what the thread has begun (`Within`), and that a channel only holds
messages of the other world (`Addressed`).

**EventsProof** proves LaggingExact and OwnCursor for any readers and any number of
events, under `~ClearAnytime`: `clear` is only called while no cursor id is free.
The code does not ask for that; the section on disagreements says what happens
otherwise. The invariant is `Types /\ Room /\ Slots /\ LaggingExact`. `Slots` says
that every id issued has a slot, that a slot is empty exactly if its id waits in
the list of freed ids, and that each other slot has one reader. So when
`remove_reader` trims the tail of empty slots whose ids are not in that list,
there are none (`NothingTrimmed`), and the slots in use and the readers are in
bijection (`InUseCounted`). `BehindSet`, `BehindAdvance` and `BehindAppend` say how
the number of readers that are behind changes when one cursor moves, or when
events are appended; they are what the incremental count in the code does.

EachEventOnce, under the same assumption, needs to know what is still to come. The
buffers one behind the other, read, pending and sync, are the `Upcoming` events.
`FlowInv` says that in them the events of a lane are in order (`InOrder`) and that
those behind any place are the last ones sent in that lane (`Runs`); that the sync
buffer holds only what was sent with `send_sync` (`SyncOnly`); and that what lies
behind a reader's position is what comes after the last it has got or was never due
(`ReadersUpTo`). A `send` enters its event in front of the sync buffer, so it overtakes
events of the other lane there, but none of its own.

Of DelayedQueue it proves that all of that stays so when a flush puts delayed events
into the buffer (`DelayedEventsComeOnce`), whether ticks wrap around or not; and OnTime and
DueOrder, as long as no tick in use wraps around (`NoWrap`), which the code does not
see to, as the section on disagreements says. Until then a tick is a time,
and `DelayInv` says that of what waits, lower sequence numbers are earlier events, also after
`clear` has started the numbers again, since it leaves none of the old ones waiting
(`Waiting`); and that what a flush put out knows where it began (`Flushed`), so that
a second flush in the same tick is not compared with the first.

**FrameProof** proves FlagsTell, TimeKept and CountedRuns for any states, steps and
lengths of frames. Beside the properties themselves the invariant needs that the
state is that of the last transition, or the initial one with its flag set if
there was none (`Machine`), that a frame runs all its steps before it goes on
(`StepsDone`), and that the counter of the counted condition has advanced exactly
in the frames in which the rest of the conjunction held (`Asked`). TimeKept is an
equation: all time is stepped, due, in the accumulator, or `lost`, and `lost` is added up
apart from the accumulator, from what each frame had to catch up with (`Owed`) beyond
the steps it may run (`Excess`); so a limit that discards more or less than that
breaks it. `DrainFacts` is the division behind it.

It also proves SpikeWithinMargin, ExhaustedGrows and OverflowsCounted of SpawnBlocks
(what falls through a block is counted) for any set of systems and all sizes
`BlockAssumption` allows. That invariant adds that a block in use has the size the
history of its system asks for (`BlocksInUse`), and that the telemetry counts the
systems that fell through (`Counted`).

**ChangeDetectionProof** proves NothingMissed and NothingInvented for any width of
ticks, any number of stages, systems and rows, under `WellUsed`: no system is kept
out for longer than stamps stay exact (which is at least a frame), the plan is
compiled again only while `Tick::ZERO` lies in the past, and no reader shares a
stage with a system whose commands may write what it reads. The code enforces
none of the three; in its own numbers the first two are 2^31 ticks, the third is
listed above. `Due` bounds how long ago a system ran. `Timed` says that there are
true times behind the ticks: `e` for the stamps, `g` for the aggregate, `base` for
the windows, with stamps no older than a check leaves them (`Slack`), none later
than the aggregate, and `e[r] > base[s]` exactly for the rows the system has not
seen. They are not simply the times of the last writes: the periodic check pulls
an old stamp forward, and the witness for `e` with it, which is sound only because
no window is that old (`ClampedIsPulled`). `TickDifference` and `NewerIsLater` turn
the comparison of wrapped ticks into one of true times.

Its second part is about Transforms: RowsAreApart and GlobalsExact, with no
assumption, and, if no entity is without a local transform, ChangesApplied. The
links leave every set of entities somewhere (`Grounded`, in `Linked`), which
takes the place of induction along the hierarchy: it gives a changed ancestor that
has no changed one above (`Topmost`), and nobody is above itself
(`NotAboveItself`). During a descent, nothing that waits is below something else
that waits or above something that has been computed, and each has a change above
or on it (`Apart`); so the threads never meet, and what a thread has computed is not
changed behind its back. `Later` is the world transform an entity has when the pass
is over. What waits knows its parent's, what was computed was computed from it, and what
is settled has the right one all along (`Based`). Below a change, unless a transform
is lacking on the way, an entity has been computed or waits under something that
does (`Reached`); when nothing waits any more, everything settled is right. Edits
between passes leave the way up to a settled entity alone (`Untouched`). For
ChangesApplied, `FreshInv` adds that whatever is unchanged or computed ends in its
latest local transform. So the gap shown by the run `transforms_gap` is the only way in
which a change is passed over.

**RelationsProof** proves IndexesAgree, ParentsAcyclic, the order of siblings,
CascadeExact and MirrorExact for any entities, kinds and bounds, under
`~StaleHandles`: no operation is given a handle of an entity that is gone. What a stale
handle does, the section on disagreements describes. The
invariant says that links are between live entities (`LiveEnds`), that every link is
in the list of its target and the reverse (`Listed`), once (`ListedOnce`), that an
exclusive kind has one target (`OneTarget`), and that the count of the links into an
entity, by which the code spares itself the walk to the root, is right (`Counted`). `AddDoes`,
`RemoveDoes` and `DespawnDoes` say what the operations do to links, lists and counts;
each conjunct is then shown of them and not of the code's steps. NoParentCycles takes a
cycle to be a set of entities each with a parent in the set. The step that closes one
would add a link whose walk to the root stays in the set until it meets the
subject, and is refused (`ChainStays`); if the walk was spared, the subject is nobody's
target, so in no such set with it.
CascadeTakesExactly adds `DoomInv`: while a despawn is under way, those who are alive
and not to be spared are the least set that holds everyone who waits on the stack
(`Waiting`) and every subject of a cascading link into the set (`LeadsTo`). It holds at
the start because that is what `Doomed` is; dropping a dead entity from the stack
changes nobody who waits; and when an entity dies, whoever was in the set because of
it is on the stack now (`CascadeFacts`, by way of `FlattenRange`: what a concatenation
holds). With nobody left on the stack the set is empty.
HooksFollowLinks is MirrorExact: an observer that has applied what is queued to what it
knew has the links there are (`Told`, in `MirrorInv`). The links that an
operation adds or drops are those its events are about, each once; a dying entity takes
the links of both directions with it. Only a cascade leaves events in the queue.

**ScheduleProof** proves all six properties of Schedule, for any catalogue and any
number of systems, orderings and steps. NoRace and CyclesAreReal hold under
`~LateConflicts` and with event ordering left on. The code enforces neither; the
section on disagreements says what happens without them.
The argument has four parts. (1) The graph: a declared pair that races has a
conflict, and a conflict has one direction whoever is looked at first
(`ConflictFacts`); so when `add_new_nodes_and_edges` has compared the pair, there is an
edge, an ordering, or a path that stopped the edge (`ComparedJoined`), and such a path
does not need the barrier, which the next compile takes out and puts back
(`AroundBarrier`). (2) The levels: a function with the equation of `parallel_levels`
exists for an acyclic graph and climbs along every path (`LevelsExist`,
`LevelsFacts`), so the systems of a level do not race, and grouping, ordering and
cutting only ever choose among them (`StagesSafe`). (3) What a compile may rely on:
systems of the old graph come first in the registry (`NodesFirst`), and what has
joined since needs no edge only its elder could be given (`NewFits`). (4) The executor:
what runs is enabled in the open stage, in sequence one at a time, in parallel only
if all of the stage declare what they touch (`FrameFits`). Induction over numbers is
`Induction`, a lemma about sets of numbers, and `Recursion` gives the recursive
functions of the model their values; `HasPathLeads` shows that the cut by which the
model says that there is no path means what it should.
CyclesHaveReasons is proved of the same graph. Its invariant, `Grounded`, says that
the graph holds the orderings (`OrderedIn`) and the symmetric conflicts
(`SymmetricIn`) of its systems, and that it is acyclic unless two of them give their
author a cycle to answer for (`Excuse`: an ordering against the order of registration,
or a pair that feeds each other without one). If no two registered systems do, a
compile starts from an acyclic graph (`OrderedAcyclic`, `BarrierAcyclic`) and each
comparison adds at most an edge that closes no cycle (`ComparedSound`): one that goes
by what is fed has looked for the path the other way, and a symmetric one goes from
the elder to the younger at a time when no edge has gone back past the elder
(`Backs`). So the whole graph is acyclic (`NewEdgesAcyclic`).
PlanHoldsEveryone is PlanExact, with no assumption on how the scheduler is used. The
invariant, `Held`, says that the stages of a plan hold each registered system once
(`Holds`). Three things could lose or repeat one. The groups of label and level are
taken in the order of `PlacedBefore`, which is strict and total because labels at
their levels have different keys (`KeyFacts`, `PlacedOrders`), so that counting those
ahead gives each group a number of its own and no gap (`TurnFacts`). A group is cut at
its apply boundaries: each part ends just before the next cut (`SplitExact`). And
stages are concatenated, each from a group and a part that can be told from the
place (`Rows`, `FlattenExact`).
The other three are about time, and share one account of it. `Held` also says that a
plan is `InTurn`: no later stage is of an earlier label, and an edge within a label
leads to a later stage. Both come from the levels (`Levelled`, `LevelledInTurn`): an
earlier label is placed before at any level (`EarlierPlaced`), a lower level of one
label before a higher one (`LevelPlaced`). So nothing stands among the FixedUpdate
stages (`Together`, `FixedCompared`), and a frame goes over the plan in laps
(`Visits`): before FixedUpdate one lap, the block once per step, and one lap for the
rest (`FrameLaps`). Stages of one label have the same laps (`SameLaps`), so when it is
the turn of one of them, another has been visited once more if it stands before it in
the plan and as often if not (`CountVisits`). The second invariant, `Turns`, says that
`passed` counts these visits; then `passed` tells which of two systems of a label
stands first (`PassesCompared`), which is LabelsTakeTurns, with no assumption on how
the scheduler is used. OrderingsKept needs that what was asked for is in force or
waiting, and is an edge once its second system is in the graph (`Asked`): under
`~LateConflicts` and `~Retry`, with event ordering on or off. ListenersFollow needs
that an emitter has an edge to its listener unless a path leads back, and an edge back
only where an ordering asks for it (`Sent`): such a path does not go by the barrier
(`AroundBarrier` again), so it outlives the next compile, and no conflict makes the
edge back (`BackEdgesAsked`). It holds with event ordering left on, whatever joins the
graph.

Only model-checked: the liveness properties AbandonedReclaimed, Delivered and
Arrives, since fairness is out of the prover's reach. Every other property of a passing run is
proved. The assumptions on constants under which some of the theorems hold
(`~ClearAnytime`, `NoWrap`, `~StaleHandles`, `WellUsed`, `~LateConflicts`, ...) are those of
the runs, and what happens without them is in the section on disagreements.

## Not modelled

- Resources, templates, the macro and system glue, the scripting binding,
  serialization and prefabs, hot reload: conversion of data, generated code, or
  behaviour of the interpreter and the operating system. A reader of
  `apex-hot-reload` should know that `reapply_asset` (`prefab_plugin.rs:310`)
  despawns all instances of a prefab before it makes the first new one, and that
  an error there loses the rest and the list of all of them.
- `visibility.rs` declares a component and nothing that acts on it.
- Within modelled parts: panics inside commands and hooks (a panicking
  `R::default()` leaves a row without a location in `spawn_at` and a stale one in
  `insert`; a panicking hook drops what is queued), `despawn_recursive` (which
  recurses without end on a cyclic plain kind), exclusive systems' windows, added
  ticks in windows, the arithmetic of the cost model, splitting one system over
  chunks of rows, floating point in the fixed step and in transforms, the wrap of
  IndexStamp (after 2^32 passes cleared cells hold `u32::MAX`, which is a
  generation of the next cycle).
- Benchmarks, examples, tests. `apex-bench/flecs_src` is the C code of another
  project, flecs, vendored as an opponent in benchmarks; apex-ecs neither calls
  it nor depends on it, and no module models it.

`PROJECT.json` gives the reason for each part.

## Plan

Done: EntityAllocator, Events, DelayedQueue, SpawnBlocks, Relations,
ChangeDetection, Schedule, Storage, Exchange, Frame and Transforms; the proofs above, among
them the refinements of HandlePool and EntityMap.

Left, in the order of their worth: the reload of prefabs with its failures; the
remapping of entities when a snapshot is restored, on top of EntityMap.
