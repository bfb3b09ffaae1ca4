----------------------------- MODULE Relations -----------------------------
(***************************************************************************)
(* The relations of apex-core (relations.rs, and World::despawn in         *)
(* world.rs): links (kind, target) between entities, kept in two indexes   *)
(* that must agree.  The subject index holds, by the bare index of an      *)
(* entity, the pairs it is the subject of; the target index holds, by the  *)
(* bare index of a target, the ordered list of its subjects.  Both are     *)
(* keyed by an index the allocator issues again, so what keeps an old      *)
(* entity's links from showing up on a new one is the cleanup at despawn.  *)
(*                                                                         *)
(* Operations take `&mut World` and are one step each, except despawn,     *)
(* whose loop over the cascade is one step per entity.  The hooks a        *)
(* program registers to follow relations are an observer that keeps its    *)
(* own picture of the links, `mirror`, from the hook calls alone.          *)
(***************************************************************************)
EXTENDS Integers, Sequences, FiniteSets, SequencesExt

CONSTANTS
  MaxIndex,     \* bound: entity indices are 0 .. MaxIndex - 1
  MaxGen,       \* bound: an index is not spawned again from this generation on
  MaxSpawns,    \* bound: entities spawned in all
  MaxLinks,     \* bound: links at a time
  Kinds,        \* relation kinds
  Exclusive,    \* kinds with at most one target for a subject
  Cascading,    \* kinds whose subjects are despawned with their target
  StaleHandles  \* whether remove_relation is called for dead subjects, too

ASSUME RelationsAssumption ==
  /\ MaxIndex \in Nat \ {0} /\ MaxGen \in Nat
  /\ MaxSpawns \in Nat /\ MaxLinks \in Nat
  /\ IsFiniteSet(Kinds) /\ Exclusive \subseteq Kinds /\ Cascading \subseteq Kinds
  /\ StaleHandles \in BOOLEAN

Index  == 0 .. MaxIndex - 1
Entity == [index : Index, gen : 0 .. MaxGen]
Pair   == [kind : Kinds, target : Entity]
Edge   == [kind : Kinds, subject : Entity, target : Entity]

VARIABLES
  alive,       \* indices with a live entity
  gen,         \* the current generation of each index
  pairs,       \* SubjectIndex: index -> set of pairs
  subjects,    \* TargetIndex.by_kind: (kind, target index) -> list of subjects
  counts,      \* TargetIndex.target_counts
  stack,       \* the stack of the despawn in progress
  hookQueue,   \* hook events not yet delivered
  mirror,      \* the links an observer knows of from its hooks
  expected     \* history: who must be left alive by the despawn in progress

indexVars == <<pairs, subjects, counts>>
vars == <<alive, gen, indexVars, stack, hookQueue, mirror, expected>>

Current(i)  == [index |-> i, gen |-> gen[i]]
Live        == {Current(i) : i \in alive}
Issued(e)   == e.gen < gen[e.index] \/ e \in Live
Despawning  == stack # <<>>

Link(k, s, t) == [kind |-> k, subject |-> s, target |-> t]

-----------------------------------------------------------------------------
(* The two indexes. *)

\* first_with_kind on a short, sorted storage: the smallest target.
OfKind(i, k)  == {p \in pairs[i] : p.kind = k}
Before(d, e)  == d.index < e.index \/ (d.index = e.index /\ d.gen <= e.gen)
First(i, k)   == CHOOSE p \in OfKind(i, k) :
                   \A q \in OfKind(i, k) : Before(p.target, q.target)

\* The indices met by walking up from i along the first pairs of kind k.
Chain(i, k) ==
  {x \in Index :
     \A S \in SUBSET Index :
       (/\ i \in S
        /\ \A y \in S : OfKind(y, k) # {} => First(y, k).target.index \in S)
       => x \in S}

\* Wrong on purpose: only the target's own parent is looked at.
ClosesShortCycle(s, k, t) ==
  OfKind(t.index, k) # {} /\ First(t.index, k).target.index = s.index

\* A walk that meets the subject is rejected, and so is one that never ends
\* (MAX_ANCESTOR_WALK).
ClosesCycle(s, k, t) ==
  /\ counts[s.index] > 0
  /\ \/ s.index \in Chain(t.index, k)
     \/ \A x \in Chain(t.index, k) : OfKind(x, k) # {}

\* Position `at` counts from 0 and is clamped to the length of the list.
Placed(list, s, at) ==
  InsertAt(list, (IF at <= Len(list) THEN at ELSE Len(list)) + 1, s)

\* Wrong on purpose: the last subject fills the hole (swap_remove).
UnlistedSwap(list, s) ==
  LET at == SelectInSeq(list, LAMBDA v : v = s) IN
  IF at = 0 THEN list
  ELSE Front([list EXCEPT ![at] = list[Len(list)]])

Unlisted(list, s) == RemoveFirst(list, s)

-----------------------------------------------------------------------------
(* Hooks: every kind has an observer on add and on remove. *)

Added(k, s, t)   == [op |-> "added", link |-> Link(k, s, t)]
Removed(k, s, t) == [op |-> "removed", link |-> Link(k, s, t)]

\* What an observer that knew the links `known` knows when it has heard the
\* events: the last word on a link counts.
Told(known, events) ==
  LET lastWord(n) == \A j \in n + 1 .. Len(events) : events[j].link # events[n].link
  IN  {l \in known : \A n \in DOMAIN events : events[n].link # l}
      \cup {events[n].link :
              n \in {m \in DOMAIN events : events[m].op = "added" /\ lastWord(m)}}

\* flush_hooks delivers the events in the order they were queued.
Deliver(events) ==
  /\ mirror' = Told(mirror, events)
  /\ hookQueue' = <<>>

-----------------------------------------------------------------------------
(* Entities come from the allocator: an index that was freed, with its new   *)
(* generation, or the next fresh one.                                      *)

Used(i) == i \in alive \/ gen[i] > 0

Spawn(i) ==
  /\ ~Despawning /\ i \notin alive /\ gen[i] < MaxGen
  /\ \A j \in 0 .. i - 1 : Used(j)
  /\ Cardinality(alive) + SumFunction(gen) < MaxSpawns
  /\ alive' = alive \cup {i}
  /\ UNCHANGED <<gen, indexVars, stack, hookQueue, mirror, expected>>

\* Wrong on purpose: an exclusive kind accumulates like any other.
ReplacedNothing(s, k) == {}

\* What an exclusive kind drops before it adds: the pair to another target.
Replaced(s, k) ==
  IF k \in Exclusive THEN {p \in OfKind(s.index, k) : p = First(s.index, k)}
  ELSE {}

\* Wrong on purpose: the observers of the old link are not told.
RemovalsForgotten(s, k, old) == <<>>

Removals(s, k, old) == SetToSeq({Removed(k, s, p.target) : p \in old})

\* add_relation_positioned: dead ends, self-relations and edges that would
\* close a cycle are refused, an existing link is left where it is.
AddRelation(s, k, t, at) ==
  LET old   == Replaced(s, k)
      kept  == pairs[s.index] \ old
      lists == [x \in DOMAIN subjects |->
                  IF \E p \in old : x = <<k, p.target.index>>
                  THEN Unlisted(subjects[x], s) ELSE subjects[x]]
  IN
  /\ ~Despawning
  /\ s \in Live /\ t \in Live /\ s.index # t.index
  /\ SumFunction(counts) < MaxLinks + Cardinality(old)
  /\ k \in Exclusive \cup Cascading => ~ClosesCycle(s, k, t)
  /\ [kind |-> k, target |-> t] \notin pairs[s.index]
  /\ pairs' = [pairs EXCEPT ![s.index] = kept \cup {[kind |-> k, target |-> t]}]
  /\ subjects' = [lists EXCEPT ![<<k, t.index>>] = Placed(@, s, at)]
  /\ counts' = [i \in Index |->
                  counts[i] + (IF i = t.index THEN 1 ELSE 0)
                            - Cardinality({p \in old : p.target.index = i})]
  /\ Deliver(Removals(s, k, old) \o <<Added(k, s, t)>>)
  /\ UNCHANGED <<alive, gen, stack, expected>>

\* remove_relation: no look at whether the subject is alive.
RemoveRelation(s, k, t) ==
  LET listed == Contains(subjects[<<k, t.index>>], s) IN
  /\ ~Despawning
  /\ Issued(s) /\ Issued(t)
  /\ StaleHandles \/ s \in Live
  /\ [kind |-> k, target |-> t] \in pairs[s.index]
  /\ pairs' = [pairs EXCEPT ![s.index] = @ \ {[kind |-> k, target |-> t]}]
  /\ subjects' = [subjects EXCEPT ![<<k, t.index>>] = Unlisted(@, s)]
  /\ counts' = IF listed THEN [counts EXCEPT ![t.index] = @ - 1] ELSE counts
  /\ Deliver(<<Removed(k, s, t)>>)
  /\ UNCHANGED <<alive, gen, stack, expected>>

\* set_relation_index, and insert_relation_at for a link that exists.
SetRelationIndex(s, k, t, at) ==
  /\ ~Despawning
  /\ s \in Live /\ t \in Live
  /\ [kind |-> k, target |-> t] \in pairs[s.index]
  /\ Contains(subjects[<<k, t.index>>], s)
  /\ subjects' = [subjects EXCEPT ![<<k, t.index>>] =
                    Placed(RemoveFirst(@, s), s, at)]
  /\ UNCHANGED <<alive, gen, pairs, counts, stack, hookQueue, mirror, expected>>

-----------------------------------------------------------------------------
(* Despawn. *)

\* The entities a despawn of e must take with it.
Doomed(e) ==
  {i \in alive :
     \A S \in SUBSET alive :
       (/\ e.index \in S
        /\ \A s \in alive : \A p \in pairs[s] :
             p.kind \in Cascading /\ p.target.index \in S => s \in S)
       => i \in S}

Despawn(e) ==
  /\ ~Despawning /\ e \in Live
  /\ stack' = <<e>>
  /\ expected' = alive \ Doomed(e)
  /\ UNCHANGED <<alive, gen, indexVars, hookQueue, mirror>>

\* take_subjects of every kind, skipped when nothing targets the entity.
Taken(e, k) == IF counts[e.index] > 0 THEN subjects[<<k, e.index>>] ELSE <<>>

\* The entries taken from the target index: a kind and a place in its list each.
TakenEntries(e) == UNION {{k} \X DOMAIN Taken(e, k) : k \in Kinds}

KindOrder == SetToSeq(Kinds)

\* Wrong on purpose: the subjects keep the links to the dead entity.
PairsKeptByOthers(e) == [pairs EXCEPT ![e.index] = {}]

\* What is left of the subject index without e.
PairsWithout(e) ==
  [i \in Index |->
     IF i = e.index THEN {}
     ELSE {p \in pairs[i] :
             ~(p.target = e /\ \E s \in Range(Taken(e, p.kind)) : s.index = i)}]

OwnPairs(e) ==
  {p \in pairs[e.index] :
     ~(p.target = e /\ \E s \in Range(Taken(e, p.kind)) : s.index = e.index)}

\* ... and of the target index: the lists of e are taken whole, e leaves the
\* lists of its own targets.
ListsWithout(e) ==
  [x \in DOMAIN subjects |->
     LET rest == IF x[2] = e.index /\ counts[e.index] > 0 THEN <<>>
                 ELSE subjects[x]
     IN IF \E p \in OwnPairs(e) : x = <<p.kind, p.target.index>>
        THEN Unlisted(rest, e) ELSE rest]

Events(e) ==
  FlattenSeq([j \in 1 .. Len(KindOrder) |->
    LET k == KindOrder[j] IN
    [n \in 1 .. Len(Taken(e, k)) |-> Removed(k, Taken(e, k)[n], e)]])
  \o SetToSeq({Removed(p.kind, e, p.target) : p \in OwnPairs(e)})

\* Wrong on purpose: only the first subject goes on the stack.
CascadeFirstOnly(e) ==
  FlattenSeq([j \in 1 .. Len(KindOrder) |->
    IF KindOrder[j] \in Cascading /\ Taken(e, KindOrder[j]) # <<>>
    THEN <<Taken(e, KindOrder[j])[1]>> ELSE <<>>])

Cascade(e) ==
  FlattenSeq([j \in 1 .. Len(KindOrder) |->
    IF KindOrder[j] \in Cascading THEN Taken(e, KindOrder[j]) ELSE <<>>])

\* The last round of the loop delivers the hooks.
Queue(events, rest) ==
  IF rest = <<>> THEN Deliver(hookQueue \o events)
  ELSE hookQueue' = hookQueue \o events /\ UNCHANGED mirror

Forget(rest) == expected' = IF rest = <<>> THEN {} ELSE expected

\* The entity on top was despawned by the cascade along another link.
SkipDead ==
  LET rest == Front(stack) IN
  /\ Despawning /\ Last(stack) \notin Live
  /\ stack' = rest
  /\ Queue(<<>>, rest)
  /\ Forget(rest)
  /\ UNCHANGED <<alive, gen, indexVars>>

DespawnOne ==
  LET e    == Last(stack)
      rest == Front(stack) \o Cascade(e)
      left == ListsWithout(e)
  IN
  /\ Despawning /\ e \in Live
  /\ pairs' = PairsWithout(e)
  /\ subjects' = left
  /\ counts' = [i \in Index |->
       IF i = e.index THEN counts[i] - Cardinality(TakenEntries(e))
       ELSE counts[i] - Cardinality({p \in OwnPairs(e) :
                          /\ p.target.index = i
                          /\ Contains(subjects[<<p.kind, i>>], e)})]
  /\ alive' = alive \ {e.index}
  /\ gen' = [gen EXCEPT ![e.index] = @ + 1]
  /\ stack' = rest
  /\ Queue(Events(e), rest)
  /\ Forget(rest)

-----------------------------------------------------------------------------
Init ==
  /\ alive = {}
  /\ gen = [i \in Index |-> 0]
  /\ pairs = [i \in Index |-> {}]
  /\ subjects = [x \in Kinds \X Index |-> <<>>]
  /\ counts = [i \in Index |-> 0]
  /\ stack = <<>> /\ hookQueue = <<>> /\ mirror = {} /\ expected = {}

Reorder ==
  \E s \in Live, at \in Index : \E p \in pairs[s.index] :
    SetRelationIndex(s, p.kind, p.target, at)

Next ==
  \/ \E i \in Index : Spawn(i)
  \/ \E s, t \in Live, k \in Kinds :
       \E at \in 0 .. Len(subjects[<<k, t.index>>]) : AddRelation(s, k, t, at)
  \/ \E s \in Entity : \E p \in pairs[s.index] : RemoveRelation(s, p.kind, p.target)
  \/ Reorder
  \/ \E e \in Live : Despawn(e)
  \/ SkipDead
  \/ DespawnOne

Spec == Init /\ [][Next]_vars

-----------------------------------------------------------------------------
(* Properties. *)

\* The links by the subject index and by the target index.
LinksBySubject ==
  UNION {{Link(p.kind, Current(i), p.target) : p \in pairs[i]} : i \in Index}
LinksByTarget  ==
  UNION {{Link(x[1], s, Current(x[2])) : s \in Range(subjects[x])} :
           x \in Kinds \X Index}

\* The two indexes hold the same links between live entities, each subject is
\* listed once and under one target of an exclusive kind, and the counts that
\* let despawn skip the target index are exact; in the middle of a cascade, too.
IndexesAgree ==
  /\ LinksBySubject = LinksByTarget
  /\ \A l \in LinksBySubject : l.subject \in Live /\ l.target \in Live
  /\ \A x \in Kinds \X Index : IsInjective(subjects[x])
  /\ \A i \in Index, k \in Exclusive : Cardinality(OfKind(i, k)) <= 1
  /\ \A i \in Index :
       counts[i] = Cardinality({l \in LinksBySubject : l.target.index = i})

\* No set of entities in which each has a link of kind k into the set.
Acyclic(k) ==
  \A S \in (SUBSET alive) \ {{}} :
    \E i \in S : \A p \in OfKind(i, k) : p.target.index \notin S

\* Following parents comes to an end, whatever edges were added in whatever
\* order: transform propagation relies on it (C4).
ParentsAcyclic == \A k \in Exclusive : Acyclic(k)

\* The same of every kind the cycle check is for, "exclusive or cascading".
HierarchiesAcyclic == \A k \in Exclusive \cup Cascading : Acyclic(k)

\* A despawn takes with it exactly what the cascading links lead to from the
\* entity, and leaves everybody else alive.
CascadeExact ==
  [][Despawning /\ stack' = <<>> => alive' = expected]_vars

\* The order of two siblings changes by an explicit reordering only: neither
\* the removal nor the death of a third one, nor an addition, moves them.
Precedes(list, a, b) ==
  \E i, j \in 1 .. Len(list) : i < j /\ list[i] = a /\ list[j] = b
SiblingsKeepOrder ==
  [][Reorder \/
     \A x \in Kinds \X Index : \A a, b \in Range(subjects[x]) :
       Precedes(subjects[x], a, b) => ~Precedes(subjects'[x], b, a)]_vars

\* An observer that hears of links only through the hooks knows exactly the
\* links there are, after every operation: none missed when a link is replaced
\* or an entity dies in a cascade, none told in the wrong order.  Between two
\* rounds of a cascade what it lacks is in the queue.
MirrorExact ==
  /\ Told(mirror, hookQueue) = LinksBySubject
  /\ ~Despawning => mirror = LinksBySubject

=============================================================================
