----------------------------- MODULE Transforms -----------------------------
(***************************************************************************)
(* propagate_transforms: the world transform of an entity is that of its    *)
(* parent composed with its own local one.  A pass starts from what has     *)
(* changed since the last pass, keeps the changed entities that have no     *)
(* changed ancestor, and descends from each of them, in several threads     *)
(* (apex-core/src/transform.rs).                                           *)
(*                                                                         *)
(* A local transform is a version number, a world transform the path of     *)
(* versions from the root, so that composing is appending.  Links are those *)
(* of ChildOf, which Relations models; ticks do not wrap here, as they do   *)
(* in ChangeDetection.  A pass is exclusive: the world is only edited       *)
(* between passes, but the threads of a descent take turns in any order.    *)
(***************************************************************************)
EXTENDS Integers, Sequences, FiniteSets

CONSTANTS
    Node,       \* entities
    Version,    \* values of a local transform
    None,
    Holes,      \* may an entity be without a LocalTransform?
    MaxEdits,   \* bound: edits of the world, spawns aside
    MaxPasses   \* bound: passes

ASSUME TransformsAssumption ==
    /\ None \notin Node /\ None \notin Version
    /\ None \notin Seq(Node \X Version)
    /\ Holes \in BOOLEAN
    /\ MaxEdits \in Nat /\ MaxPasses \in Nat

VARIABLES
    alive, parent,   \* entities and their ChildOf links
    local, global,   \* LocalTransform, GlobalTransform (or None)
    changedAt,       \* change tick of each LocalTransform
    currentTick,     \* current_tick
    lastRun,         \* TransformScratch::last_run
    phase,           \* "idle" or "descent"
    thisRun,         \* tick the running pass reads at
    frontier,        \* entities to visit, with their parents' world transforms
    missing,         \* world transforms to insert when the pass is over
    visited,         \* history: entities this pass has computed
    moved,           \* history: reparented, not recomputed since
    edits, passes

world == <<alive, parent, local, changedAt>>
pass == <<phase, thisRun, frontier, missing, visited>>
transformVars == <<world, global, currentTick, lastRun, pass, moved, edits, passes>>

InitTransforms ==
    /\ alive = {} /\ parent = [n \in Node |-> None]
    /\ local = [n \in Node |-> None] /\ global = [n \in Node |-> None]
    /\ changedAt = [n \in Node |-> 0]
    /\ currentTick = 1 /\ lastRun = 0
    /\ phase = "idle" /\ thisRun = 0
    /\ frontier = {} /\ missing = {} /\ visited = {} /\ moved = {}
    /\ edits = 0 /\ passes = 0

-----------------------------------------------------------------------------
(* The hierarchy.                                                          *)

Children(n) == {c \in alive : parent[c] = n}

\* With every entity in S, and with n, its parent is in S: the entities above n
\* are those that every such S contains.
Upward(f, n, S) == \A m \in S \cup {n} : f[m] \in S \cup {None}

Above(f, n) == {m \in Node : \A S \in SUBSET Node : Upward(f, n, S) => m \in S}

Ancestors(n) == Above(parent, n)
Chain(n) == {n} \cup Ancestors(n)

Subtree(n) == {n} \cup {m \in alive : n \in Ancestors(m)}

-----------------------------------------------------------------------------
(* Edits, in systems or between frames.                                    *)

Between ==
    /\ phase = "idle"
    /\ UNCHANGED <<currentTick, lastRun, pass, passes>>

Edit == Between /\ edits < MaxEdits /\ edits' = edits + 1

Locals == Version \cup IF Holes THEN {None} ELSE {}

\* Spawning an entity, with or without a LocalTransform.
Spawn(n) ==
    /\ Between /\ n \notin alive
    /\ alive' = alive \cup {n}
    /\ \E v \in Locals : local' = [local EXCEPT ![n] = v]
    /\ changedAt' = [changedAt EXCEPT ![n] = currentTick]
    /\ UNCHANGED <<parent, global, moved, edits>>

\* Writing a LocalTransform, or inserting one: both stamp it.
Write(n) ==
    /\ Edit /\ n \in alive
    /\ \E v \in Version : local' = [local EXCEPT ![n] = v]
    /\ changedAt' = [changedAt EXCEPT ![n] = currentTick]
    /\ UNCHANGED <<alive, parent, global, moved>>

Strip(n) ==
    /\ Edit /\ Holes /\ n \in alive /\ local[n] # None
    /\ local' = [local EXCEPT ![n] = None]
    /\ UNCHANGED <<alive, parent, changedAt, global, moved>>

\* add_relation(n, ChildOf, p): it replaces the parent, and touches no transform.
Attach(n, p) ==
    /\ Edit /\ {n, p} \subseteq alive
    /\ n # p /\ n \notin Ancestors(p) /\ parent[n] # p
    /\ parent' = [parent EXCEPT ![n] = p]
    /\ moved' = moved \cup {n}
    /\ UNCHANGED <<alive, local, changedAt, global>>

Detach(n) ==
    /\ Edit /\ n \in alive /\ parent[n] # None
    /\ parent' = [parent EXCEPT ![n] = None]
    /\ moved' = moved \cup {n}
    /\ UNCHANGED <<alive, local, changedAt, global>>

Without(f, S) == [n \in Node |-> IF n \in S THEN None ELSE f[n]]

\* ChildOf cascades.
Despawn(n) ==
    /\ Edit /\ n \in alive
    /\ LET gone == Subtree(n)
       IN  /\ alive' = alive \ gone
           /\ parent' = Without(parent, gone)
           /\ local' = Without(local, gone)
           /\ global' = Without(global, gone)
           /\ moved' = moved \ gone
    /\ UNCHANGED changedAt

-----------------------------------------------------------------------------
(* A pass.                                                                 *)

Dirty == {n \in alive : local[n] # None /\ changedAt[n] > lastRun}

\* A changed entity below another changed one is left to that one's descent.
\* Wrong on purpose: only the parent is looked at.
CoveredByParent(n) == parent[n] \in Dirty
Covered(n) == \E m \in Ancestors(n) : m \in Dirty

Simple(n) == parent[n] = None /\ Children(n) = {}
Seeds == {n \in Dirty : ~Simple(n) /\ ~Covered(n)}

Identity == <<>>
Compose(base, n) == Append(base, <<n, local[n]>>)

\* The world transform of the parent, which no other thread is writing.
Base(n) ==
    IF parent[n] = None \/ global[parent[n]] = None THEN Identity ELSE global[parent[n]]

Item(n, base) == [node |-> n, base |-> base]

\* Written in place, if there is one already.
Written(g, results) ==
    [n \in Node |-> IF \E r \in results : r.node = n /\ g[n] # None
                    THEN (CHOOSE r \in results : r.node = n).base ELSE g[n]]
Deferred(g, results) == {r \in results : g[r.node] = None}

\* The others are inserted when the pass is over.
Inserted(g, results) ==
    [n \in Node |-> IF \E r \in results : r.node = n
                    THEN (CHOOSE r \in results : r.node = n).base ELSE g[n]]

\* The tick a reader reads at, with its window closed behind it
\* (increment_change_tick).
\* Wrong on purpose: the clock stays, as before ADR-016.
CloseWindowLate == thisRun' = currentTick /\ currentTick' = currentTick
CloseWindow == thisRun' = currentTick /\ currentTick' = currentTick + 1

\* Collecting what changed, and resolving each of it, in parallel: simple ones
\* are written, the others become seeds.
BeginPass ==
    LET simple == {Item(n, Compose(Identity, n)) : n \in {m \in Dirty : Simple(m)}}
    IN
    /\ phase = "idle" /\ passes < MaxPasses
    /\ phase' = "descent" /\ passes' = passes + 1
    /\ CloseWindow
    /\ frontier' = {Item(n, Base(n)) : n \in Seeds}
    /\ global' = Written(global, simple)
    /\ missing' = Deferred(global, simple)
    /\ visited' = {r.node : r \in simple}
    /\ moved' = moved \ Dirty
    /\ UNCHANGED <<world, lastRun, edits>>

\* Some thread takes an entity off its stack.  One without a LocalTransform
\* ends the descent.
Visit(i) ==
    LET n == i.node
        result == Item(n, Compose(i.base, n))
    IN
    /\ phase = "descent" /\ i \in frontier
    /\ IF local[n] = None
       THEN /\ frontier' = frontier \ {i}
            /\ UNCHANGED <<global, missing, visited>>
       ELSE /\ frontier' = (frontier \ {i}) \cup {Item(c, result.base) : c \in Children(n)}
            /\ global' = Written(global, {result})
            /\ missing' = missing \cup Deferred(global, {result})
            /\ visited' = visited \cup {n}
    /\ UNCHANGED <<world, currentTick, lastRun, phase, thisRun, moved, edits, passes>>

EndPass ==
    /\ phase = "descent" /\ frontier = {}
    /\ phase' = "idle"
    /\ global' = Inserted(global, missing)
    /\ missing' = {} /\ visited' = {}
    /\ lastRun' = thisRun
    /\ UNCHANGED <<world, currentTick, thisRun, frontier, moved, edits, passes>>

NextTransforms ==
    \/ \E n \in Node : \/ Spawn(n) \/ Write(n) \/ Strip(n) \/ Detach(n) \/ Despawn(n)
                       \/ \E p \in Node : Attach(n, p)
    \/ BeginPass \/ EndPass
    \/ \E i \in frontier : Visit(i)

SpecTransforms == InitTransforms /\ [][NextTransforms]_transformVars

-----------------------------------------------------------------------------
(* Properties.                                                             *)

\* Nothing on the way from the root to n has changed since the last pass, nor been
\* moved without its caller having written its transform as add_relation asks
\* for, and no transform is lacking on that way.
Settled(n) == \A m \in Chain(n) : local[m] # None /\ m \notin Dirty \cup moved

\* An entity that is settled has the world transform of its parent, itself
\* settled, composed with its local one: what its ancestors make up.
GlobalsExact ==
    phase = "idle" => \A n \in alive : Settled(n) => global[n] = Compose(Base(n), n)

\* The threads of a descent write without locks: no entity is computed twice in
\* a pass, nor waits in two stacks, nor below another that waits.
RowsAreApart ==
    \A i, j \in frontier :
        /\ i.node \notin visited
        /\ i # j => i.node \notin Subtree(j.node)

\* "Recomputes GlobalTransform for every entity whose LocalTransform changed
\* since the previous run": once a pass is over, an entity that has not changed
\* since has a world transform with its latest local one.
ChangesApplied ==
    phase = "idle" =>
        \A n \in alive : local[n] # None /\ n \notin Dirty =>
            /\ global[n] # None
            /\ global[n][Len(global[n])] = <<n, local[n]>>
=============================================================================
