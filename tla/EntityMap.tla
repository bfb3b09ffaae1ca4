----------------------------- MODULE EntityMap -----------------------------
(***************************************************************************)
(* What a World promises about its entities, without archetypes, rows or   *)
(* columns: an entity that exists is a set of components, each with the     *)
(* tick of its arrival and the tick of its last change                      *)
(* (apex-core/src/world.rs, archetype.rs).  Storage implements it.          *)
(***************************************************************************)
EXTENDS Integers

CONSTANTS
    Entity,
    Component,
    Requires,   \* what each component requires (require_component)
    Nothing     \* what an entity is that does not exist

VARIABLES
    entities,   \* [added, changed] of each component of each entity
    now         \* the world's tick

Exists(e) == entities[e] # Nothing
Has(e)    == DOMAIN entities[e]
Fresh     == [added |-> now, changed |-> now]

\* Components may arrive together where some already are: nothing arrives
\* without what it requires.
MayArrive(arriving, present) ==
    \A c \in arriving : Requires[c] \subseteq arriving \cup present

Init == entities = [e \in Entity |-> Nothing] /\ now = 0

\* Some entities come into being with the same components.
Spawn(new, comps) ==
    /\ \A e \in new : ~Exists(e)
    /\ MayArrive(comps, {})
    /\ entities' = [e \in Entity |-> IF e \in new THEN [c \in comps |-> Fresh]
                                     ELSE entities[e]]
    /\ UNCHANGED now

\* Components arrive at an entity, others of it are changed.
Insert(e, arriving, changed) ==
    /\ Exists(e) /\ changed \subseteq Has(e)
    /\ MayArrive(arriving, Has(e))
    /\ entities' = [entities EXCEPT ![e] =
           [c \in Has(e) \cup arriving |->
               IF c \in changed THEN [@[c] EXCEPT !.changed = now]
               ELSE IF c \in Has(e) THEN @[c]
               ELSE Fresh]]
    /\ UNCHANGED now

Remove(e, c) ==
    /\ Exists(e) /\ c \in Has(e)
    /\ entities' = [entities EXCEPT ![e] = [d \in Has(e) \ {c} |-> @[d]]]
    /\ UNCHANGED now

Despawn(e) ==
    /\ Exists(e)
    /\ entities' = [entities EXCEPT ![e] = Nothing]
    /\ UNCHANGED now

Advance == now' = now + 1 /\ UNCHANGED entities

\* What is asked of an entity that does not exist is refused.
Refused == UNCHANGED <<entities, now>>

Next ==
    \/ Refused
    \/ Advance
    \/ \E e \in Entity : Despawn(e)
    \/ \E e \in Entity, c \in Component : Remove(e, c)
    \/ \E e \in {d \in Entity : Exists(d)} :
       \E arriving \in SUBSET (Component \ Has(e)), changed \in SUBSET Has(e) :
          Insert(e, arriving, changed)
    \/ \E new \in SUBSET {e \in Entity : ~Exists(e)}, comps \in SUBSET Component :
          Spawn(new, comps)

Spec == Init /\ [][Next]_<<entities, now>>
=============================================================================
