---------------------------- MODULE TransformsMC ----------------------------
(* Transforms for TLC: a few interchangeable entities, spawned in any       *)
(* hierarchy before the first pass.                                        *)
EXTENDS Transforms, TLC

NodeSymmetry == Permutations(Node)

\* A numbering of the entities in which each comes after its parent.
Forest(p) ==
    \E rank \in [Node -> 1 .. Cardinality(Node)] :
        \A n \in Node : p[n] # None => rank[p[n]] < rank[n]

MCInit ==
    /\ alive = Node /\ parent \in {p \in [Node -> Node \cup {None}] : Forest(p)}
    /\ local = [n \in Node |-> 0] /\ global = [n \in Node |-> None]
    /\ changedAt = [n \in Node |-> 1]
    /\ currentTick = 1 /\ lastRun = 0
    /\ phase = "idle" /\ thisRun = 0
    /\ frontier = {} /\ missing = {} /\ visited = {} /\ moved = {}
    /\ edits = 0 /\ passes = 0

MCSpec == MCInit /\ [][NextTransforms]_transformVars
=============================================================================
