CONSTANTS
    Entity = {e1, e2, e3}
    Component = {"sprite", "place", "node"}
    Requires <- MCRequires
    Nothing = Nothing
    Bundles <- MCBundles
    Batches <- MCBatches
    Watched = {"sprite", "place"}
    MaxSpawn = 2
    MaxTick = 1
    MaxQueue = 2
    Manual = FALSE
SYMMETRY Symmetry
SPECIFICATION Spec
INVARIANTS RowsMatch ValuesFollow HooksTell
PROPERTY ImplementsMap
CHECK_DEADLOCK FALSE
