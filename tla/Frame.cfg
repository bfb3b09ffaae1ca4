CONSTANTS
    States = {"menu", "play", "over"}
    Initial = "menu"
    None = "none"
    Gated = "play"
    Limit = 2
    Dt = 2
    MaxStepsPerFrame = 2
    MaxTime = 5
    MaxFrames = 4
SPECIFICATION Spec
CHECK_DEADLOCK FALSE
INVARIANTS FlagsTell TimeKept
