CONSTANTS
    Sender = {"m1", "m2", "s"}
    Home <- MCHome
    Capacity = 2
    Policies = {"Block", "DropLoud"}
    PerTick = 2
    MaxSends <- MCMaxSends
    BlockingReplies = FALSE
SPECIFICATION FairSpec
INVARIANTS Accounted NeverStuck
PROPERTY Arrives
CHECK_DEADLOCK FALSE
