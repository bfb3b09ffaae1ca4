SPECIFICATION SpecBlocks
CHECK_DEADLOCK FALSE
SYMMETRY Symmetry
CONSTANTS
  Systems = {s1, s2}
  InitialSize = 2
  Floor = 2
  EscrowFloor = 1
  MaxSpawned = 8
  MaxRounds = 3
INVARIANTS SpikeWithinMargin
PROPERTIES ExhaustedGrows
