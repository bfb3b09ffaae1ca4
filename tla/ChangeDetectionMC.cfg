SPECIFICATION Spec
CHECK_DEADLOCK FALSE
CONSTANTS
  Rows = {r1, r2}
  NStages = 2
  Systems = {"writer", "reader", "keeper"}
  StageOf <- MCStageOf
  Readers = {"reader"}
  Writers = {"writer"}
  Commanders = {"writer"}
  TickMod = 32
  MaxChangeAge = 9
  CheckInterval = 4
  MaxPause = 9
  LastRecompile = 5
  MaxNow = 48
SYMMETRY RowSymmetry
INVARIANTS NothingMissed NothingInvented
