CONSTANTS
  Readers = {r1, r2}
  MaxSent = 2
  MaxSync = 1
  MaxCursors = 2
  ClearAnytime = FALSE
  TickMod = 16
  FirstTick = 4
  MaxNow = 5
  MaxDelay = 1
  MaxDelayed = 2
SPECIFICATION SpecDelayed
INVARIANTS
  LaggingExact
  EachEventOnce
  OwnCursor
  DueOrder
PROPERTIES
  OnTime
  Delivered
