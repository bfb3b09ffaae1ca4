CONSTANTS
  Buffers = {b1, b2}
  NoBuffer = NoBuffer
  MaxIndex = 2
  MaxGen = 2
  MaxBatch = 2
SPECIFICATION FairSpec
INVARIANTS
  TypeOK
  NoDoubleIssue
  NoIdLeak
  HandlesCurrent
  RecordsInStep
PROPERTIES
  NoRevival
  AbandonedReclaimed
  ImplementsPool
