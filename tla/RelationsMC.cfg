SPECIFICATION Spec
CHECK_DEADLOCK FALSE
CONSTANTS
  MaxIndex = 4
  MaxGen = 2
  MaxSpawns = 4
  MaxLinks = 3
  Kinds = {ChildOf, DependsOn, Owns}
  Exclusive = {ChildOf}
  Cascading = {ChildOf, DependsOn}
  StaleHandles = FALSE
INVARIANTS IndexesAgree ParentsAcyclic MirrorExact
PROPERTIES CascadeExact SiblingsKeepOrder
