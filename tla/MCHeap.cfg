SPECIFICATION Spec
CONSTANTS
  None = None
  Scripts <- HeapScripts
  MaxStack = 3
  MaxHandles = 1
INVARIANTS
  RootsFit
  OnlyKnownDangling
  FinalizersSeeClass
PROPERTIES
  CollectsAll
CHECK_DEADLOCK FALSE
