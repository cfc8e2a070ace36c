SPECIFICATION Spec
CONSTANTS
  None = None
  Names = {"a", "b"}
  Programs <- Sources
  MaxLocals = 4
  MaxFields = 2
  MaxClasses = 2
INVARIANTS
  TypeOK
  NamesResolve
  Balanced
  CapturedClosed
  BoundOnceInBounds
  DispatchesNearest
CHECK_DEADLOCK FALSE
