SPECIFICATION Spec
CONSTANTS
  Fiber = {f1, f2, f3, f4}
  Error = {e1, e2}
  None = None
  MaxFrames = 2
  UsesTransfer = FALSE
SYMMETRY FiberSymmetry
INVARIANTS
  TypeOK
  CallersWait
  OneCallee
  UncalledIsRoot
  TryHasCaller
  NeverCrashes
PROPERTIES
  ErrorIsFinal
CHECK_DEADLOCK FALSE
