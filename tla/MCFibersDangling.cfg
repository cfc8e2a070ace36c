SPECIFICATION Spec
CONSTANTS
  Fiber = {f1, f2, f3}
  Error = {e1}
  None = None
  MaxFrames = 2
  UsesTransfer = TRUE
SYMMETRY FiberSymmetry
INVARIANTS
  NeverCrashes
CHECK_DEADLOCK FALSE
