SPECIFICATION Spec
CONSTANTS
  Data = {d1}
  Junk = Junk
  None = None
  MaxSlots = 3
  MaxArgs = 1
  MaxCaptures = 1
  MaxFrames = 2
  Upvalue = {u1, u2}
  MethodSlots = {}
  AllocatorSlots = {}
SYMMETRY StackSymmetry
INVARIANTS
  OpenUpvaluesSorted
  FramesFit
  NeverCrashes
PROPERTIES
  IsScopes
CHECK_DEADLOCK FALSE
