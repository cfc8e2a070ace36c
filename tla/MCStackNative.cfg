SPECIFICATION Spec
CONSTANTS
  Data = {d1}
  Junk = Junk
  None = None
  MaxSlots = 3
  MaxArgs = 2
  MaxCaptures = 1
  MaxFrames = 2
  Upvalue = {u1, u2}
  MethodSlots = {2, 4}
  AllocatorSlots = {1}
SYMMETRY StackSymmetry
INVARIANTS
  TypeOK
  NoDangling
  HeightAsCompiled
CHECK_DEADLOCK FALSE
