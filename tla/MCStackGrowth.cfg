SPECIFICATION Spec
CONSTANTS
  Data = {d1}
  Junk = Junk
  None = None
  MaxSlots = 3
  MaxArgs = 1
  MaxCaptures = 1
  MaxFrames = 2
  Upvalue = {u1, u2}
  MethodSlots = {4}
  AllocatorSlots = {1}
INVARIANTS
  NeverCrashes
CHECK_DEADLOCK FALSE
