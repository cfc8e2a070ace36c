SPECIFICATION Spec
CONSTANTS
  k1 = k1
  k2 = k2
  k3 = k3
  k4 = k4
  Key = {k1, k2, k3, k4}
  Value = {TRUE, FALSE}
  Undefined = Undefined
  Hash <- MCHash
  MinCapacity = 4
  GrowFactor = 2
  LoadPercent = 75
  MaxIterations = 1
INVARIANTS
  FindsEntry
  LoadKept
PROPERTIES
  VisitsEach
  IsDict
