SPECIFICATION Spec
CONSTANTS
  Module = {a, b}
  HostModule = {a}
  Core = Core
  None = None
  Name = {x, Y}
  LocalName = {x}
  CoreName = {Y}
  MaxFrames = 3
  EarlyReturn = FALSE
INVARIANTS
  TypeOK
  ImportsFromImported
  BodyOnce
  UnsetExplained
PROPERTIES
  DefinedStays
  LinesRefused
CHECK_DEADLOCK FALSE
