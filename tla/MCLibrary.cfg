SPECIFICATION Spec
CONSTANTS
  Texts <- MCTexts
  Searches <- MCSearches
  Substitute <- MCSubstitute
  Junk = Junk
  Failed = Failed
  Undefined = Undefined
  Stop = Stop
  Scripts <- MCScripts
  Imports <- MCImports
  WorkingDirectory <- MCWorkingDirectory
  MaxImports = 3
INVARIANTS
  SlicesIterate
  SplitsAtFirst
  ResolvesBeside
CHECK_DEADLOCK FALSE
