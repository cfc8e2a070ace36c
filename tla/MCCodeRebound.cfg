SPECIFICATION Spec
CONSTANTS
  None = None
  Names = {"a", "b"}
  Programs <- Sources
  MaxLocals = 4
  MaxFields = 2
  MaxClasses = 2
INVARIANT FieldsInBounds
CHECK_DEADLOCK FALSE
