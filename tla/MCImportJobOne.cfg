CONSTANTS
  Imports <- MCImports
  Lengths <- MCLengths
SPECIFICATION Spec
INVARIANTS
  OneImportAtATime
CHECK_DEADLOCK FALSE
