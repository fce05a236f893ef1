CONSTANTS
  p1 = p1
  p2 = p2
  Keys <- MCKeys
  Pages <- MCPages
  MaxStarts = 2
  MaxSaves = 2
SYMMETRY MCSymmetry
SPECIFICATION Spec
INVARIANTS
  SavedMeansStored
CHECK_DEADLOCK FALSE
