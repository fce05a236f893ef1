CONSTANTS
  p1 = p1
  p2 = p2
  Keys <- MCKeys
  Pages <- MCPages
  MaxStarts = 2
  MaxSaves = 3
SYMMETRY MCSymmetry
SPECIFICATION Spec
INVARIANTS
  TypeOK
  FileKeepsToItself
  SettingsSurvive
PROPERTIES
  FirstSaveStands
CHECK_DEADLOCK FALSE
