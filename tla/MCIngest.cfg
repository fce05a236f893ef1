CONSTANTS
  f1 = f1
  v1 = v1
  v2 = v2
  Loop = Loop
  Registered <- MCRegistered
  Forcers <- MCForcers
  Payloads <- MCPayloads
  Interval = 1
  MaxTime = 2
  MaxPasses = 2
  MaxForced = 1
  MaxStarts = 2
  MaxBegun = 4
SYMMETRY MCSymmetry
SPECIFICATION Spec
INVARIANTS
  TypeOK
PROPERTIES
  MarkCoversCollection
  ForcedReportHonest
CHECK_DEADLOCK FALSE
