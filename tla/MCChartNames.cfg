CONSTANTS
  Times = {1, 2}
  Members = {1, 2, 3}
  Series <- MCSeries
  MaxSeries = 2
SPECIFICATION ChartSpec
INVARIANTS
  ReadingsUnderTheirNames
CHECK_DEADLOCK FALSE
