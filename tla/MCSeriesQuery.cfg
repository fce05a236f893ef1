CONSTANTS
  Matching = 2
  Samples <- MCSamples
  Steps <- MCSteps
  Aggregates <- MCAggregates
  Zones <- MCZones
  TicksPerSecond = 2
  MaxGap = 2
SPECIFICATION Spec
INVARIANTS
  TypeOK
  EverySampleInItsBucket
  EnergyConserved
  BucketsSummarise
CHECK_DEADLOCK FALSE
