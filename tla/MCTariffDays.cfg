CONSTANTS
  Dates = {1}
  Hours = {1, 12, 22}
  PeriodNames <- MCPeriodNames
  Tariffs <- MCTariffs
SPECIFICATION TariffSpec
INVARIANTS
  PricedByTheDay
CHECK_DEADLOCK FALSE
