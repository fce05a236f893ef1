CONSTANTS
  Readings <- MCReadings
  Sizes = {1, 2}
  Spawns = 1
  Changes = 3
  Tabs = {t1, t2}
  Keys <- MCKeys
  Texts = {"", "x"}
  Absent = "absent"
  Cut = "cut"
  NoAttempt = NoAttempt
  Nameless = ""
  NewText = ""
  Trim <- MCTrim
  Files <- MCFiles
  MaxEdits = 2
  MaxSaves = 2
  MaxFaults = 1
  Times = {1, 2}
  Members = {1, 2, 3}
  Series <- MCSeries
  MaxSeries = 2
  Timeframes = {2, 4}
  Day = 2
  Near = 0
  Start = 20
  End = 22
  MaxTouches = 4
  Minutes <- MCMinutes
  AlertSeries <- MCAlertSeries
  ReadHours = {0, 1, 2}
  DayHours = 2
  Powers <- MCPowers
  Writers = {"collector", "importer"}
  Dates = {1, 2, 3}
  Hours = {0, 1, 2, 3}
  PeriodNames <- MCPeriodNames
  Tariffs <- MCTariffs
  Collectors = {"ConfigCollector", "DeviceCollector"}
  Queries = {"q1", "q2"}
  None = "none"
  MaxAsks = 3
  MaxErrors = 1
  Buses <- MCBuses
  Users = {u1, u2}
  MaxConfigs = 2
  Panels <- MCPanels
  Offered = {"24h", "7d"}
  Configured = "7d"
  MaxClicks = 4
  MaxPending = 2
  MaxFailures = 1
SPECIFICATION WebSpec
INVARIANTS
  WebTypeOK
  OneWayAcross
  ChartsShowReadings
  AxisMatchesQuery
  BarsShowAlerts
  EnergyAgrees
  RateOnSchedule
  PagesShowAnswers
  PanelInStep
PROPERTIES
  SavesOnlyEdits
  LabelsAreRegister
  WebSettles
  DevicesKeepNumbers
  NoSnapBack
  ChartsCatchUp
  ConfigCatchesUp
CHECK_DEADLOCK FALSE
