CONSTANTS
  Components <- MCComponents
  None = None
  Torn = Torn
  PerInterval = 1
  Ring = 3
  Rolling = 2
  ClockStep = 4
  HistoryNow = 4
  HistoryRows = 4
  HistorySteps = 1
  DayStart <- MCDayStart
  HistoryDays = 1
  BackfillDays = 1
  PriceLevels = {1, 2}
  PriceRows = 2
  BlockSlots = 2
  DayHours = {4, 5}
  DayLength = 2
  Settle = 1
  Retention = 3
  Capacity = 1
  Requests = {r1, r2}
  PastDaysNow = 4
  MaxFailures = 1
  LogCapacity = 2
  Commands = {"idle", "charge"}
  Pages = {"page"}
  MaxDecisions = 5
  MaxFetches = 1
  RunDayLength = 3
  RunGrids <- MCGrids
  RunFlows <- MCFlows
  Feed <- MCFeed
  MaxGap = 2
  MaxDischarge = 2
  DynamicFee = 1
  FixedPrice = 2
  FixedCredit = 1
  RunNow = 5
  RunRows = 5
  RunSteps = 1
  Window = 3
  RteNow = 6
  RteSteps = 1
  MaxCrashes = 2
  MaxEdits = 2
  MaxFlowGap = 2
  PackInterval = 2
  PackStep = 3
  PackNow = 5
  PackRows = 3
  PackSteps = 1
  SlotSpan = 2
  HourSpan = 4
  QuarterRing = 8
  ScaleStep = 12
  AxisSteps = 6
  LastQuarter = 9
  MaxReadings = 2
SPECIFICATION MCSpec
INVARIANTS PricesKept CacheFresh LogKept TotalsFair
PROPERTIES HistoryKept PanelRight WindowKept FileKept
CHECK_DEADLOCK FALSE
