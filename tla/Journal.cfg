CONSTANTS
  None = None
  Devices <- Fleet
  Readings = {1}
  QueueDepth = 2
  Retention = 2
  DayLength = 2
  Steps <- Forward
  MaxNow = 3
  MaxHanded = 5
  MaxCaptures = 1
  MaxFailures = 1
  MaxCrashes = 1
SPECIFICATION Spec
INVARIANTS RecordsSound CompleteVerifies
CHECK_DEADLOCK FALSE
