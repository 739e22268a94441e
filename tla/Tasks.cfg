CONSTANTS
  None = None
  IdentitySpans <- MCIdentity
  RequiredSpans <- MCRequired
  BestEffortSpans <- MCBestEffort
  Power = "power"
  Draws = {0, 1}
  Threshold = 1
  BlindWindow = 1
  MaxClockSteps = 1
  Identifiers = {"first", "second"}
  MaxSnapshots = 2
  MaxReassigned = 1
  MaxExpired = 2
  MaxFailed = 1
  Static = {"static"}
  Polled = {"pack"}
  QueueDepth = 2
  RequestDepth = 1
  MaxValues = 2
  MaxBreaks = 1
  DayLength = 8
  MaxInstant = 28
  Changes = {9, 10, 11, 12, 13, 14}
  LongestGap = 2
  PlugIns = {1, 3, 6}
  Unplugs = {2, 4, 7}
  Draw = 2
  Targets = {3, 4, 30}
SPECIFICATION Spec
INVARIANTS ChargerSound SessionKept BrokerShown
PROPERTIES CarSocSound PollsRecover BrokerServed
CHECK_DEADLOCK FALSE
