CONSTANTS
  None = None
  Dates = 3
  DayLength = 8
  PollTimes = {0, 1}
  Delay = 2
  Pollers <- BothPollers
  Steps <- Clockwork
  MaxUpsets = 1
  MaxRestarts = 1
  Socs = {70, 90, 100}
  RetryAfter = 3
  CeilingUpsets = 2
  MaxDays = 1
SPECIFICATION BothSpec
INVARIANTS FetchesBounded
PROPERTIES AttemptsKept AttemptsSucceed
