CONSTANTS
  None = None
  ClockSteps <- MCTick
  Worlds <- MCNone_
  CarDraws <- MCNone_
  DayLength = 1000
  MinModeDuration = 6
  MinDecisionInterval = 0
  IdleTimeout = 12
  MinIdleBeforeDischarge = 6
  ChargeMargin = 1
  DischargeMargin = 1
  ChargeDeadband = 2
  DischargeDeadband = 2
  Gain = 50
  SlewLimit = 4
  ChargeStart <- MCChargeStart
  DischargeStart = 2
  CycleWarn = 0
  ChargerMaxAge = 2
  Rate = 8
  MaxCharge = 24
  MaxDischarge = 8
  Capacity = 60000
  ChargeGain = 1
  DischargeCost = 2
  TickLength = 3
  Lags <- MCLags
  Demands <- MCDemands
  Stores = {9000, 57000}
  MinSoc = 10
  MaxSoc = 100
  BlindRounds = 3
  SettleRounds = 19
  MaxDisturbed = 1
  MaxMissed = 4
  Horizon = 105
SPECIFICATION LoopSpec
INVARIANTS LoopSettles
PROPERTIES TenuresFollowDemand PlantSound
CONSTRAINT WithinHorizon
CHECK_DEADLOCK FALSE
