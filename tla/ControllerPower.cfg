CONSTANTS
  None = None
  ClockSteps <- MCStepOne
  Worlds <- MCWorldsPower
  CarDraws <- MCNoCar
  DayLength = 20
  MinModeDuration = 2
  MinDecisionInterval = 1
  IdleTimeout = 4
  MinIdleBeforeDischarge = 1
  ChargeMargin = 1
  DischargeMargin = 1
  ChargeDeadband = 4
  DischargeDeadband = 4
  Gain = 100
  SlewLimit = 5
  ChargeStart <- MCChargeStart
  DischargeStart = 2
  CycleWarn = 0
  ChargerMaxAge = 2
  Horizon = 5
SPECIFICATION Spec
INVARIANTS NoWindup
PROPERTIES FirstSetpointRamped
CONSTRAINT WithinHorizon
