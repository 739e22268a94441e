CONSTANTS
  None = None
  ClockSteps <- MCStepsNTP
  Worlds <- MCWorldsModes
  CarDraws <- MCCar
  DayLength = 7
  MinModeDuration = 2
  MinDecisionInterval = 1
  IdleTimeout = 4
  MinIdleBeforeDischarge = 3
  ChargeMargin = 0
  DischargeMargin = 0
  ChargeDeadband = 0
  DischargeDeadband = 0
  Gain = 100
  SlewLimit = 4
  ChargeStart <- MCChargeStart
  DischargeStart = 2
  CycleWarn = 3
  ChargerMaxAge = 2
  Horizon = 9
SPECIFICATION Spec
CONSTRAINT WithinHorizon
INVARIANTS InductiveInv RestBeforeDischarge CycleBudget
PROPERTIES ReversalsSpaced CarHeld
