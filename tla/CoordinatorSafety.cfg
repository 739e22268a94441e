CONSTANTS
  b1 = b1
  b2 = b2
  meter = meter
  Fleet <- TwoBatteries
  Meter = meter
  Period = 2
  Window = 6
  WriteTime = 1
  SyncTime = 0
  CanFail = {b1, meter}
  CanHang = {b1}
  MaxRestarts = 1
SPECIFICATION Spec
INVARIANTS CommandsSound BlindnessBounded
PROPERTIES DecidedTogether FailsafeKept
