CONSTANTS
  b1 = b1
  b2 = b2
  meter = meter
  Fleet <- OneBattery
  Meter = meter
  Period = 3
  Window = 9
  WriteTime = 2
  SyncTime = 0
  CanFail = {b1, meter}
  CanHang = {}
  MaxRestarts = 0
SPECIFICATION Spec
INVARIANTS GoneDownWasIdled
