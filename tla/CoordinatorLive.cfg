CONSTANTS
  b1 = b1
  b2 = b2
  meter = meter
  Fleet <- OneBattery
  Meter = meter
  Period = 3
  Window = 9
  WriteTime = 7
  SyncTime = 0
  CanFail = {b1, meter}
  CanHang = {b1}
  MaxRestarts = 0
SPECIFICATION ReachableSpec
PROPERTIES OutageReasserted LoopLives
