CONSTANTS
  None = None
  Watts = {3}
  MaxMeddling = 1
  MaxRestarts = 1
SPECIFICATION LiveSpec
INVARIANTS SettingsSound
PROPERTIES FlashOnlyUnseen StorageModeHeals
