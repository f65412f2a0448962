CONSTANTS
  KeyNodes = {"event0"}
  SensorNodes = {"event2"}
  OtherNodes = {}
  MAX_DEVICES = 1
  MAX_MISC_FDS = 3
  MaxPlugs = 4
  MaxKeys = 2
SPECIFICATION Spec
INVARIANTS
  TypeOK
  KeysActOnce
PROPERTIES
  KeyboardsFound
  KeysHandled
  HangUpsEnd
