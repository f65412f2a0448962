CONSTANTS
  u1 = u1
  s1 = s1
  Images = {u1, s1}
  StorageOf <- MCStorageOf
  ImagesOn <- MCImagesOn
  MAIN_MENU_TIMEOUT = 2
  MaxClock = 3
SPECIFICATION Spec
INVARIANTS
  TypeOK
  BootTargetIntact
  DebugRequestHonoured
  MainCacheFresh
  SelectionMatchesMenu
  CountdownSelectsDefault
PROPERTIES
  UserdataConsent
  HandedOverStays
