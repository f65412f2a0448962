CONSTANTS
  Unknown = Unknown
  Hardware <- MCHardware
  MaxVersion = 4
SPECIFICATION Spec
INVARIANTS
  TypeOK
  MainMonitorChosen
  ShownIsLatest
  ExitLeavesNoMenu
PROPERTIES
  ImplementsBackend
  RoutinesEnd
CHECK_DEADLOCK FALSE
