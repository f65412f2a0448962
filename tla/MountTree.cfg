CONSTANTS
  Names <- MCNames
  FirstStage <- MCFirstStage
  Always <- MCAlways
  Partitions <- MCPartitions
  Skippable <- MCSkippable
  TargetDirs <- MCTargetDirs
  Overridden <- MCOverridden
SPECIFICATION Spec
INVARIANTS
  TypeOK
  ListIsCurrent
  FirstStageDelivered
  TargetFindsItsOwn
  SystemFreed
  NullDeviceAtHand
