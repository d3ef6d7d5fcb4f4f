SPECIFICATION Spec
CONSTANTS
  Drone <- Three
  Cell <- Four
  Dist <- NearFar
  None = None
  FailDrone = 2
  FailAt = 2
  RecoveryDelay = 3
  Timeout = 1
  Duration = 8
  Gap <- ThirdIsFaint
  Target = 2
  ReclaimForceAt = 4
  TargetUnlockAt = 2
  TargetForceAt = 3
  MaxWork = 3
  SearchTicks = 2
  StopOnSurvivor = FALSE
INVARIANT TypeOK SharedOnlyAfterRelease RaiseOnlyAtStart RecoveryHolds ReleasedIsServed ForcedTargetIsFound
ACTION_CONSTRAINT FirstIsNear OneLossOrAll
PROPERTY OnlySilentDie
\* An exception ends the run.
CHECK_DEADLOCK FALSE
