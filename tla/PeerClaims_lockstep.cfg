SPECIFICATION Spec
CONSTANTS
  Drone <- Two
  Cell <- Three
  Dist <- Two
  None = None
  Transport = "local"
  FailureMode = "crash"
  MayFail <- Empty
  Suspectable <- Empty
  Synchronous = TRUE
  MaxTracked = 500
  TickLengths <- One
  Duration = 3
INVARIANT WinnersExclusive
ACTION_CONSTRAINT Lockstep
VIEW WithoutHistory
\* The run ends at config.duration.
CHECK_DEADLOCK FALSE
