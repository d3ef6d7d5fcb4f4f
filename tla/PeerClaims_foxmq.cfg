SPECIFICATION Spec
CONSTANTS
  Drone <- Two
  Cell <- One
  Dist <- One
  None = None
  Transport = "foxmq"
  FailureMode = "crash"
  MayFail <- One
  Suspectable <- One
  Synchronous = FALSE
  MaxTracked = 1
  TickLengths <- Lengths
  Duration = 9
INVARIANT TypeOK NoOverdueClaim OwnIdsDiffer DeadByRelease
PROPERTY CellOnlyByRound OwnClaimDecided OwnRoundsApply
CONSTRAINT StartsLong
ACTION_CONSTRAINT PollRunsOut LateChange
\* The run ends at config.duration.
CHECK_DEADLOCK FALSE
