SPECIFICATION Spec
CONSTANTS
  Threshold = 3
  MaxMsg = 6
  MaxHeard = 1
INVARIANT TypeOK NoLineTwice DeadHelperStalls DeadHelperIsLeft GivenUpInARow
\* The run ends with close(), an exception or the last message.
CHECK_DEADLOCK FALSE
