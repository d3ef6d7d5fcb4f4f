CONSTANTS
  p1 = p1
  p2 = p2
  p3 = p3
  Peer = {p1, p2, p3}
  Cell = {A}
  None = None
  Half = 3
  Done = 6
  Top = 9
  Rounded <- ToThirds
  Decay = 2
  Increment = 5
  Interval = 2
  Rejoining = {p3}
  MaxClock = 2
  MaxLost = 1
ACTION_CONSTRAINT TwoSearch
SPECIFICATION Spec
INVARIANT TypeOK MergedIsLatest NoEcho QuiescentAgreement
PROPERTY RegistrySpec
CHECK_DEADLOCK FALSE
