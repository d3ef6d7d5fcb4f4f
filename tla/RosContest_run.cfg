SPECIFICATION RosSpec
CONSTANTS
  Drone <- Three
  Start = 0
  Edge = 2
  MayFail <- Last
  None = None
INVARIANT RosTypeOK PushedByRank
ACTION_CONSTRAINT FewResults
