SPECIFICATION Spec
CONSTANTS
  Thread = {t1, t2}
  Reader = {r1, r2}
  Peer = {p1}
  Key = {tick, delay}
  Value <- Two
  Default = 1
  Empty = Empty
  Garbled = Garbled
  Request <- OneKey
  MaxRequests = 2
ACTION_CONSTRAINT Apart
INVARIANT TypeOK SequentialPostsStick AnswerIsFresh
PROPERTY SettlesOnFile
