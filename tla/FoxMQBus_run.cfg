CONSTANTS
  Foreign = {a}
  Own = {x, y}
  SeenCap = 2
  MaxAttempts = 2
  Timer = {t1, t2}
  MaxLog = 4
SPECIFICATION Spec
INVARIANT TypeOK WayBack OnceInWindow
SYMMETRY Alike
CONSTRAINT Open
ACTION_CONSTRAINT EarlyLosses NothingAfterClose
CHECK_DEADLOCK FALSE
