\* The client leaves as the battle begins.
CONSTANTS
  Fds = {f1, f2}
  None = None
SPECIFICATION Spec
PROPERTY InBattleStays
CHECK_DEADLOCK FALSE
