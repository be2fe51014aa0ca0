\* Two logins of one account around one battle.
CONSTANTS
  Fds = {f1, f2}
  None = None
SPECIFICATION FairSpec
INVARIANT RefCounted
PROPERTIES AgentsExit
CHECK_DEADLOCK FALSE
