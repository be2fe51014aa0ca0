SPECIFICATION Spec
CONSTANTS
  Entries = {"e1", "e2", "e3"}
  Updates = {"u1", "u2"}
  Account <- Own
  Elo <- MCElo
  Level <- MCLevel
  MatchNum = 3
  KeepTimeout = 1
  StrictTimeout = 2
  StrictStep = 1
  EloStrict = 5
  EloStep = 1
  MayCancel = {"e1"}
  MaxPicks = 2
INVARIANTS QueuedOnce GroupsSound NoMissedMatch
PROPERTY OnlyMatchedLeave
