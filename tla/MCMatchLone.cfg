SPECIFICATION FairSpec
CONSTANTS
  Entries = {"e1"}
  Updates = {"u1", "u2"}
  Account <- Own
  Elo <- MCElo
  Level <- MCLevel
  MatchNum = 2
  KeepTimeout = 1
  StrictTimeout = 2
  StrictStep = 1
  EloStrict = 5
  EloStep = 1
  MayCancel = {}
  MaxPicks = 2
PROPERTY EventuallyPlays
