SPECIFICATION Spec
CONSTANTS
  Entries = {"e1", "e2"}
  Updates = {"u1"}
  Account <- Own
  Elo <- FarElo
  Level <- MCLevel
  MatchNum = 2
  KeepTimeout = 1
  StrictTimeout = 2
  StrictStep = 1
  EloStrict = 5
  EloStep = 1
  MayCancel = {"e1"}
  MaxPicks = 2
INVARIANT BeingMatched
