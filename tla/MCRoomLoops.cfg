SPECIFICATION MCSpec
CONSTANTS
  N = 2
  Red = {1}
  Percents = {100}
  Requests = {"r1", "r2"}
  Kills = 1
  BattleTime = 1
  MayFall = {"red", "blue"}
  MayDrop = {}
  MayExit = {}
INVARIANT OneUpdateLoop
