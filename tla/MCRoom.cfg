SPECIFICATION MCFairSpec
CONSTANTS
  N = 2
  Red = {1}
  Percents = {100}
  Requests = {"r1", "r2"}
  Kills = 1
  BattleTime = 1
  MayFall = {"blue"}
  MayDrop = {2}
  MayExit = {1}
INVARIANTS SettledOnce ResultsSound NoneSkipped LastLoaderStarts
PROPERTY RoomCloses
