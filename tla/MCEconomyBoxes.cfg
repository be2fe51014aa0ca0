SPECIFICATION EconSpec
CONSTANTS
  Agents = {"agent"}
  Coros = {1, 2}
  Host <- BoxHost
  Menus <- BoxMenu
  MaxInt = 2
  MaxLevel = 3
  DailyTimes = 1
  MaxDays = 1
INVARIANT BoxesLimited
CHECK_DEADLOCK FALSE
