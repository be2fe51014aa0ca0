SPECIFICATION PartsSpec
CONSTANTS
  Callers = {t1, t2}
  Contexts = {c1, c2}
  SlotSize = 1
  HandleMask = 3
  Null = Null
  NearShift = 1
  LevelShift = 1
  Timers = {"a", "b"}
  MaxTicks = 2
  MqMessages = {0, 1}
  QueueSize = 2
  MqOverload = 1
  MaxQueued = 5
  Base = 2
  Plans <- TwoPlans
  HashSize = 1
  NetQueueSize = 2
  MaxClient = 2
  Worlds <- MCWorlds
  Agents = {"elder", "younger"}
  Coros = {1, 2, 3}
  Host <- MCHost
  Menus <- MCMenus
  MaxInt = 1
  MaxLevel = 3
  DailyTimes = 1
  MaxDays = 2
  MaxSocket = 2
  MaxId = 3
  Size = 2
  Workloads <- Loads
  NoSocket = NoSocket
  SkillData <- MCSkills
  Duration = 2
  Requests = {"request"}
  MaxCasts = 2
  Watchers = {"c1", "c2"}
  Reasons = {"skill", "raise"}
  MaxStamp = 3
INVARIANTS
  LockExcludes FoundAlive OnTime RingIsFifo
  PackagesWhole ConnectionsSound PathRight
   LevelsPaid DirtyOwned
  WireInOrder WriteArmed CloseUnderWay
  NoAffectOutlasts WaitersUpToDate ReasonsReported
PROPERTIES NothingAfterClose ExploreTimesTested
CHECK_DEADLOCK FALSE
