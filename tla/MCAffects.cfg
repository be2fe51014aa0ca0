SPECIFICATION AffSpec
CONSTANTS
  SkillData <- SlowAndBurn
  Duration = 2
  Requests = {}
  MaxCasts = 1
INVARIANT UpdatesGoOn
CHECK_DEADLOCK FALSE
