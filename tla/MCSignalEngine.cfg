CONSTANTS
  Symbols = {s1}
  Views <- MCViews
  MinScore = 75
  Cooldown = 2
  MaxAge = 2
  Start = 2
  MaxTime = 4
  MaxRestarts = 1
SPECIFICATION Spec
INVARIANTS
  CooldownEarned
  SignalsFollowRegime
  NoSetupIsTrend
  RefusedByRoundingOnly
