SPECIFICATION RuntimeSpec
CONSTANTS
  c1 = c1
  c2 = c2
  r1 = r1
  r2 = r2
  d1 = d1
  Config = {c1, c2}
  NoConfig = NoConfig
  Request = {r1, r2}
  NoOne = NoOne
  Dispatcher = {d1}
  MaxBots = 5
  MaxUpdates = 4
  MaxStarts = 1
CHECK_DEADLOCK FALSE
INVARIANT OnlySavedConfigurations
INVARIANT RuntimeMatches
INVARIANT NoLeakedBot
