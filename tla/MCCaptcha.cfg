SPECIFICATION CaptchaSpec
CONSTANTS
  i1 = i1
  i2 = i2
  any = any
  s1 = s1
  s2 = s2
  Resource = {i1, i2}
  Any = any
  MaxSize = 2
  Ttl = 2
  MaxClock = 3
  Sender = {s1, s2}
  MaxCodes = 3
  MaxUses = 2
CHECK_DEADLOCK FALSE
INVARIANT NothingElse
INVARIANT LatestUsable
