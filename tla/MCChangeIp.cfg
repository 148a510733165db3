SPECIFICATION FairSpec
CONSTANTS
  w1 = w1
  w2 = w2
  r1 = r1
  a1 = a1
  a2 = a2
  Task = {1, 2}
  Worker = {w1, w2}
  Request = {r1}
  Ephemeral = {a1, a2}
  Reserved = reserved
  None = None
  Wanted = {a1}
  MaxAttempts = 2
  Tries = 2
  Kinds = {"change", "stop", "remove"}
  MaxDisturbances = 1
CHECK_DEADLOCK FALSE
INVARIANT RotationInv
INVARIANT ReportsTrue
INVARIANT SuccessStands
PROPERTY ReservedKept
PROPERTY EventuallyEnds
