SPECIFICATION FairSpec
CONSTANTS
  w1 = w1
  w2 = w2
  r1 = r1
  NoTask = NoTask
  NoWorker = NoWorker
  Task = {1, 2}
  Worker = {w1, w2}
  Request = {r1}
  Named = {1}
  Kinds = {"stop","pause","resume","remove"}
  Requested = 1
  MaxAttempts = 2
  Domains = 2
  Rotating = TRUE
  MaxDisturbances = 2
CHECK_DEADLOCK FALSE
INVARIANT TaskInv
INVARIANT NoSurplusInstance
INVARIANT Accounted
PROPERTY EventuallyEnds
