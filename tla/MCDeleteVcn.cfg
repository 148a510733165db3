SPECIFICATION FairSpec
CONSTANTS
  s1 = s1
  s2 = s2
  g1 = g1
  g2 = g2
  nat = nat
  d1 = d1
  d2 = d2
  Subnet = {s1, s2}
  Gateway = {g1, g2}
  Other = {nat}
  Foreign = nat
  Managed = {s1, g1, g2}
  Deleter = {d1, d2}
  MaxOthers = 1
  MaxFailures = 1
CHECK_DEADLOCK FALSE
PROPERTY OthersKept
PROPERTY RepeatedDeletionEnds
