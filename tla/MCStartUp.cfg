SPECIFICATION StartSpec
CONSTANTS
  Task = {1, 2}
  Legacy = {0, 3, 4, 6, 9, 11}
  MaxCrashes = 2
  Process = {1, 2}
  Own = 1
  MaxPolls = 1
CHECK_DEADLOCK FALSE
INVARIANT Upgraded
INVARIANT VersionsTruthful
INVARIANT VolumesKept
INVARIANT SecretsAgree
