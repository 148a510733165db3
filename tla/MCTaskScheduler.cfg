SPECIFICATION FairSpec
CONSTANTS
  c1 = c1
  c2 = c2
  c3 = c3
  i1 = i1
  NoJob = NoJob
  Key <- MCKey
  CreateKey <- MCCreateKey
  Job = {c1, c2, c3, i1}
  KeyOf <- MCKeyOf
  Workers = 2
  SubmitMayFail = TRUE
CHECK_DEADLOCK FALSE
INVARIANT SchedulerInv
PROPERTY StopIsFinal
PROPERTY ActsAsPromised
PROPERTY Progress
