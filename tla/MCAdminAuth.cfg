SPECIFICATION Spec
CONSTANTS
  root = root
  boss = boss
  p0 = p0
  p1 = p1
  l1 = l1
  l2 = l2
  u1 = u1
  u2 = u2
  ip1 = ip1
  none = none
  noone = noone
  EnvAccount = root
  EnvPassword = p0
  None = none
  NoOne = noone
  Ip = {ip1}
  Account = {root, boss}
  Password = {p0, p1}
  Strong = {p1}
  Login = {l1, l2}
  Update = {u1, u2}
  MaxFailures = 1
  BanDuration = 1
  MaxChanges = 2
  MaxLogins = 3
  MaxTime = 2
  MaxRestarts = 1
SYMMETRY Symmetry
CHECK_DEADLOCK FALSE
INVARIANT AuthInv
PROPERTY ReplacedByOwner
PROPERTY BanHolds
