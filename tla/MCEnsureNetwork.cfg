SPECIFICATION Spec
CONSTANTS
  v1 = v1
  v2 = v2
  g1 = g1
  g2 = g2
  foreign = foreign
  none = none
  l1 = l1
  l2 = l2
  i1 = i1
  Foreign = foreign
  None = none
  Gateway = {g1, g2}
  Block = {0, 1}
  Vcn = {v1, v2}
  Launch = {l1, l2}
  Ipv6 = {i1}
  MaxDisturbances = 1
SYMMETRY Symmetry
CHECK_DEADLOCK FALSE
INVARIANT AtMostOneVcn
INVARIANT Ipv6IsOnline
PROPERTY RoutesKept
PROPERTY CreatedSubnetIsOnline
