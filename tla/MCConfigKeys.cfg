SPECIFICATION ConfigSpec
CONSTANTS
  given = given
  a1 = a1
  a2 = a2
  r1 = r1
  r2 = r2
  Supplied = {given}
  Adder = {a1, a2}
  Remover = {r1, r2}
  MaxKeys = 2
  MaxRestarts = 1
SYMMETRY Interchangeable
CHECK_DEADLOCK FALSE
INVARIANT RowHasItsKey
INVARIANT NoOrphanedKey
