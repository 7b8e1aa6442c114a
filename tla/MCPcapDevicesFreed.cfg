CONSTANTS
  n1 = n1
  n2 = n2
  a4 = a4
  a6 = a6
  m1 = m1
  u1 = u1
  NoName = NoName
  Names <- MCNames
  V4s = {a4}
  V6s = {a6}
  Macs = {m1}
  Unknowns = {u1}
  MaxNodes <- MCMaxNodes
  MaxAddrs <- MCMaxAddrs
  KeepListAlive = FALSE
SPECIFICATION Spec
INVARIANTS
  NoReadAfterFree
CHECK_DEADLOCK FALSE
