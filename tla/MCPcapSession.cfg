CONSTANTS
  h1 = h1
  h2 = h2
  f1 = f1
  Handles <- MCHandles
  Filters <- MCFilters
  MaxPackets <- MCMaxPackets
  MaxHeld <- MCMaxHeld
  MaxBorrows <- MCMaxBorrows
  Disciplined = TRUE
SPECIFICATION Spec
INVARIANTS
  SessionTypeOK
  PacketsPinPcap
  BorrowsAccount
CHECK_DEADLOCK FALSE
