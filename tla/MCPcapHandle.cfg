CONSTANTS
  h1 = h1
  h2 = h2
  f1 = f1
  f2 = f2
  Handles <- MCHandles
  Filters <- MCFilters
  MaxBorrows <- MCMaxBorrows
SPECIFICATION Spec
INVARIANTS
  TypeOK
  ReleaseOnce
  NoUseAfterClose
  BuilderSessionActive
  IInv
CHECK_DEADLOCK FALSE
