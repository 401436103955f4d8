\* A board with BARs 0 and 1.
SPECIFICATION Spec
CONSTANTS
  v1 = v1
  NULL = NULL
  NBARS = 3
  Boards <- MCDenseBoard
  LENGTH_MOD = 32
  Addr <- MCAddr
  Base <- MCBase
  Offset <- MCOffset
  Value <- MCValue
  MaxWrites = 1
INVARIANT InRangeIsServed
CHECK_DEADLOCK FALSE
