\* Boards with and without gaps between their BARs.
SPECIFICATION Spec
CONSTANTS
  v1 = v1
  NULL = NULL
  NBARS = 3
  Boards <- MCBoards
  LENGTH_MOD = 32
  Addr <- MCAddr
  Base <- MCBase
  Offset <- MCOffset
  Value <- MCValue
  MaxWrites = 2
CHECK_DEADLOCK FALSE
INVARIANTS
  TypeOK
  DescsExact
  NamedBarIsRead
PROPERTY RegisterSpec
