\* One device at a time; any step of Open up to the miscdev may fail.
SPECIFICATION SessionSpec
CONSTANTS
  b1 = b1
  b2 = b2
  Buffer <- MCOneBuffer
  s1 = s1
  s2 = s2
  s3 = s3
  p1 = p1
  p2 = p2
  p3 = p3
  a1 = a1
  a2 = a2
  a3 = a3
  a4 = a4
  NULL = NULL
  APP = APP
  Slot <- MCSlot
  ZeroId = {}
  BarNum <- MCBarNum
  Bars <- MCBars
  Ptr <- MCPtr
  Addr <- MCAddr
  MaxFd = 6
  DEVICES = 2
  Faults <- MCOpenFaults
  MaxHeld = 1
  RetryClose = FALSE
  AppFds = {0}
INVARIANTS
  HeldTracked
  TableHasRoom
  NoOrphanMapping
PROPERTY LeaseSpec
CHECK_DEADLOCK FALSE
