\* Two devices at a time; the open of a miscdev may fail.
SPECIFICATION Spec
CONSTANTS
  s1 = s1
  s2 = s2
  p1 = p1
  p2 = p2
  p3 = p3
  a1 = a1
  a2 = a2
  a3 = a3
  a4 = a4
  NULL = NULL
  APP = APP
  Slot <- MCSlot
  ZeroId = {}
  BarNum <- MCBarNum
  Bars <- MCBars
  Ptr <- MCPtr
  Addr <- MCAddr
  MaxFd = 6
  DEVICES = 8
  Faults <- MCOpenFaults
  MaxHeld = 2
  RetryClose = FALSE
  AppFds = {0}
SYMMETRY MCSymmetry
INVARIANT TableHasRoom
CHECK_DEADLOCK FALSE
