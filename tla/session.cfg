\* As many devices as descriptors allow, two buffers, every system call may
\* fail, no file is open at first, not even descriptor 0.
SPECIFICATION SessionSpec
CONSTANTS
  b1 = b1
  b2 = b2
  Buffer <- MCBuffer
  s1 = s1
  s2 = s2
  p1 = p1
  p2 = p2
  p3 = p3
  a1 = a1
  a2 = a2
  a3 = a3
  a4 = a4
  NULL = NULL
  APP = APP
  s3 = s3
  Slot <- MCSessionSlot
  ZeroId = {s3}
  BarNum <- MCBarNum
  Bars <- MCSessionBars
  Ptr <- MCPtr
  Addr <- MCAddr
  MaxFd = 5
  DEVICES = 2
  Faults <- Fault
  MaxHeld = 3
  RetryClose = FALSE
  AppFds = {}
SYMMETRY MCSessionSymmetry
INVARIANTS
  TypeOK
  TableSound
  FdOwned
  BarsMapped
  NoOrphanFile
  BuffersReachable
  CleanupOwn
CHECK_DEADLOCK FALSE
