\* No failure; the client leaves its pointers as they are.
SPECIFICATION Spec
CONSTANTS
  u1 = u1
  u2 = u2
  v1 = v1
  v2 = v2
  p1 = p1
  p2 = p2
  p3 = p3
  p4 = p4
  a1 = a1
  a2 = a2
  a3 = a3
  i1 = i1
  i2 = i2
  i3 = i3
  i4 = i4
  NULL = NULL
  SGVar <- MCSGVar
  ContigVar <- MCContigVar
  Ptr <- MCPtr
  Addr <- MCAddr
  Id <- MCId
  Faults <- MCNoFaults
  ResetsPointer = FALSE
INVARIANT HeldLocked
