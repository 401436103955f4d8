\* The client zeroes its result before each scan.
SPECIFICATION Spec
CONSTANTS
  s1 = s1
  s2 = s2
  s3 = s3
  s4 = s4
  cronologic = cronologic
  other = other
  tdc = tdc
  adc = adc
  ANY = ANY
  Slot <- MCSlot
  Id <- MCId
  Query <- MCQuery
  PCI_CARDS = 2
  ShortReads = FALSE
  ClearsResult = TRUE
INVARIANTS
  TypeOK
  ScanExact
  CountExact
  OverrunNeedsMatches
CHECK_DEADLOCK FALSE
