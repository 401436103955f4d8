\* No failure; the reader is served less than the file's size.
SPECIFICATION Spec
CONSTANTS
  UNSET = UNSET
  ConfigSize = 8
  Readable = 6
  Offsets <- MCOffsets
  Faults <- MCNoFaults
INVARIANT SuccessIsComplete
