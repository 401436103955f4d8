\* Every split of every transfer, with a failure at every step.
SPECIFICATION FairSpec
CONSTANTS
  UNSET = UNSET
  ConfigSize = 8
  Readable = 6
  Offsets <- MCOffsets
  Faults <- MCFaults
INVARIANTS
  TypeOK
  ReadInPlace
  WriteInPlace
  WriteCompletes
PROPERTY CallReturns
