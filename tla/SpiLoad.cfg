SPECIFICATION Spec
CONSTANTS
  AddressSpace = 32
  FrameLimit = 4
  FifoDepth = 2
  Lengths = {0, 4, 7, 12, 14, 16}
  Places = {0, 26}
  MaxCalls = 3
INVARIANTS
  TypeOK
  NoOverrun
PROPERTIES
  KeepsContract
  CallReturns
