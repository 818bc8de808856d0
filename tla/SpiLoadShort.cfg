SPECIFICATION Spec
CONSTANTS
  AddressSpace = 32
  FrameLimit = 4
  FifoDepth = 2
  Lengths = {2}
  Places = {0}
  MaxCalls = 1
INVARIANT NoOverrun
