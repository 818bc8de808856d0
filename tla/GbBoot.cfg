SPECIFICATION Spec
CONSTANTS
  Modulus = 64
  WorkramSize = 16
  MaxPayload = 2
  Plans <- MCPlans
  Sizes = {8, 16, 17}
  MaxAsks = 2
  MaxApReady = 1
INVARIANTS
  TypeOK
  LoadedInPlace
  HashInOrder
  JumpIsAgreed
PROPERTIES
  DownloadEnds
