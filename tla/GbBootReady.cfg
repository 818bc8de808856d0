SPECIFICATION Spec
CONSTANTS
  Modulus = 64
  WorkramSize = 16
  MaxPayload = 2
  Plans <- MCOnePlan
  Sizes = {8}
  MaxAsks = 0
  MaxApReady = 2
INVARIANT LoadedInPlace
