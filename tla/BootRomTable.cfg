SPECIFICATION Spec
CONSTANTS
  Modulus = 16
  RamStart = 2
  RamEnd = 8
  SpiImages <- MCImages
  UniproImages <- MCOneImage
  PublicKeys = {"k1"}
INVARIANT ProcessedTableIsValid
