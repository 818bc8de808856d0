SPECIFICATION Spec
CONSTANTS
  Modulus = 16
  RamStart = 2
  RamEnd = 8
  SpiImages <- MCImages
  UniproImages <- MCFewImages
  PublicKeys = {"k1", "k2"}
INVARIANTS
  TypeOK
  TrustedImageIsSigned
  UntrustedRunsLocked
  NoStaleRam
  HandOffAgrees
  IdentityOfTrusted
  FailuresRecorded
  HaltReports
  IInv
PROPERTIES
  ErrnoSticky
  AnnouncedIsFinal
