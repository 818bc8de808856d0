SPECIFICATION Spec
CONSTANTS
  Width = 5
  HeaderSizeMin = 1
  HeaderSizeMax = 3
  BlockSizeMax = 4
  Flashes <- MCWrapping
INVARIANT FoundIsInside
