SPECIFICATION UpdateSpec
CONSTANTS
  Width = 5
  HeaderSizeMin = 1
  HeaderSizeMax = 3
  BlockSizeMax = 4
  Flashes = {}
  Table <- MCTable
  Locations = {8, 12, 16}
  MaxGeneration = 4
  MaxPowerCuts = 4
INVARIANTS
  SpareIsFound
  FirmwareComplete
  NoRollback
