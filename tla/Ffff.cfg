SPECIFICATION Spec
CONSTANTS
  Width = 5
  HeaderSizeMin = 1
  HeaderSizeMax = 3
  BlockSizeMax = 4
  Flashes <- MCFlashes
INVARIANTS
  TypeOK
  TableIsNewest
  ReportMatches
  ElementsApart
PROPERTIES
  LocateTerminates
