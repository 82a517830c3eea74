SPECIFICATION LiveSpec
CONSTANTS
  MaxFix = 4
  NoFix = {2}
  Overlap = 1
INVARIANTS
  PartialNeverShown
  TornBounded
  LagBounded
PROPERTIES
  ReportsArrive
