SPECIFICATION Spec
CONSTANTS
  Contracts = {c1, c2}
  Symbols = {s1, s2}
  PageSize = 1
  MaxDecimals = 2
  Limit = 256
  MaxAssets = 3
  MaxMoves = 2
SYMMETRY Symmetry
INVARIANTS
  TypeOK
  PagesMissOnlyMoved
  HeldIsReported
  QuantitiesReadBack
CHECK_DEADLOCK FALSE
