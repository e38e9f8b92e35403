SPECIFICATION StockSpec
CONSTANTS
  p1 = p1
  p2 = p2
  o1 = o1
  o2 = o2
  Workers = {w1, w2}
  Products = {p1, p2}
  OrderIds = {o1, o2}
  Wanted <- MCWanted
  Supplied <- MCSupplied
  MaxUnits = 2
  MaxAdjusts = 1
  MaxCrashes = 1
SYMMETRY Symmetry
INVARIANTS
  StockTypeOK
  NoUnitsFromNowhere
  OneOutcome
PROPERTIES
  DecisionsStick
CHECK_DEADLOCK FALSE
