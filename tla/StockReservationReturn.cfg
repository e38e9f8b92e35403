SPECIFICATION StockSpec
CONSTANTS
  p1 = p1
  p2 = p2
  o1 = o1
  o2 = o2
  Workers = {w1}
  Products = {p1}
  OrderIds = {o1}
  Wanted <- MCOneWanted
  Supplied <- MCOneSupplied
  MaxUnits = 2
  MaxAdjusts = 0
  MaxCrashes = 0
INVARIANT
  ReleasedUnitsReturn
CHECK_DEADLOCK FALSE
