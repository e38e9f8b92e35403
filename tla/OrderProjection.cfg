SPECIFICATION ClosingSpec
CONSTANTS
  Consumers = {k1, k2}
  MaxConflicts = 1
INVARIANTS
  ProjectionTypeOK
  SalesRequestedOnce
  CancelledOnce
PROPERTIES
  StatusNeverFallsBack
  RowSettles
