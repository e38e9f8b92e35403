SPECIFICATION FairSpec
CONSTANTS
  Workers = {w1, w2}
  MaxRetries = 2
  Shipments = {s1, s2}
  PaymentId = pay
  Transaction = tx
  NoId = noid
INVARIANTS
  TypeOK
  CommandsOnce
  CompensationMatchesOutcome
  FulfilmentNeedsBoth
PROPERTIES
  ForwardOnly
  ImplementsLifecycle
  PendingSettles
