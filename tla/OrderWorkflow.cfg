SPECIFICATION WorkflowSpec
CONSTANTS
  Workers = {w1}
  MaxRetries = 1
  Shipments = {s1}
  PaymentId = pay
  Transaction = tx
  NoId = noid
  Consumers = {k1}
  MaxConflicts = 1
PROPERTIES
  KeepsPromise
