SPECIFICATION Spec
CONSTANTS
  Workers = {w1}
  MaxRetries = 1
  Shipments = {s1}
  PaymentId = pay
  Transaction = tx
  NoId = noid
INVARIANTS
  RefundCarriesPaymentId
