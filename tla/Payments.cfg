SPECIFICATION PaymentsSpec
CONSTANTS
  Attempts = {a1, a2, a3}
  MaxRestarts = 1
SYMMETRY Symmetry
INVARIANTS
  PaymentsTypeOK
  NoStuckKey
  VerdictReported
  RefundAnswered
  RefundOncePerRun
PROPERTIES
  VerdictStands
