SPECIFICATION Spec
CONSTANTS
  Tables = {1, 2}
  Dates = {1, 2}
  Bodies <- Violations
  MaxLsn = 6
  BatchMaxRecords = 2
  IdleTimeout = TRUE
  MaxTransactions = 2
  MaxChanges = 2
INVARIANTS ConfirmedIsDurable GaugeIsDurable IInv TransactionsAreWhole ViolationHoldsTheSlot ConfirmsAtBoundaries
PROPERTIES LostRecordsReturn DeliversAtLeastOnce
