SPECIFICATION Spec
CONSTANTS
  Tables = {1}
  Dates = {1}
  Bodies <- OneTable
  MaxLsn = 5
  BatchMaxRecords = 3
  IdleTimeout = FALSE
  MaxTransactions = 2
  MaxChanges = 2
  Takeover = FALSE
INVARIANTS ConfirmedIsDurable TransactionsAreWhole ViolationHoldsTheSlot ConfirmedWasRead SharedInv
PROPERTIES DeliversAtLeastOnce
