SPECIFICATION LakeSpec
CONSTANTS
  Tables = {1, 2}
  Dates = {1}
  Bodies <- Both
  MaxLsn = 5
  BatchMaxRecords = 2
  IdleTimeout = FALSE
  MaxTransactions = 2
  MaxChanges = 2
  Payments = 2
INVARIANTS GoldHoldsThePersisted GoldIsWhole LakeInv
