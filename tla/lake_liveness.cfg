SPECIFICATION LakeFairSpec
CONSTANTS
  Tables = {1, 2}
  Dates = {1}
  Bodies <- TwoTables
  MaxLsn = 4
  BatchMaxRecords = 2
  IdleTimeout = FALSE
  MaxTransactions = 2
  MaxChanges = 1
  Payments = 2
PROPERTIES EventuallyConfirmed EventuallyInGold
