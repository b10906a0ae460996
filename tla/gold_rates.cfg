SPECIFICATION GoldSpec
CONSTANTS
  Series = {1, 2}
  LastDay = 3
  MonthOf <- TwoDayMonths
  DefaultStart = 1
  MaxGap = 1
  MaxPayments = 2
INVARIANTS NoHoles IInv GoldInv
PROPERTIES ResumedRunsKeepQuotes DropsOnlyAfterEnd RunsComplete DatedRunsComplete MissesOnlyTheTail
