SPECIFICATION Spec
CONSTANTS
  Series = {1}
  LastDay = 4
  MonthOf <- TwoDayMonths
  DefaultStart = 1
PROPERTIES RerunsKeepQuotes
