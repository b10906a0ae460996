SPECIFICATION FairSpec
CONSTANTS
  Tables = {"payments", "refunds"}
  ShapesOf <- TwoTables
  UserTypes = {"mood"}
  Keys = {"id"}
  Values = {"fit", "unfit"}
  InitialShape <- AtFirst
  Uncontracted = {"refunds"}
  MaxWal = 2
  MaxDdl = 2
INVARIANTS DecodedAsWritten OnlyUserTypesRaise IInv
PROPERTIES GateIsExact NothingIsSkipped ConformingBacklogDrains
