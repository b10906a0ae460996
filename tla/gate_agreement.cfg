SPECIFICATION FairSpec
CONSTANTS
  Tables = {"payments"}
  ShapesOf <- OneTable
  UserTypes = {}
  Keys = {"id"}
  Values = {"fit"}
  InitialShape <- OneAtFirst
  Uncontracted = {}
  MaxWal = 2
  MaxDdl = 2
PROPERTIES AgreementResumesIngestion
