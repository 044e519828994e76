SPECIFICATION Spec
CONSTANTS
  MyFiles = mine
  CaseFolder = case
  OtherFolders = {case}
  Names = {report}
  MaxCopies = 2
  Documents = {d1, d2}
  Nothing = nothing
  Ids = {i1}
  Picks <- FirstNumbers
  Calls = {k1, k2}
PROPERTIES
  UploadNeverOverwrites
CHECK_DEADLOCK FALSE
