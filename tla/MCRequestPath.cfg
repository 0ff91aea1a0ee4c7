SPECIFICATION PartsSpec
CONSTANTS
  r1 = r1
  u1 = u1
  Nobody = Nobody
  i1 = i1
  i2 = i2
  N = 2
  ErrorMails = TRUE
  Models <- SmallModels
  Instances <- TwoInstances
  MaxSelected = 2
  MaxQueries = 2
INVARIANTS
  MappingTypeOK
  NoWriteAfterFailure
  AnswerMatchesStore
  NullIsExplained
  ResultTellsEffect
  NothingHeld
  ScanFitsColumns
PROPERTIES
  EveryRequestEnds
  OperationIsAnswered
  ScanAllFitsSelectAll
CHECK_DEADLOCK FALSE
