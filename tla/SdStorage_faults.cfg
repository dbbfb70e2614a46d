SPECIFICATION FairSpec
CONSTANTS
  Texts <- MCTexts
  MaxRetries = 3
  ReadBuffer = 2
  EndBuffer = 2
  Packet = 3
  Threshold = 4
  MaxLength = 4
  SdFaults = TRUE
  PowerLoss = TRUE
INVARIANTS
  StorageTypeOK
  AppendKeeps
  OverwriteReplaces
  ReadsBack
  TruncateKeepsEnd
PROPERTIES
  StepsAdvance
  OperationsEnd
