SPECIFICATION Spec
CONSTANTS
  Card = {1, 2}
  Id <- MCId
  Hash <- MCHash
  Garbled = {12}
  Name = {"NULL", "Ann"}
  DefaultName = "NULL"
  Password = {"pw"}
  MaxUsers = 2
  MaxRetries = 2
  MaxFileLines = 2
  SdFaults = TRUE
  PowerLoss = TRUE
  Lossy = TRUE
INVARIANTS
  StoreTypeOK
  OnlyHashesStored
  CacheBacked
PROPERTY NobodyDropped
