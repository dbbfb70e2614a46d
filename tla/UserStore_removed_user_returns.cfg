SPECIFICATION FairSpec
CONSTANTS
  Card = {1, 2}
  Id <- MCId
  Hash <- MCHash
  Garbled = {}
  Name = {"NULL", "Ann"}
  DefaultName = "NULL"
  Password = {"pw"}
  MaxUsers = 2
  MaxRetries = 4
  MaxFileLines = 2
  SdFaults = FALSE
  PowerLoss = FALSE
  Lossy = FALSE
INVARIANT FileMirrorsCache
