SPECIFICATION Spec
CONSTANTS
  Card = {1}
  Id <- MCId
  Hash <- MCHash
  Garbled = {}
  Name = {"NULL"}
  DefaultName = "NULL"
  Password = {"pw"}
  MaxRetries = 2
  MaxLogFile = 16
  SdFaults = TRUE
  LogMaxSize = 12
  LogPacket = 5
  BootLine = 2
  AccessLines = {3}
  PowerLoss = TRUE
  Lossy = TRUE
INVARIANTS
  LogTypeOK
  LogFileBounded
