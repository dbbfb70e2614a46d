SPECIFICATION Spec
CONSTANTS
  Card = {1}
  Id <- MCId
  Hash <- MCHash
  Garbled = {}
  Name = {"NULL"}
  DefaultName = "NULL"
  Password = {"pw"}
  MaxRetries = 4
  MaxLogFile = 4096
  SdFaults = FALSE
  LogMaxSize = 4096
  LogPacket = 1024
  BootLine = 14
  AccessLines = {49}
  PowerLoss = FALSE
  Lossy = FALSE
INVARIANT NoPanic
