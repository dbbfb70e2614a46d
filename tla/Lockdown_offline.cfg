SPECIFICATION FairSpec
CONSTANTS
  Cards = {1}
  Card <- Cards
  Id <- MCId
  Hash <- MCHash
  Garbled = {}
  Name = {"NULL"}
  DefaultName = "NULL"
  Password = {"pw"}
  MaxUsers = 1
  MaxRetries = 4
  MaxFileLines = 1
  SdFaults = FALSE
  LogMaxSize = 4
  LogPacket = 4
  MaxLogFile = 0
  BootLine = 1
  AccessLines = {1}
  Flashes = 1
  PowerLoss = TRUE
  WebOps = {"add mode"}
  Wifi = {"syncing", "offline"}
  NtpFails = FALSE
PROPERTY OfflineCardAnswered
