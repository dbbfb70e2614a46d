SPECIFICATION FairSpec
CONSTANTS
  Cards = {1}
  Card <- Cards
  Id <- MCId
  Hash <- MCHash
  Garbled = {}
  Name = {"NULL"}
  DefaultName = "NULL"
  Password = {"pw"}
  MaxUsers = 1
  MaxRetries = 4
  MaxFileLines = 1
  SdFaults = FALSE
  LogMaxSize = 2
  LogPacket = 2
  MaxLogFile = 0
  BootLine = 1
  AccessLines = {1}
  Flashes = 1
  PowerLoss = FALSE
  WebOps = {"remove", "add mode", "logs", "clear logs", "password"}
  Wifi = {"syncing", "offline"}
  NtpFails = TRUE
INVARIANT UnlockedIsAttended
PROPERTIES
  CardAnswered
  RelockedOnceShut
  UsesLogStore
CHECK_DEADLOCK FALSE
