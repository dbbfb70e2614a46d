SPECIFICATION Spec
CONSTANTS
  Cards = {1, 2}
  Card <- Cards
  Id <- MCId
  Hash <- MCHash
  Garbled = {}
  Name = {"NULL", "Ann"}
  DefaultName = "NULL"
  Password = {"pw"}
  MaxUsers = 1
  MaxRetries = 4
  MaxFileLines = 1
  SdFaults = FALSE
  LogMaxSize = 2
  LogPacket = 2
  MaxLogFile = 0
  BootLine = 1
  AccessLines = {1}
  Flashes = 0
  PowerLoss = TRUE
  WebOps = {"update", "remove", "remove all", "add mode"}
  Wifi = {"syncing", "offline"}
  NtpFails = TRUE
INVARIANTS
  LockdownTypeOK
  AnswerMatchesQuestion
  TimeInStep
PROPERTIES
  OnlyPanelLosesQuestions
  OnlyListedAdmitted
  GovernsDoor
  UsesUserStore
