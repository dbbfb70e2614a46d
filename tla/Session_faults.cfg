SPECIFICATION FairSpec
CONSTANTS
  Card = {1}
  Id = {1, 2, 3}
  Hash <- MCHash
  Garbled = {}
  Name = {"NULL"}
  DefaultName = "NULL"
  Password = {"password", "a"}
  DefaultPassword = "password"
  PassHash <- MCPassHash
  TornHash = {3}
  Client = {c1, c2}
  Token = {t1, t2, t3, t4}
  SdFaults = TRUE
  PowerLoss = TRUE
INVARIANTS
  SessionTypeOK
  OneSession
  PasswordInForce
PROPERTIES
  SessionsEndForGood
  LoginsAnswered
