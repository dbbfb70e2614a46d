------------------------- MODULE LockdownRefinement -------------------------
(***************************************************************************)
(* The tasks together use the user database and the log the way UserStore  *)
(* and LogStore say, and govern the door the way Access says.  What        *)
(* UserStoreProofs and LogStoreProofs prove of the parts is thereby a      *)
(* theorem about the lockbox.                                              *)
(***************************************************************************)
EXTENDS LockdownProofs

StoreTheory == INSTANCE UserStoreProofs WITH Lossy <- TRUE
LogTheory   == INSTANCE LogStoreProofs WITH Lossy <- TRUE

---------------------------------------------------------------------------
(* The command slot.  A step that is foreign to a part is its OtherTraffic *)
(* only if it puts in, or takes out, a command of another part; so what    *)
(* the slot holds has to be known, and with it the card the io task has.   *)

CommandInv == QuestionInv /\ cmd \subseteq Command

LogCommand == {ClearLog} \cup {LogUser(id) : id \in Hashed}

(* The slot is left alone, or used for commands outside mine. *)
Elsewhere(mine) ==
  \/ UNCHANGED cmd
  \/ \E c \in Command \ mine : cmd' = {c}
  \/ cmd \cap mine = {} /\ cmd' = {}

LEMMA Vocabulary ==
  /\ Hashed \subseteq Stored /\ Stored \subseteq Id
  /\ \A c \in Card : c \in Id /\ Hash[c] \in Hashed
BY VocabularyAssumption DEF Hashed, Stored

(* Which command belongs to whom. *)
LEMMA CommandsOfStore ==
  /\ \A c \in Card : Store!AddUser(c) \in UserCommand
  /\ \A h \in Stored : Store!RemoveUser(h) \in UserCommand
  /\ \A h \in Stored, n \in Name : Store!UpdateUser(h, n) \in UserCommand
  /\ Store!RemoveAllUsers \in UserCommand
BY DEF UserCommand, Store!AddUser, Store!RemoveUser, Store!UpdateUser, Store!RemoveAllUsers

LEMMA CommandsOfLog ==
  /\ Log!ClearLog \in OtherCommand /\ ClearLog \in OtherCommand
  /\ \A h \in Hashed : LogUser(h) \in OtherCommand
BY DEF OtherCommand, Log!ClearLog, ClearLog, LogUser

LEMMA CommandsOfRest ==
  /\ AddUserMode \in OtherCommand
  /\ \A h \in Hashed : IsUser(h) \in OtherCommand
  /\ \A p \in Password : SetPassword(p) \in OtherCommand
BY DEF OtherCommand, AddUserMode, IsUser, SetPassword

(* A command is known by its op. *)
LEMMA CommandKinds ==
  ASSUME NEW c \in Command
  PROVE  /\ c \in UserCommand => c.op \in {"AddUser", "RemoveUser", "UpdateUser", "RemoveAllUsers"}
         /\ c \in OtherCommand => c.op \in {"IsUser", "SetPassword", "AddUserMode", "ClearLog", "LogUser"}
         /\ c \in UserCommand \/ c \in OtherCommand
         /\ c.op \in {"IsUser", "LogUser"} => c.id \in Hashed
         /\ c.op = "ClearLog" => c = ClearLog
         /\ c.op = "AddUserMode" => c = AddUserMode
         /\ c.op = "LogUser" => c = LogUser(c.id)
<1>1. CASE c \in UserCommand
  BY <1>1 DEF UserCommand, OtherCommand
<1>2. CASE c \in [op : {"ClearLog", "AddUserMode"}]
  BY <1>2 DEF UserCommand, OtherCommand, ClearLog, AddUserMode
<1>3. CASE c \in [op : {"IsUser", "LogUser"}, id : Hashed]
  <2>1. c = [op |-> c.op, id |-> c.id]
    BY <1>3
  <2> QED BY <1>3, <2>1 DEF UserCommand, OtherCommand, LogUser
<1>4. CASE c \in [op : {"SetPassword"}, password : Password]
  BY <1>4 DEF UserCommand, OtherCommand
<1> QED BY <1>1, <1>2, <1>3, <1>4 DEF Command, OtherCommand

(* The parts have the same vocabulary as the whole. *)
LEMMA SameCommands ==
  /\ Store!OtherCommand = OtherCommand
  /\ Log!Command = Command
  /\ Log!LogCommand = LogCommand
BY DEF LogCommand, Store!OtherCommand, OtherCommand, Store!Hashed, Hashed, Log!Hashed, Stored, Log!Stored,
   Log!Command, Command, Log!UserCommand, UserCommand, Log!OtherCommand, Log!LogCommand, Log!ClearLog, Log!LogUser, ClearLog, LogUser

LEMMA StoreElsewhere ==
  CommandInv /\ UNCHANGED storeVars /\ Elsewhere(UserCommand) => [Store!Next]_(Store!storeVars)
<1> SUFFICES ASSUME CommandInv, UNCHANGED storeVars, Elsewhere(UserCommand)
             PROVE  [Store!Next]_(Store!storeVars)
  OBVIOUS
<1>1. \A c \in Command : c \notin UserCommand => c \in OtherCommand
  BY CommandKinds
<1>2. UNCHANGED cmd \/ (\E c \in OtherCommand : cmd' = {c}) \/ (cmd \subseteq OtherCommand /\ cmd' = {})
  BY <1>1 DEF CommandInv, Elsewhere
<1> QED BY <1>2, SameCommands DEF Store!Next, Store!OtherTraffic, Store!storeVars, Store!fileVars, Store!history, storeVars

LEMMA LogElsewhere ==
  CommandInv /\ UNCHANGED logVars /\ Elsewhere(LogCommand) => [Log!Next]_(Log!logVars)
BY SameCommands DEF Elsewhere, Log!Next, Log!OtherTraffic, Log!logVars, logVars

LEMMA Apart == UserCommand \cap LogCommand = {} /\ LogCommand \subseteq OtherCommand
<1>1. LogCommand \subseteq OtherCommand
  BY CommandsOfLog DEF LogCommand
<1> QED BY <1>1, CommandKinds DEF Command

---------------------------------------------------------------------------
(* The steps that are the user database's, the log's, and neither's. *)

StoreMoves ==
  /\ [Store!Next]_(Store!storeVars)
  /\ UNCHANGED logVars
  /\ Elsewhere(LogCommand)

LogMoves ==
  /\ [Log!Next]_(Log!logVars)
  /\ UNCHANGED storeVars
  /\ Elsewhere(UserCommand)

(* Everyone else uses the slot for commands that are neither's. *)
Neutral == Command \ (UserCommand \cup LogCommand)

NeutralMoves ==
  /\ UNCHANGED <<storeVars, logVars>>
  /\ UNCHANGED cmd \/ (\E c \in Neutral : cmd' = {c}) \/ (cmd \subseteq Neutral /\ cmd' = {})

LEMMA NeutralKinds ==
  /\ \A c \in Command : c.op \in {"IsUser", "SetPassword", "AddUserMode"} => c \in Neutral
  /\ AddUserMode \in Neutral /\ \A p \in Password : SetPassword(p) \in Neutral
<1>1. \A c \in LogCommand : c.op \in {"ClearLog", "LogUser"}
  BY DEF LogCommand, ClearLog, LogUser
<1>2. \A c \in Command : c.op \in {"IsUser", "SetPassword", "AddUserMode"} => c \in Neutral
  BY <1>1, CommandKinds DEF Neutral
<1>3. /\ AddUserMode \in Command /\ AddUserMode.op = "AddUserMode"
      /\ \A p \in Password : SetPassword(p) \in Command /\ SetPassword(p).op = "SetPassword"
  BY CommandsOfRest DEF Command, AddUserMode, SetPassword
<1> QED BY <1>2, <1>3

LEMMA SdUsersMoves == CommandInv /\ SdUsers => StoreMoves
<1> SUFFICES ASSUME CommandInv, SdUsers PROVE StoreMoves
  OBVIOUS
<1>1. Store!SdStep
  BY DEF SdUsers, Store!SdStep
<1>2. UNCHANGED logVars
  BY DEF SdUsers
<1>3. /\ UNCHANGED cmd \/ cmd' = {}
      /\ cmd' = cmd \/ \E c \in cmd : c.op \in {"AddUser", "RemoveUser", "UpdateUser", "RemoveAllUsers"}
  BY <1>1 DEF Store!SdStep, Store!LoadUsers, Store!AddUserTake, Store!AddUserWrite, Store!AddUserFails, Store!AddUserPush,
     Store!RemoveUserOpen, Store!RemoveUserWrite, Store!RemoveUserRetain, Store!ChangeNameOpen,
     Store!ChangeNameWrite, Store!RemoveAllDelete, Store!RemoveAllClear
<1>4. \A c \in LogCommand : c.op \notin {"AddUser", "RemoveUser", "UpdateUser", "RemoveAllUsers"}
  BY DEF LogCommand, ClearLog, LogUser
<1>5. Elsewhere(LogCommand)
  BY <1>3, <1>4 DEF Elsewhere, CommandInv, QuestionInv, IsSlot
<1> QED BY <1>1, <1>2, <1>5 DEF StoreMoves, Store!Next

LEMMA WebUsersMoves == CommandInv /\ WebUsers => StoreMoves
<1> SUFFICES ASSUME CommandInv, WebUsers PROVE StoreMoves
  OBVIOUS
<1>1. UNCHANGED logVars
  BY DEF WebUsers
<1>2. \A c \in UserCommand : c \in Command \ LogCommand
  BY Apart DEF Command
<1>3. ASSUME NEW id \in Stored, NEW n \in Name, Store!WebUpdateUser(id, n)
      PROVE  Store!Next /\ Elsewhere(LogCommand)
  <2>1. Store!Next
    BY <1>3, Vocabulary DEF Store!Next
  <2>2. cmd' = {Store!UpdateUser(id, n)}
    BY <1>3 DEF Store!WebUpdateUser
  <2> QED BY <1>2, <2>1, <2>2, CommandsOfStore DEF Elsewhere
<1>4. ASSUME NEW id \in Stored, Store!WebRemoveUser(id)
      PROVE  Store!Next /\ Elsewhere(LogCommand)
  <2>1. Store!Next
    BY <1>4, Vocabulary DEF Store!Next
  <2>2. cmd' = {Store!RemoveUser(id)}
    BY <1>4 DEF Store!WebRemoveUser
  <2> QED BY <1>2, <2>1, <2>2, CommandsOfStore DEF Elsewhere
<1>5. ASSUME Store!WebRemoveAllUsers
      PROVE  Store!Next /\ Elsewhere(LogCommand)
  <2>1. Store!Next
    BY <1>5 DEF Store!Next
  <2>2. cmd' = {Store!RemoveAllUsers}
    BY <1>5 DEF Store!WebRemoveAllUsers
  <2> QED BY <1>2, <2>1, <2>2, CommandsOfStore DEF Elsewhere
<1>6. Store!Next /\ Elsewhere(LogCommand)
  BY <1>3, <1>4, <1>5 DEF WebUsers
<1> QED BY <1>1, <1>6 DEF StoreMoves

LEMMA SdLogsMoves == CommandInv /\ (SdLogs \/ SdAskTime \/ SdTimeKnown) => LogMoves
<1> SUFFICES ASSUME CommandInv, SdLogs \/ SdAskTime \/ SdTimeKnown PROVE LogMoves
  OBVIOUS
<1>1. Log!SdStep
  BY DEF SdLogs, SdAskTime, SdTimeKnown, Core1Runs, Log!SdStep
<1>2. UNCHANGED storeVars
  BY DEF SdLogs, SdAskTime, SdTimeKnown
<1>3. /\ UNCHANGED cmd \/ cmd' = {}
      /\ cmd' = cmd \/ \E c \in cmd : c = Log!ClearLog \/ c.op = "LogUser"
  BY <1>1 DEF Log!SdStep, Log!LoadLogs, Log!TakeLogUser, Log!Stamped, Log!Measure, Log!Keep, Log!AppendLine,
     Log!Refresh, Log!SdClearLog
<1>4. \A c \in UserCommand : c.op \notin {"ClearLog", "LogUser"}
  BY CommandKinds DEF Command
<1>5. Log!ClearLog.op = "ClearLog"
  BY DEF Log!ClearLog
<1>6. Elsewhere(UserCommand)
  BY <1>3, <1>4, <1>5 DEF Elsewhere, CommandInv, QuestionInv, IsSlot
<1> QED BY <1>1, <1>2, <1>6 DEF LogMoves, Log!Next

LEMMA WebLogsMoves == CommandInv /\ (WebLogs \/ WebLogsSent) => LogMoves
<1> SUFFICES ASSUME CommandInv, WebLogs \/ WebLogsSent PROVE LogMoves
  OBVIOUS
<1>1. UNCHANGED storeVars
  BY DEF WebLogs, WebLogsSent
<1>2. Log!Next
  BY DEF WebLogs, WebLogsSent, Log!Next
<1>3. UNCHANGED cmd \/ cmd' = {Log!ClearLog}
  BY DEF WebLogs, WebLogsSent, Log!StreamBegin, Log!StreamEnd, Log!WebClearLogs
<1>4. Log!ClearLog \in Command \ UserCommand
  <2>1. Log!ClearLog = ClearLog
    BY DEF Log!ClearLog, ClearLog
  <2>2. ClearLog \in LogCommand
    BY DEF LogCommand
  <2> QED BY <2>1, <2>2, Apart DEF Command
<1> QED BY <1>1, <1>2, <1>3, <1>4 DEF LogMoves, Elsewhere

(* A card in add mode is the user database's business, an opened door the  *)
(* log's.                                                                  *)
LEMMA CardMoves == CommandInv /\ CardPresented => StoreMoves \/ NeutralMoves
<1> SUFFICES ASSUME CommandInv, NEW c \in Card, IoAddCard(c) \/ IoReadCard(c)
             PROVE  StoreMoves \/ NeutralMoves
  BY DEF CardPresented
<1>1. CASE IoAddCard(c)
  <2>1. Store!Next /\ UNCHANGED logVars
    BY <1>1 DEF IoAddCard, Store!Next
  <2>2. cmd' = {Store!AddUser(c)}
    BY <1>1 DEF IoAddCard, Store!SignalAddUser
  <2>3. Store!AddUser(c) \in Command \ LogCommand
    BY CommandsOfStore, Apart DEF Command
  <2> QED BY <2>1, <2>2, <2>3 DEF StoreMoves, Elsewhere
<1>2. CASE IoReadCard(c)
  BY <1>2 DEF IoReadCard, NeutralMoves
<1> QED BY <1>1, <1>2

LEMMA IoMoves == CommandInv /\ IoStep => LogMoves \/ NeutralMoves
<1> SUFFICES ASSUME CommandInv, IoStep PROVE LogMoves \/ NeutralMoves
  OBVIOUS
<1>0. io.step \in {"hashing", "asking"} => Hash[io.card] \in Hashed
  BY Vocabulary DEF CommandInv, QuestionInv, IoState
<1>1. CASE IoAsk
  <2>1. cmd' = {IsUser(Hash[io.card])} /\ Hash[io.card] \in Hashed
    BY <1>0, <1>1 DEF IoAsk, IoAt
  <2>2. IsUser(Hash[io.card]) \in Command /\ IsUser(Hash[io.card]).op = "IsUser"
    BY <2>1, CommandsOfRest DEF Command, IsUser
  <2>3. UNCHANGED <<storeVars, logVars>>
    BY <1>1 DEF IoAsk
  <2> QED BY <2>1, <2>2, <2>3, NeutralKinds DEF NeutralMoves
<1>2. CASE IoGranted
  <2>1. cmd' = {LogUser(Hash[io.card])} /\ Hash[io.card] \in Hashed
    BY <1>0, <1>2 DEF IoGranted, IoAt
  <2>2. Log!SignalLogUser(Hash[io.card])
    BY <1>2 DEF IoGranted, logVars, Log!SignalLogUser, Log!CanSignal, Log!LogUser, LogUser
  <2>3. Log!Next
    <3>1. Log!Hashed = Hashed
      BY DEF Log!Hashed, Hashed
    <3> QED BY <2>1, <2>2, <3>1 DEF Log!Next
  <2>4. LogUser(Hash[io.card]) \in Command \ UserCommand
    <3>1. LogUser(Hash[io.card]) \in LogCommand
      BY <2>1 DEF LogCommand
    <3> QED BY <3>1, Apart DEF Command
  <2> QED BY <1>2, <2>1, <2>3, <2>4 DEF IoGranted, LogMoves, Elsewhere
<1>3. CASE IoDenied \/ IoTimer \/ IoDoorShut \/ IoLocked
  BY <1>3 DEF IoDenied, IoTimer, IoDoorShut, IoLocked, NeutralMoves
<1> QED BY <1>1, <1>2, <1>3 DEF IoStep

LEMMA RestMoves ==
  CommandInv /\ ( \/ SdIsUser \/ SdAddMode \/ SdSetPassword \/ WebAddMode \/ WebPassword \/ StartCore1
                  \/ ClockStep \/ DoorMoves \/ AddModeExpires \/ UNCHANGED vars )
  => NeutralMoves
<1> USE DEF NeutralMoves
<1>1. CommandInv /\ (SdIsUser \/ SdAddMode \/ SdSetPassword) => NeutralMoves
  <2> SUFFICES ASSUME CommandInv, SdIsUser \/ SdAddMode \/ SdSetPassword PROVE NeutralMoves
    OBVIOUS
  <2>1. UNCHANGED <<storeVars, logVars>> /\ cmd' = {}
    BY DEF SdIsUser, SdAddMode, SdSetPassword
  <2>2. \E c \in cmd : c.op \in {"IsUser", "SetPassword", "AddUserMode"}
    BY DEF SdIsUser, SdAddMode, SdSetPassword, AddUserMode
  <2>3. \A a, b \in cmd : a = b
    BY DEF CommandInv, QuestionInv, IsSlot
  <2> QED BY <2>1, <2>2, <2>3, NeutralKinds DEF CommandInv
<1>2. WebAddMode \/ WebPassword => NeutralMoves
  BY NeutralKinds DEF WebAddMode, WebPassword
<1>3. StartCore1 \/ ClockStep => NeutralMoves
  BY DEF StartCore1, ClockStep, ClockSync, ClockTake, ClockReply, ClockStuck
<1>4. DoorMoves \/ AddModeExpires => NeutralMoves
  BY DEF DoorMoves, AddModeExpires
<1>5. UNCHANGED vars => NeutralMoves
  BY DEF vars
<1> QED BY <1>1, <1>2, <1>3, <1>4, <1>5

---------------------------------------------------------------------------
(* Every step of the lockbox is a step, or a stutter, of either part. *)

PartsMove ==
  /\ [Store!Next]_(Store!storeVars)
  /\ [Log!Next]_(Log!logVars)
  /\ cmd' \subseteq Command

LEMMA ElsewhereTyped ==
  ASSUME CommandInv, NEW mine, Elsewhere(mine)
  PROVE  cmd' \subseteq Command
BY DEF CommandInv, Elsewhere

LEMMA PartsMoveTogether == CommandInv /\ [Next]_vars => PartsMove
<1> SUFFICES ASSUME CommandInv, [Next]_vars PROVE PartsMove
  OBVIOUS
<1> USE DEF PartsMove
<1>1. CASE StoreMoves
  BY <1>1, LogElsewhere, ElsewhereTyped DEF StoreMoves
<1>2. CASE LogMoves
  BY <1>2, StoreElsewhere, ElsewhereTyped DEF LogMoves
<1>3. CASE NeutralMoves
  <2>1. Elsewhere(UserCommand) /\ Elsewhere(LogCommand)
    BY <1>3 DEF NeutralMoves, Neutral, Elsewhere
  <2> QED BY <1>3, <2>1, StoreElsewhere, LogElsewhere, ElsewhereTyped DEF NeutralMoves
<1>4. CASE LosePower
  BY <1>4 DEF LosePower, Store!Next, Log!Next, Store!LosePower
<1> QED
  BY <1>1, <1>2, <1>3, <1>4, SdUsersMoves, WebUsersMoves, SdLogsMoves, WebLogsMoves, CardMoves, IoMoves,
     RestMoves DEF Next, SdStep, WebStep

LEMMA CommandInvInit == Init => CommandInv
BY QuestionInit DEF CommandInv, Init, Store!Init

LEMMA CommandInvNext == CommandInv /\ [Next]_vars => CommandInv'
BY QuestionNext, PartsMoveTogether DEF CommandInv, PartsMove

(* The tasks together use the user database only the ways UserStore says,  *)
(* every mix of commands in the slot included: implementation of the part  *)
(* by the whole, with the rest of the system as its OtherTraffic.          *)
THEOREM ImplementsUserStore == Spec => UsesUserStore
<1>1. Init => Store!Init
  BY DEF Init
<1>2. CommandInv /\ [Next]_vars => [Store!Next]_(Store!storeVars)
  BY PartsMoveTogether DEF PartsMove
<1> QED BY <1>1, <1>2, CommandInvInit, CommandInvNext, PTL DEF Spec, UsesUserStore, Store!Spec

(* ... and the log only the ways LogStore says. *)
THEOREM ImplementsLogStore == Spec => UsesLogStore
<1>1. Init => Log!Init
  BY DEF Init
<1>2. CommandInv /\ [Next]_vars => [Log!Next]_(Log!logVars)
  BY PartsMoveTogether DEF PartsMove
<1> QED BY <1>1, <1>2, CommandInvInit, CommandInvNext, PTL DEF Spec, UsesLogStore, Log!Spec

---------------------------------------------------------------------------
(* What is proved of the parts holds of the lockbox.  The two lemmas only  *)
(* say that the modules the theorems were proved in are the ones the       *)
(* lockbox uses.                                                           *)

LEMMA SameStore ==
  /\ Store!Init => StoreTheory!Init
  /\ [Store!Next]_(Store!storeVars) => [StoreTheory!Next]_(StoreTheory!storeVars)
<1>0. \A l, id : Store!Without(l, id) = StoreTheory!Without(l, id)
  BY DEF Store!Without, StoreTheory!Without, Store!Kept, StoreTheory!Kept, Store!Rank, StoreTheory!Rank,
     Store!Cardinality, StoreTheory!Cardinality
<1> USE DEF Store!fileVars, StoreTheory!fileVars, Store!history, StoreTheory!history
<1>0a. \A id, piece : Store!PutPiece(id, piece) => StoreTheory!PutPiece(id, piece)
  BY DEF Store!PutPiece, StoreTheory!PutPiece, Store!NewNames, StoreTheory!NewNames, Store!Ending,
     StoreTheory!Ending
<1>0b. \A lines : Store!TornRewrite(lines) => StoreTheory!TornRewrite(lines)
  BY DEF Store!TornRewrite, StoreTheory!TornRewrite
<1>1. Store!Init => StoreTheory!Init
  BY DEF Store!Init, StoreTheory!Init
<1>2. Store!LoadUsers => StoreTheory!LoadUsers
  BY DEF Store!LoadUsers, StoreTheory!LoadUsers, Store!Loaded, StoreTheory!Loaded, Store!ReadOutcomes,
     StoreTheory!ReadOutcomes
<1>3. Store!AddUserTake => StoreTheory!AddUserTake
  BY DEF Store!AddUserTake, StoreTheory!AddUserTake
<1>3a. Store!AddUserWrite => StoreTheory!AddUserWrite
  BY <1>0a DEF Store!AddUserWrite, StoreTheory!AddUserWrite
<1>3b. Store!AddUserFails => StoreTheory!AddUserFails
  BY <1>0a DEF Store!AddUserFails, StoreTheory!AddUserFails, Store!Piece, StoreTheory!Piece
<1>4. Store!AddUserPush => StoreTheory!AddUserPush
  BY DEF Store!AddUserPush, StoreTheory!AddUserPush, Store!NewLine, StoreTheory!NewLine
<1>5. Store!RemoveUserOpen => StoreTheory!RemoveUserOpen
  BY <1>0 DEF Store!RemoveUserOpen, StoreTheory!RemoveUserOpen, Store!ReadOutcomes, StoreTheory!ReadOutcomes
<1>6. Store!RemoveUserRetain => StoreTheory!RemoveUserRetain
  BY <1>0 DEF Store!RemoveUserRetain, StoreTheory!RemoveUserRetain
<1>7. Store!RemoveUserWrite => StoreTheory!RemoveUserWrite
  BY <1>0b DEF Store!RemoveUserWrite, StoreTheory!RemoveUserWrite
<1>8. Store!ChangeNameOpen => StoreTheory!ChangeNameOpen
  BY DEF Store!ChangeNameOpen, StoreTheory!ChangeNameOpen, Store!ReadOutcomes, StoreTheory!ReadOutcomes,
     Store!Renamed, StoreTheory!Renamed, Store!Ids, StoreTheory!Ids
<1>9. Store!ChangeNameWrite => StoreTheory!ChangeNameWrite
  BY <1>0b DEF Store!ChangeNameWrite, StoreTheory!ChangeNameWrite
<1>10. Store!RemoveAllDelete => StoreTheory!RemoveAllDelete
  BY DEF Store!RemoveAllDelete, StoreTheory!RemoveAllDelete
<1>11. Store!RemoveAllClear => StoreTheory!RemoveAllClear
  BY DEF Store!RemoveAllClear, StoreTheory!RemoveAllClear
<1>12. \A c \in Card : Store!SignalAddUser(c) => StoreTheory!SignalAddUser(c)
  BY DEF Store!SignalAddUser, StoreTheory!SignalAddUser, Store!CanSignal, StoreTheory!CanSignal,
     Store!LinesDue, StoreTheory!LinesDue, Store!Rewriting, StoreTheory!Rewriting, Store!Appending,
     StoreTheory!Appending, Store!AddUser, StoreTheory!AddUser
<1>13. \A id \in Id, n \in Name : Store!WebUpdateUser(id, n) => StoreTheory!WebUpdateUser(id, n)
  BY DEF Store!WebUpdateUser, StoreTheory!WebUpdateUser, Store!Booted, StoreTheory!Booted, Store!CanSignal,
     StoreTheory!CanSignal, Store!IsFirst, StoreTheory!IsFirst, Store!UpdateUser, StoreTheory!UpdateUser
<1>14. \A id \in Id : Store!WebRemoveUser(id) => StoreTheory!WebRemoveUser(id)
  BY DEF Store!WebRemoveUser, StoreTheory!WebRemoveUser, Store!Booted, StoreTheory!Booted, Store!CanSignal,
     StoreTheory!CanSignal, Store!IsFirst, StoreTheory!IsFirst, Store!SwapRemove, StoreTheory!SwapRemove,
     Store!RemoveUser, StoreTheory!RemoveUser
<1>15. Store!WebRemoveAllUsers => StoreTheory!WebRemoveAllUsers
  BY DEF Store!WebRemoveAllUsers, StoreTheory!WebRemoveAllUsers, Store!Booted, StoreTheory!Booted,
     Store!CanSignal, StoreTheory!CanSignal, Store!RemoveAllUsers, StoreTheory!RemoveAllUsers
<1>16. Store!OtherTraffic => StoreTheory!OtherTraffic
  BY DEF Store!OtherTraffic, StoreTheory!OtherTraffic, Store!OtherCommand, StoreTheory!OtherCommand,
     Store!Hashed, StoreTheory!Hashed
<1>17. Store!LosePower => StoreTheory!LosePower
  BY <1>0a, <1>0b DEF Store!LosePower, StoreTheory!LosePower, Store!Piece, StoreTheory!Piece
<1> QED
  BY <1>1, <1>2, <1>3, <1>4, <1>5, <1>6, <1>7, <1>8, <1>9, <1>10, <1>11, <1>12, <1>13, <1>14, <1>15, <1>16,
     <1>17, <1>3a, <1>3b DEF Store!Next, StoreTheory!Next, Store!SdStep, StoreTheory!SdStep, Store!storeVars,
     StoreTheory!storeVars

LEMMA SameLog ==
  /\ Log!Init => LogTheory!Init
  /\ [Log!Next]_(Log!logVars) => [LogTheory!Next]_(LogTheory!logVars)
<1>1. Log!Init => LogTheory!Init
  BY DEF Log!Init, LogTheory!Init
<1>2. Log!LoadLogs => LogTheory!LoadLogs
  BY DEF Log!LoadLogs, LogTheory!LoadLogs, Log!EndOfLog, LogTheory!EndOfLog, Log!AtMost, LogTheory!AtMost
<1>3. Log!TakeLogUser => LogTheory!TakeLogUser
  BY DEF Log!TakeLogUser, LogTheory!TakeLogUser
<1>4. Log!Stamped => LogTheory!Stamped
  BY DEF Log!Stamped, LogTheory!Stamped
<1>5. Log!Measure => LogTheory!Measure
  BY DEF Log!Measure, LogTheory!Measure, Log!EndOfLog, LogTheory!EndOfLog, Log!AtMost, LogTheory!AtMost
<1>6. Log!Keep => LogTheory!Keep
  BY DEF Log!Keep, LogTheory!Keep
<1>7. Log!AppendLine => LogTheory!AppendLine
  BY DEF Log!AppendLine, LogTheory!AppendLine
<1>8. Log!Refresh => LogTheory!Refresh
  BY DEF Log!Refresh, LogTheory!Refresh
<1>9. Log!SdClearLog => LogTheory!SdClearLog
  BY DEF Log!SdClearLog, LogTheory!SdClearLog, Log!ClearLog, LogTheory!ClearLog
<1>10. Log!StreamBegin => LogTheory!StreamBegin
  BY DEF Log!StreamBegin, LogTheory!StreamBegin, Log!LogsReady, LogTheory!LogsReady
<1>11. Log!StreamEnd => LogTheory!StreamEnd
  BY DEF Log!StreamEnd, LogTheory!StreamEnd
<1>12. Log!WebClearLogs => LogTheory!WebClearLogs
  BY DEF Log!WebClearLogs, LogTheory!WebClearLogs, Log!LogsReady, LogTheory!LogsReady, Log!CanSignal,
     LogTheory!CanSignal, Log!ClearLog, LogTheory!ClearLog
<1>13. \A id \in Log!Hashed : Log!SignalLogUser(id) => LogTheory!SignalLogUser(id)
  BY DEF Log!SignalLogUser, LogTheory!SignalLogUser, Log!CanSignal, LogTheory!CanSignal, Log!LogUser,
     LogTheory!LogUser
<1>14. Log!OtherTraffic => LogTheory!OtherTraffic
  BY DEF Log!OtherTraffic, LogTheory!OtherTraffic, Log!Stored, LogTheory!Stored, Log!Command, LogTheory!Command, Log!UserCommand,
     LogTheory!UserCommand, Log!OtherCommand, LogTheory!OtherCommand, Log!Hashed, LogTheory!Hashed,
     Log!LogCommand, LogTheory!LogCommand, Log!ClearLog, LogTheory!ClearLog, Log!LogUser, LogTheory!LogUser
<1>15. Log!LosePower => LogTheory!LosePower
  BY DEF Log!LosePower, LogTheory!LosePower
<1> QED
  BY <1>1, <1>2, <1>3, <1>4, <1>5, <1>6, <1>7, <1>8, <1>9, <1>10, <1>11, <1>12, <1>13, <1>14, <1>15 DEF
     Log!Next, LogTheory!Next, Log!SdStep, LogTheory!SdStep, Log!Hashed, LogTheory!Hashed, Log!logVars,
     LogTheory!logVars

LEMMA TheoryAssumptions ==
  /\ StoreTheory!UserStoreAssumption /\ StoreTheory!VocabularyAssumption
  /\ LogTheory!LogStoreAssumption /\ LogTheory!VocabularyAssumption
BY LockdownAssumption, VocabularyAssumption DEF Store!UserStoreAssumption, StoreTheory!UserStoreAssumption,
   StoreTheory!VocabularyAssumption, VocabularyAssumption, Log!LogStoreAssumption, LogTheory!LogStoreAssumption,
   Log!LineLength, LogTheory!LineLength, LogTheory!VocabularyAssumption

LEMMA InTheory == Spec => StoreTheory!Spec /\ LogTheory!Spec
<1>1. Spec => Store!Spec
  BY ImplementsUserStore DEF UsesUserStore
<1>2. Spec => Log!Spec
  BY ImplementsLogStore DEF UsesLogStore
<1> QED BY <1>1, <1>2, SameStore, SameLog, PTL DEF Store!Spec, StoreTheory!Spec, Log!Spec, LogTheory!Spec

LEMMA LockdownStoreTypes == Spec => []Store!StoreTypeOK
<1>1. StoreTheory!Spec => []StoreTheory!StoreTypeOK
  BY TheoryAssumptions, StoreTheory!StoreTypes DEF StoreTheory!StoreTypes
<1>2. StoreTheory!StoreTypeOK => Store!StoreTypeOK
  BY DEF StoreTheory!StoreTypeOK, Store!StoreTypeOK, StoreTheory!IsSlot, Store!IsSlot, StoreTheory!Command,
     Store!Command, StoreTheory!UserCommand, Store!UserCommand, StoreTheory!OtherCommand, Store!OtherCommand,
     StoreTheory!Hashed, Store!Hashed, StoreTheory!Stored, Store!Stored, StoreTheory!Job, Store!Job,
     StoreTheory!Line, Store!Line
<1> QED BY <1>1, <1>2, InTheory, PTL

LEMMA LockdownLogTypes == Spec => []Log!LogTypeOK
<1>1. LogTheory!Spec => []LogTheory!LogTypeOK
  BY TheoryAssumptions, LogTheory!LogTypes DEF LogTheory!LogTypes
<1>2. LogTheory!LogTypeOK => Log!LogTypeOK
  BY DEF LogTheory!LogTypeOK, Log!LogTypeOK, LogTheory!IsSlot, Log!IsSlot, LogTheory!Command,
     Log!Command, LogTheory!UserCommand, Log!UserCommand, LogTheory!OtherCommand, Log!OtherCommand,
     LogTheory!Hashed, Log!Hashed, LogTheory!Stored, Log!Stored, LogTheory!LogJob, Log!LogJob, LogTheory!LineLength, Log!LineLength
<1> QED BY <1>1, <1>2, InTheory, PTL

(* No card number ever reaches the SD card or the cache of the lockbox. *)
THEOREM LockdownHashesOnly == Spec => []Store!OnlyHashesStored
<1>1. StoreTheory!Spec => []StoreTheory!OnlyHashesStored
  BY TheoryAssumptions, StoreTheory!HashesOnly DEF StoreTheory!HashesOnly
<1>2. StoreTheory!OnlyHashesStored => Store!OnlyHashesStored
  BY DEF StoreTheory!OnlyHashesStored, Store!OnlyHashesStored, StoreTheory!Ids, Store!Ids, StoreTheory!Stored,
     Store!Stored, StoreTheory!Hashed, Store!Hashed
<1> QED BY <1>1, <1>2, InTheory, PTL

(* Whatever the panel, the card reader, the door and the power supply do   *)
(* to each other, LOG.TXT of the lockbox stays within a line of its limit. *)
THEOREM LockdownLogBounded == Spec => []Log!LogFileBounded
<1>1. LogTheory!Spec => []LogTheory!LogFileBounded
  BY TheoryAssumptions, LogTheory!LogBounded DEF LogTheory!LogBounded
<1>2. LogTheory!LogFileBounded => Log!LogFileBounded
  BY DEF LogTheory!LogFileBounded, Log!LogFileBounded, LogTheory!LineLength, Log!LineLength
<1> QED BY <1>1, <1>2, InTheory, PTL

(* Whoever the lockbox lets in between two commands has a line on the SD   *)
(* card, but for those whose own line was given up or written behind a     *)
(* torn one, at most one as long as no append failed; if no number stored  *)
(* is the hash of another, no rewrite of USER.TXT gave up and no read of   *)
(* it failed since the boot.                                               *)
THEOREM LockdownCacheBacked ==
  ASSUME StoreTheory!HashesApart
  PROVE  Spec => []Store!CacheBacked
<1>1. StoreTheory!Spec => []StoreTheory!CacheBacked
  BY TheoryAssumptions, StoreTheory!CacheIsBacked DEF StoreTheory!CacheIsBacked
<1>2. StoreTheory!CacheBacked => Store!CacheBacked
  BY DEF StoreTheory!CacheBacked, Store!CacheBacked, StoreTheory!Ids, Store!Ids
<1> QED BY <1>1, <1>2, InTheory, PTL

(* Of the lockbox's users none disappears from USER.TXT but by a command   *)
(* that names him or all, unless a rewrite of the file gave up or a read   *)
(* of it failed since the boot, or the power went in the middle of a       *)
(* rewrite.                                                                *)
THEOREM LockdownNoUserDropped ==
  ASSUME StoreTheory!HashesApart
  PROVE  Spec => Store!NobodyDropped
<1>1. StoreTheory!Spec => StoreTheory!NobodyDropped
  BY TheoryAssumptions, StoreTheory!NoUserDropped DEF StoreTheory!NoUserDropped
<1>2. StoreTheory!LosePower => Store!LosePower
  BY DEF Store!LosePower, StoreTheory!LosePower, Store!Piece, StoreTheory!Piece, Store!PutPiece,
     StoreTheory!PutPiece, Store!NewNames, StoreTheory!NewNames, Store!Ending, StoreTheory!Ending,
     Store!TornRewrite, StoreTheory!TornRewrite, Store!fileVars, StoreTheory!fileVars
<1>3. /\ Store!Rewriting = StoreTheory!Rewriting
      /\ Store!Listed = StoreTheory!Listed /\ Store!Listed' = StoreTheory!Listed'
  BY DEF Store!Rewriting, StoreTheory!Rewriting, Store!Listed, StoreTheory!Listed, Store!Ids, StoreTheory!Ids
<1>4. [~damaged' /\ ~(StoreTheory!LosePower /\ StoreTheory!Rewriting) =>
         \A id \in StoreTheory!Listed \ StoreTheory!Listed' : \E c \in cmd :
           c.op = "RemoveAllUsers" \/ (c.op = "RemoveUser" /\ Hash[c.id] = id)]_(StoreTheory!storeVars)
      => [~damaged' /\ ~(Store!LosePower /\ Store!Rewriting) =>
            \A id \in Store!Listed \ Store!Listed' : \E c \in cmd :
              c.op = "RemoveAllUsers" \/ (c.op = "RemoveUser" /\ Hash[c.id] = id)]_(Store!storeVars)
  BY <1>2, <1>3 DEF Store!storeVars, StoreTheory!storeVars, Store!fileVars, StoreTheory!fileVars,
     Store!history, StoreTheory!history
<1> QED BY <1>1, <1>4, InTheory, PTL DEF Store!NobodyDropped, StoreTheory!NobodyDropped

---------------------------------------------------------------------------
(* Types. *)

TasksInv ==
  /\ IsSlot(userCheck, BOOLEAN)
  /\ IsSlot(timeRequest, {"now"})
  /\ IsSlot(timeResponse, {"time"})
  /\ {addMode, addFresh} \subseteq BOOLEAN
  /\ bolt \in {"locked", "unlocked"}
  /\ door \in {"closed", "open"}
  /\ core0 \in {"starting", "offline", "syncing", "unsynced", "up", "answering", "stuck", "dead"}

LEMMA SlotsMade ==
  /\ \A V : IsSlot({}, V)
  /\ \A V, v : v \in V => IsSlot({v}, V)
BY DEF IsSlot

LEMMA TasksNext == TasksInv /\ [Next]_vars => TasksInv'
<1> SUFFICES ASSUME TasksInv, [Next]_vars PROVE TasksInv'
  OBVIOUS
<1> USE SlotsMade DEF TasksInv, timeVars, ioVars
<1>1. CASE StartCore1 \/ ClockSync \/ ClockStuck
  BY <1>1, LockdownAssumption DEF StartCore1, ClockSync, ClockStuck
<1>9. CASE ClockTake \/ ClockReply
  BY <1>9 DEF ClockTake, ClockReply
<1>2. CASE WebStep \/ WebLogsSent
  BY <1>2 DEF WebStep, WebUsers, WebLogs, WebAddMode, WebPassword, WebLogsSent
<1>3. CASE SdUsers \/ SdLogs \/ SdAskTime \/ SdTimeKnown
  BY <1>3 DEF SdUsers, SdLogs, SdAskTime, SdTimeKnown
<1>4. CASE SdAddMode \/ SdSetPassword
  BY <1>4 DEF SdAddMode, SdSetPassword
<1>10. CASE SdIsUser
  <2>1. PICK v \in BOOLEAN : userCheck' = {v}
    <3>1. PICK c \in cmd : userCheck' = {c.id \in Store!Ids(users)}
      BY <1>10 DEF SdIsUser
    <3>2. (c.id \in Store!Ids(users)) \in BOOLEAN
      OBVIOUS
    <3> QED BY <3>1, <3>2, Zenon
  <2> QED BY <1>10, <2>1 DEF SdIsUser
<1>5. CASE IoStep
  BY <1>5 DEF IoStep, IoAsk, IoGranted, IoDenied, IoTimer, IoDoorShut, IoLocked
<1>6. CASE CardPresented \/ DoorMoves \/ AddModeExpires
  BY <1>6 DEF CardPresented, IoAddCard, IoReadCard, DoorMoves, AddModeExpires
<1>7. CASE LosePower
  BY <1>7 DEF LosePower
<1>8. CASE UNCHANGED vars
  BY <1>8 DEF vars
<1> QED BY <1>1, <1>2, <1>3, <1>4, <1>5, <1>6, <1>7, <1>8, <1>9, <1>10 DEF Next, SdStep, ClockStep

(* Every variable of the lockbox has its type, those of its parts          *)
(* included: each of the four signals holds at most one value, and the     *)
(* caches shared by the cores stay within their capacity.                  *)
THEOREM LockdownTypes == Spec => []LockdownTypeOK
<1>1. Init => TasksInv
  BY SlotsMade DEF Init, TasksInv
<1>2. CommandInv => io \in IoState
  BY DEF CommandInv, QuestionInv
<1>3. Store!StoreTypeOK /\ Log!LogTypeOK /\ io \in IoState /\ TasksInv => LockdownTypeOK
  BY DEF TasksInv, LockdownTypeOK
<1> QED
  BY <1>1, <1>2, <1>3, TasksNext, CommandInvInit, CommandInvNext, LockdownStoreTypes, LockdownLogTypes,
     PTL DEF Spec

---------------------------------------------------------------------------
(* The door.  The card the io task waits to hear about is the question,    *)
(* the USER_CHECK signal the verdict.                                      *)

Question == IF io.step = "asking" THEN {Hash[io.card]} ELSE {}

Members == Store!Ids(users)

doorVars == <<Members, Question, userCheck, bolt>>

LEMMA MembersTyped == Store!StoreTypeOK => Members \subseteq Id
<1> SUFFICES ASSUME Store!StoreTypeOK, NEW i \in DOMAIN users PROVE users[i].id \in Id
  BY DEF Members, Store!Ids
<1>1. users \in Seq(Store!Line)
  BY DEF Store!StoreTypeOK
<1>2. users[i] \in Store!Line
  BY <1>1
<1> QED BY <1>2 DEF Store!Line

(* What each step is to the door: an enrolment or revocation, ...          *)
LEMMA AdministerStep ==
  ASSUME OtherStep \/ WebStep, Members' \subseteq Id
  PROVE  AccessImpl!Administer
<1>1. UNCHANGED <<io, userCheck, bolt>>
  BY OthersDontAsk, PanelDoesNotAsk, OthersLeaveDoor DEF OtherOrder, WebOrder
<1> QED BY <1>1 DEF AccessImpl!Administer, Members

(* ... the judgement on the card that was presented, ...                   *)
LEMMA JudgeStep ==
  ASSUME CommandInv, SdIsUser
  PROVE  AccessImpl!Judge
<1>1. PICK c \in cmd : SdIsUser!(c)
  BY DEF SdIsUser
<1>2. io.step = "asking" /\ c.id = Hash[io.card] /\ userCheck = {}
  BY <1>1 DEF CommandInv, QuestionInv, AnswerMatchesQuestion
<1>3. UNCHANGED <<io, users, bolt>>
  BY <1>1 DEF storeVars, ioVars
<1>4. userCheck' = {c.id \in Store!Ids(users)}
  BY <1>1
<1>5. c.id \in Question /\ UNCHANGED <<Question, Members, bolt>>
  BY <1>2, <1>3 DEF Question, Members
<1> QED BY <1>2, <1>4, <1>5, Zenon DEF AccessImpl!Judge, Question, Members

(* ... or a step of the io task: a question, a verdict obeyed, the door    *)
(* locked again, or a wait that concerns nobody.                           *)
LEMMA IoSteps ==
  ASSUME CommandInv, IoStep
  PROVE  AccessImpl!Next \/ UNCHANGED doorVars
<1> USE DEF IoAt, Members, doorVars, storeVars
<1>0. io \in IoState /\ (userCheck # {} => io.step = "asking")
  BY DEF CommandInv, QuestionInv, AnswerMatchesQuestion
<1>1. CASE IoAsk
  <2>1. io.step = "hashing" /\ io'.step = "asking" /\ io'.card = io.card
    BY <1>0, <1>1, IoStates DEF IoAsk
  <2>2. Hash[io.card] \in Id
    BY <1>0, <2>1, Vocabulary DEF IoState
  <2>3. UNCHANGED <<users, userCheck, bolt>>
    BY <1>1 DEF IoAsk
  <2>4. AccessImpl!Present(Hash[io.card])
    BY <2>1, <2>3 DEF AccessImpl!Present
  <2> QED BY <2>2, <2>4 DEF AccessImpl!Next
<1>2. CASE IoGranted
  <2>1. io'.step = "unlocking"
    BY <1>2, IoStates DEF IoGranted
  <2> QED BY <1>2, <2>1 DEF IoGranted, AccessImpl!Open, AccessImpl!Next
<1>3. CASE IoDenied
  <2>1. io'.step = "pulsing"
    BY <1>3, IoStates DEF IoDenied
  <2> QED BY <1>3, <2>1 DEF IoDenied, AccessImpl!Deny, AccessImpl!Next
<1>4. CASE IoTimer \/ IoDoorShut
  <2>1. io.step # "asking" /\ io'.step # "asking" /\ UNCHANGED <<userCheck, bolt>>
    BY <1>0, <1>4, IoStates, TimerRuns DEF IoDoorShut
  <2>2. UNCHANGED users
    BY <1>4 DEF IoTimer, IoDoorShut
  <2> QED BY <2>1, <2>2 DEF Question
<1>5. CASE IoLocked
  <2>1. io.step = "locking" /\ io'.step = "waiting"
    BY <1>5, IoStates DEF IoLocked
  <2> QED BY <1>5, <2>1 DEF IoLocked, AccessImpl!Relock, AccessImpl!Next
<1> QED BY <1>1, <1>2, <1>3, <1>4, <1>5 DEF IoStep

LEMMA DoorStep ==
  CommandInv /\ (Members \subseteq Id)' /\ [Next]_vars => [AccessImpl!Next]_(AccessImpl!accessVars)
<1> SUFFICES ASSUME CommandInv, Members' \subseteq Id, [Next]_vars
             PROVE  AccessImpl!Next \/ UNCHANGED doorVars
  BY DEF doorVars, Members, Question, AccessImpl!accessVars
<1>1. CASE OtherStep \/ WebStep
  BY <1>1, AdministerStep DEF AccessImpl!Next
<1>2. CASE SdIsUser
  BY <1>2, JudgeStep DEF AccessImpl!Next
<1>3. CASE IoStep
  BY <1>3, IoSteps
<1>4. CASE CardPresented
  <2>1. /\ io.step # "asking" /\ io'.step # "asking"
        /\ UNCHANGED <<users, userCheck, bolt>>
    BY <1>4, IoStates DEF CardPresented, IoAddCard, IoReadCard, IoAt, Store!SignalAddUser, storeVars
  <2> QED BY <2>1 DEF doorVars, Members, Question
<1>5. CASE LosePower
  <2>1. users' = <<>> /\ userCheck' = {} /\ io'.step = "waiting" /\ bolt' = bolt
    BY <1>5, IoStates DEF LosePower, Store!LosePower
  <2>2. Members' = {}
    BY <2>1 DEF Members, Store!Ids
  <2> QED BY <2>1, <2>2 DEF AccessImpl!Restart, AccessImpl!Next, Members
<1>6. CASE UNCHANGED vars
  BY <1>6 DEF vars, storeVars, ioVars, doorVars, Members, Question
<1> QED BY <1>1, <1>2, <1>3, <1>4, <1>5, <1>6 DEF Next, SdStep, OtherStep

(* The lockbox implements the door's promise: the bolt moves back only     *)
(* after a judgement that said yes, on the card presented, against the     *)
(* members of that moment, whatever the panel, the SD card, the clock and  *)
(* the power supply do meanwhile.                                          *)
THEOREM DoorIsGoverned == Spec => GovernsDoor
<1>1. Init => AccessImpl!Init
  BY IoStates DEF Init, Store!Init, Store!Ids, AccessImpl!Init
<1> QED
  BY <1>1, MembersTyped, DoorStep, CommandInvInit, CommandInvNext, LockdownStoreTypes,
     PTL DEF Spec, GovernsDoor, AccessImpl!Spec

---------------------------------------------------------------------------
(* From the reader to the SD card. *)

(* Only the SD task says yes, and it says it of the card at the reader.    *)
LEMMA YesIsJudged ==
  ASSUME CommandInv, [Next]_vars, TRUE \in userCheck' \ userCheck
  PROVE  SdIdle /\ io.step = "asking" /\ Hash[io.card] \in Store!Ids(users)
<1>1. ~(OtherStep \/ WebStep)
  BY OthersDontAsk, PanelDoesNotAsk DEF OtherOrder, WebOrder
<1>2. ~(IoStep \/ CardPresented \/ LosePower \/ UNCHANGED vars)
  BY DEF IoStep, IoAsk, IoGranted, IoDenied, IoTimer, IoDoorShut, IoLocked, CardPresented, IoAddCard, IoReadCard,
     LosePower, vars
<1>3. SdIsUser
  BY <1>1, <1>2 DEF Next, SdStep, OtherStep
<1>4. PICK c \in cmd : SdIsUser!(c)
  BY <1>3 DEF SdIsUser
<1>5. io.step = "asking" /\ c.id = Hash[io.card]
  BY <1>4 DEF CommandInv, QuestionInv, AnswerMatchesQuestion
<1>6. c.id \in Store!Ids(users)
  BY <1>4, Zenon
<1> QED BY <1>4, <1>5, <1>6

(* An answer yes is about a card USER.TXT lists, or whose line was given   *)
(* up or written behind a torn one since the boot: the question is about   *)
(* the card at the reader, the SD task is between two commands when it     *)
(* takes it, and then the file backs the cache.                            *)
THEOREM AdmittedAreListed ==
  ASSUME StoreTheory!HashesApart
  PROVE  Spec => OnlyListedAdmitted
<1>1. CommandInv /\ Store!CacheBacked /\ [Next]_vars =>
        [~damaged /\ TRUE \in userCheck' \ userCheck =>
           io.step = "asking" /\ Hash[io.card] \in Store!Ids(usersFile) \cup astray]_vars
  <2> SUFFICES ASSUME CommandInv, Store!CacheBacked, [Next]_vars, ~damaged, TRUE \in userCheck' \ userCheck
               PROVE  io.step = "asking" /\ Hash[io.card] \in Store!Ids(usersFile) \cup astray
    OBVIOUS
  <2>1. SdIdle /\ io.step = "asking" /\ Hash[io.card] \in Store!Ids(users)
    BY YesIsJudged
  <2>2. Store!Ids(users) \subseteq Store!Ids(usersFile) \cup astray
    BY <2>1 DEF SdIdle, Store!CacheBacked
  <2> QED BY <2>1, <2>2
<1>2. Spec => []Store!CacheBacked
  BY LockdownCacheBacked
<1> QED BY <1>1, <1>2, CommandInvInit, CommandInvNext, PTL DEF Spec, OnlyListedAdmitted
=============================================================================
