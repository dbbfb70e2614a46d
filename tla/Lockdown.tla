------------------------------ MODULE Lockdown ------------------------------
(***************************************************************************)
(* The lockbox as a whole.                                                 *)
(*                                                                         *)
(*   core 1   io     reads cards, asks the SD task, drives the bolt        *)
(*            sd     takes commands: UserStore and LogStore                *)
(*   core 0   web    the panel: changes the caches and sends commands      *)
(*            clock  answers the SD task's requests for the time           *)
(*                                                                         *)
(* Four Signals join them, each holding one value: COMMANDS is written by  *)
(* the card reader and by every handler of the panel, and a value that was *)
(* not taken in time is replaced.                                          *)
(***************************************************************************)
EXTENDS Signals, Naturals, Sequences, FiniteSets

CONSTANTS
  MaxUsers, MaxRetries, MaxFileLines, SdFaults,    \* see UserStore
  LogMaxSize, LogPacket, BootLine, AccessLines, MaxLogFile,    \* see LogStore
  PowerLoss,   \* whether the device may lose power
  Flashes,     \* how often the light flashes while the door can be opened (20)
  WebOps,      \* the requests the administrator makes
  Wifi,        \* how connecting to WiFi may end: "syncing" (connected) or "offline"
  NtpFails     \* whether the time server may be out of reach or not answer

VARIABLES
  cmd, usersFile, tail, users, job, damaged, failed, astray,   \* see UserStore
  logFile, logs, logsLock, logJob, panicked, strained,   \* see LogStore
  userCheck,     \* the USER_CHECK signal
  timeRequest,   \* the TIME_REQUEST signal
  timeResponse,  \* the TIME_RESPONSE signal
  io,            \* what the io task waits for, and for which card
  addMode,       \* ADD_MODE
  addFresh,      \* whether ADD_MODE_ENABLED is less than 20 s ago
  bolt,          \* the actuator: "locked" or "unlocked"
  door,          \* the door the sensor watches: "closed" or "open"
  core0          \* how far core 0 is: see the section on it

storeVars == <<usersFile, tail, users, job, damaged, failed, astray>>
logVars   == <<logFile, logs, logsLock, logJob, panicked, strained>>
timeVars  == <<timeRequest, timeResponse>>
ioVars    == <<io, addMode, addFresh, bolt, door>>
vars == <<cmd, storeVars, logVars, userCheck, timeVars, ioVars, core0>>

Store == INSTANCE UserStore WITH Lossy <- TRUE
Log   == INSTANCE LogStore WITH Lossy <- TRUE

ASSUME LockdownAssumption ==
  /\ Store!UserStoreAssumption
  /\ Log!LogStoreAssumption
  /\ Wifi \subseteq {"syncing", "offline"}
  /\ NtpFails \in BOOLEAN
  /\ Flashes \in Nat
  /\ WebOps \subseteq
       {"update", "remove", "remove all", "add mode", "logs", "clear logs", "password"}

Init ==
  /\ Store!Init
  /\ Log!Init
  /\ userCheck = {}
  /\ timeRequest = {}
  /\ timeResponse = {}
  /\ io = [step |-> "waiting"]
  /\ addMode = FALSE
  /\ addFresh = FALSE
  /\ bolt = "locked"
  /\ door = "closed"
  /\ core0 = "starting"

---------------------------------------------------------------------------
(* Core 0.  main waits up to 30 s for WiFi, starts core 1 and then, if it  *)
(* is connected, the clock task, which synchronises ("syncing"), serves    *)
(* ("up") and makes up an answer ("answering"), and the web server.        *)
(* "dead" is core 0 in the panic handler; in "unsynced" and "stuck" the    *)
(* clock task waits for a datagram that was lost, the first time and in a  *)
(* synchronisation that became due, while the web server goes on.          *)

StartCore1 ==
  /\ core0 = "starting"
  /\ core0' \in Wifi
  /\ UNCHANGED <<cmd, storeVars, logVars, userCheck, timeVars, ioVars>>

(* sync().await.unwrap(): nothing in sync gives up waiting. *)
ClockSync ==
  /\ core0 = "syncing"
  /\ core0' = "up" \/ (NtpFails /\ core0' \in {"dead", "unsynced"})
  /\ UNCHANGED <<cmd, storeVars, logVars, userCheck, timeVars, ioVars>>

ClockTake ==
  /\ core0 = "up"
  /\ timeRequest # {}
  /\ timeRequest' = {}
  /\ core0' = "answering"
  /\ UNCHANGED <<cmd, storeVars, logVars, userCheck, timeResponse, ioVars>>

(* Mutant of ClockReply: a request the clock cannot serve is dropped. *)
ClockReplySilent ==
  /\ core0 = "answering"
  /\ core0' = "up"
  /\ UNCHANGED <<cmd, storeVars, logVars, userCheck, timeVars, ioVars>>

ClockReply ==
  /\ core0 = "answering"
  /\ timeResponse' = {"time"}
  /\ core0' = "up"
  /\ UNCHANGED <<cmd, storeVars, logVars, userCheck, timeRequest, ioVars>>

(* A failed synchronisation is ignored, an unanswered one is waited for.   *)
ClockStuck ==
  /\ core0 = "answering"
  /\ NtpFails
  /\ core0' = "stuck"
  /\ UNCHANGED <<cmd, storeVars, logVars, userCheck, timeVars, ioVars>>

ClockStep == ClockSync \/ ClockTake \/ ClockReply \/ ClockStuck

(* The web server has one connection; while it sends the log it serves     *)
(* nobody else.                                                            *)
WebServes == core0 \notin {"starting", "offline", "dead"} /\ logsLock # "web"

WebUsers ==
  /\ WebServes
  /\ \/ "update" \in WebOps /\ \E id \in Stored, n \in Name : Store!WebUpdateUser(id, n)
     \/ "remove" \in WebOps /\ \E id \in Stored : Store!WebRemoveUser(id)
     \/ "remove all" \in WebOps /\ Store!WebRemoveAllUsers
  /\ UNCHANGED <<logVars, userCheck, timeVars, ioVars, core0>>

(* Mutant of WebLogs: the panel clears its own copy only. *)
WebLogsQuiet ==
  /\ WebServes
  /\ \/ "logs" \in WebOps /\ Log!StreamBegin
     \/ "clear logs" \in WebOps /\ logsLock = "free" /\ logs' = 0
          /\ UNCHANGED <<cmd, logFile, logsLock, logJob, panicked, strained>>
  /\ UNCHANGED <<storeVars, userCheck, timeVars, ioVars, core0>>

WebLogs ==
  /\ WebServes
  /\ \/ "logs" \in WebOps /\ Log!StreamBegin
     \/ "clear logs" \in WebOps /\ Log!WebClearLogs
  /\ UNCHANGED <<storeVars, userCheck, timeVars, ioVars, core0>>

WebLogsSent ==
  /\ core0 # "dead"
  /\ Log!StreamEnd
  /\ UNCHANGED <<storeVars, userCheck, timeVars, ioVars, core0>>

(* POST /users/add *)
WebAddMode ==
  /\ WebServes
  /\ "add mode" \in WebOps
  /\ cmd' = {AddUserMode}
  /\ UNCHANGED <<storeVars, logVars, userCheck, timeVars, ioVars, core0>>

(* POST /auth/change_password; the session it needs is Session's. *)
WebPassword ==
  /\ WebServes
  /\ "password" \in WebOps
  /\ \E p \in Password : cmd' = {SetPassword(p)}
  /\ UNCHANGED <<storeVars, logVars, userCheck, timeVars, ioVars, core0>>

WebStep == WebUsers \/ WebLogs \/ WebAddMode \/ WebPassword

---------------------------------------------------------------------------
(* The SD task.  It is one task: at boot it loads the users before the     *)
(* log, afterwards it takes a command only when it is done with the last.  *)

Core1Runs == core0 # "starting" /\ ~panicked

SdIdle == job = {} /\ logJob = {}

SdUsers ==
  /\ Core1Runs
  /\ Store!LoadUsers \/ (logJob = {} /\ Store!SdStep)
  /\ UNCHANGED <<logVars, userCheck, timeVars, ioVars, core0>>

SdLogs ==
  /\ Core1Runs
  /\ job = {}
  /\ \/ Log!LoadLogs
     \/ Log!Measure
     \/ Log!Keep
     \/ Log!AppendLine
     \/ Log!Refresh
     \/ Log!SdClearLog
  /\ UNCHANGED <<storeVars, userCheck, timeVars, ioVars, core0>>

(* get_timestamp sends the request and waits for the response. *)
SdAskTime ==
  /\ Core1Runs
  /\ job = {}
  /\ Log!TakeLogUser
  /\ timeRequest' = {"now"}
  /\ UNCHANGED <<storeVars, userCheck, timeResponse, ioVars, core0>>

(* Mutant of SdTimeKnown: the response is looked at and left there. *)
SdTimePeeked ==
  /\ Core1Runs
  /\ timeResponse # {}
  /\ Log!Stamped
  /\ UNCHANGED <<cmd, storeVars, userCheck, timeVars, ioVars, core0>>

SdTimeKnown ==
  /\ Core1Runs
  /\ timeResponse # {}
  /\ timeResponse' = {}
  /\ Log!Stamped
  /\ UNCHANGED <<cmd, storeVars, userCheck, timeRequest, ioVars, core0>>

(* Mutant of SdIsUser: the command stays in the slot. *)
SdIsUserAgain ==
  \E c \in cmd :
    /\ Core1Runs
    /\ SdIdle
    /\ c.op = "IsUser"
    /\ userCheck' = {c.id \in Store!Ids(users)}
    /\ UNCHANGED <<cmd, storeVars, logVars, timeVars, ioVars, core0>>

(* Mutant of SdIsUser: only a user's card is answered. *)
SdIsUserOrSilent ==
  \E c \in cmd :
    /\ Core1Runs
    /\ SdIdle
    /\ c.op = "IsUser"
    /\ cmd' = {}
    /\ userCheck' = IF c.id \in Store!Ids(users) THEN {TRUE} ELSE {}
    /\ UNCHANGED <<storeVars, logVars, timeVars, ioVars, core0>>

SdIsUser ==
  \E c \in cmd :
    /\ Core1Runs
    /\ SdIdle
    /\ c.op = "IsUser"
    /\ cmd' = {}
    /\ userCheck' = {c.id \in Store!Ids(users)}
    /\ UNCHANGED <<storeVars, logVars, timeVars, ioVars, core0>>

(* Mutant of SdAddMode: the arm takes every command. *)
SdAddModeAny ==
  /\ Core1Runs
  /\ SdIdle
  /\ cmd # {}
  /\ cmd' = {}
  /\ addMode' = TRUE
  /\ addFresh' = TRUE
  /\ UNCHANGED <<storeVars, logVars, userCheck, timeVars, io, bolt, door, core0>>

SdAddMode ==
  /\ Core1Runs
  /\ SdIdle
  /\ AddUserMode \in cmd
  /\ cmd' = {}
  /\ addMode' = TRUE
  /\ addFresh' = TRUE
  /\ UNCHANGED <<storeVars, logVars, userCheck, timeVars, io, bolt, door, core0>>

(* What becomes of PSWD.TXT is Session's. *)
SdSetPassword ==
  \E c \in cmd :
    /\ Core1Runs
    /\ SdIdle
    /\ c.op = "SetPassword"
    /\ cmd' = {}
    /\ UNCHANGED <<storeVars, logVars, userCheck, timeVars, ioVars, core0>>

SdStep ==
  \/ SdUsers
  \/ SdLogs
  \/ SdAskTime
  \/ SdTimeKnown
  \/ SdIsUser
  \/ SdAddMode
  \/ SdSetPassword

---------------------------------------------------------------------------
(* The io task. *)

IoAt(step) == Core1Runs /\ io.step = step

(* A card in add mode is sent to be added and acknowledged at once by the  *)
(* triple blink.  The mode is left whether or not it had expired.          *)
IoAddCard(c) ==
  /\ IoAt("waiting")
  /\ addMode
  /\ addFresh
  /\ addMode' = FALSE
  /\ Store!SignalAddUser(c)
  /\ io' = [step |-> "blinking", card |-> c]
  /\ UNCHANGED <<logVars, userCheck, timeVars, addFresh, bolt, door, core0>>

(* Any other card is looked at if the door is closed, and ignored if not. *)
IoReadCard(c) ==
  /\ IoAt("waiting")
  /\ ~(addMode /\ addFresh)
  /\ addMode' = FALSE
  /\ io' = IF door = "closed" THEN [step |-> "hashing", card |-> c] ELSE io
  /\ UNCHANGED <<cmd, storeVars, logVars, userCheck, timeVars, addFresh, bolt, door, core0>>

(* Mutant of IoAsk: the card is asked about unhashed. *)
IoAskUnhashed ==
  /\ IoAt("hashing")
  /\ cmd' = {IsUser(io.card)}
  /\ io' = [io EXCEPT !.step = "asking"]
  /\ UNCHANGED <<storeVars, logVars, userCheck, timeVars, addMode, addFresh, bolt, door, core0>>

(* Hashing may have to wait for the SHA unit. *)
IoAsk ==
  /\ IoAt("hashing")
  /\ cmd' = {IsUser(Hash[io.card])}
  /\ io' = [io EXCEPT !.step = "asking"]
  /\ UNCHANGED <<storeVars, logVars, userCheck, timeVars, addMode, addFresh, bolt, door, core0>>

(* Mutant of IoGranted: any answer opens. *)
IoGrantedAnyway ==
  /\ IoAt("asking")
  /\ userCheck # {}
  /\ userCheck' = {}
  /\ cmd' = {LogUser(Hash[io.card])}
  /\ bolt' = "unlocked"
  /\ io' = [step |-> "unlocking"]
  /\ UNCHANGED <<storeVars, logVars, timeVars, addMode, addFresh, door, core0>>

(* The bolt moves back from now on. *)
IoGranted ==
  /\ IoAt("asking")
  /\ TRUE \in userCheck
  /\ userCheck' = {}
  /\ cmd' = {LogUser(Hash[io.card])}
  /\ bolt' = "unlocked"
  /\ io' = [step |-> "unlocking"]
  /\ UNCHANGED <<storeVars, logVars, timeVars, addMode, addFresh, door, core0>>

IoDenied ==
  /\ IoAt("asking")
  /\ FALSE \in userCheck
  /\ userCheck' = {}
  /\ io' = [step |-> "pulsing"]
  /\ UNCHANGED <<cmd, storeVars, logVars, timeVars, addMode, addFresh, bolt, door, core0>>

(* Mutant of IoTimer: the next card is read once the door is unlocked. *)
IoTimerForgetful ==
  /\ io.step \in {"blinking", "pulsing", "unlocking"}
  /\ Core1Runs
  /\ io' = [step |-> "waiting"]
  /\ UNCHANGED <<cmd, storeVars, logVars, userCheck, timeVars, addMode, addFresh, bolt, door, core0>>

(* Timers that only lead to the next wait: the triple blink, the long      *)
(* pulse, the two seconds the actuator takes to unlock, and the flashes,   *)
(* each of half a second if the door is shut and of no time if it is open. *)
IoTimer ==
  /\ \/ IoAt("blinking") /\ io' = [step |-> "waiting"]
     \/ IoAt("pulsing") /\ io' = [step |-> "waiting"]
     \/ IoAt("unlocking") /\ io' = [step |-> "flashing", left |-> Flashes]
     \/ IoAt("flashing") /\ io.left > 0 /\ io' = [io EXCEPT !.left = @ - 1]
  /\ UNCHANGED <<cmd, storeVars, logVars, userCheck, timeVars, addMode, addFresh, bolt, door, core0>>

(* After the last flash the door is waited for, then the actuator locks.   *)
IoDoorShut ==
  /\ IoAt("flashing")
  /\ io.left = 0
  /\ door = "closed"
  /\ io' = [step |-> "locking"]
  /\ UNCHANGED <<cmd, storeVars, logVars, userCheck, timeVars, addMode, addFresh, bolt, door, core0>>

(* Mutant of IoLocked: the actuator is not driven. *)
IoNotLocked ==
  /\ IoAt("locking")
  /\ io' = [step |-> "waiting"]
  /\ UNCHANGED <<cmd, storeVars, logVars, userCheck, timeVars, addMode, addFresh, bolt, door, core0>>

IoLocked ==
  /\ IoAt("locking")
  /\ bolt' = "locked"
  /\ io' = [step |-> "waiting"]
  /\ UNCHANGED <<cmd, storeVars, logVars, userCheck, timeVars, addMode, addFresh, door, core0>>

IoStep == IoAsk \/ IoGranted \/ IoDenied \/ IoTimer \/ IoDoorShut \/ IoLocked

---------------------------------------------------------------------------
(* The world: people, time, the power supply. *)

CardPresented == \E c \in Card : IoAddCard(c) \/ IoReadCard(c)

DoorMoves ==
  /\ \/ door = "closed" /\ bolt = "unlocked" /\ door' = "open"
     \/ door = "open" /\ door' = "closed"
  /\ UNCHANGED <<cmd, storeVars, logVars, userCheck, timeVars, io, addMode, addFresh, bolt, core0>>

AddModeExpires ==
  /\ addFresh
  /\ addFresh' = FALSE
  /\ UNCHANGED <<cmd, storeVars, logVars, userCheck, timeVars, io, addMode, bolt, door, core0>>

(* The bolt and the door stay where they are. *)
LosePower ==
  /\ Store!LosePower
  /\ Log!LosePower
  /\ userCheck' = {}
  /\ timeRequest' = {}
  /\ timeResponse' = {}
  /\ io' = [step |-> "waiting"]
  /\ addMode' = FALSE
  /\ addFresh' = FALSE
  /\ core0' = "starting"
  /\ UNCHANGED <<bolt, door>>

Next ==
  \/ StartCore1
  \/ ClockStep
  \/ WebStep
  \/ WebLogsSent
  \/ SdStep
  \/ IoStep
  \/ CardPresented
  \/ DoorMoves
  \/ AddModeExpires
  \/ LosePower

Spec == Init /\ [][Next]_vars

(* The executors poll whichever task can continue, and timers run out.     *)
(* People owe nothing.                                                     *)
FairSpec ==
  /\ Spec
  /\ WF_vars(StartCore1)
  /\ WF_vars(ClockStep)
  /\ WF_vars(SdStep)
  /\ WF_vars(IoStep)

---------------------------------------------------------------------------
(* Properties. *)

IoState ==
  [step : {"waiting", "unlocking", "locking", "pulsing"}]
    \cup [step : {"blinking", "hashing", "asking"}, card : Card]
    \cup [step : {"flashing"}, left : 0..Flashes]

(* Every variable has its type, and each of the four signals holds at most *)
(* one value.                                                              *)
LockdownTypeOK ==
  /\ Store!StoreTypeOK
  /\ Log!LogTypeOK
  /\ IsSlot(userCheck, BOOLEAN)
  /\ IsSlot(timeRequest, {"now"})
  /\ IsSlot(timeResponse, {"time"})
  /\ io \in IoState
  /\ {addMode, addFresh} \subseteq BOOLEAN
  /\ bolt \in {"locked", "unlocked"}
  /\ door \in {"closed", "open"}
  /\ core0 \in {"starting", "offline", "syncing", "unsynced", "up", "answering", "stuck", "dead"}

(* Whoever asks is the one answered: a question in the slot is the one the *)
(* io task waits on, about the card it has read, and an answer is only     *)
(* there while it waits.  Nothing but the order of the steps ties USER_    *)
(* CHECK to the command it answers.                                        *)
AnswerMatchesQuestion ==
  /\ \A c \in cmd : c.op = "IsUser" =>
       /\ io.step = "asking" /\ c.id = Hash[io.card]
       /\ userCheck = {}
  /\ userCheck # {} => io.step = "asking"

(* The exchange of the time never gets out of step: whatever is under way  *)
(* of it belongs to the entry the SD task is writing, and it is one of a   *)
(* request, an answer in the making and a response.                        *)
TimeInStep ==
  LET underWay == {x \in {"request", "making", "response"} :
                     \/ x = "request" /\ timeRequest # {}
                     \/ x = "making" /\ core0 \in {"answering", "stuck"}
                     \/ x = "response" /\ timeResponse # {}}
  IN  IF \E j \in logJob : j.step = "stamp" THEN Cardinality(underWay) = 1 ELSE underWay = {}

(* The io task waits on a question nobody will answer. *)
QuestionLost ==
  /\ io.step = "asking"
  /\ userCheck = {}
  /\ \A c \in cmd : c.op # "IsUser"

(* A question is lost through the panel only: the tasks of core 1 never    *)
(* take or replace each other's command before it was answered.            *)
OnlyPanelLosesQuestions == [][QuestionLost' /\ ~QuestionLost => WebStep]_vars

(* The SD task waits for a time nobody will tell: the clock was never      *)
(* started, waits for a lost datagram, or core 0 has panicked.             *)
TimeNeverComes ==
  /\ core0 \in {"offline", "unsynced", "stuck", "dead"}
  /\ \E j \in logJob : j.step = "stamp"

(* A card presented at the closed door is let in or refused, unless the    *)
(* panel overwrote the question, core 1 has panicked, or an earlier        *)
(* opening has the SD task waiting for a clock that does not run.          *)
CardAnswered ==
  io.step = "asking" ~>
    io.step # "asking" \/ QuestionLost \/ panicked \/ TimeNeverComes

(* If the door stays shut from some time on, the bolt goes back, unless    *)
(* core 1 has panicked.                                                    *)
RelockedOnceShut ==
  <>[](door = "closed") => (bolt = "unlocked" ~> bolt = "locked" \/ panicked)

(* While the bolt is back the io task is on its way to locking it again.   *)
(* Assumes that power is not lost.                                         *)
UnlockedIsAttended == bolt = "unlocked" => io.step \in {"unlocking", "flashing", "locking"}

(* The door is governed by the cache: the abstract specification Access,   *)
(* its question being the card the io task waits to hear about.            *)
AccessImpl == INSTANCE Access WITH
  members  <- Store!Ids(users),
  question <- IF io.step = "asking" THEN {Hash[io.card]} ELSE {},
  verdict  <- userCheck

GovernsDoor == AccessImpl!Spec

(* From the card at the reader to the line on the SD card: an answer yes   *)
(* is about a card USER.TXT lists at that moment, although the SD task     *)
(* looks it up in the cache, which the panel changes beside it, and the    *)
(* answer carries no card.  Two things alone can have the cache admit      *)
(* anyone else since the boot: that the line of the user was written       *)
(* behind a torn one, as that of the first user added after a loss of      *)
(* power may be, or given up; or that a rewrite gave up or a read failed.  *)
OnlyListedAdmitted ==
  [][~damaged /\ TRUE \in userCheck' \ userCheck =>
       io.step = "asking" /\ Hash[io.card] \in Store!Ids(usersFile) \cup astray]_vars

(* The tasks together use the user database the way UserStore says ...     *)
UsesUserStore == Store!Spec

(* ... and the log the way LogStore says, so that what is proved of either *)
(* holds of the lockbox.                                                   *)
UsesLogStore == Log!Spec

---------------------------------------------------------------------------
(* What the documentation says of the device. *)

(* "WiFi connection timed out! Proceeding in offline mode...": a card is    *)
(* still answered.                                                         *)
OfflineCardAnswered == core0 = "offline" /\ io.step = "asking" ~> io.step # "asking" \/ panicked

=============================================================================
