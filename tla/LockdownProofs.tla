--------------------------- MODULE LockdownProofs ---------------------------
(***************************************************************************)
(* Theorems about the composed lockbox: the exchanges between its tasks    *)
(* stay in step, for every set of cards, every capacity, every mix of      *)
(* requests from the panel and every way of connecting.                    *)
(***************************************************************************)
EXTENDS Lockdown, FiniteSetTheorems, TLAPS

---------------------------------------------------------------------------
(* Questions and answers. *)

(* AnswerMatchesQuestion is inductive once the command slot is known to    *)
(* hold one value and the io task to keep the card it asks about.          *)
QuestionInv ==
  /\ io \in IoState
  /\ IsSlot(cmd, cmd)
  /\ AnswerMatchesQuestion

(* What a command tells of itself, in the vocabulary of each module. *)
LEMMA CommandOps ==
  /\ \A id : IsUser(id).op = "IsUser" /\ IsUser(id).id = id
  /\ \A id : LogUser(id).op # "IsUser"
  /\ AddUserMode.op # "IsUser" /\ \A p : SetPassword(p).op # "IsUser"
  /\ \A id : Store!AddUser(id).op # "IsUser" /\ Store!RemoveUser(id).op # "IsUser"
  /\ \A id, n : Store!UpdateUser(id, n).op # "IsUser"
  /\ Store!RemoveAllUsers.op # "IsUser" /\ Log!ClearLog.op # "IsUser"
BY DEF IsUser, LogUser, AddUserMode, SetPassword, Store!AddUser, Store!RemoveUser, Store!UpdateUser,
   Store!RemoveAllUsers, Log!ClearLog

LEMMA SlotOfOne == IsSlot({}, {}) /\ \A x : IsSlot({x}, {x})
BY DEF IsSlot

(* The states of the io task, by what they carry. *)
LEMMA IoStates ==
  /\ \A s \in {"waiting", "unlocking", "locking", "pulsing"} :
       [step |-> s] \in IoState /\ [step |-> s].step = s
  /\ \A s \in {"blinking", "hashing", "asking"}, c \in Card :
       [step |-> s, card |-> c] \in IoState /\ [step |-> s, card |-> c].step = s
  /\ \A x \in IoState : x.step = "hashing" =>
       LET y == [x EXCEPT !.step = "asking"]
       IN  y \in IoState /\ y.step = "asking" /\ y.card = x.card
BY DEF IoState

(* The flashes are counted down and stay flashes. *)
LEMMA IoFlashes ==
  /\ LET y == [step |-> "flashing", left |-> Flashes]
     IN  y \in IoState /\ y.step = "flashing"
  /\ \A x \in IoState : x.step = "flashing" /\ x.left > 0 =>
       LET y == [x EXCEPT !.left = @ - 1]
       IN  y \in IoState /\ y.step = "flashing"
<1>1. Flashes \in Nat
  BY LockdownAssumption
<1>2. ASSUME NEW x \in IoState, x.step = "flashing", x.left > 0
      PROVE  /\ [x EXCEPT !.left = @ - 1] \in IoState
             /\ [x EXCEPT !.left = @ - 1].step = "flashing"
  <2>1. x \in [step : {"flashing"}, left : 0..Flashes]
    BY <1>2 DEF IoState
  <2>2. x.left - 1 \in 0..Flashes
    BY <2>1, <1>2, <1>1
  <2>3. [x EXCEPT !.left = @ - 1] = [step |-> "flashing", left |-> x.left - 1]
    BY <2>1
  <2> QED BY <2>2, <2>3 DEF IoState
<1>3. [step |-> "flashing", left |-> Flashes] \in IoState
  BY <1>1 DEF IoState
<1> QED BY <1>2, <1>3

(* The timers lead from the blinks and pulses to the next card, and from   *)
(* an unlocked door to the flashes and on.                                 *)
LEMMA TimerRuns ==
  ASSUME io \in IoState, IoTimer
  PROVE  /\ UNCHANGED <<cmd, userCheck, bolt>>
         /\ io' \in IoState
         /\ \/ io.step \in {"blinking", "pulsing"} /\ io'.step = "waiting"
            \/ io.step \in {"unlocking", "flashing"} /\ io'.step = "flashing"
<1> USE DEF IoAt
<1>1. UNCHANGED <<cmd, userCheck, bolt>>
  BY DEF IoTimer
<1>2. CASE io.step \in {"blinking", "pulsing"} /\ io' = [step |-> "waiting"]
  BY <1>1, <1>2, IoStates
<1>3. CASE io.step = "unlocking" /\ io' = [step |-> "flashing", left |-> Flashes]
  BY <1>1, <1>3, IoFlashes
<1>4. CASE io.step = "flashing" /\ io.left > 0 /\ io' = [io EXCEPT !.left = @ - 1]
  BY <1>1, <1>4, IoFlashes
<1> QED BY <1>2, <1>3, <1>4 DEF IoTimer

LEMMA QuestionInit == Init => QuestionInv
BY IoStates, SlotOfOne DEF Init, Store!Init, QuestionInv, AnswerMatchesQuestion

(* The panel puts other commands into the slot ... *)
WebOrder ==
  /\ UNCHANGED <<io, userCheck>>
  /\ UNCHANGED cmd \/ \E c : cmd' = {c} /\ c.op # "IsUser"

LEMMA PanelDoesNotAsk == WebStep => WebOrder
<1> USE CommandOps DEF WebOrder, ioVars
<1>1. WebUsers => WebOrder
  <2>1. \A id, n : Store!WebUpdateUser(id, n) => \E c : cmd' = {c} /\ c.op # "IsUser"
    BY DEF Store!WebUpdateUser
  <2>2. \A id : Store!WebRemoveUser(id) => \E c : cmd' = {c} /\ c.op # "IsUser"
    BY DEF Store!WebRemoveUser
  <2>3. Store!WebRemoveAllUsers => \E c : cmd' = {c} /\ c.op # "IsUser"
    BY DEF Store!WebRemoveAllUsers
  <2> QED BY <2>1, <2>2, <2>3 DEF WebUsers
<1>2. WebLogs => WebOrder
  BY DEF WebLogs, Log!StreamBegin, Log!WebClearLogs
<1>3. WebAddMode \/ WebPassword => WebOrder
  BY DEF WebAddMode, WebPassword
<1> QED BY <1>1, <1>2, <1>3 DEF WebStep

(* ... and whoever else neither asks nor answers takes other commands out  *)
(* of it.                                                                  *)
OtherStep ==
  \/ SdUsers \/ SdLogs \/ SdAskTime \/ SdTimeKnown \/ SdAddMode \/ SdSetPassword
  \/ WebLogsSent \/ StartCore1 \/ ClockStep \/ DoorMoves \/ AddModeExpires

OtherOrder ==
  /\ UNCHANGED <<io, userCheck>>
  /\ \/ UNCHANGED cmd
     \/ cmd' = {} /\ \E c \in cmd : c.op # "IsUser"

LEMMA OthersDontAsk == OtherStep => OtherOrder
<1> USE CommandOps DEF OtherOrder
<1>1. SdUsers => OtherOrder
  BY DEF SdUsers, ioVars, Store!SdStep, Store!LoadUsers, Store!AddUserTake, Store!AddUserWrite, Store!AddUserFails, Store!AddUserPush,
     Store!RemoveUserOpen, Store!RemoveUserWrite, Store!RemoveUserRetain, Store!ChangeNameOpen,
     Store!ChangeNameWrite, Store!RemoveAllDelete, Store!RemoveAllClear
<1>2. SdLogs => OtherOrder
  BY DEF SdLogs, ioVars, Log!LoadLogs, Log!Measure, Log!Keep, Log!AppendLine, Log!Refresh, Log!SdClearLog
<1>3. SdAskTime \/ SdTimeKnown => OtherOrder
  BY DEF SdAskTime, SdTimeKnown, ioVars, Log!TakeLogUser, Log!Stamped
<1>4. SdAddMode \/ SdSetPassword => OtherOrder
  BY DEF SdAddMode, SdSetPassword, ioVars
<1>5. WebLogsSent \/ StartCore1 \/ ClockStep => OtherOrder
  BY DEF WebLogsSent, Log!StreamEnd, StartCore1, ClockStep, ClockSync, ClockTake, ClockReply,
     ClockStuck, ioVars
<1>6. DoorMoves \/ AddModeExpires => OtherOrder
  BY DEF DoorMoves, AddModeExpires
<1> QED BY <1>1, <1>2, <1>3, <1>4, <1>5, <1>6 DEF OtherStep

LEMMA QuestionNext == QuestionInv /\ [Next]_vars => QuestionInv'
<1> SUFFICES ASSUME QuestionInv, [Next]_vars PROVE QuestionInv'
  OBVIOUS
<1> USE DEF QuestionInv, AnswerMatchesQuestion, IoAt
<1>1. CASE OtherStep
  BY <1>1, OthersDontAsk, SlotOfOne DEF OtherOrder
<1>7. CASE WebStep
  BY <1>7, PanelDoesNotAsk, SlotOfOne DEF WebOrder
<1>2. CASE SdIsUser
  <2>1. PICK c \in cmd : SdIsUser!(c)
    BY <1>2 DEF SdIsUser
  <2>2. UNCHANGED io /\ cmd' = {}
    BY <2>1 DEF ioVars
  <2> QED BY <2>1, <2>2, SlotOfOne
<1>3. CASE IoStep
  <2>1. CASE IoAsk
    <3>1. io' \in IoState /\ io'.step = "asking" /\ io'.card = io.card
      BY <2>1, IoStates DEF IoAsk
    <3>2. userCheck' = {} /\ cmd' = {IsUser(Hash[io'.card])}
      BY <2>1, <3>1 DEF IoAsk
    <3> QED BY <3>1, <3>2, CommandOps, SlotOfOne
  <2>2. CASE IoGranted
    <3>1. io' \in IoState /\ userCheck' = {} /\ cmd' = {LogUser(Hash[io.card])}
      BY <2>2, IoStates DEF IoGranted
    <3> QED BY <3>1, CommandOps, SlotOfOne
  <2>3. CASE IoDenied
    BY <2>3, IoStates DEF IoDenied
  <2>4. CASE IoTimer \/ IoDoorShut \/ IoLocked
    <3>1. /\ UNCHANGED <<cmd, userCheck>>
          /\ io.step # "asking"
          /\ io' \in IoState /\ io'.step # "asking"
      BY <2>4, IoStates, TimerRuns DEF IoDoorShut, IoLocked
    <3> QED BY <3>1
  <2> QED BY <1>3, <2>1, <2>2, <2>3, <2>4 DEF IoStep
<1>4. CASE CardPresented
  <2>1. PICK c \in Card : IoAddCard(c) \/ IoReadCard(c)
    BY <1>4 DEF CardPresented
  <2>2. CASE IoAddCard(c)
    <3>1. io' \in IoState /\ io.step = "waiting" /\ io'.step = "blinking"
      BY <2>2, IoStates DEF IoAddCard
    <3>2. userCheck' = userCheck /\ cmd' = {Store!AddUser(c)}
      BY <2>2 DEF IoAddCard, Store!SignalAddUser
    <3> QED BY <3>1, <3>2, CommandOps, SlotOfOne
  <2>3. CASE IoReadCard(c)
    BY <2>3, IoStates DEF IoReadCard
  <2> QED BY <2>1, <2>2, <2>3
<1>5. CASE LosePower
  BY <1>5, IoStates, SlotOfOne DEF LosePower, Store!LosePower
<1>6. CASE UNCHANGED vars
  BY <1>6 DEF vars, ioVars
<1> QED BY <1>1, <1>2, <1>3, <1>4, <1>5, <1>6, <1>7 DEF Next, SdStep, OtherStep

(* The answer the io task takes is the answer to the question it asked:    *)
(* neither a restart, a lost command, a slow SD card nor any request from  *)
(* the panel leaves an answer behind for the next card.                    *)
THEOREM AnswersMatch == Spec => []AnswerMatchesQuestion
<1>1. QuestionInv => AnswerMatchesQuestion
  BY DEF QuestionInv
<1> QED BY <1>1, QuestionInit, QuestionNext, PTL DEF Spec

(* A step that leaves the io task waiting for an answer nobody will give   *)
(* is a request from the panel: the tasks of core 1 never do that to each  *)
(* other, nor does the clock or a restart.                                 *)
THEOREM PanelLosesQuestions == Spec => OnlyPanelLosesQuestions
<1>1. QuestionInv /\ [Next]_vars => [QuestionLost' /\ ~QuestionLost => WebStep]_vars
  <2> SUFFICES ASSUME QuestionInv, Next, QuestionLost', ~QuestionLost PROVE WebStep
    BY DEF QuestionLost, vars
  <2> USE DEF QuestionLost, QuestionInv, IoAt
  <2>1. ~SdIsUser
    BY DEF SdIsUser
  <2>2. ~IoStep
    <3>1. ~IoAsk
      BY IoStates, CommandOps DEF IoAsk
    <3>2. ~IoGranted /\ ~IoDenied
      BY IoStates DEF IoGranted, IoDenied
    <3>3. ~IoTimer /\ ~IoDoorShut /\ ~IoLocked
      BY IoStates, TimerRuns DEF IoDoorShut, IoLocked
    <3> QED BY <3>1, <3>2, <3>3 DEF IoStep
  <2>3. ~CardPresented
    BY IoStates DEF CardPresented, IoAddCard, IoReadCard
  <2>4. ~LosePower
    BY IoStates DEF LosePower
  <2>5. ~OtherStep
    BY OthersDontAsk DEF OtherOrder, IsSlot
  <2> QED BY <2>1, <2>2, <2>3, <2>4, <2>5 DEF Next, SdStep, OtherStep
<1> QED BY <1>1, QuestionInit, QuestionNext, PTL DEF Spec, OnlyPanelLosesQuestions

---------------------------------------------------------------------------
(* The door. *)

(* What the tasks other than io leave alone. *)
LEMMA OthersLeaveDoor == OtherStep \/ WebStep \/ SdIsUser => UNCHANGED <<io, bolt>>
<1>1. WebStep => UNCHANGED <<io, bolt>>
  BY DEF WebStep, WebUsers, WebLogs, WebAddMode, WebPassword, ioVars
<1>2. OtherStep => UNCHANGED <<io, bolt>>
  BY DEF OtherStep, SdUsers, SdLogs, SdAskTime, SdTimeKnown, SdAddMode, SdSetPassword, WebLogsSent, StartCore1,
     ClockStep, ClockSync, ClockTake, ClockReply, ClockStuck, DoorMoves, AddModeExpires, ioVars
<1>3. SdIsUser => UNCHANGED <<io, bolt>>
  BY DEF SdIsUser, ioVars
<1> QED BY <1>1, <1>2, <1>3

DoorInv == io \in IoState /\ UnlockedIsAttended

LEMMA DoorNext ==
  ASSUME ~PowerLoss
  PROVE  DoorInv /\ [Next]_vars => DoorInv'
<1> SUFFICES ASSUME DoorInv, [Next]_vars PROVE DoorInv'
  OBVIOUS
<1> USE DEF DoorInv, UnlockedIsAttended, IoAt
<1>1. CASE OtherStep \/ WebStep \/ SdIsUser
  BY <1>1, OthersLeaveDoor
<1>2. CASE IoStep
  <2>1. CASE IoAsk
    BY <2>1, IoStates DEF IoAsk
  <2>2. CASE IoGranted
    BY <2>2, IoStates DEF IoGranted
  <2>3. CASE IoDenied \/ IoTimer
    BY <2>3, IoStates, TimerRuns DEF IoDenied
  <2>4. CASE IoDoorShut \/ IoLocked
    BY <2>4, IoStates DEF IoDoorShut, IoLocked
  <2> QED BY <1>2, <2>1, <2>2, <2>3, <2>4 DEF IoStep
<1>3. CASE CardPresented
  BY <1>3, IoStates DEF CardPresented, IoAddCard, IoReadCard
<1>4. ~LosePower
  BY DEF LosePower, Store!LosePower
<1>5. CASE UNCHANGED vars
  BY <1>5 DEF vars, ioVars
<1> QED BY <1>1, <1>2, <1>3, <1>4, <1>5 DEF Next, SdStep, OtherStep

(* As long as power is not lost, the bolt is never left back: whenever it  *)
(* is, the io task is on the way that ends with driving it forward.        *)
THEOREM NeverLeftUnlocked ==
  ASSUME ~PowerLoss
  PROVE  Spec => []UnlockedIsAttended
<1>1. Init => DoorInv
  BY IoStates DEF Init, DoorInv, UnlockedIsAttended
<1>2. DoorInv => UnlockedIsAttended
  BY DEF DoorInv
<1> QED BY <1>1, <1>2, DoorNext, PTL DEF Spec

---------------------------------------------------------------------------
(* The time. *)

(* The three forms an exchange under way can take, and TimeInStep without  *)
(* counting them.                                                          *)
Requested == timeRequest # {}
BeingMade == core0 \in {"answering", "stuck"}
Responded == timeResponse # {}

Stamping == \E j \in logJob : j.step = "stamp"

OneUnderWay ==
  /\ Requested \/ BeingMade \/ Responded
  /\ ~(Requested /\ BeingMade) /\ ~(Requested /\ Responded) /\ ~(BeingMade /\ Responded)

TimeInv ==
  /\ IF Stamping THEN OneUnderWay ELSE ~Requested /\ ~BeingMade /\ ~Responded
  /\ IsSlot(logJob, logJob)

LEMMA TimeInvImplies == TimeInv => TimeInStep
<1> DEFINE underWay == {x \in {"request", "making", "response"} :
                          \/ x = "request" /\ timeRequest # {}
                          \/ x = "making" /\ core0 \in {"answering", "stuck"}
                          \/ x = "response" /\ timeResponse # {}}
<1> SUFFICES ASSUME TimeInv
             PROVE  IF Stamping THEN Cardinality(underWay) = 1 ELSE underWay = {}
  BY DEF TimeInStep, Stamping
<1>1. ASSUME Stamping PROVE Cardinality(underWay) = 1
  <2>1. \E x : underWay = {x}
    <3> USE <1>1 DEF TimeInv, OneUnderWay, Requested, BeingMade, Responded
    <3>1. CASE Requested
      <4> underWay = {"request"}
        BY <3>1
      <4> QED OBVIOUS
    <3>2. CASE BeingMade
      <4> underWay = {"making"}
        BY <3>2
      <4> QED OBVIOUS
    <3>3. CASE Responded
      <4> underWay = {"response"}
        BY <3>3
      <4> QED OBVIOUS
    <3> QED BY <3>1, <3>2, <3>3
  <2> QED BY <2>1, FS_Singleton
<1>2. ASSUME ~Stamping PROVE underWay = {}
  BY <1>2 DEF TimeInv, Requested, BeingMade, Responded
<1> QED BY <1>1, <1>2

(* Every step that has no part in the exchange leaves it alone, and does   *)
(* not begin or end an entry that needs the time.                          *)
TimeUntouched ==
  /\ UNCHANGED timeVars
  /\ UNCHANGED core0 \/ (~BeingMade /\ ~BeingMade')
  /\ \/ UNCHANGED logJob
     \/ /\ \E j \in logJob : j.step # "stamp"
        /\ IsSlot(logJob', logJob')
        /\ \A j \in logJob' : j.step # "stamp"

LEMMA LogStepsUntimed == SdLogs => TimeUntouched
<1> SUFFICES ASSUME SdLogs PROVE TimeUntouched
  OBVIOUS
<1> USE DEF TimeUntouched, SdLogs, IsSlot
<1>1. CASE Log!LoadLogs
  BY <1>1 DEF Log!LoadLogs
<1>2. CASE Log!Measure
  BY <1>2 DEF Log!Measure
<1>3. CASE Log!Keep
  BY <1>3 DEF Log!Keep
<1>4. CASE Log!AppendLine
  BY <1>4 DEF Log!AppendLine
<1>5. CASE Log!Refresh
  BY <1>5 DEF Log!Refresh
<1>6. CASE Log!SdClearLog
  BY <1>6 DEF Log!SdClearLog
<1> QED BY <1>1, <1>2, <1>3, <1>4, <1>5, <1>6

LEMMA RestUntimed ==
  StartCore1 \/ ClockSync \/ WebStep \/ WebLogsSent \/ SdUsers \/ SdIsUser \/ SdAddMode
    \/ SdSetPassword \/ IoStep \/ CardPresented \/ DoorMoves \/ AddModeExpires \/ UNCHANGED vars
  => TimeUntouched
<1> USE DEF TimeUntouched, BeingMade, logVars
<1>1. StartCore1 \/ ClockSync => TimeUntouched
  BY LockdownAssumption DEF StartCore1, ClockSync
<1>2. WebStep \/ WebLogsSent => TimeUntouched
  BY DEF WebStep, WebUsers, WebLogs, WebAddMode, WebPassword, WebLogsSent, Log!StreamBegin, Log!WebClearLogs,
     Log!StreamEnd
<1>3. SdUsers \/ SdIsUser \/ SdAddMode \/ SdSetPassword => TimeUntouched
  BY DEF SdUsers, SdIsUser, SdAddMode, SdSetPassword
<1>4. IoStep => TimeUntouched
  BY DEF IoStep, IoAsk, IoGranted, IoDenied, IoTimer, IoDoorShut, IoLocked
<1>5. CardPresented \/ DoorMoves \/ AddModeExpires => TimeUntouched
  BY DEF CardPresented, IoAddCard, IoReadCard, DoorMoves, AddModeExpires
<1>6. UNCHANGED vars => TimeUntouched
  BY DEF vars
<1> QED BY <1>1, <1>2, <1>3, <1>4, <1>5, <1>6

LEMMA TimeNext == TimeInv /\ [Next]_vars => TimeInv'
<1> SUFFICES ASSUME TimeInv, [Next]_vars PROVE TimeInv'
  OBVIOUS
<1> USE DEF TimeInv, OneUnderWay, Stamping, Requested, BeingMade, Responded, IsSlot
<1>1. CASE TimeUntouched
  <2>1. BeingMade' <=> BeingMade
    BY <1>1 DEF TimeUntouched
  <2> QED BY <1>1, <2>1 DEF TimeUntouched, timeVars
<1>2. CASE ClockTake
  BY <1>2 DEF ClockTake, logVars
<1>3. CASE ClockReply
  BY <1>3 DEF ClockReply, logVars
<1>7. CASE ClockStuck
  <2>1. UNCHANGED <<timeVars, logVars>> /\ (BeingMade' <=> BeingMade)
    BY <1>7 DEF ClockStuck
  <2> QED BY <2>1 DEF logVars, timeVars
<1>4. CASE SdAskTime
  <2>1. logJob = {} /\ \E n : logJob' = {[step |-> "stamp", line |-> n]}
    BY <1>4 DEF SdAskTime, Log!TakeLogUser
  <2> QED BY <1>4, <2>1 DEF SdAskTime
<1>5. CASE SdTimeKnown
  <2>1. Stamping /\ \E n : logJob' = {[step |-> "measure", line |-> n]}
    BY <1>5 DEF SdTimeKnown, Log!Stamped
  <2> QED BY <1>5, <2>1 DEF SdTimeKnown
<1>6. CASE LosePower
  <2>1. logJob' = {[step |-> "load"]} /\ timeRequest' = {} /\ timeResponse' = {} /\ core0' = "starting"
    BY <1>6 DEF LosePower, Log!LosePower
  <2> QED BY <2>1
<1> QED
  BY <1>1, <1>2, <1>3, <1>4, <1>5, <1>6, <1>7, LogStepsUntimed, RestUntimed DEF Next, SdStep, ClockStep

(* The requests for the time and the responses never get out of step: no   *)
(* response is left over for a later entry, through restarts included.     *)
THEOREM TimeStaysInStep == Spec => []TimeInStep
<1>1. Init => TimeInv
  BY DEF Init, Log!Init, TimeInv, Stamping, Requested, BeingMade, Responded, IsSlot
<1> QED BY <1>1, TimeInvImplies, TimeNext, PTL DEF Spec
=============================================================================
