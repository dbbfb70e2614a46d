------------------------------ MODULE LogStore ------------------------------
(***************************************************************************)
(* The log: LOG.TXT on the SD card, the cache net::LOGS the panel shows,   *)
(* and the command slot through which it is written and cleared.           *)
(*                                                                         *)
(* A text is modelled by its length in bytes, which is all log_message     *)
(* looks at: the file is truncated by length, and the cache is a string of *)
(* fixed capacity that refuses a text which is too long.                   *)
(*                                                                         *)
(* Unlike the other mutexes, that of the cache is held across waiting:     *)
(* GET /logs sends the cache to the browser with the lock in its hand.     *)
(* What is in the file after SD operations that fail is SdStorage's; here  *)
(* it is taken up.                                                         *)
(***************************************************************************)
EXTENDS Signals, Naturals

CONSTANTS
  LogMaxSize,   \* LOG_MAX_SIZE, the length at which the file is truncated (4096)
  LogPacket,    \* LOG_PACKET_CHAR_COUNT: what is kept of it, and the capacity of the cache (1024)
  BootLine,     \* length of the line "Device Booted" (14)
  AccessLines,  \* lengths of a line "<time> Accessed: <id>" (up to 49)
  MaxRetries,   \* attempts of one SD operation (4)
  MaxLogFile,   \* bound: no longer file escapes being truncated
  SdFaults,     \* whether SD operations may fail
  PowerLoss,    \* whether the device may lose power
  Lossy         \* whether a signal may replace a command not yet taken

LineLength == {BootLine} \cup AccessLines

ASSUME LogStoreAssumption ==
  /\ LogMaxSize \in Nat
  /\ LogPacket \in Nat
  /\ LogPacket <= LogMaxSize
  /\ LineLength \subseteq Nat \ {0}
  /\ MaxRetries \in Nat \ {0}
  /\ MaxLogFile \in Nat
  /\ {SdFaults, PowerLoss, Lossy} \subseteq BOOLEAN

VARIABLES
  cmd,       \* the COMMANDS signal
  logFile,   \* length of LOG.TXT
  logs,      \* length of the text in net::LOGS
  logsLock,  \* who holds the mutex of net::LOGS: "free", "web", or "sd" for good
  logJob,    \* what is left to do of log_message
  panicked   \* whether core 1 spins in the panic handler

(* What LogFileBounded remembers; no step depends on it. *)
VARIABLE
  strained   \* whether, when the file was last measured or written to, it was
             \* not cut because of a failure or got a line more than once

logVars == <<cmd, logFile, logs, logsLock, logJob, panicked, strained>>

---------------------------------------------------------------------------
AtMost(n, m) == IF n < m THEN n ELSE m

LogsReady == [step |-> "load"] \notin logJob

CanSignal == Lossy \/ cmd = {}

Init ==
  /\ cmd = {}
  /\ logFile = 0
  /\ logs = 0
  /\ logsLock = "free"
  /\ logJob = {[step |-> "load"]}
  /\ panicked = FALSE
  /\ strained = FALSE

---------------------------------------------------------------------------
(* The SD task. *)

(* Mutant of LoadLogs: the whole file goes into the cache. *)
LoadLogsWhole ==
  /\ [step |-> "load"] \in logJob
  /\ logs' = logFile
  /\ logJob' = {[step |-> "measure", line |-> BootLine]}
  /\ UNCHANGED <<cmd, logFile, logsLock, panicked, strained>>

(* The end of the file, as read_from_end reads it.  A read that gives up   *)
(* yields the empty text.                                                  *)
EndOfLog == {AtMost(logFile, LogPacket)} \cup (IF SdFaults THEN {0} ELSE {})

(* Boot: the cache takes the end of the file, then the boot is logged. *)
LoadLogs ==
  /\ [step |-> "load"] \in logJob
  /\ logs' \in EndOfLog
  /\ logJob' = {[step |-> "measure", line |-> BootLine]}
  /\ UNCHANGED <<cmd, logFile, logsLock, panicked, strained>>

(* LogUser first asks for the time. *)
TakeLogUser ==
  \E c \in cmd, n \in AccessLines :
    /\ c.op = "LogUser"
    /\ logJob = {}
    /\ cmd' = {}
    /\ logJob' = {[step |-> "stamp", line |-> n]}
    /\ UNCHANGED <<logFile, logs, logsLock, panicked, strained>>

(* The time has come. *)
Stamped ==
  \E j \in logJob :
    /\ j.step = "stamp"
    /\ logJob' = {[step |-> "measure", line |-> j.line]}
    /\ UNCHANGED <<cmd, logFile, logs, logsLock, panicked, strained>>

(* Mutant of Measure: a file is only emptied one line later. *)
MeasureLate ==
  \E j \in logJob :
    /\ j.step = "measure"
    /\ IF logFile > LogMaxSize + j.line
         THEN /\ logFile' = 0
              /\ logJob' = {[step |-> "keep", line |-> j.line, kept |-> AtMost(logFile, LogPacket)]}
         ELSE /\ logJob' = {[step |-> "append", line |-> j.line]}
              /\ UNCHANGED logFile
    /\ strained' = FALSE
    /\ UNCHANGED <<cmd, logs, logsLock, panicked>>

(* log_message calls truncate at LogMaxSize; truncate acts above it only.  *)
(* Reopening the file for writing empties it.  A file that cannot be       *)
(* opened has length 0 for either, and one that cannot be reopened is left *)
(* as it is.                                                               *)
Measure ==
  \E j \in logJob :
    /\ j.step = "measure"
    /\ \/ /\ logFile >= LogMaxSize /\ logFile > LogMaxSize
          /\ logFile' = 0
          /\ \E n \in EndOfLog :
               logJob' = {[step |-> "keep", line |-> j.line, kept |-> n]}
          /\ strained' = FALSE
       \/ /\ ~(logFile >= LogMaxSize /\ logFile > LogMaxSize)
          /\ logJob' = {[step |-> "append", line |-> j.line]}
          /\ strained' = FALSE
          /\ UNCHANGED logFile
       \/ /\ SdFaults
          /\ logFile <= MaxLogFile
          /\ logJob' = {[step |-> "append", line |-> j.line]}
          /\ strained' = TRUE
          /\ UNCHANGED logFile
    /\ UNCHANGED <<cmd, logs, logsLock, panicked>>

(* The end of the old file is written back, in one attempt. *)
Keep ==
  \E j \in logJob :
    /\ j.step = "keep"
    /\ logFile' \in {j.kept} \cup (IF SdFaults THEN 0..j.kept ELSE {})
    /\ logJob' = {[step |-> "append", line |-> j.line]}
    /\ UNCHANGED <<cmd, logs, logsLock, panicked, strained>>

(* What an append that fails has written stays and is written again. *)
AppendLine ==
  \E j \in logJob :
    /\ j.step = "append"
    /\ \E n \in {j.line} \cup (IF SdFaults THEN 0..(MaxRetries * j.line) ELSE {}) :
         /\ logFile' = logFile + n
         /\ strained' = (strained \/ n > j.line)
    /\ logJob' = {[step |-> "refresh"]}
    /\ UNCHANGED <<cmd, logs, logsLock, panicked>>

(* The whole file is read back into the cache, if the lock is free at that *)
(* moment, and none of it if it cannot be read.  The unwrap panics, lock   *)
(* in hand, on a text longer than the cache; panicking stops every task of *)
(* the core.                                                               *)
Refresh ==
  /\ [step |-> "refresh"] \in logJob
  /\ \/ /\ logsLock # "free"
        /\ logJob' = {}
        /\ UNCHANGED <<logs, logsLock, panicked>>
     \/ /\ logsLock = "free"
        /\ logFile <= LogPacket
        /\ logs' = logFile
        /\ logJob' = {}
        /\ UNCHANGED <<logsLock, panicked>>
     \/ /\ logsLock = "free"
        /\ SdFaults
        /\ logs' = 0
        /\ logJob' = {}
        /\ UNCHANGED <<logsLock, panicked>>
     \/ /\ logsLock = "free"
        /\ logFile > LogPacket
        /\ logsLock' = "sd"
        /\ panicked' = TRUE
        /\ UNCHANGED <<logs, logJob>>
  /\ UNCHANGED <<cmd, logFile, strained>>

(* clear_logs deletes the file, without a retry, and leaves the cache      *)
(* alone.                                                                  *)
SdClearLog ==
  /\ ClearLog \in cmd
  /\ logJob = {}
  /\ cmd' = {}
  /\ logFile' = 0 \/ (SdFaults /\ UNCHANGED logFile)
  /\ UNCHANGED <<logs, logsLock, logJob, panicked, strained>>

SdStep ==
  /\ ~panicked
  /\ \/ LoadLogs
     \/ TakeLogUser
     \/ Stamped
     \/ Measure
     \/ Keep
     \/ AppendLine
     \/ Refresh
     \/ SdClearLog

---------------------------------------------------------------------------
(* GET /logs: the lock is taken, and released when the browser has the     *)
(* text or the connection breaks.                                          *)
StreamBegin ==
  /\ LogsReady
  /\ logsLock = "free"
  /\ logsLock' = "web"
  /\ UNCHANGED <<cmd, logFile, logs, logJob, panicked, strained>>

StreamEnd ==
  /\ logsLock = "web"
  /\ logsLock' = "free"
  /\ UNCHANGED <<cmd, logFile, logs, logJob, panicked, strained>>

(* POST /logs/clear *)
WebClearLogs ==
  /\ LogsReady
  /\ CanSignal
  /\ logsLock = "free"
  /\ logs' = 0
  /\ cmd' = {ClearLog}
  /\ UNCHANGED <<logFile, logsLock, logJob, panicked, strained>>

(* The card reader, once it has unlocked the door. *)
SignalLogUser(id) ==
  /\ CanSignal
  /\ cmd' = {LogUser(id)}
  /\ UNCHANGED <<logFile, logs, logsLock, logJob, panicked, strained>>

LogCommand == {ClearLog} \cup {LogUser(id) : id \in Hashed}

(* The rest of the system signals and takes its own commands. *)
OtherTraffic ==
  /\ Lossy
  /\ \/ \E c \in Command \ LogCommand : cmd' = {c}
     \/ cmd \cap LogCommand = {} /\ cmd' = {}
  /\ UNCHANGED <<logFile, logs, logsLock, logJob, panicked, strained>>

(* Only the SD card survives a loss of power, with a part of what was      *)
(* being written.                                                          *)
LosePower ==
  /\ PowerLoss
  /\ \/ UNCHANGED <<logFile, strained>>
     \/ \E j \in logJob :
          /\ j.step = "keep"
          /\ logFile' \in 0..j.kept
          /\ UNCHANGED strained
     \/ \E j \in logJob :
          /\ j.step = "append"
          /\ \E n \in 0..(IF SdFaults THEN MaxRetries * j.line ELSE j.line) :
               /\ logFile' = logFile + n
               /\ strained' = (strained \/ n > j.line)
  /\ cmd' = {}
  /\ logs' = 0
  /\ logsLock' = "free"
  /\ logJob' = {[step |-> "load"]}
  /\ panicked' = FALSE

Next ==
  \/ SdStep
  \/ StreamBegin
  \/ StreamEnd
  \/ WebClearLogs
  \/ \E id \in Hashed : SignalLogUser(id)
  \/ OtherTraffic
  \/ LosePower

Spec == Init /\ [][Next]_logVars

---------------------------------------------------------------------------
(* Properties. *)

LogJob ==
  [step : {"load", "refresh"}]
    \cup [step : {"stamp", "measure", "append"}, line : LineLength]
    \cup [step : {"keep"}, line : LineLength, kept : 0..LogPacket]

(* Every variable has its type; the text in the cache fits its capacity.   *)
LogTypeOK ==
  /\ IsSlot(cmd, Command)
  /\ logFile \in Nat
  /\ logs \in 0..LogPacket
  /\ logsLock \in {"free", "web", "sd"}
  /\ IsSlot(logJob, LogJob)
  /\ {panicked, strained} \subseteq BOOLEAN

(* The file never outgrows LogMaxSize by more than a line, whenever power  *)
(* is lost and however often core 1 panics and boots again, and if failing *)
(* operations have made it, the next entry that is written without one     *)
(* brings it back.  log_message and truncate disagree on the length that   *)
(* is too long (>= and >), so one line more than the threshold suggests is *)
(* written.                                                                *)
LogFileBounded == strained \/ \E n \in LineLength : logFile <= LogMaxSize + n

(* Logging does not panic: "Up to 128 lines can be logged at once". *)
NoPanic == ~panicked

=============================================================================
