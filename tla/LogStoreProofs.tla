--------------------------- MODULE LogStoreProofs ---------------------------
(***************************************************************************)
(* What holds of the log for every threshold, packet and line length.      *)
(***************************************************************************)
EXTENDS LogStore, TLAPS

(* LogFileBounded is not inductive: appending a line keeps it only because *)
(* the file was measured, and cut if need be, earlier in the same job.     *)
RoomForLine ==
  \A j \in logJob : j.step = "append" => strained \/ logFile <= LogMaxSize

LogInv == LogTypeOK /\ LogFileBounded /\ RoomForLine

LEMMA LogConstants ==
  /\ LogMaxSize \in Nat /\ LogPacket \in Nat /\ LogPacket <= LogMaxSize
  /\ \A n \in LineLength : n \in Nat /\ n > 0
  /\ BootLine \in LineLength
  /\ AccessLines \subseteq LineLength
  /\ 0 \in 0..LogPacket
  /\ MaxRetries \in Nat
BY LogStoreAssumption DEF LineLength

LEMMA AtMostType ==
  ASSUME NEW n \in Nat
  PROVE  AtMost(n, LogPacket) \in 0..LogPacket
BY LogConstants DEF AtMost

LEMMA EndOfLogType ==
  ASSUME logFile \in Nat
  PROVE  EndOfLog \subseteq 0..LogPacket
BY LogConstants, AtMostType DEF EndOfLog

(* However often a line is written, it adds no less than nothing. *)
LEMMA WrittenType ==
  ASSUME NEW line \in LineLength, NEW n \in 0..(MaxRetries * line)
  PROVE  n \in Nat
<1>1. MaxRetries * line \in Nat
  BY LogConstants
<1> QED BY <1>1

LEMMA LogJobFields ==
  ASSUME NEW j \in LogJob
  PROVE  /\ j.step \in {"stamp", "measure", "append", "keep"} => j.line \in LineLength
         /\ j.step = "keep" => j.kept \in 0..LogPacket
BY DEF LogJob

LEMMA LogJobMade ==
  /\ [step |-> "load"] \in LogJob /\ [step |-> "refresh"] \in LogJob
  /\ \A n \in LineLength, s \in {"stamp", "measure", "append"} : [step |-> s, line |-> n] \in LogJob
  /\ \A n \in LineLength, k \in 0..LogPacket : [step |-> "keep", line |-> n, kept |-> k] \in LogJob
BY DEF LogJob

LEMMA LogSlotMade ==
  /\ IsSlot({}, Command) /\ \A c \in Command : IsSlot({c}, Command)
  /\ IsSlot({}, LogJob) /\ \A j \in LogJob : IsSlot({j}, LogJob)
BY DEF IsSlot

LEMMA LogCommandMade ==
  ClearLog \in Command /\ \A id \in Hashed : LogUser(id) \in Command
BY DEF Command, OtherCommand, ClearLog, LogUser

(* A line written once does not take the file out of its bound. *)
LEMMA WrittenOnce ==
  ASSUME RoomForLine, logFile \in Nat,
         NEW j \in logJob, j.step = "append", j.line \in LineLength,
         NEW n \in Nat,
         logFile' = logFile + n, strained' = (strained \/ n > j.line)
  PROVE  LogFileBounded'
<1>1. CASE strained'
  BY <1>1 DEF LogFileBounded
<1>2. CASE ~strained'
  <2>1. ~strained /\ ~(n > j.line)
    BY <1>2
  <2>2. logFile <= LogMaxSize
    BY <2>1 DEF RoomForLine
  <2>3. logFile' <= LogMaxSize + j.line
    BY <2>1, <2>2, LogConstants
  <2> QED BY <2>3 DEF LogFileBounded
<1> QED BY <1>1, <1>2

LEMMA LogInvInit == Init => LogInv
<1> SUFFICES ASSUME Init PROVE LogInv
  OBVIOUS
<1>1. LogTypeOK
  <2>1. IsSlot(cmd, Command) /\ IsSlot(logJob, LogJob)
    BY LogSlotMade, LogJobMade DEF Init
  <2>2. logFile \in Nat /\ logs \in 0..LogPacket /\ logsLock = "free" /\ {panicked, strained} \subseteq BOOLEAN
    BY LogConstants DEF Init
  <2> QED BY <2>1, <2>2 DEF LogTypeOK
<1>2. LogFileBounded
  <2>1. BootLine \in LineLength /\ 0 <= LogMaxSize + BootLine
    BY LogConstants
  <2> QED BY <2>1 DEF Init, LogFileBounded
<1>3. RoomForLine
  BY DEF Init, RoomForLine
<1> QED BY <1>1, <1>2, <1>3 DEF LogInv

(* Every step of the SD task, of a handler and of the world around them    *)
(* preserves LogInv.                                                       *)
LEMMA LogInvNext == LogInv /\ [Next]_logVars => LogInv'
<1> SUFFICES ASSUME LogInv, [Next]_logVars PROVE LogInv'
  OBVIOUS
<1> USE DEF LogInv, LogTypeOK, RoomForLine
<1>0. \A j \in logJob : j \in LogJob
  BY DEF IsSlot
<1>1. CASE LoadLogs
  <2>1. logs' \in 0..LogPacket
    BY <1>1, EndOfLogType DEF LoadLogs
  <2>2. IsSlot(logJob', LogJob)
    BY <1>1, LogConstants, LogJobMade, LogSlotMade DEF LoadLogs
  <2>3. \A j \in logJob' : j.step = "measure"
    BY <1>1 DEF LoadLogs
  <2> QED BY <1>1, <2>1, <2>2, <2>3 DEF LoadLogs, LogFileBounded
<1>2. CASE TakeLogUser
  <2>1. PICK c \in cmd, n \in AccessLines : TakeLogUser!(c, n)
    BY <1>2 DEF TakeLogUser
  <2>2. IsSlot(logJob', LogJob)
    BY <2>1, LogConstants, LogJobMade, LogSlotMade
  <2>3. \A j \in logJob' : j.step = "stamp"
    BY <2>1
  <2> QED BY <2>1, <2>2, <2>3, LogSlotMade DEF LogFileBounded
<1>3. CASE Stamped
  <2>1. PICK j \in logJob : Stamped!(j)
    BY <1>3 DEF Stamped
  <2>2. j.line \in LineLength
    BY <1>0, <2>1, LogJobFields
  <2>3. IsSlot(logJob', LogJob)
    BY <2>1, <2>2, LogJobMade, LogSlotMade
  <2>4. \A k \in logJob' : k.step = "measure"
    BY <2>1
  <2> QED BY <2>1, <2>3, <2>4 DEF LogFileBounded
<1>4. CASE Measure
  <2>1. PICK j \in logJob : Measure!(j)
    BY <1>4 DEF Measure
  <2>2. j.line \in LineLength
    BY <1>0, <2>1, LogJobFields
  <2>3. ASSUME NEW n \in EndOfLog,
                logFile' = 0, strained' = FALSE,
                logJob' = {[step |-> "keep", line |-> j.line, kept |-> n]}
         PROVE  LogInv'
    <3>1. IsSlot(logJob', LogJob)
      BY <2>2, <2>3, EndOfLogType, LogJobMade, LogSlotMade
    <3>2. \A k \in logJob' : k.step = "keep"
      BY <2>3
    <3>3. LogFileBounded'
      BY <2>2, <2>3, LogConstants DEF LogFileBounded
    <3> QED BY <2>1, <2>3, <3>1, <3>2, <3>3
  <2>4. ASSUME logFile' = logFile, logJob' = {[step |-> "append", line |-> j.line]},
               strained' = TRUE \/ (strained' = FALSE /\ logFile <= LogMaxSize)
         PROVE  LogInv'
    <3>1. IsSlot(logJob', LogJob)
      BY <2>2, <2>4, LogJobMade, LogSlotMade
    <3>2. strained' \in BOOLEAN /\ (strained' \/ logFile' <= LogMaxSize)
      BY <2>4
    <3>3. LogFileBounded'
      BY <2>2, <3>2, <2>4, LogConstants DEF LogFileBounded
    <3> QED BY <2>1, <2>4, <3>1, <3>2, <3>3
  <2>5. ~(logFile >= LogMaxSize /\ logFile > LogMaxSize) => logFile <= LogMaxSize
    BY LogConstants
  <2> QED BY <2>1, <2>3, <2>4, <2>5
<1>5. CASE Keep
  <2>1. PICK j \in logJob : Keep!(j)
    BY <1>5 DEF Keep
  <2>2. j.line \in LineLength /\ j.kept \in 0..LogPacket
    BY <1>0, <2>1, LogJobFields
  <2>3. IsSlot(logJob', LogJob)
    BY <2>1, <2>2, LogJobMade, LogSlotMade
  <2>4. logFile' \in Nat /\ logFile' <= LogMaxSize
    <3>1. logFile' \in 0..j.kept
      BY <2>1, <2>2
    <3> QED BY <2>2, <3>1, LogConstants
  <2>5. LogFileBounded'
    BY <2>2, <2>4, LogConstants DEF LogFileBounded
  <2> QED BY <2>1, <2>3, <2>4, <2>5
<1>6. CASE AppendLine
  <2>1. PICK j \in logJob : AppendLine!(j)
    BY <1>6 DEF AppendLine
  <2>2. j.line \in LineLength
    BY <1>0, <2>1, LogJobFields
  <2>3. PICK n \in {j.line} \cup 0..(MaxRetries * j.line) :
          logFile' = logFile + n /\ strained' = (strained \/ n > j.line)
    BY <2>1
  <2>4. n \in Nat
    BY <2>2, <2>3, WrittenType, LogConstants
  <2>5. LogFileBounded'
    BY <2>1, <2>2, <2>3, <2>4, WrittenOnce
  <2>6. IsSlot(logJob', LogJob)
    BY <2>1, LogJobMade, LogSlotMade
  <2>7. \A k \in logJob' : k.step = "refresh"
    BY <2>1
  <2>8. logFile' \in Nat /\ strained' \in BOOLEAN
    <3>1. logFile' \in Nat
      BY <2>3, <2>4
    <3>2. strained' \in BOOLEAN
      BY <2>3
    <3> QED BY <3>1, <3>2
  <2> QED BY <2>1, <2>5, <2>6, <2>7, <2>8
<1>7. CASE Refresh
  <2>1. UNCHANGED <<logFile, cmd, strained>> /\ (logJob' = {} \/ logJob' = logJob)
    BY <1>7 DEF Refresh
  <2>2. logs' \in 0..LogPacket /\ logsLock' \in {"free", "web", "sd"} /\ panicked' \in BOOLEAN
    <3>1. CASE logsLock' = logsLock /\ logs' = logs /\ panicked' = panicked
      BY <3>1
    <3>2. CASE logFile <= LogPacket /\ logs' = logFile /\ logsLock' = logsLock /\ panicked' = panicked
      BY <3>2, LogConstants
    <3>3. CASE logs' = 0 /\ logsLock' = logsLock /\ panicked' = panicked
      BY <3>3, LogConstants
    <3>4. CASE logsLock' = "sd" /\ logs' = logs /\ panicked' = TRUE
      BY <3>4
    <3> QED BY <1>7, <3>1, <3>2, <3>3, <3>4 DEF Refresh
  <2> QED BY <2>1, <2>2, LogSlotMade DEF LogFileBounded
<1>8. CASE SdClearLog
  <2>1. CASE logFile' = 0
    <3>1. LogFileBounded'
      BY <2>1, LogConstants DEF LogFileBounded
    <3> QED BY <1>8, <2>1, <3>1, LogSlotMade DEF SdClearLog
  <2>2. CASE logFile' = logFile
    BY <1>8, <2>2, LogSlotMade DEF SdClearLog, LogFileBounded
  <2> QED BY <1>8, <2>1, <2>2 DEF SdClearLog
<1>9. CASE StreamBegin
  BY <1>9 DEF StreamBegin, LogFileBounded
<1>10. CASE StreamEnd
  BY <1>10 DEF StreamEnd, LogFileBounded
<1>11. CASE WebClearLogs
  <2>1. logs' \in 0..LogPacket /\ IsSlot(cmd', Command)
    BY <1>11, LogConstants, LogSlotMade, LogCommandMade DEF WebClearLogs
  <2>2. UNCHANGED <<logFile, logsLock, logJob, panicked, strained>>
    BY <1>11 DEF WebClearLogs
  <2> QED BY <2>1, <2>2 DEF LogFileBounded
<1>12. ASSUME NEW id \in Hashed, SignalLogUser(id) PROVE LogInv'
  BY <1>12, LogSlotMade, LogCommandMade DEF SignalLogUser, LogFileBounded
<1>13. CASE OtherTraffic
  <2>1. IsSlot(cmd', Command)
    BY <1>13, LogSlotMade DEF OtherTraffic
  <2> QED BY <1>13, <2>1 DEF OtherTraffic, LogFileBounded
<1>14. CASE LosePower
  <2>1. IsSlot(logJob', LogJob) /\ \A j \in logJob' : j.step = "load"
    BY <1>14, LogJobMade, LogSlotMade DEF LosePower
  <2>2. /\ cmd' = {} /\ logs' \in 0..LogPacket
        /\ logsLock' \in {"free", "web", "sd"} /\ panicked' \in BOOLEAN
    BY <1>14, LogConstants DEF LosePower
  <2>3. logFile' \in Nat /\ strained' \in BOOLEAN /\ LogFileBounded'
    <3>1. CASE UNCHANGED <<logFile, strained>>
      BY <3>1 DEF LogFileBounded
    <3>2. ASSUME NEW j \in logJob, j.step = "keep", logFile' \in 0..j.kept, UNCHANGED strained
           PROVE  logFile' \in Nat /\ strained' \in BOOLEAN /\ LogFileBounded'
      <4>1. j.line \in LineLength /\ j.kept \in 0..LogPacket
        BY <1>0, <3>2, LogJobFields
      <4>2. logFile' \in Nat /\ logFile' <= LogMaxSize
        BY <3>2, <4>1, LogConstants
      <4> QED BY <3>2, <4>1, <4>2, LogConstants DEF LogFileBounded
    <3>3. ASSUME NEW j \in logJob, j.step = "append",
                  NEW n \in {j.line} \cup 0..j.line \cup 0..(MaxRetries * j.line),
                  logFile' = logFile + n, strained' = (strained \/ n > j.line)
           PROVE  logFile' \in Nat /\ strained' \in BOOLEAN /\ LogFileBounded'
      <4>1. j.line \in LineLength
        BY <1>0, <3>3, LogJobFields
      <4>2. n \in Nat
        BY <4>1, WrittenType, LogConstants
      <4>3. logFile' \in Nat
        BY <3>3, <4>2
      <4>4. strained' \in BOOLEAN
        BY <3>3
      <4>5. LogFileBounded'
        BY <3>3, <4>1, <4>2, WrittenOnce
      <4> QED BY <4>3, <4>4, <4>5
    <3> QED BY <1>14, <3>1, <3>2, <3>3 DEF LosePower
  <2> QED BY <2>1, <2>2, <2>3, LogSlotMade
<1>15. CASE UNCHANGED logVars
  BY <1>15 DEF logVars, LogFileBounded
<1> QED
  BY <1>1, <1>2, <1>3, <1>4, <1>5, <1>6, <1>7, <1>8, <1>9, <1>10, <1>11, <1>12, <1>13,
     <1>14, <1>15 DEF Next, SdStep

(* For every threshold, packet and line length, the variables keep their   *)
(* types: in particular the text in the cache never exceeds its capacity,  *)
(* the assignment that would make it do so being the one that panics.      *)
THEOREM LogTypes == Spec => []LogTypeOK
<1>1. LogInv => LogTypeOK
  BY DEF LogInv
<1> QED BY <1>1, LogInvInit, LogInvNext, PTL DEF Spec

(* For every threshold, packet and line length, through every loss of      *)
(* power and every panic, LOG.TXT stays within one line of LogMaxSize; and it is     *)
(* back there with the next entry written without a failure.               *)
THEOREM LogBounded == Spec => []LogFileBounded
<1>1. LogInv => LogFileBounded
  BY DEF LogInv
<1> QED BY <1>1, LogInvInit, LogInvNext, PTL DEF Spec
=============================================================================
