------------------------------ MODULE SdStorage ------------------------------
(***************************************************************************)
(* The file operations of the SD task (src/sd.rs) on one of its files.     *)
(*                                                                         *)
(* An operation opens the file, reads or writes, flushes and closes, and   *)
(* starts over, up to MaxRetries times, when any of this fails.  What an   *)
(* attempt wrote before it failed stays in the file.  UserStore, LogStore  *)
(* and Session take each operation as a step or two; here it is shown what *)
(* these steps may rely on.                                                *)
(*                                                                         *)
(* A text is a sequence of bytes, of which is told whether each is a       *)
(* character of its own or a half of one of two bytes: a buffer that cuts  *)
(* a character is not valid UTF-8 and is dropped as a whole.               *)
(***************************************************************************)
EXTENDS Naturals, Sequences, SequencesExt

CONSTANTS
  Texts,       \* what is written
  MaxRetries,  \* attempts of one operation (4)
  ReadBuffer,  \* the bytes `read` takes at once (128)
  EndBuffer,   \* the bytes `read_from_end` takes at once (256)
  Packet,      \* how many bytes from the end are read and kept (1024)
  Threshold,   \* the length above which the file is truncated (4096)
  MaxLength,   \* bound: nothing is appended to a longer file
  SdFaults,    \* whether SD operations may fail
  PowerLoss    \* whether the device may lose power

Byte == {"ascii", "lead", "trail"}

ASSUME SdStorageAssumption ==
  /\ Texts \subseteq Seq(Byte)
  /\ MaxRetries \in Nat \ {0}
  /\ {ReadBuffer, EndBuffer, Packet} \subseteq Nat \ {0}
  /\ {Threshold, MaxLength} \subseteq Nat
  /\ {SdFaults, PowerLoss} \subseteq BOOLEAN

VARIABLES
  file,    \* the bytes on the card; a file that is missing is empty
  op,      \* the operation under way
  answer,  \* how the last operation ended; power may have cut it short
  before   \* history: the file as that operation found it

vars == <<file, op, answer, before>>

---------------------------------------------------------------------------
(* Texts. *)

(* core::str::from_utf8 succeeds. *)
Valid(text) ==
  \A i \in DOMAIN text :
    /\ text[i] = "lead" => i < Len(text) /\ text[i + 1] = "trail"
    /\ text[i] = "trail" => i > 1 /\ text[i - 1] = "lead"

AtMost(n, m) == IF n < m THEN n ELSE m

(* Mutant of EndOf: nothing is skipped. *)
EndOfUnseeked(text) == SubSeq(text, 1, AtMost(Packet, Len(text)))

(* seek_from_start(file_len.saturating_sub(num_chars)) *)
EndOf(text) == SubSeq(text, Len(text) - AtMost(Packet, Len(text)) + 1, Len(text))

(* What an operation reads, and the bytes it takes at once. *)
Source(o) == IF o.call = "read" THEN file ELSE EndOf(file)

BufferSize(o) == IF o.call = "read" THEN ReadBuffer ELSE EndBuffer

Reached(o) == AtMost(o.at + BufferSize(o), Len(Source(o)))

---------------------------------------------------------------------------
(* The operations.  `truncate` first reads what is to be kept. *)

Call == {"append", "overwrite", "read", "read end", "truncate"}

Init ==
  /\ file = <<>>
  /\ op = {}
  /\ answer = {}
  /\ before = <<>>

Begin(call, text) ==
  /\ op = {}
  /\ call = "append" => Len(file) <= MaxLength
  /\ op' = {[call |-> call, text |-> text, step |-> "open", try |-> 1, at |-> 0]}
  /\ answer' = {}
  /\ before' = file
  /\ UNCHANGED file

(* The operation goes on, or ends. *)
Goes(o, step, text, try) ==
  /\ op' = {[call |-> o.call, text |-> text, step |-> step, try |-> try, at |-> 0]}
  /\ UNCHANGED answer

Answer(o, ok, text) ==
  /\ op' = {}
  /\ answer' = {[call |-> o.call, ok |-> ok, text |-> text]}

(* What cannot be read is the empty text. *)
GiveUp(o) ==
  Answer(o, FALSE, IF o.call \in {"read", "read end"} THEN <<>> ELSE o.text)

(* Mutant of Failed: the attempts are not counted. *)
FailedAgain(o) == Goes(o, "open", o.text, o.try)

(* Mutant of Failed: one attempt more than there should be. *)
FailedLate(o) ==
  \/ /\ o.try <= MaxRetries
     /\ Goes(o, "open", o.text, o.try + 1)
  \/ /\ o.try > MaxRetries
     /\ GiveUp(o)

(* retry_with_backoff: another attempt half a second later, or none.  The  *)
(* empty text a failed read leaves is what truncate then keeps.            *)
Failed(o) ==
  \/ /\ o.try < MaxRetries
     /\ Goes(o, "open", o.text, o.try + 1)
  \/ /\ o.try = MaxRetries
     /\ o.call = "truncate"
     /\ Goes(o, "cut", <<>>, o.try)
  \/ /\ o.try = MaxRetries
     /\ o.call # "truncate"
     /\ GiveUp(o)

Writes(o) == o.call \in {"append", "overwrite"}

(* Mutant of OpenFile: only the first attempt empties the file. *)
OpenFileOnce(o) ==
  /\ Writes(o) /\ o.step = "open"
  /\ file' = IF o.call = "overwrite" /\ o.try = 1 THEN <<>> ELSE file
  /\ Goes(o, "write", o.text, o.try)

(* Mutant of OpenFile: the modes are swapped. *)
OpenFileSwapped(o) ==
  /\ Writes(o) /\ o.step = "open"
  /\ file' = IF o.call = "append" THEN <<>> ELSE file
  /\ Goes(o, "write", o.text, o.try)

(* Opening a file to overwrite it empties it. *)
OpenFile(o) ==
  /\ Writes(o) /\ o.step = "open"
  /\ file' = IF o.call = "overwrite" THEN <<>> ELSE file
  /\ Goes(o, "write", o.text, o.try)

(* It may be empty already when opening it fails. *)
OpenFails(o) ==
  /\ SdFaults
  /\ Writes(o) /\ o.step = "open"
  /\ Failed(o)
  /\ UNCHANGED file \/ (o.call = "overwrite" /\ file' = <<>>)

WriteData(o) ==
  /\ o.step = "write"
  /\ file' = file \o o.text
  /\ Goes(o, "flush", o.text, o.try)

WriteFails(o) ==
  /\ SdFaults
  /\ o.step = "write"
  /\ \E t \in Prefixes(o.text) : file' = file \o t
  /\ Failed(o)

FlushAndClose(o) ==
  /\ o.step = "flush"
  /\ Answer(o, TRUE, o.text)
  /\ UNCHANGED file

FlushFails(o) ==
  /\ SdFaults
  /\ o.step = "flush"
  /\ Failed(o)
  /\ UNCHANGED file

(* Mutant of OpenToRead: the output outlives the attempt. *)
OpenToReadOn(o) ==
  /\ ~Writes(o) /\ o.step = "open"
  /\ Goes(o, "read", o.text, o.try)
  /\ UNCHANGED file

(* Every attempt starts with an empty output. *)
OpenToRead(o) ==
  /\ ~Writes(o) /\ o.step = "open"
  /\ Goes(o, "read", <<>>, o.try)
  /\ UNCHANGED file

(* from_utf8(..).unwrap_or("") of one buffer. *)
ReadBytes(o) ==
  LET buffer == SubSeq(Source(o), o.at + 1, Reached(o))
  IN  /\ o.step = "read"
      /\ o.at < Len(Source(o))
      /\ op' = {[call |-> o.call, step |-> "read", try |-> o.try, at |-> Reached(o),
                 text |-> IF Valid(buffer) THEN o.text \o buffer ELSE o.text]}
      /\ UNCHANGED <<file, answer>>

(* At the end of the file; truncate goes on with what was read. *)
CloseRead(o) ==
  /\ o.step = "read"
  /\ o.at = Len(Source(o))
  /\ IF o.call = "truncate" THEN Goes(o, "cut", o.text, o.try) ELSE Answer(o, TRUE, o.text)
  /\ UNCHANGED file

ReadFails(o) ==
  /\ SdFaults
  /\ ~Writes(o) /\ o.step \in {"open", "read"}
  /\ Failed(o)
  /\ UNCHANGED file

(* From here on truncate tries once and ignores what fails. *)
Cut(o) ==
  /\ o.step = "cut"
  /\ \/ /\ Len(file) > Threshold
        /\ file' = <<>>
        /\ Goes(o, "put", o.text, o.try)
     \/ /\ Len(file) <= Threshold \/ SdFaults
        /\ Answer(o, TRUE, o.text)
        /\ UNCHANGED file

Put(o) ==
  /\ o.step = "put"
  /\ file' = o.text \/ (SdFaults /\ file' \in Prefixes(o.text))
  /\ Answer(o, TRUE, o.text)

SdStep ==
  /\ \E o \in op :
       \/ OpenFile(o) \/ OpenFails(o)
       \/ WriteData(o) \/ WriteFails(o)
       \/ FlushAndClose(o) \/ FlushFails(o)
       \/ OpenToRead(o) \/ ReadBytes(o) \/ CloseRead(o) \/ ReadFails(o)
       \/ Cut(o) \/ Put(o)
  /\ UNCHANGED before

(* remove: once, and what fails is ignored. *)
Delete ==
  /\ op = {}
  /\ file' = <<>> \/ (SdFaults /\ UNCHANGED file)
  /\ answer' = {}
  /\ before' = file
  /\ UNCHANGED op

(* What was written and not flushed, or closed, may be on the card in part. *)
LosePower ==
  \E o \in op :
    /\ PowerLoss
    /\ \/ UNCHANGED file
       \/ o.step = "put" /\ file' \in Prefixes(o.text)
       \/ o.step = "flush" /\ \E lost \in 0..Len(o.text) : file' = SubSeq(file, 1, Len(file) - lost)
    /\ GiveUp(o)
    /\ UNCHANGED before

Next ==
  \/ \E call \in {"append", "overwrite"}, text \in Texts : Begin(call, text)
  \/ \E call \in {"read", "read end", "truncate"} : Begin(call, <<>>)
  \/ SdStep
  \/ Delete
  \/ LosePower

Spec == Init /\ [][Next]_vars

(* Every SD operation returns, with an error if need be, and the half      *)
(* second between two attempts passes.                                     *)
FairSpec == Spec /\ WF_vars(SdStep)

---------------------------------------------------------------------------
(* Properties. *)

(* Every variable has its type, there is one operation at a time, it makes *)
(* no more attempts than it may and reads no further than the file goes.   *)
StorageTypeOK ==
  /\ file \in Seq(Byte)
  /\ before \in Seq(Byte)
  /\ op \subseteq [call : Call, text : Seq(Byte), try : 1..MaxRetries, at : 0..Len(file),
                   step : {"open", "write", "flush", "read", "cut", "put"}]
  /\ answer \subseteq [call : Call, ok : BOOLEAN, text : Seq(Byte)]
  /\ \A o, p \in op : o = p
  /\ \A a, b \in answer : a = b
  /\ op = {} \/ answer = {}

(* What n attempts add to a file: n pieces of the text, each from its      *)
(* beginning on, one behind the other; `cut` is where each but the last    *)
(* ends.                                                                   *)
Added(old, new, text, n) ==
  /\ IsPrefix(old, new)
  /\ \E cut \in [1..(n - 1) -> Len(old)..Len(new)] :
       LET border == [i \in 0..n |-> IF i = 0 THEN Len(old) ELSE IF i = n THEN Len(new) ELSE cut[i]]
       IN  \A i \in 1..n :
             /\ border[i - 1] <= border[i]
             /\ IsPrefix(SubSeq(new, border[i - 1] + 1, border[i]), text)

(* An append never costs what was in the file, at whichever of its steps   *)
(* it fails or the power does, and adds a piece of the text for each of    *)
(* its attempts and nothing else; once it has succeeded the whole text     *)
(* ends the file.  This is all one can say: a line may be there several    *)
(* times, or glued to a piece of itself.                                   *)
AppendKeeps ==
  /\ \A o \in op : o.call = "append" => Added(before, file, o.text, o.try)
  /\ \A a \in answer : a.call = "append" =>
       /\ \E n \in 1..MaxRetries : Added(before, file, a.text, n)
       /\ a.ok => IsSuffix(a.text, file)

(* An overwritten file is the old one or a part of the new one from its    *)
(* beginning on, never a mixture, however many attempts there are and      *)
(* whenever power is lost; and it is the new one when the operation says   *)
(* that it succeeded.                                                      *)
OverwriteReplaces ==
  /\ \A o \in op : o.call = "overwrite" =>
       file = before \/ IsPrefix(file, o.text)
  /\ \A a \in answer : a.call = "overwrite" =>
       IF a.ok THEN file = a.text ELSE file = before \/ IsPrefix(file, a.text)

(* No character lies across the border of two buffers, nor in halves. *)
Unbroken(text, size) ==
  /\ Valid(text)
  /\ \A k \in 1..Len(text) : k * size <= Len(text) => text[k * size] # "lead"

LastBytes(text) == SubSeq(text, Len(text) - AtMost(Packet, Len(text)) + 1, Len(text))

(* A read that succeeds returns the whole file, or the whole of its end,   *)
(* unless a buffer happens to cut a character, whatever the attempts       *)
(* before it had read already; one that gives up cannot be told from an    *)
(* empty file.                                                             *)
ReadsBack ==
  \A a \in answer :
    /\ a.call = "read" /\ a.ok /\ Unbroken(file, ReadBuffer) => a.text = file
    /\ a.call = "read end" /\ a.ok /\ Unbroken(LastBytes(file), EndBuffer) =>
         a.text = LastBytes(file)
    /\ a.call \in {"read", "read end"} /\ ~a.ok => a.text = <<>>

(* Truncating leaves a short file alone, and of a long one what it keeps   *)
(* is no more than a packet and comes from its end: all of it, or a part   *)
(* of that end when the write fails, or nothing when the read did.         *)
TruncateKeepsEnd ==
  \A a \in answer : a.call = "truncate" =>
    \/ file = before
    \/ /\ Len(before) > Threshold
       /\ Len(file) <= Packet
       /\ Unbroken(LastBytes(before), EndBuffer) => IsPrefix(file, LastBytes(before))

(* How far an attempt has come. *)
Progress == [open |-> 0, write |-> 1, flush |-> 2, read |-> 1, cut |-> 3, put |-> 4]

(* No step is ever taken twice by the same attempt from the same place,    *)
(* and no attempt follows the last: with StorageTypeOK, which bounds the   *)
(* attempts and the places, no pattern of failures makes an operation go   *)
(* on for ever.                                                            *)
StepsAdvance ==
  [][\A o \in op, p \in op' :
       \/ p.try > o.try
       \/ p.try = o.try /\ Progress[p.step] > Progress[o.step]
       \/ p.try = o.try /\ p.step = o.step /\ p.at > o.at]_vars

(* Every operation comes to an end, after a bounded number of attempts.    *)
OperationsEnd == op # {} ~> op = {}

=============================================================================
