----------------------------- MODULE CardReader -----------------------------
(***************************************************************************)
(* The keycard reader (src/rfid.rs).  A card is a frame of bits, each a    *)
(* pulse on one of two lines, D0 or D1.  read_card collects bits until it  *)
(* has as many as a frame has, or until none has come for 50 ms.           *)
(*                                                                         *)
(* The lines know nothing of the program.  A pulse that comes while nobody *)
(* waits for an edge is missed, and so is the second of two pulses between *)
(* two polls of the task: core 1 may be busy writing to the SD card, and   *)
(* between two cards the io task does other things.                        *)
(***************************************************************************)
EXTENDS Naturals, Sequences

CONSTANTS
  Width,     \* the bits of a frame: 35
  IdBits,    \* how many of them make the number, all before the last: 21
  Frames     \* what cards send, frames of other formats among them

ASSUME CardReaderAssumption ==
  /\ Width \in Nat
  /\ IdBits \in 1..(Width - 1)
  /\ Frames \subseteq Seq({0, 1}) \ {<<>>}

VARIABLES
  frame,    \* what the card sends
  sent,     \* how many bits of it have been on the lines
  edge,     \* the lines with an edge the task has not been told of
  reader,   \* "reading", or "away" with the io task's other business
  got,      \* `bits` and `count`
  silent,   \* whether no bit has come for 50 ms
  card,     \* what read_card returned last, {} at first
  alone,    \* history: the frame began when the reader had nothing of another
  whole     \* history: and no pulse of it was missed so far

history == <<alone, whole>>
vars == <<frame, sent, edge, reader, got, silent, card, history>>

(* (bits >> 1) & 0x1FFFFF *)
Number(bits) == SubSeq(bits, Width - IdBits, Width - 1)

OnWire == sent < Len(frame)

Init ==
  /\ frame = <<>>
  /\ sent = 0
  /\ edge = {}
  /\ reader = "reading"
  /\ got = <<>>
  /\ silent = TRUE
  /\ card = {}
  /\ alone = FALSE
  /\ whole = FALSE

---------------------------------------------------------------------------
(* The lines. *)

(* Cards follow each other as closely as people like. *)
CardStarts ==
  /\ ~OnWire
  /\ frame' \in Frames
  /\ sent' = 0
  /\ alone' = (reader = "reading" /\ got = <<>> /\ edge = {})
  /\ whole' = alone'
  /\ UNCHANGED <<edge, reader, got, silent, card>>

(* The edge is seen by whoever waits for it. *)
Pulse ==
  /\ OnWire
  /\ sent' = sent + 1
  /\ edge' = IF reader = "reading" THEN edge \cup {frame[sent + 1]} ELSE edge
  /\ silent' = FALSE
  /\ whole' = (whole /\ reader = "reading" /\ edge = {})
  /\ UNCHANGED <<frame, reader, got, card, alone>>

(* 50 ms pass without a bit: those of a frame are 2 ms apart. *)
Silence ==
  /\ ~OnWire
  /\ silent' = TRUE
  /\ UNCHANGED <<frame, sent, edge, reader, got, card, history>>

---------------------------------------------------------------------------
(* The task. *)

(* select looks at D0 first; the waits begun for the next bit are for      *)
(* edges to come.                                                          *)
NextBit == IF 0 \in edge THEN 0 ELSE 1

(* Mutant of TakeBit: one bit more is waited for. *)
TakeBitMore ==
  /\ reader = "reading"
  /\ edge # {}
  /\ edge' = {}
  /\ silent' = FALSE
  /\ IF Len(got) = Width
     THEN reader' = "away" /\ got' = <<>> /\ card' = {Number(Append(got, NextBit))}
     ELSE got' = Append(got, NextBit) /\ UNCHANGED <<reader, card>>
  /\ UNCHANGED <<frame, sent, history>>

(* Mutant of TakeBit: an edge on the other line is kept for the next bit. *)
TakeBitBoth ==
  /\ reader = "reading"
  /\ edge # {}
  /\ edge' = edge \ {NextBit}
  /\ silent' = FALSE
  /\ LET bits == Append(got, NextBit)
     IN  IF Len(bits) < Width
         THEN got' = bits /\ UNCHANGED <<reader, card>>
         ELSE got' = <<>> /\ reader' = "away" /\ card' = {Number(bits)}
  /\ UNCHANGED <<frame, sent, history>>

TakeBit ==
  /\ reader = "reading"
  /\ edge # {}
  /\ edge' = {}
  /\ silent' = FALSE
  /\ LET bits == Append(got, NextBit)
     IN  IF Len(bits) < Width
         THEN got' = bits /\ UNCHANGED <<reader, card>>
         ELSE got' = <<>> /\ reader' = "away" /\ card' = {Number(bits)}
  /\ UNCHANGED <<frame, sent, history>>

(* Mutant of GiveUp: what was collected is kept. *)
GiveUpKeeping ==
  /\ reader = "reading"
  /\ got # <<>>
  /\ edge = {}
  /\ silent
  /\ UNCHANGED vars

(* Mutant of GiveUp: the timer is looked at first. *)
GiveUpHasty ==
  /\ reader = "reading"
  /\ got # <<>>
  /\ silent
  /\ got' = <<>>
  /\ edge' = {}
  /\ UNCHANGED <<frame, sent, reader, silent, card, history>>

(* with_timeout looks for the bit before it looks at the timer, which      *)
(* starts anew with every bit.                                             *)
GiveUp ==
  /\ reader = "reading"
  /\ got # <<>>
  /\ edge = {}
  /\ silent
  /\ got' = <<>>
  /\ UNCHANGED <<frame, sent, edge, reader, silent, card, history>>

(* The io task has dealt with the card and calls read_card again. *)
ReadAgain ==
  /\ reader = "away"
  /\ reader' = "reading"
  /\ UNCHANGED <<frame, sent, edge, got, silent, card, history>>

Next == CardStarts \/ Pulse \/ Silence \/ TakeBit \/ GiveUp \/ ReadAgain

Spec == Init /\ [][Next]_vars

(* A frame that began is sent, time passes, and the task is polled.  No    *)
(* card need ever come, and nobody need ever call read_card again.         *)
FairSpec == Spec /\ WF_vars(Pulse) /\ WF_vars(Silence) /\ WF_vars(TakeBit) /\ WF_vars(GiveUp)

---------------------------------------------------------------------------
(* Properties. *)

Bits == {0, 1}

(* Every variable has its type; the reader never holds a whole frame, and  *)
(* nothing at all while it is away.                                        *)
ReaderTypeOK ==
  /\ frame \in Frames \cup {<<>>}
  /\ sent \in 0..Len(frame)
  /\ edge \subseteq Bits
  /\ reader \in {"reading", "away"}
  /\ got \in Seq(Bits) /\ Len(got) < Width
  /\ silent \in BOOLEAN
  /\ card \subseteq Seq(Bits)
  /\ {alone, whole} \subseteq BOOLEAN
  /\ reader = "away" => got = <<>> /\ edge = {}

Returns == reader = "reading" /\ reader' = "away"

(* A card is not misread: whatever pulses the task misses, the number      *)
(* read_card returns is that of the card on the lines, unless the reader   *)
(* had bits of an earlier one when it began or the card is of a format     *)
(* with more bits.  In particular a card with fewer bits is not read.      *)
NotMisread ==
  [][Returns /\ alone /\ Len(frame) <= Width =>
       Len(frame) = Width /\ card' = {Number(frame)}]_vars

(* A card that finds the reader waiting, and no pulse of which the task    *)
(* misses, is read, however long the task takes to look at its last bit.   *)
CardRead ==
  whole /\ OnWire /\ Len(frame) = Width ~> reader = "away" \/ ~whole

(* What CardRead says without a clock: the task never throws a bit of such *)
(* a card away, not with a timeout that runs out beside it either, so once *)
(* all of it was sent and looked at the number has been returned.          *)
WholeIsRead ==
  whole /\ Len(frame) = Width /\ ~OnWire /\ edge = {} => card = {Number(frame)}

(* Half a card is forgotten: if from some time on nothing is on the lines, *)
(* the next card finds the reader with nothing of another.                 *)
Forgotten == <>[](~OnWire) => <>[](got = <<>> /\ edge = {})
=============================================================================
