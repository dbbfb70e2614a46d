-------------------------- MODULE CardReaderProofs --------------------------
(***************************************************************************)
(* Theorems about the keycard reader, for every length of a frame, every   *)
(* part of it that makes the number and every set of frames.               *)
(***************************************************************************)
EXTENDS CardReader, TLAPS

(* What TLAPS needs to know of sequences of bits. *)
LEMMA BitSequences ==
  /\ <<>> \in Seq(Bits) /\ Len(<<>>) = 0
  /\ \A s \in Seq(Bits), b \in Bits :
       /\ Append(s, b) \in Seq(Bits)
       /\ Len(Append(s, b)) = Len(s) + 1
       /\ \A i \in 1..Len(s) : Append(s, b)[i] = s[i]
       /\ Append(s, b)[Len(s) + 1] = b
  /\ \A s \in Seq(Bits) : s = <<>> <=> Len(s) = 0
BY DEF Bits

LEMMA NumberIsBits ==
  ASSUME NEW s \in Seq(Bits), Len(s) = Width
  PROVE  Number(s) \in Seq(Bits)
<1>1. Width \in Nat /\ IdBits \in 1..(Width - 1)
  BY CardReaderAssumption
<1>2. Width - IdBits \in 1..Len(s) /\ Width - 1 \in 1..Len(s)
  BY <1>1
<1>3. \A i \in (Width - IdBits)..(Width - 1) : s[i] \in Bits
  BY <1>1
<1> QED BY <1>1, <1>2, <1>3 DEF Number, Bits

LEMMA NextBitIsBit == ASSUME edge \subseteq Bits PROVE NextBit \in Bits
BY DEF NextBit, Bits

LEMMA FramesAreBits == ASSUME frame \in Frames \cup {<<>>} PROVE frame \in Seq(Bits)
<1>1. CASE frame \in Frames
  BY <1>1, CardReaderAssumption DEF Bits
<1>2. CASE frame = <<>>
  BY <1>2, BitSequences
<1> QED BY <1>1, <1>2

---------------------------------------------------------------------------
(* Types. *)

LEMMA TypeInit == Init => ReaderTypeOK
<1>1. Width > 0
  BY CardReaderAssumption
<1> SUFFICES ASSUME Init PROVE ReaderTypeOK
  OBVIOUS
<1>2. frame \in Frames \cup {<<>>} /\ sent \in 0..Len(frame)
  BY BitSequences DEF Init
<1>3. got \in Seq(Bits) /\ Len(got) < Width
  BY <1>1, BitSequences DEF Init
<1>4. {alone, whole} \subseteq BOOLEAN /\ silent \in BOOLEAN
  BY DEF Init
<1> QED BY <1>2, <1>3, <1>4 DEF Init, ReaderTypeOK

LEMMA TypeNext == ReaderTypeOK /\ [Next]_vars => ReaderTypeOK'
<1> SUFFICES ASSUME ReaderTypeOK, [Next]_vars PROVE ReaderTypeOK'
  OBVIOUS
<1> USE BitSequences DEF ReaderTypeOK
<1>0. frame \in Seq(Bits) /\ Width > 0 /\ Width \in Nat
  BY FramesAreBits, CardReaderAssumption
<1>1. CASE CardStarts
  <2>1. frame' \in Frames /\ sent' = 0 /\ UNCHANGED <<edge, reader, got, silent, card>>
    BY <1>1 DEF CardStarts
  <2>2. frame' \in Seq(Bits)
    BY <2>1, CardReaderAssumption DEF Bits
  <2>3. {alone', whole'} \subseteq BOOLEAN
    BY <1>1 DEF CardStarts
  <2>4. sent' \in 0..Len(frame')
    BY <2>1, <2>2
  <2> QED BY <2>1, <2>3, <2>4
<1>2. CASE Pulse
  <2>1. frame[sent + 1] \in Bits /\ sent + 1 \in 0..Len(frame)
    BY <1>0, <1>2 DEF Pulse, OnWire
  <2>2. /\ sent' = sent + 1 /\ UNCHANGED <<frame, reader, got, card, alone>>
        /\ edge' = IF reader = "reading" THEN edge \cup {frame[sent + 1]} ELSE edge
    BY <1>2 DEF Pulse
  <2>3. silent' \in BOOLEAN /\ whole' \in BOOLEAN
    BY <1>2 DEF Pulse
  <2> QED BY <2>1, <2>2, <2>3
<1>3. CASE Silence
  BY <1>3 DEF Silence, history
<1>4. CASE TakeBit
  <2> DEFINE bits == Append(got, NextBit)
  <2>1. bits \in Seq(Bits) /\ Len(bits) = Len(got) + 1
    BY NextBitIsBit
  <2>2. edge' = {} /\ silent' = FALSE /\ UNCHANGED <<frame, sent, alone, whole>> /\ reader = "reading"
    BY <1>4 DEF TakeBit, history
  <2>3. CASE Len(bits) < Width
    <3>1. got' = bits /\ UNCHANGED <<reader, card>>
      BY <1>4, <2>3 DEF TakeBit
    <3> HIDE DEF bits
    <3> QED BY <2>1, <2>2, <2>3, <3>1
  <2>4. CASE ~(Len(bits) < Width)
    <3>1. got' = <<>> /\ reader' = "away" /\ card' = {Number(bits)}
      BY <1>4, <2>4 DEF TakeBit
    <3>2. Len(bits) = Width
      BY <1>0, <2>1, <2>4
    <3> HIDE DEF bits
    <3>3. card' \subseteq Seq(Bits)
      BY <2>1, <3>1, <3>2, NumberIsBits
    <3> QED BY <1>0, <2>2, <3>1, <3>3
  <2> QED BY <2>3, <2>4
<1>5. CASE GiveUp
  BY <1>0, <1>5 DEF GiveUp, history
<1>6. CASE ReadAgain
  BY <1>6 DEF ReadAgain, history
<1>7. CASE UNCHANGED vars
  BY <1>7 DEF vars, history
<1> QED BY <1>1, <1>2, <1>3, <1>4, <1>5, <1>6, <1>7 DEF Next

(* The reader never collects more than a frame, and brings nothing of one  *)
(* card along when it is called for the next.                              *)
THEOREM ReaderTypes == Spec => []ReaderTypeOK
BY TypeInit, TypeNext, PTL DEF Spec

---------------------------------------------------------------------------
(* What was collected. *)

(* The reader can only fall behind the card: of a frame that began alone   *)
(* it has at most as many bits as were sent, and if it has as many it has  *)
(* exactly those.  This is what makes counting the bits enough.            *)
Prefix(n) == \A i \in 1..n : got[i] = frame[i]

Behind ==
  /\ edge = {} =>
       /\ Len(got) <= sent
       /\ Len(got) = sent => Prefix(sent)
  /\ edge # {} =>
       /\ Len(got) < sent
       /\ Len(got) + 1 = sent => Prefix(sent - 1) /\ edge = {frame[sent]}
  /\ reader = "away" => sent > 0

BehindInv == ReaderTypeOK /\ (alone => Behind)

LEMMA BehindInit == Init => BehindInv
BY TypeInit DEF Init, BehindInv

LEMMA BehindNext == BehindInv /\ [Next]_vars => BehindInv'
<1> SUFFICES ASSUME ReaderTypeOK, ReaderTypeOK', alone => Behind, [Next]_vars, alone'
             PROVE  Behind'
  BY TypeNext DEF BehindInv
<1> USE DEF Behind, Prefix
<1>0. /\ sent \in Nat /\ Len(got) \in Nat /\ got \in Seq(Bits) /\ frame \in Seq(Bits)
      /\ edge \subseteq Bits /\ Width \in Nat /\ Width > 0
  BY FramesAreBits, CardReaderAssumption DEF ReaderTypeOK
<1>1. CASE CardStarts
  <2>1. sent' = 0 /\ got' = <<>> /\ edge' = {} /\ reader' = "reading"
    BY <1>1 DEF CardStarts
  <2> QED BY <2>1, BitSequences
<1>2. CASE Pulse
  <2>1. /\ alone /\ sent' = sent + 1 /\ UNCHANGED <<frame, got, reader>>
        /\ edge' = IF reader = "reading" THEN edge \cup {frame[sent + 1]} ELSE edge
    BY <1>2 DEF Pulse
  <2>2. CASE reader = "away"
    BY <1>0, <2>1, <2>2, BitSequences DEF ReaderTypeOK
  <2>3. CASE reader = "reading" /\ edge = {}
    <3>1. edge' = {frame[sent + 1]}
      BY <2>1, <2>3
    <3>2. Len(got) <= sent /\ (Len(got) = sent => Prefix(sent))
      BY <2>1, <2>3
    <3> QED BY <1>0, <2>1, <2>3, <3>1, <3>2
  <2>4. CASE reader = "reading" /\ edge # {}
    <3>1. edge' # {} /\ Len(got) < sent
      BY <2>1, <2>4
    <3> QED BY <1>0, <2>1, <2>4, <3>1
  <2> QED BY <2>2, <2>3, <2>4 DEF ReaderTypeOK
<1>3. CASE Silence
  BY <1>3 DEF Silence, history
<1>4. CASE TakeBit
  <2> DEFINE bits == Append(got, NextBit)
  <2>1. alone /\ edge # {} /\ edge' = {} /\ UNCHANGED <<frame, sent>> /\ reader = "reading"
    BY <1>4 DEF TakeBit, history
  <2>2. Len(got) < sent /\ (Len(got) + 1 = sent => Prefix(sent - 1) /\ edge = {frame[sent]})
    BY <2>1
  <2>3. /\ bits \in Seq(Bits) /\ Len(bits) = Len(got) + 1
        /\ \A i \in 1..Len(got) : bits[i] = got[i]
        /\ bits[Len(got) + 1] = NextBit
    BY <1>0, NextBitIsBit, BitSequences
  <2>4. (got' = bits /\ reader' = reader) \/ got' = <<>>
    BY <1>4 DEF TakeBit
  <2>5. CASE got' = <<>>
    BY <1>0, <2>1, <2>2, <2>5, BitSequences
  <2>6. CASE got' = bits /\ reader' = reader
    <3>1. Len(got') <= sent
      BY <1>0, <2>2, <2>3, <2>6
    <3>2. ASSUME Len(got') = sent PROVE Prefix(sent)'
      <4>1. Prefix(sent - 1) /\ edge = {frame[sent]} /\ Len(got) = sent - 1
        BY <1>0, <2>2, <2>3, <2>6, <3>2
      <4>2. NextBit = frame[sent]
        <5>1. frame[sent] \in Bits
          BY <1>0, <4>1
        <5> QED BY <4>1, <5>1 DEF NextBit, Bits
      <4> HIDE DEF bits
      <4> QED BY <1>0, <2>1, <2>3, <2>6, <4>1, <4>2
    <3> QED BY <2>1, <2>6, <3>1, <3>2
  <2> QED BY <2>4, <2>5, <2>6
<1>5. CASE GiveUp
  <2>1. got # <<>> /\ got' = <<>> /\ edge = {} /\ alone /\ UNCHANGED <<frame, sent, edge, reader>>
    BY <1>5 DEF GiveUp, history
  <2>2. Len(got) > 0 /\ Len(got) <= sent
    BY <1>0, <2>1, BitSequences
  <2> QED BY <1>0, <2>1, <2>2, BitSequences
<1>6. CASE ReadAgain
  BY <1>6 DEF ReadAgain, history
<1>7. CASE UNCHANGED vars
  BY <1>7 DEF vars, history
<1> QED BY <1>1, <1>2, <1>3, <1>4, <1>5, <1>6, <1>7 DEF Next

(* The bit that completes a frame from which nothing was lost: what was    *)
(* collected is then the frame.                                            *)
LEMMA FrameCollected ==
  ASSUME ReaderTypeOK, Behind, edge # {}, Len(got) + 1 = Width, Len(frame) <= Width
  PROVE  sent = Width /\ Len(frame) = Width /\ Append(got, NextBit) = frame
<1> DEFINE bits == Append(got, NextBit)
<1>1. /\ Width \in Nat /\ got \in Seq(Bits) /\ frame \in Seq(Bits) /\ Len(got) < Width
      /\ sent \in 0..Len(frame) /\ edge \subseteq Bits
  BY FramesAreBits, CardReaderAssumption DEF ReaderTypeOK
<1>2. /\ bits \in Seq(Bits) /\ Len(bits) = Len(got) + 1
      /\ \A i \in 1..Len(got) : bits[i] = got[i]
      /\ bits[Len(got) + 1] = NextBit
  BY <1>1, NextBitIsBit, BitSequences
<1>3. Len(got) < sent /\ (Len(got) + 1 = sent => Prefix(sent - 1) /\ edge = {frame[sent]})
  BY DEF Behind
<1>4. sent = Width /\ Len(frame) = Width
  BY <1>1, <1>3
<1>5. Prefix(Width - 1) /\ edge = {frame[Width]} /\ frame[Width] \in Bits
  BY <1>1, <1>3, <1>4
<1>6. NextBit = frame[Width]
  BY <1>5 DEF NextBit, Bits
<1>7. Len(bits) = Len(frame) /\ \A i \in 1..Len(frame) : bits[i] = frame[i]
  BY <1>1, <1>2, <1>4, <1>5, <1>6 DEF Prefix
<1> HIDE DEF bits
<1>8. bits = frame
  BY <1>1, <1>2, <1>7
<1> QED BY <1>4, <1>8 DEF bits

(* A card that begins while the reader has nothing of another is either    *)
(* read as the number it carries or not at all, whatever the task misses.  *)
THEOREM NeverMisread == Spec => NotMisread
<1>1. BehindInv /\ [Next]_vars =>
        [Returns /\ alone /\ Len(frame) <= Width =>
           Len(frame) = Width /\ card' = {Number(frame)}]_vars
  <2> SUFFICES ASSUME ReaderTypeOK, Behind, Next, Returns, Len(frame) <= Width
               PROVE  Len(frame) = Width /\ card' = {Number(frame)}
    BY DEF BehindInv
  <2> DEFINE bits == Append(got, NextBit)
  <2>1. TakeBit
    BY DEF Next, Returns, CardStarts, Pulse, Silence, GiveUp, ReadAgain
  <2>2. edge # {} /\ ~(Len(bits) < Width) /\ card' = {Number(bits)}
    BY <2>1 DEF TakeBit, Returns
  <2>3. Len(bits) = Len(got) + 1 /\ Len(got) \in Nat /\ Len(got) < Width /\ Width \in Nat
    BY NextBitIsBit, BitSequences, CardReaderAssumption DEF ReaderTypeOK
  <2>4. Len(got) + 1 = Width
    BY <2>2, <2>3
  <2>5. Len(frame) = Width /\ bits = frame
    BY <2>2, <2>4, FrameCollected
  <2> QED BY <2>2, <2>5
<1> QED BY <1>1, BehindInit, BehindNext, PTL DEF Spec, NotMisread

---------------------------------------------------------------------------
(* What is not thrown away.  Of a card none of whose pulses was missed the *)
(* reader has every bit, or all but the one on the lines, and while more   *)
(* are to come the 50 ms have not run out; or it has returned the number.  *)

NothingLost ==
  \/ /\ reader = "reading" /\ edge = {}
     /\ sent < Width /\ Len(got) = sent
     /\ silent => got = <<>>
  \/ reader = "reading" /\ edge # {} /\ Len(got) + 1 = sent
  \/ sent = Width /\ edge = {} /\ card = {Number(frame)}

WholeInv ==
  /\ BehindInv
  /\ whole => alone
  /\ whole /\ Len(frame) = Width => NothingLost

LEMMA WholeInit == Init => WholeInv
BY BehindInit DEF Init, WholeInv

LEMMA WholeNext == WholeInv /\ [Next]_vars => WholeInv'
<1> SUFFICES ASSUME WholeInv, [Next]_vars
             PROVE  (whole => alone)' /\ (whole' /\ Len(frame') = Width => NothingLost')
  BY BehindNext DEF WholeInv
<1>0. /\ sent \in 0..Len(frame) /\ Len(frame) \in Nat /\ Len(got) \in Nat /\ got \in Seq(Bits)
      /\ (got = <<>> <=> Len(got) = 0) /\ edge \subseteq Bits /\ Width \in Nat /\ Width > 0
  BY FramesAreBits, BitSequences, CardReaderAssumption DEF WholeInv, BehindInv, ReaderTypeOK
<1>9. (whole => alone)'
  BY DEF WholeInv, Next, CardStarts, Pulse, Silence, TakeBit, GiveUp, ReadAgain, vars, history
<1> SUFFICES ASSUME whole', Len(frame') = Width
             PROVE  NothingLost'
  BY <1>9
<1>1. CASE CardStarts
  BY <1>0, <1>1, BitSequences DEF CardStarts, NothingLost
<1>10. CASE ~CardStarts
  <2>1. whole /\ alone /\ Len(frame) = Width /\ frame' = frame
    BY <1>10 DEF WholeInv, Next, Pulse, Silence, TakeBit, GiveUp, ReadAgain, vars, history
  <2>2. NothingLost /\ ReaderTypeOK /\ Behind
    BY <2>1 DEF WholeInv, BehindInv
  <2>3. CASE Pulse
    <3>1. reader = "reading" /\ edge = {}
      BY <2>3, Zenon DEF Pulse
    <3>2. /\ sent < Len(frame) /\ sent' = sent + 1 /\ UNCHANGED <<reader, got>>
          /\ edge' = edge \cup {frame[sent + 1]}
      BY <2>3, <3>1 DEF Pulse, OnWire
    <3>3. edge' # {}
      BY <3>2
    <3> QED BY <1>0, <2>1, <2>2, <3>1, <3>2, <3>3 DEF NothingLost
  <2>4. CASE Silence
    BY <1>0, <2>1, <2>2, <2>4 DEF Silence, OnWire, NothingLost, history
  <2>5. CASE TakeBit
    <3> DEFINE bits == Append(got, NextBit)
    <3>1. /\ edge # {} /\ edge' = {} /\ silent' = FALSE /\ reader = "reading" /\ sent' = sent
          /\ IF Len(bits) < Width
             THEN got' = bits /\ UNCHANGED <<reader, card>>
             ELSE got' = <<>> /\ reader' = "away" /\ card' = {Number(bits)}
      BY <2>5 DEF TakeBit
    <3>2. Len(bits) = Len(got) + 1 /\ Len(got) + 1 = sent
      BY <1>0, <2>2, <3>1, NextBitIsBit, BitSequences DEF NothingLost
    <3>3. CASE Len(bits) < Width
      BY <1>0, <3>1, <3>2, <3>3 DEF NothingLost
    <3>4. CASE ~(Len(bits) < Width)
      <4>1. sent = Width
        BY <1>0, <2>1, <3>2, <3>4
      <4>2. bits = frame
        BY <2>1, <2>2, <3>1, <3>2, <4>1, FrameCollected
      <4> QED BY <2>1, <3>1, <3>4, <4>1, <4>2 DEF NothingLost
    <3> QED BY <3>3, <3>4
  <2>6. CASE GiveUp
    BY <1>0, <2>1, <2>2, <2>6 DEF GiveUp, NothingLost, history
  <2>7. CASE ReadAgain
    BY <1>0, <2>1, <2>2, <2>7 DEF ReadAgain, NothingLost, history
  <2>8. CASE UNCHANGED vars
    BY <2>2, <2>8 DEF vars, NothingLost
  <2> QED BY <1>10, <2>3, <2>4, <2>5, <2>6, <2>7, <2>8 DEF Next
<1> QED BY <1>1, <1>10

(* However long the task takes to look, and whatever the timer does beside *)
(* it, a card of which no pulse was missed is returned with its last bit.  *)
THEOREM WholeCardsRead == Spec => []WholeIsRead
<1>1. WholeInv => WholeIsRead
  <2> SUFFICES ASSUME WholeInv, whole, Len(frame) = Width, ~OnWire, edge = {}
               PROVE  card = {Number(frame)}
    BY DEF WholeIsRead
  <2>1. sent = Width /\ Width \in Nat
    BY CardReaderAssumption DEF WholeInv, BehindInv, ReaderTypeOK, OnWire
  <2> QED BY <2>1 DEF WholeInv, NothingLost
<1> QED BY <1>1, WholeInit, WholeNext, PTL DEF Spec
=============================================================================
