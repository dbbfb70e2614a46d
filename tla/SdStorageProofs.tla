-------------------------- MODULE SdStorageProofs --------------------------
(***************************************************************************)
(* What a file contains and what an operation returns, for every text,     *)
(* every size of the buffers, every number of attempts and every pattern   *)
(* of faults.                                                              *)
(***************************************************************************)
EXTENDS SdStorage, SequenceTheorems, TLAPS

---------------------------------------------------------------------------
(* Texts. *)

LEMMA PrefixIs ==
  ASSUME NEW s \in Seq(Byte), NEW t \in Seq(Byte)
  PROVE  IsPrefix(s, t) <=> Len(s) <= Len(t) /\ \A i \in 1..Len(s) : s[i] = t[i]
<1>0. Len(s) \in Nat /\ Len(t) \in Nat
  BY LenProperties
<1>1. SubSeq(s, 1, Len(s)) = s
  BY SubSeqFull
<1> SUFFICES ASSUME Len(s) <= Len(t)
             PROVE  s = SubSeq(t, 1, Len(s)) <=> \A i \in 1..Len(s) : s[i] = t[i]
  BY <1>1 DEF IsPrefix
<1>2. \A i \in 1..Len(s) : t[i] \in Byte
  BY <1>0, ElementOfSeq
<1>3. /\ SubSeq(t, 1, Len(s)) \in Seq(Byte)
      /\ Len(SubSeq(t, 1, Len(s))) = Len(s)
      /\ \A i \in 1..Len(s) : SubSeq(t, 1, Len(s))[i] = t[i]
  BY <1>0, <1>2, SubSeqProperties
<1> HIDE DEF Byte
<1> QED BY <1>3, SeqEqual

(* The beginnings of a text: those `write` and the loss of power leave.    *)
LEMMA Beginnings ==
  ASSUME NEW text \in Seq(Byte), NEW n \in 0..Len(text)
  PROVE  /\ SubSeq(text, 1, n) \in Seq(Byte)
         /\ Len(SubSeq(text, 1, n)) = n
         /\ IsPrefix(SubSeq(text, 1, n), text)
<1>0. Len(text) \in Nat
  BY LenProperties
<1>1. \A i \in 1..n : text[i] \in Byte
  BY <1>0, ElementOfSeq
<1>2. /\ SubSeq(text, 1, n) \in Seq(Byte)
      /\ Len(SubSeq(text, 1, n)) = n
      /\ \A i \in 1..n : SubSeq(text, 1, n)[i] = text[i]
  BY <1>0, <1>1, SubSeqProperties
<1> DEFINE t == SubSeq(text, 1, n)
<1> HIDE DEF t
<1>3. t \in Seq(Byte) /\ Len(t) = n /\ \A i \in 1..n : t[i] = text[i]
  BY <1>2 DEF t
<1>4. IsPrefix(t, text)
  BY <1>0, <1>3, PrefixIs
<1> QED BY <1>3, <1>4 DEF t

LEMMA WholeAndNothing ==
  ASSUME NEW text \in Seq(Byte)
  PROVE  /\ IsPrefix(text, text)
         /\ <<>> \in Seq(Byte) /\ Len(<<>>) = 0
         /\ IsPrefix(<<>>, text)
         /\ <<>> \o text = text
<1>0. Len(text) \in Nat /\ <<>> \in Seq(Byte) /\ Len(<<>>) = 0
  BY LenProperties, EmptySeq
<1>1. IsPrefix(text, text)
  BY <1>0, PrefixIs
<1>2. ASSUME NEW s \in Seq(Byte), Len(s) = 0 PROVE IsPrefix(s, text)
  <2>1. Len(s) <= Len(text) /\ \A i \in 1..Len(s) : s[i] = text[i]
    BY <1>0, <1>2
  <2> QED BY <2>1, PrefixIs
<1>3. IsPrefix(<<>>, text)
  BY <1>0, <1>2
<1> QED BY <1>0, <1>1, <1>3, ConcatEmptySeq

(* What is put behind a file does not change it, and can be found there.   *)
LEMMA Appended ==
  ASSUME NEW s \in Seq(Byte), NEW t \in Seq(Byte)
  PROVE  /\ s \o t \in Seq(Byte)
         /\ Len(s \o t) = Len(s) + Len(t)
         /\ \A a \in 1..(Len(s) + 1), b \in 0..Len(s) : SubSeq(s \o t, a, b) = SubSeq(s, a, b)
         /\ SubSeq(s \o t, Len(s) + 1, Len(s) + Len(t)) = t
<1> DEFINE u == s \o t
<1>0. Len(s) \in Nat /\ Len(t) \in Nat
  BY LenProperties
<1>1. /\ u \in Seq(Byte)
      /\ Len(u) = Len(s) + Len(t)
      /\ \A i \in 1..Len(u) : u[i] = IF i <= Len(s) THEN s[i] ELSE t[i - Len(s)]
  BY ConcatProperties
<1> HIDE DEF u
<1>2. (\A i \in 1..Len(u) : u[i] \in Byte) /\ (\A i \in 1..Len(s) : s[i] \in Byte)
  BY <1>1, ElementOfSeq
<1>3. ASSUME NEW a \in 1..(Len(s) + 1), NEW b \in 0..Len(s)
      PROVE  SubSeq(u, a, b) = SubSeq(s, a, b)
  <2> DEFINE v == SubSeq(u, a, b)
             w == SubSeq(s, a, b)
  <2>1. /\ v \in Seq(Byte)
        /\ Len(v) = IF a <= b THEN b - a + 1 ELSE 0
        /\ \A i \in 1..(b - a + 1) : v[i] = u[a + i - 1]
    BY <1>0, <1>1, <1>2, SubSeqProperties
  <2>2. /\ w \in Seq(Byte)
        /\ Len(w) = IF a <= b THEN b - a + 1 ELSE 0
        /\ \A i \in 1..(b - a + 1) : w[i] = s[a + i - 1]
    BY <1>0, <1>2, SubSeqProperties
  <2> HIDE DEF v, w
  <2>3. \A i \in 1..(b - a + 1) : u[a + i - 1] = s[a + i - 1]
    BY <1>0, <1>1
  <2>4. \A i \in 1..Len(v) : v[i] = w[i]
    BY <1>0, <2>1, <2>2, <2>3
  <2>5. v = w
    BY <2>1, <2>2, <2>4, SeqEqual
  <2> QED BY <2>5 DEF v, w
<1>4. SubSeq(u, Len(s) + 1, Len(s) + Len(t)) = t
  <2> DEFINE v == SubSeq(u, Len(s) + 1, Len(s) + Len(t))
  <2>1. \A i \in (Len(s) + 1)..(Len(s) + Len(t)) : u[i] \in Byte
    BY <1>0, <1>1, <1>2
  <2>2. (Len(s) + Len(t)) - (Len(s) + 1) + 1 = Len(t)
    BY <1>0
  <2>3. /\ v \in Seq(Byte)
        /\ Len(v) = Len(t)
        /\ \A i \in 1..Len(t) : v[i] = u[(Len(s) + 1) + i - 1]
    <3>1. Len(s) + 1 \in Int /\ Len(s) + Len(t) \in Int
      BY <1>0
    <3>2. Len(s) + 1 <= Len(s) + Len(t) \/ Len(t) = 0
      BY <1>0
    <3> HIDE DEF Byte
    <3> QED BY <1>0, <2>1, <2>2, <3>1, <3>2, SubSeqProperties
  <2> HIDE DEF v
  <2>4. \A i \in 1..Len(t) : u[(Len(s) + 1) + i - 1] = t[i]
    <3> SUFFICES ASSUME NEW i \in 1..Len(t) PROVE u[(Len(s) + 1) + i - 1] = t[i]
      OBVIOUS
    <3>1. (Len(s) + 1) + i - 1 = Len(s) + i /\ Len(s) + i \in 1..Len(u) /\ ~(Len(s) + i <= Len(s))
          /\ (Len(s) + i) - Len(s) = i
      BY <1>0, <1>1
    <3> QED BY <1>1, <3>1
  <2>5. v = t
    BY <2>3, <2>4, SeqEqual
  <2> QED BY <2>5 DEF v
<1> QED BY <1>0, <1>1, <1>3, <1>4 DEF u

(* What was there is the beginning of what an append leaves ...            *)
LEMMA StillThere ==
  ASSUME NEW old \in Seq(Byte), NEW s \in Seq(Byte), NEW t \in Seq(Byte), IsPrefix(old, s)
  PROVE  IsPrefix(old, s \o t)
<1> DEFINE u == s \o t
<1>0. Len(old) \in Nat /\ Len(s) \in Nat /\ Len(t) \in Nat
  BY LenProperties
<1>1. Len(old) <= Len(s) /\ \A i \in 1..Len(old) : old[i] = s[i]
  BY PrefixIs
<1>2. u \in Seq(Byte) /\ Len(u) = Len(s) + Len(t) /\ \A i \in 1..Len(s) : u[i] = s[i]
  BY <1>0, ConcatProperties
<1> HIDE DEF u
<1>3. Len(old) <= Len(u) /\ \A i \in 1..Len(old) : old[i] = u[i]
  BY <1>0, <1>1, <1>2
<1>4. IsPrefix(old, u)
  BY <1>2, <1>3, PrefixIs
<1> QED BY <1>4 DEF u

(* ... and ends with the text.                                             *)
LEMMA AppendedLast ==
  ASSUME NEW s \in Seq(Byte), NEW t \in Seq(Byte)
  PROVE  IsSuffix(t, s \o t)
<1> DEFINE u == s \o t
<1>0. Len(s) \in Nat /\ Len(t) \in Nat
  BY LenProperties
<1>1. /\ u \in Seq(Byte)
      /\ Len(u) = Len(s) + Len(t)
      /\ \A i \in 1..Len(u) : u[i] = IF i <= Len(s) THEN s[i] ELSE t[i - Len(s)]
  BY ConcatProperties
<1>2. ASSUME NEW x \in Seq(Byte)
      PROVE  /\ Reverse(x) \in Seq(Byte)
             /\ Len(Reverse(x)) = Len(x)
             /\ \A i \in 1..Len(x) : Reverse(x)[i] = x[(Len(x) - i) + 1]
  <2>1. Len(x) \in Nat
    BY LenProperties
  <2>2. \A i \in 1..Len(x) : x[(Len(x) - i) + 1] \in Byte
    BY <2>1, ElementOfSeq
  <2> HIDE DEF Byte
  <2>3. Reverse(x) \in [1..Len(x) -> Byte]
    BY <2>2 DEF Reverse
  <2> QED BY <2>1, <2>3 DEF Reverse
<1> HIDE DEF u
<1>3. \A i \in 1..Len(t) : Reverse(t)[i] = Reverse(u)[i]
  <2> SUFFICES ASSUME NEW i \in 1..Len(t) PROVE Reverse(t)[i] = Reverse(u)[i]
    OBVIOUS
  <2>1. Reverse(t)[i] = t[(Len(t) - i) + 1]
    BY <1>2
  <2>2. Reverse(u)[i] = u[(Len(u) - i) + 1]
    BY <1>0, <1>1, <1>2
  <2>3. u[(Len(u) - i) + 1] = t[(Len(u) - i) + 1 - Len(s)]
    BY <1>0, <1>1
  <2>4. (Len(u) - i) + 1 - Len(s) = (Len(t) - i) + 1
    BY <1>0, <1>1
  <2> QED BY <2>1, <2>2, <2>3, <2>4
<1>4. IsPrefix(Reverse(t), Reverse(u))
  BY <1>0, <1>1, <1>2, <1>3, PrefixIs
<1> QED BY <1>4 DEF IsSuffix, u

(* Power lost while the text is flushed leaves a beginning of it.          *)
LEMMA CutBehind ==
  ASSUME NEW s \in Seq(Byte), NEW t \in Seq(Byte), NEW m \in 0..Len(t)
  PROVE  SubSeq(s \o t, 1, Len(s) + m) = s \o SubSeq(t, 1, m)
<1> DEFINE u == s \o t
           b == SubSeq(t, 1, m)
           v == s \o b
           w == SubSeq(u, 1, Len(s) + m)
<1>0. Len(s) \in Nat /\ Len(t) \in Nat /\ m \in Nat
  BY LenProperties
<1>1. /\ u \in Seq(Byte) /\ Len(u) = Len(s) + Len(t)
      /\ \A i \in 1..Len(u) : u[i] = IF i <= Len(s) THEN s[i] ELSE t[i - Len(s)]
  BY ConcatProperties
<1>2. \A i \in 1..m : t[i] \in Byte
  BY <1>0, ElementOfSeq
<1>3. b \in Seq(Byte) /\ Len(b) = m /\ \A i \in 1..m : b[i] = t[i]
  BY <1>0, <1>2, SubSeqProperties
<1> HIDE DEF u, b
<1>4. /\ v \in Seq(Byte) /\ Len(v) = Len(s) + m
      /\ \A i \in 1..(Len(s) + m) : v[i] = IF i <= Len(s) THEN s[i] ELSE b[i - Len(s)]
  BY <1>3, ConcatProperties
<1>5. Len(s) + m \in 0..Len(u) /\ \A i \in 1..(Len(s) + m) : u[i] \in Byte
  BY <1>0, <1>1, ElementOfSeq
<1>6. /\ w \in Seq(Byte) /\ Len(w) = Len(s) + m
      /\ \A i \in 1..(Len(s) + m) : w[i] = u[i]
  BY <1>1, <1>5, SubSeqProperties
<1> HIDE DEF v, w
<1>7. ASSUME NEW i \in 1..(Len(s) + m) PROVE w[i] = v[i]
  <2>1. w[i] = u[i] /\ u[i] = IF i <= Len(s) THEN s[i] ELSE t[i - Len(s)]
    BY <1>0, <1>1, <1>6
  <2>2. ~(i <= Len(s)) => b[i - Len(s)] = t[i - Len(s)]
    BY <1>0, <1>3
  <2> QED BY <1>4, <2>1, <2>2
<1>8. w = v
  BY <1>4, <1>6, <1>7, SeqEqual
<1> QED BY <1>8 DEF u, b, v, w

(* The pieces an append leaves, told by all of their borders.              *)
Bordered(old, new, text, n, border) ==
  /\ border \in [0..n -> Len(old)..Len(new)]
  /\ border[0] = Len(old) /\ border[n] = Len(new)
  /\ \A i \in 1..n : /\ border[i - 1] <= border[i]
                     /\ IsPrefix(SubSeq(new, border[i - 1] + 1, border[i]), text)

LEMMA AddedIs ==
  ASSUME NEW old \in Seq(Byte), NEW new \in Seq(Byte), NEW text, NEW n \in Nat \ {0}
  PROVE  Added(old, new, text, n) <=>
           IsPrefix(old, new) /\ \E border : Bordered(old, new, text, n, border)
<1> DEFINE Borders(cut) ==
             [i \in 0..n |-> IF i = 0 THEN Len(old) ELSE IF i = n THEN Len(new) ELSE cut[i]]
           Cuts == [1..(n - 1) -> Len(old)..Len(new)]
<1>0. Len(old) \in Nat /\ Len(new) \in Nat
  BY LenProperties
<1> SUFFICES ASSUME IsPrefix(old, new)
             PROVE  Added(old, new, text, n) <=> \E border : Bordered(old, new, text, n, border)
  BY DEF Added
<1>1. Len(old) <= Len(new)
  BY DEF IsPrefix
<1>2. ASSUME NEW cut \in Cuts
      PROVE  /\ Borders(cut) \in [0..n -> Len(old)..Len(new)]
             /\ Borders(cut)[0] = Len(old) /\ Borders(cut)[n] = Len(new)
  BY <1>0, <1>1
<1>3. ASSUME Added(old, new, text, n) PROVE \E border : Bordered(old, new, text, n, border)
  <2>1. PICK cut \in Cuts :
          \A i \in 1..n : /\ Borders(cut)[i - 1] <= Borders(cut)[i]
                         /\ IsPrefix(SubSeq(new, Borders(cut)[i - 1] + 1, Borders(cut)[i]), text)
    BY <1>3 DEF Added
  <2> DEFINE border == Borders(cut)
  <2>2. /\ border \in [0..n -> Len(old)..Len(new)] /\ border[0] = Len(old) /\ border[n] = Len(new)
        /\ \A i \in 1..n : /\ border[i - 1] <= border[i]
                           /\ IsPrefix(SubSeq(new, border[i - 1] + 1, border[i]), text)
    BY <1>2, <2>1
  <2> HIDE DEF border
  <2>3. Bordered(old, new, text, n, border)
    BY <2>2 DEF Bordered
  <2> QED BY <2>3
<1>4. ASSUME NEW border, Bordered(old, new, text, n, border) PROVE Added(old, new, text, n)
  <2> DEFINE cut == [i \in 1..(n - 1) |-> border[i]]
  <2>1. cut \in Cuts
    BY <1>4 DEF Bordered
  <2>2. border = Borders(cut)
    BY <1>4 DEF Bordered
  <2> HIDE DEF cut
  <2>3. \A i \in 1..n : /\ Borders(cut)[i - 1] <= Borders(cut)[i]
                       /\ IsPrefix(SubSeq(new, Borders(cut)[i - 1] + 1, Borders(cut)[i]), text)
    BY <1>4, <2>2 DEF Bordered
  <2> QED BY <2>1, <2>3 DEF Added
<1> QED BY <1>3, <1>4

(* The first attempt adds a piece ...                                      *)
LEMMA FirstPiece ==
  ASSUME NEW old \in Seq(Byte), NEW t \in Seq(Byte), NEW text, IsPrefix(t, text)
  PROVE  Added(old, old \o t, text, 1)
<1> DEFINE new == old \o t
           border == [i \in 0..1 |-> IF i = 0 THEN Len(old) ELSE Len(new)]
<1>0. Len(old) \in Nat /\ Len(t) \in Nat
  BY LenProperties
<1>1. /\ new \in Seq(Byte) /\ Len(new) = Len(old) + Len(t)
      /\ SubSeq(new, Len(old) + 1, Len(old) + Len(t)) = t
  BY Appended
<1>2. IsPrefix(old, new)
  BY WholeAndNothing, StillThere
<1> HIDE DEF new
<1>3. /\ border \in [0..1 -> Len(old)..Len(new)]
      /\ border[0] = Len(old) /\ border[1] = Len(new)
  BY <1>0, <1>1
<1>4. SubSeq(new, border[0] + 1, border[1]) = t /\ border[0] <= border[1]
  BY <1>0, <1>1, <1>3
<1> HIDE DEF border
<1>5. \A i \in 1..1 : /\ border[i - 1] <= border[i]
                     /\ IsPrefix(SubSeq(new, border[i - 1] + 1, border[i]), text)
  <2>1. \A i \in 1..1 : i = 1 /\ i - 1 = 0
    OBVIOUS
  <2> QED BY <1>4, <2>1
<1>7. Bordered(old, new, text, 1, border)
  BY <1>3, <1>5 DEF Bordered
<1>6. Added(old, new, text, 1)
  BY <1>1, <1>2, <1>7, AddedIs
<1> QED BY <1>6 DEF new

(* ... and each further one another, behind the others.                    *)
LEMMA OneMorePiece ==
  ASSUME NEW old \in Seq(Byte), NEW s \in Seq(Byte), NEW t \in Seq(Byte), NEW text,
         NEW n \in Nat \ {0}, Added(old, s, text, n), IsPrefix(t, text)
  PROVE  Added(old, s \o t, text, n + 1)
<1> DEFINE new == s \o t
<1>0. Len(old) \in Nat /\ Len(s) \in Nat /\ Len(t) \in Nat
  BY LenProperties
<1>1. /\ new \in Seq(Byte) /\ Len(new) = Len(s) + Len(t)
      /\ \A a \in 1..(Len(s) + 1), b \in 0..Len(s) : SubSeq(new, a, b) = SubSeq(s, a, b)
      /\ SubSeq(new, Len(s) + 1, Len(s) + Len(t)) = t
  BY Appended
<1>2. IsPrefix(old, s)
  BY AddedIs
<1>3. IsPrefix(old, new)
  BY <1>2, StillThere
<1> HIDE DEF new
<1>4. PICK past : Bordered(old, s, text, n, past)
  BY AddedIs
<1>5. /\ past \in [0..n -> Len(old)..Len(s)] /\ past[0] = Len(old) /\ past[n] = Len(s)
      /\ \A i \in 1..n : /\ past[i - 1] <= past[i]
                         /\ IsPrefix(SubSeq(s, past[i - 1] + 1, past[i]), text)
  BY <1>4 DEF Bordered
<1> DEFINE border == [i \in 0..(n + 1) |-> IF i = n + 1 THEN Len(new) ELSE past[i]]
<1>6. /\ border \in [0..(n + 1) -> Len(old)..Len(new)]
      /\ border[0] = Len(old) /\ border[n + 1] = Len(new)
      /\ \A i \in 0..n : border[i] = past[i]
  <2>1. Len(old) <= Len(s)
    BY <1>2 DEF IsPrefix
  <2> QED BY <1>0, <1>1, <1>5, <2>1
<1> HIDE DEF border
<1>7. ASSUME NEW i \in 1..(n + 1)
      PROVE  /\ border[i - 1] <= border[i]
             /\ IsPrefix(SubSeq(new, border[i - 1] + 1, border[i]), text)
  <2>1. CASE i = n + 1
    <3>1. border[i - 1] = Len(s) /\ border[i] = Len(s) + Len(t)
      <4>1. i - 1 = n
        BY <2>1
      <4> QED BY <1>1, <1>5, <1>6, <2>1, <4>1
    <3>2. IsPrefix(SubSeq(new, border[i - 1] + 1, border[i]), text)
      BY <1>1, <3>1
    <3>3. Len(s) <= Len(s) + Len(t)
      BY <1>0
    <3> QED BY <3>1, <3>2, <3>3
  <2>2. CASE i \in 1..n
    <3>1. /\ border[i - 1] = past[i - 1] /\ border[i] = past[i]
          /\ past[i - 1] \in Len(old)..Len(s) /\ past[i] \in Len(old)..Len(s)
      BY <1>5, <1>6, <2>2
    <3>2. past[i - 1] + 1 \in 1..(Len(s) + 1) /\ past[i] \in 0..Len(s)
      BY <1>0, <3>1
    <3>3. SubSeq(new, past[i - 1] + 1, past[i]) = SubSeq(s, past[i - 1] + 1, past[i])
      BY <1>1, <3>2
    <3> QED BY <1>5, <2>2, <3>1, <3>3
  <2> QED BY <2>1, <2>2
<1>8. Bordered(old, new, text, n + 1, border)
  BY <1>6, <1>7 DEF Bordered
<1>9. n + 1 \in Nat \ {0}
  OBVIOUS
<1>10. Added(old, new, text, n + 1)
  BY <1>1, <1>3, <1>8, <1>9, AddedIs
<1> QED BY <1>10 DEF new

(* The last bytes of a file. *)
LEMMA EndIs ==
  ASSUME NEW text \in Seq(Byte)
  PROVE  /\ EndOf(text) = LastBytes(text)
         /\ EndOf(text) \in Seq(Byte)
         /\ Len(EndOf(text)) <= Packet
         /\ Len(EndOf(text)) <= Len(text)
<1> DEFINE c == AtMost(Packet, Len(text))
           m == Len(text) - c + 1
<1>0. Len(text) \in Nat /\ Packet \in Nat
  BY LenProperties, SdStorageAssumption
<1>5. c \in Nat /\ c <= Packet /\ c <= Len(text)
  BY <1>0 DEF AtMost
<1> HIDE DEF c
<1>1. m \in 1..(Len(text) + 1) /\ Len(text) - m + 1 <= Packet
  BY <1>0, <1>5
<1>2. EndOf(text) = SubSeq(text, m, Len(text)) /\ EndOf(text) = LastBytes(text)
  BY DEF EndOf, LastBytes, c
<1> HIDE DEF m
<1>3. \A i \in m..Len(text) : text[i] \in Byte
  BY <1>0, <1>1, ElementOfSeq
<1>4. /\ SubSeq(text, m, Len(text)) \in Seq(Byte)
      /\ Len(SubSeq(text, m, Len(text))) = IF m <= Len(text) THEN Len(text) - m + 1 ELSE 0
  BY <1>0, <1>1, <1>3, SubSeqProperties
<1> QED BY <1>0, <1>1, <1>2, <1>4

(* A buffer: the next bytes of the text, which are valid when no character *)
(* of the text lies across a border.                                       *)
LEMMA NextBuffer ==
  ASSUME NEW text \in Seq(Byte), NEW size \in Nat \ {0}, NEW at \in Nat, at < Len(text)
  PROVE  LET reach == AtMost(at + size, Len(text))
             buffer == SubSeq(text, at + 1, reach)
         IN  /\ reach \in Nat /\ at < reach /\ reach <= Len(text)
             /\ buffer \in Seq(Byte) /\ Len(buffer) = reach - at
             /\ SubSeq(text, 1, at) \o buffer = SubSeq(text, 1, reach)
             /\ \A k \in Nat : at = k * size =>
                  /\ reach = Len(text) \/ reach = (k + 1) * size
                  /\ Unbroken(text, size) => Valid(buffer)
<1> DEFINE reach == AtMost(at + size, Len(text))
           buffer == SubSeq(text, at + 1, reach)
<1>0. Len(text) \in Nat
  BY LenProperties
<1>1. reach \in Nat /\ at < reach /\ reach <= Len(text) /\ (reach = Len(text) \/ reach = at + size)
  BY <1>0 DEF AtMost
<1> HIDE DEF reach
<1>2. \A i \in (at + 1)..reach : text[i] \in Byte
  BY <1>0, <1>1, ElementOfSeq
<1>3. /\ buffer \in Seq(Byte)
      /\ Len(buffer) = reach - at
      /\ \A i \in 1..(reach - at) : buffer[i] = text[at + i]
  <2>1. reach - (at + 1) + 1 = reach - at /\ \A i \in 1..(reach - at) : (at + 1) + i - 1 = at + i
    BY <1>1
  <2>2. /\ buffer \in Seq(Byte)
        /\ Len(buffer) = reach - (at + 1) + 1
        /\ \A i \in 1..(reach - (at + 1) + 1) : buffer[i] = text[(at + 1) + i - 1]
    BY <1>0, <1>1, <1>2, SubSeqProperties
  <2> QED BY <2>1, <2>2
<1>4. SubSeq(text, 1, at) \o buffer = SubSeq(text, 1, reach)
  BY <1>0, <1>1, ConcatAdjacentSubSeq
<1> HIDE DEF buffer
<1>5. ASSUME NEW k \in Nat, at = k * size
      PROVE  reach = Len(text) \/ reach = (k + 1) * size
  <2>1. (k + 1) * size = k * size + size
    OBVIOUS
  <2> QED BY <1>1, <1>5, <2>1
<1>6. ASSUME NEW k \in Nat, at = k * size, Unbroken(text, size)
      PROVE  Valid(buffer)
  <2>0. DOMAIN text = 1..Len(text) /\ DOMAIN buffer = 1..(reach - at)
    BY <1>3, LenProperties
  <2>1. \A n \in 1..Len(text) : n * size <= Len(text) => text[n * size] # "lead"
    BY <1>6 DEF Unbroken
  <2>2. \A i \in 1..Len(text) : /\ text[i] = "lead" => i < Len(text) /\ text[i + 1] = "trail"
                                /\ text[i] = "trail" => i > 1 /\ text[i - 1] = "lead"
    BY <1>6, <2>0 DEF Unbroken, Valid
  <2>3. \A n \in Nat : n >= 1 => n <= n * size
    OBVIOUS
  <2>4. at # 0 => text[at] # "lead"
    <3> SUFFICES ASSUME at # 0 PROVE text[at] # "lead"
      OBVIOUS
    <3>1. k >= 1 /\ k <= at
      BY <1>6, <2>3
    <3>3. k \in 1..Len(text) /\ k * size <= Len(text)
      BY <1>0, <1>6, <3>1
    <3>2. text[k * size] # "lead"
      BY <2>1, <3>3
    <3> QED BY <1>6, <3>2
  <2>5. reach # Len(text) => text[reach] # "lead"
    <3> SUFFICES ASSUME reach # Len(text) PROVE text[reach] # "lead"
      OBVIOUS
    <3>1. reach = (k + 1) * size
      BY <1>5, <1>6
    <3>2. k + 1 <= reach
      BY <2>3, <3>1
    <3>3. k + 1 \in 1..Len(text) /\ (k + 1) * size <= Len(text)
      BY <1>0, <1>1, <3>1, <3>2
    <3>4. text[(k + 1) * size] # "lead"
      BY <2>1, <3>3
    <3> QED BY <3>1, <3>4
  <2>6. ASSUME NEW i \in 1..(reach - at), buffer[i] = "lead"
        PROVE  i < reach - at /\ buffer[i + 1] = "trail"
    <3>1. at + i \in 1..Len(text) /\ text[at + i] = "lead"
      BY <1>0, <1>1, <1>3, <2>6
    <3>2. at + i < Len(text) /\ text[at + i + 1] = "trail"
      BY <2>2, <3>1
    <3>3. at + i # reach
      BY <1>1, <2>5, <3>1, <3>2
    <3>4. i < reach - at
      BY <1>1, <3>3
    <3>5. i + 1 \in 1..(reach - at) /\ at + (i + 1) = at + i + 1
      BY <1>1, <3>4
    <3> QED BY <1>3, <3>2, <3>4, <3>5
  <2>7. ASSUME NEW i \in 1..(reach - at), buffer[i] = "trail"
        PROVE  i > 1 /\ buffer[i - 1] = "lead"
    <3>1. at + i \in 1..Len(text) /\ text[at + i] = "trail"
      BY <1>0, <1>1, <1>3, <2>7
    <3>2. at + i > 1 /\ text[at + i - 1] = "lead"
      BY <2>2, <3>1
    <3>3. i # 1
      <4> SUFFICES ASSUME i = 1 PROVE FALSE
        OBVIOUS
      <4>1. at # 0 /\ at + i - 1 = at
        BY <3>2
      <4> QED BY <2>4, <3>2, <4>1
    <3>4. i - 1 \in 1..(reach - at) /\ at + (i - 1) = at + i - 1
      BY <1>1, <3>3
    <3> QED BY <1>3, <3>2, <3>3, <3>4
  <2> QED BY <1>3, <2>0, <2>6, <2>7 DEF Valid
<1> QED BY <1>1, <1>3, <1>4, <1>5, <1>6 DEF reach, buffer

---------------------------------------------------------------------------
(* Types, and how the steps of an operation lead to each other. *)

Step == {"open", "write", "flush", "read", "cut", "put"}

(* There is one operation, with nothing answered yet. *)
LEMMA UnderWay ==
  ASSUME StorageTypeOK, NEW o \in op
  PROVE  /\ op = {o} /\ answer = {}
         /\ o.call \in Call /\ o.text \in Seq(Byte) /\ o.step \in Step
         /\ o.try \in 1..MaxRetries /\ o.at \in 0..Len(file)
         /\ o = [call |-> o.call, text |-> o.text, try |-> o.try, at |-> o.at, step |-> o.step]
         /\ MaxRetries \in Nat /\ Len(file) \in Nat
<1>1. o \in [call : Call, text : Seq(Byte), try : 1..MaxRetries, at : 0..Len(file), step : Step]
  BY DEF StorageTypeOK, Step
<1>2. op = {o} /\ answer = {}
  BY DEF StorageTypeOK
<1>3. MaxRetries \in Nat /\ Len(file) \in Nat
  BY SdStorageAssumption, LenProperties DEF StorageTypeOK
<1> QED BY <1>1, <1>2, <1>3

LEMMA GoesOn ==
  ASSUME StorageTypeOK, NEW o \in op, NEW step, NEW text, NEW try, Goes(o, step, text, try)
  PROVE  /\ answer' = {}
         /\ \E p : /\ op' = {p}
                  /\ p.call = o.call /\ p.text = text /\ p.step = step /\ p.try = try /\ p.at = 0
                  /\ p = [call |-> o.call, text |-> text, try |-> try, at |-> 0, step |-> step]
<1> DEFINE p == [call |-> o.call, text |-> text, step |-> step, try |-> try, at |-> 0]
<1>1. op' = {p} /\ answer' = {}
  BY UnderWay DEF Goes
<1>2. /\ p.call = o.call /\ p.text = text /\ p.step = step /\ p.try = try /\ p.at = 0
      /\ p = [call |-> o.call, text |-> text, try |-> try, at |-> 0, step |-> step]
  OBVIOUS
<1> HIDE DEF p
<1> QED BY <1>1, <1>2

LEMMA Ends ==
  ASSUME NEW o, NEW ok, NEW text, Answer(o, ok, text)
  PROVE  /\ op' = {}
         /\ \E a : /\ answer' = {a}
                  /\ a.call = o.call /\ a.ok = ok /\ a.text = text
                  /\ a = [call |-> o.call, ok |-> ok, text |-> text]
<1> DEFINE a == [call |-> o.call, ok |-> ok, text |-> text]
<1>1. op' = {} /\ answer' = {a}
  BY DEF Answer
<1>2. a.call = o.call /\ a.ok = ok /\ a.text = text
  OBVIOUS
<1> HIDE DEF a
<1>3. a = [call |-> o.call, ok |-> ok, text |-> text]
  BY DEF a
<1> QED BY <1>1, <1>2, <1>3

LEMMA Succeeds ==
  ASSUME NEW o, NEW text, Answer(o, TRUE, text)
  PROVE  /\ op' = {}
         /\ \E a : answer' = {a} /\ a.call = o.call /\ a.ok /\ a.text = text
<1> DEFINE a == [call |-> o.call, ok |-> TRUE, text |-> text]
<1>1. op' = {} /\ answer' = {a} /\ a.call = o.call /\ a.ok /\ a.text = text
  BY DEF Answer
<1> HIDE DEF a
<1> QED BY <1>1

LEMMA GoesOnTyped ==
  ASSUME StorageTypeOK, NEW o \in op, NEW step \in Step, NEW text \in Seq(Byte),
         NEW try \in 1..MaxRetries, Goes(o, step, text, try), file' \in Seq(Byte), UNCHANGED before
  PROVE  StorageTypeOK'
<1>1. PICK p : /\ op' = {p}
               /\ p = [call |-> o.call, text |-> text, try |-> try, at |-> 0, step |-> step]
  BY GoesOn
<1>2. 0 \in 0..Len(file') /\ o.call \in Call /\ answer' = {}
  BY LenProperties, UnderWay, GoesOn
<1>3. p \in [call : Call, text : Seq(Byte), try : 1..MaxRetries, at : 0..Len(file'), step : Step]
  BY <1>1, <1>2
<1> QED BY <1>1, <1>2, <1>3 DEF StorageTypeOK, Step

LEMMA EndsTyped ==
  ASSUME StorageTypeOK, NEW o \in op, NEW ok \in BOOLEAN, NEW text \in Seq(Byte),
         Answer(o, ok, text), file' \in Seq(Byte), UNCHANGED before
  PROVE  StorageTypeOK'
<1>1. PICK a : answer' = {a} /\ a = [call |-> o.call, ok |-> ok, text |-> text]
  BY Ends
<1>2. op' = {} /\ o.call \in Call
  BY Ends, UnderWay
<1>3. a \in [call : Call, ok : BOOLEAN, text : Seq(Byte)]
  BY <1>1, <1>2
<1> QED BY <1>1, <1>2, <1>3 DEF StorageTypeOK

LEMMA GivesUpTyped ==
  ASSUME StorageTypeOK, NEW o \in op, GiveUp(o), file' \in Seq(Byte), UNCHANGED before
  PROVE  StorageTypeOK'
<1>1. <<>> \in Seq(Byte) /\ o.text \in Seq(Byte)
  BY UnderWay, EmptySeq
<1>2. PICK text \in Seq(Byte) : Answer(o, FALSE, text)
  BY <1>1 DEF GiveUp
<1> QED BY <1>2, EndsTyped

LEMMA FailedTyped ==
  ASSUME StorageTypeOK, NEW o \in op, Failed(o), file' \in Seq(Byte), UNCHANGED before
  PROVE  StorageTypeOK'
<1>1. /\ <<>> \in Seq(Byte) /\ o.text \in Seq(Byte) /\ "open" \in Step /\ "cut" \in Step
      /\ o.try \in 1..MaxRetries
  BY UnderWay, EmptySeq DEF Step
<1>2. CASE o.try < MaxRetries /\ Goes(o, "open", o.text, o.try + 1)
  <2>1. o.try + 1 \in 1..MaxRetries
    BY <1>1, <1>2, UnderWay
  <2> QED BY <1>1, <1>2, <2>1, GoesOnTyped
<1>3. CASE Goes(o, "cut", <<>>, o.try)
  BY <1>1, <1>3, GoesOnTyped
<1>4. CASE GiveUp(o)
  BY <1>4, GivesUpTyped
<1> QED BY <1>2, <1>3, <1>4 DEF Failed

(* One more buffer. *)
LEMMA ReadsOn ==
  ASSUME StorageTypeOK, NEW o \in op, ReadBytes(o)
  PROVE  LET buffer == SubSeq(Source(o), o.at + 1, Reached(o))
             text == IF Valid(buffer) THEN o.text \o buffer ELSE o.text
         IN  /\ UNCHANGED file /\ answer' = {}
             /\ Source(o) \in Seq(Byte) /\ Len(Source(o)) <= Len(file)
             /\ Len(Source(o)) \in Nat /\ o.at < Len(Source(o))
             /\ BufferSize(o) \in Nat \ {0}
             /\ text \in Seq(Byte)
             /\ \E p : /\ op' = {p}
                      /\ p.call = o.call /\ p.step = "read" /\ p.try = o.try
                      /\ p.at = Reached(o) /\ p.text = text
                      /\ p = [call |-> o.call, text |-> text, try |-> o.try, at |-> Reached(o),
                              step |-> "read"]
<1> DEFINE buffer == SubSeq(Source(o), o.at + 1, Reached(o))
           text == IF Valid(buffer) THEN o.text \o buffer ELSE o.text
<1>1. /\ o.step = "read" /\ o.at < Len(Source(o))
      /\ op' = {[call |-> o.call, step |-> "read", try |-> o.try, at |-> Reached(o), text |-> text]}
      /\ UNCHANGED <<file, answer>>
  BY DEF ReadBytes
<1>2. /\ answer = {} /\ o.text \in Seq(Byte) /\ o.at \in Nat
      /\ o = [call |-> o.call, text |-> o.text, try |-> o.try, at |-> o.at, step |-> o.step]
  BY UnderWay
<1>3. Source(o) \in Seq(Byte) /\ Len(Source(o)) <= Len(file) /\ Len(Source(o)) \in Nat
  BY EndIs, LenProperties DEF Source, StorageTypeOK
<1>4. BufferSize(o) \in Nat \ {0}
  BY SdStorageAssumption DEF BufferSize
<1>5. buffer \in Seq(Byte)
  BY <1>1, <1>2, <1>3, <1>4, NextBuffer DEF Reached
<1> HIDE DEF buffer
<1>6. text \in Seq(Byte)
  BY <1>2, <1>5, ConcatProperties
<1> HIDE DEF text
<1> DEFINE p == [call |-> o.call, text |-> text, try |-> o.try, at |-> Reached(o), step |-> "read"]
<1>8. /\ op' = {p}
      /\ p.call = o.call /\ p.step = "read" /\ p.try = o.try /\ p.at = Reached(o) /\ p.text = text
  BY <1>1
<1>9. p = [call |-> o.call, text |-> text, try |-> o.try, at |-> Reached(o), step |-> "read"]
  OBVIOUS
<1> HIDE DEF p
<1> QED BY <1>1, <1>2, <1>3, <1>4, <1>6, <1>8, <1>9 DEF text, buffer

LEMMA TypeInit == Init => StorageTypeOK
BY EmptySeq DEF Init, StorageTypeOK

LEMMA BeginTyped ==
  ASSUME StorageTypeOK, NEW call \in Call, NEW text \in Seq(Byte), Begin(call, text)
  PROVE  StorageTypeOK'
<1> DEFINE p == [call |-> call, text |-> text, step |-> "open", try |-> 1, at |-> 0]
<1>1. op' = {p} /\ answer' = {} /\ file' = file /\ before' = file
  BY DEF Begin
<1>2. 1 \in 1..MaxRetries /\ 0 \in 0..Len(file)
  BY SdStorageAssumption, LenProperties DEF StorageTypeOK
<1>3. p \in [call : Call, text : Seq(Byte), try : 1..MaxRetries, at : 0..Len(file), step : Step]
  BY <1>2 DEF Step
<1> HIDE DEF p
<1> QED BY <1>1, <1>3 DEF StorageTypeOK, Step

LEMMA SdStepTyped ==
  ASSUME StorageTypeOK, SdStep
  PROVE  StorageTypeOK'
<1>1. PICK o \in op : /\ UNCHANGED before
                      /\ \/ OpenFile(o) \/ OpenFails(o)
                         \/ WriteData(o) \/ WriteFails(o)
                         \/ FlushAndClose(o) \/ FlushFails(o)
                         \/ OpenToRead(o) \/ ReadBytes(o) \/ CloseRead(o) \/ ReadFails(o)
                         \/ Cut(o) \/ Put(o)
  BY DEF SdStep
<1>2. /\ o.text \in Seq(Byte) /\ o.try \in 1..MaxRetries /\ <<>> \in Seq(Byte)
      /\ file \in Seq(Byte) /\ Step = {"open", "write", "flush", "read", "cut", "put"}
  BY UnderWay, EmptySeq DEF Step, StorageTypeOK
<1>3. ASSUME NEW t \in Prefixes(o.text) PROVE t \in Seq(Byte)
  BY <1>2, <1>3, Beginnings DEF Prefixes
<1>4. CASE OpenFile(o)
  BY <1>1, <1>2, <1>4, GoesOnTyped DEF OpenFile
<1>5. CASE OpenFails(o) \/ FlushFails(o) \/ ReadFails(o)
  BY <1>1, <1>2, <1>5, FailedTyped DEF OpenFails, FlushFails, ReadFails
<1>6. CASE WriteData(o)
  <2>1. file' \in Seq(Byte)
    BY <1>2, <1>6, ConcatProperties DEF WriteData
  <2> QED BY <1>1, <1>2, <1>6, <2>1, GoesOnTyped DEF WriteData
<1>7. CASE WriteFails(o)
  <2>1. file' \in Seq(Byte)
    BY <1>2, <1>3, <1>7, ConcatProperties DEF WriteFails
  <2> QED BY <1>1, <1>7, <2>1, FailedTyped DEF WriteFails
<1>8. CASE FlushAndClose(o)
  BY <1>1, <1>2, <1>8, EndsTyped DEF FlushAndClose
<1>9. CASE OpenToRead(o)
  BY <1>1, <1>2, <1>9, GoesOnTyped DEF OpenToRead
<1>10. CASE ReadBytes(o)
  <2>1. PICK p, text :
          /\ op' = {p} /\ answer' = {} /\ UNCHANGED file
          /\ text \in Seq(Byte)
          /\ p = [call |-> o.call, text |-> text, try |-> o.try, at |-> Reached(o), step |-> "read"]
    BY <1>10, ReadsOn
  <2>2. Reached(o) \in 0..Len(file)
    <3>1. /\ Len(Source(o)) \in Nat /\ Len(Source(o)) <= Len(file) /\ BufferSize(o) \in Nat
          /\ o.at \in Nat /\ Len(file) \in Nat
      BY <1>10, ReadsOn, UnderWay
    <3> QED BY <3>1 DEF Reached, AtMost
  <2>3. p \in [call : Call, text : Seq(Byte), try : 1..MaxRetries, at : 0..Len(file), step : Step]
    BY <1>2, <2>1, <2>2, UnderWay
  <2> QED BY <1>1, <2>1, <2>3 DEF StorageTypeOK, Step
<1>11. CASE CloseRead(o)
  <2>1. UNCHANGED file /\ (Goes(o, "cut", o.text, o.try) \/ Answer(o, TRUE, o.text))
    BY <1>11 DEF CloseRead
  <2>2. TRUE \in BOOLEAN /\ "cut" \in Step
    BY <1>2
  <2> QED BY <1>1, <1>2, <2>1, <2>2, GoesOnTyped, EndsTyped
<1>12. CASE Cut(o)
  <2>1. \/ file' = <<>> /\ Goes(o, "put", o.text, o.try)
        \/ UNCHANGED file /\ Answer(o, TRUE, o.text)
    BY <1>12 DEF Cut
  <2>2. TRUE \in BOOLEAN /\ "put" \in Step
    BY <1>2
  <2> QED BY <1>1, <1>2, <2>1, <2>2, GoesOnTyped, EndsTyped
<1>13. CASE Put(o)
  <2>1. file' \in Seq(Byte) /\ Answer(o, TRUE, o.text) /\ TRUE \in BOOLEAN
    BY <1>2, <1>3, <1>13 DEF Put
  <2> QED BY <1>1, <1>2, <2>1, EndsTyped
<1> QED
  BY <1>1, <1>4, <1>5, <1>6, <1>7, <1>8, <1>9, <1>10, <1>11, <1>12, <1>13

LEMMA LosePowerTyped ==
  ASSUME StorageTypeOK, LosePower
  PROVE  StorageTypeOK'
<1>1. PICK o \in op :
        /\ GiveUp(o)
        /\ UNCHANGED before
        /\ \/ UNCHANGED file
           \/ o.step = "put" /\ file' \in Prefixes(o.text)
           \/ o.step = "flush" /\ \E lost \in 0..Len(o.text) : file' = SubSeq(file, 1, Len(file) - lost)
  BY DEF LosePower
<1>2. o.text \in Seq(Byte) /\ file \in Seq(Byte) /\ Len(file) \in Nat /\ Len(o.text) \in Nat
  BY UnderWay, LenProperties DEF StorageTypeOK
<1>3. CASE UNCHANGED file
  BY <1>1, <1>2, <1>3, GivesUpTyped
<1>4. CASE file' \in Prefixes(o.text)
  <2>1. file' \in Seq(Byte)
    BY <1>2, <1>4, Beginnings DEF Prefixes
  <2> QED BY <1>1, <2>1, GivesUpTyped
<1>5. ASSUME NEW lost \in 0..Len(o.text), file' = SubSeq(file, 1, Len(file) - lost)
      PROVE  StorageTypeOK'
  <2>1. Len(file) - lost \in Int /\ \A i \in 1..(Len(file) - lost) : file[i] \in Byte
    BY <1>2, ElementOfSeq
  <2>2. file' \in Seq(Byte)
    BY <1>5, <2>1, SubSeqProperties
  <2> QED BY <1>1, <2>2, GivesUpTyped
<1> QED BY <1>1, <1>3, <1>4, <1>5

LEMMA TypeNext == StorageTypeOK /\ [Next]_vars => StorageTypeOK'
<1> SUFFICES ASSUME StorageTypeOK, [Next]_vars PROVE StorageTypeOK'
  OBVIOUS
<1>1. ASSUME NEW call \in {"append", "overwrite"}, NEW text \in Texts, Begin(call, text)
      PROVE  StorageTypeOK'
  <2>1. call \in Call /\ text \in Seq(Byte)
    BY SdStorageAssumption DEF Call
  <2> QED BY <1>1, <2>1, BeginTyped
<1>2. ASSUME NEW call \in {"read", "read end", "truncate"}, Begin(call, <<>>)
      PROVE  StorageTypeOK'
  <2>1. call \in Call /\ <<>> \in Seq(Byte)
    BY EmptySeq DEF Call
  <2> QED BY <1>2, <2>1, BeginTyped
<1>3. CASE SdStep
  BY <1>3, SdStepTyped
<1>4. CASE Delete
  BY <1>4, EmptySeq DEF Delete, StorageTypeOK
<1>5. CASE LosePower
  BY <1>5, LosePowerTyped
<1>6. CASE UNCHANGED vars
  BY <1>6 DEF vars, StorageTypeOK
<1> QED BY <1>1, <1>2, <1>3, <1>4, <1>5, <1>6 DEF Next

(* For every text, buffer and number of attempts, there is one operation   *)
(* at a time, of which no attempt is one too many and which reads no       *)
(* further than the file goes.                                             *)
THEOREM StorageTypes == Spec => []StorageTypeOK
BY TypeInit, TypeNext, PTL DEF Spec

---------------------------------------------------------------------------
(* Operations end. *)

LEMMA EachStepAdvances ==
  ASSUME StorageTypeOK, [Next]_vars, NEW o \in op, NEW p \in op'
  PROVE  \/ p.try > o.try
         \/ p.try = o.try /\ Progress[p.step] > Progress[o.step]
         \/ p.try = o.try /\ p.step = o.step /\ p.at > o.at
         \/ UNCHANGED vars
<1>1. op = {o} /\ o.try \in Nat /\ o.at \in Nat /\ MaxRetries \in Nat
  BY UnderWay
<1>2. ASSUME NEW step, NEW text, NEW try, Goes(o, step, text, try)
      PROVE  p.step = step /\ p.try = try
  BY <1>2, GoesOn
<1>3. (\E ok, text : Answer(o, ok, text)) => op' = {}
  BY DEF Answer
<1>4. CASE SdStep
  <2>1. \/ OpenFile(o) \/ OpenFails(o)
        \/ WriteData(o) \/ WriteFails(o)
        \/ FlushAndClose(o) \/ FlushFails(o)
        \/ OpenToRead(o) \/ ReadBytes(o) \/ CloseRead(o) \/ ReadFails(o)
        \/ Cut(o) \/ Put(o)
    BY <1>1, <1>4 DEF SdStep
  <2>2. CASE OpenFile(o) \/ OpenToRead(o) \/ WriteData(o)
    BY <1>2, <2>2 DEF OpenFile, OpenToRead, WriteData, Progress
  <2>3. CASE /\ Failed(o)
             /\ o.step \in {"open", "write", "flush", "read"}
    <3>1. CASE Goes(o, "open", o.text, o.try + 1)
      <4>1. p.try = o.try + 1
        BY <1>2, <3>1
      <4> QED BY <1>1, <4>1
    <3>2. CASE Goes(o, "cut", <<>>, o.try)
      BY <1>2, <2>3, <3>2 DEF Progress
    <3>3. CASE GiveUp(o)
      BY <1>3, <3>3 DEF GiveUp
    <3> QED BY <2>3, <3>1, <3>2, <3>3 DEF Failed
  <2>4. CASE OpenFails(o) \/ WriteFails(o) \/ FlushFails(o) \/ ReadFails(o)
    BY <2>3, <2>4 DEF OpenFails, WriteFails, FlushFails, ReadFails
  <2>5. CASE FlushAndClose(o) \/ Put(o)
    BY <1>3, <2>5 DEF FlushAndClose, Put
  <2>6. CASE ReadBytes(o)
    <3>1. /\ p.step = "read" /\ p.try = o.try /\ p.at = Reached(o)
          /\ o.at < Len(Source(o)) /\ Len(Source(o)) \in Nat /\ BufferSize(o) \in Nat \ {0}
      BY <2>6, ReadsOn
    <3>2. Reached(o) > o.at
      BY <1>1, <3>1 DEF Reached, AtMost
    <3>3. o.step = "read"
      BY <2>6 DEF ReadBytes
    <3> QED BY <3>1, <3>2, <3>3
  <2>7. CASE CloseRead(o)
    <3>1. ~Answer(o, TRUE, o.text)
      BY <1>3
    <3>2. o.step = "read" /\ Goes(o, "cut", o.text, o.try)
      BY <2>7, <3>1 DEF CloseRead
    <3>3. p.step = "cut" /\ p.try = o.try
      BY <1>2, <3>2
    <3> QED BY <3>2, <3>3 DEF Progress
  <2>8. CASE Cut(o)
    <3>1. ~Answer(o, TRUE, o.text)
      BY <1>3
    <3>2. o.step = "cut" /\ Goes(o, "put", o.text, o.try)
      BY <2>8, <3>1 DEF Cut
    <3>3. p.step = "put" /\ p.try = o.try
      BY <1>2, <3>2
    <3> QED BY <3>2, <3>3 DEF Progress
  <2> QED BY <2>1, <2>2, <2>4, <2>5, <2>6, <2>7, <2>8
<1>5. CASE LosePower
  BY <1>1, <1>3, <1>5 DEF LosePower, GiveUp
<1>6. op # {}
  OBVIOUS
<1>7. ~Delete /\ \A call, text : ~Begin(call, text)
  BY <1>6 DEF Delete, Begin
<1> QED BY <1>4, <1>5, <1>7 DEF Next

(* Whatever fails, an operation never stands still: every step of it is a  *)
(* later attempt, a later stage of the attempt or bytes further on in the  *)
(* file.                                                                   *)
THEOREM AttemptsRunOut == Spec => StepsAdvance
<1>1. StorageTypeOK /\ [Next]_vars =>
        [\A o \in op, p \in op' :
           \/ p.try > o.try
           \/ p.try = o.try /\ Progress[p.step] > Progress[o.step]
           \/ p.try = o.try /\ p.step = o.step /\ p.at > o.at]_vars
  BY EachStepAdvances
<1> QED BY <1>1, StorageTypes, PTL DEF Spec, StepsAdvance

---------------------------------------------------------------------------
(* What each stage of an operation owes to the next. *)

(* The stages an operation passes. *)
Course(o) ==
  o.step \in IF Writes(o) THEN {"open", "write", "flush"}
             ELSE IF o.call = "truncate" THEN {"open", "read", "cut", "put"}
             ELSE {"open", "read"}

(* There is room for the piece an attempt to append is about to write, and *)
(* of what it has written the loss of power may take any part.             *)
Appending(o) ==
  /\ o.step \in {"open", "write"} =>
       \A t \in Prefixes(o.text) : Added(before, file \o t, o.text, o.try)
  /\ o.step = "flush" =>
       /\ Len(o.text) <= Len(file) /\ IsSuffix(o.text, file)
       /\ \A n \in (Len(file) - Len(o.text))..Len(file) :
            Added(before, SubSeq(file, 1, n), o.text, o.try)

(* The file is empty before each attempt to write it, which is what keeps  *)
(* a text from being put behind the remains of another attempt.            *)
Overwriting(o) ==
  /\ file = before \/ IsPrefix(file, o.text)
  /\ o.step = "write" => file = <<>>
  /\ o.step = "flush" => file = o.text

(* Whole buffers were read so far, and all of their bytes are there if     *)
(* none cuts a character.                                                  *)
ReadSoFar(o) ==
  /\ o.at <= Len(Source(o))
  /\ Len(o.text) <= o.at
  /\ o.at = Len(Source(o)) \/ \E k \in Nat : o.at = k * BufferSize(o)
  /\ Unbroken(Source(o), BufferSize(o)) => o.text = SubSeq(Source(o), 1, o.at)

(* What truncate keeps. *)
KeptEnd(text) ==
  /\ Len(text) <= Packet
  /\ text = <<>> \/ (Unbroken(LastBytes(before), EndBuffer) => text = LastBytes(before))

Reading(o) ==
  /\ o.step = "put" => file = <<>> /\ Len(before) > Threshold
  /\ o.step # "put" => file = before
  /\ o.step = "read" => ReadSoFar(o)
  /\ o.step \in {"cut", "put"} => KeptEnd(o.text)

Stage(o) ==
  /\ Course(o)
  /\ o.call = "append" => Appending(o)
  /\ o.call = "overwrite" => Overwriting(o)
  /\ ~Writes(o) => Reading(o)

(* What an attempt that failed leaves behind. *)
CutShortened ==
  \/ file = before
  \/ /\ Len(before) > Threshold
     /\ Len(file) <= Packet
     /\ Unbroken(LastBytes(before), EndBuffer) => IsPrefix(file, LastBytes(before))

Left(o) ==
  /\ o.call = "append" => Added(before, file, o.text, o.try)
  /\ o.call = "overwrite" => file = before \/ IsPrefix(file, o.text)
  /\ o.call = "truncate" => CutShortened

(* What an operation that is over says, and what it says it of. *)
Ended(a) ==
  /\ a.call = "append" =>
       /\ \E n \in 1..MaxRetries : Added(before, file, a.text, n)
       /\ a.ok => IsSuffix(a.text, file)
  /\ a.call = "overwrite" =>
       IF a.ok THEN file = a.text ELSE file = before \/ IsPrefix(file, a.text)
  /\ a.call = "read" /\ a.ok /\ Unbroken(file, ReadBuffer) => a.text = file
  /\ a.call = "read end" /\ a.ok /\ Unbroken(LastBytes(file), EndBuffer) => a.text = LastBytes(file)
  /\ a.call \in {"read", "read end"} /\ ~a.ok => a.text = <<>>
  /\ a.call = "truncate" => CutShortened

StorageInv ==
  /\ StorageTypeOK
  /\ \A o \in op : Stage(o)
  /\ \A a \in answer : Ended(a)

LEMMA PrefixesAre ==
  ASSUME NEW text \in Seq(Byte)
  PROVE  /\ <<>> \in Prefixes(text) /\ text \in Prefixes(text)
         /\ \A t \in Prefixes(text) : t \in Seq(Byte) /\ IsPrefix(t, text)
<1>0. Len(text) \in Nat /\ SubSeq(text, 1, 0) = <<>> /\ SubSeq(text, 1, Len(text)) = text
  BY LenProperties, SubSeqEmpty, SubSeqFull
<1>1. 0 \in 0..Len(text) /\ Len(text) \in 0..Len(text)
  BY <1>0
<1>2. \A t \in Prefixes(text) : \E n \in 0..Len(text) : t = SubSeq(text, 1, n)
  BY DEF Prefixes
<1> QED BY <1>0, <1>1, <1>2, Beginnings DEF Prefixes

(* Before an append has written anything the file is what it left last.    *)
LEMMA AddedSoFar ==
  ASSUME StorageTypeOK, NEW o \in op, Appending(o), o.step \in {"open", "write", "flush"}
  PROVE  Added(before, file, o.text, o.try)
<1>1. file \in Seq(Byte) /\ o.text \in Seq(Byte) /\ Len(file) \in Nat /\ Len(o.text) \in Nat
  BY UnderWay, LenProperties DEF StorageTypeOK
<1>2. CASE o.step \in {"open", "write"}
  <2>1. file \o <<>> = file
    BY <1>1, ConcatEmptySeq
  <2> QED BY <1>1, <1>2, <2>1, PrefixesAre DEF Appending
<1>3. CASE o.step = "flush"
  <2>1. Len(file) \in (Len(file) - Len(o.text))..Len(file)
    BY <1>1
  <2>2. SubSeq(file, 1, Len(file)) = file
    BY <1>1, SubSeqFull
  <2> QED BY <1>3, <2>1, <2>2 DEF Appending
<1> QED BY <1>2, <1>3

LEMMA StorageInvMeans ==
  StorageInv => AppendKeeps /\ OverwriteReplaces /\ ReadsBack /\ TruncateKeepsEnd
<1> SUFFICES ASSUME StorageInv PROVE AppendKeeps /\ OverwriteReplaces /\ ReadsBack /\ TruncateKeepsEnd
  OBVIOUS
<1>1. ASSUME NEW o \in op, o.call = "append"
      PROVE  Added(before, file, o.text, o.try)
  <2>1. Appending(o) /\ o.step \in {"open", "write", "flush"}
    BY <1>1 DEF StorageInv, Stage, Course, Writes
  <2> QED BY <2>1, AddedSoFar DEF StorageInv
<1>2. AppendKeeps
  BY <1>1 DEF StorageInv, Ended, AppendKeeps
<1>3. OverwriteReplaces
  BY DEF StorageInv, Ended, OverwriteReplaces, Stage, Overwriting
<1>4. ReadsBack
  BY DEF StorageInv, Ended, ReadsBack
<1>5. TruncateKeepsEnd
  BY DEF StorageInv, Ended, TruncateKeepsEnd, CutShortened
<1> QED BY <1>2, <1>3, <1>4, <1>5

LEMMA StorageInvInit == Init => StorageInv
BY TypeInit DEF Init, StorageInv

(* Giving up, for good or until the next attempt. *)
LEMMA GivesUp ==
  ASSUME StorageInv, NEW o \in op, GiveUp(o), StorageTypeOK', Left(o)'
  PROVE  StorageInv'
<1> DEFINE text == IF o.call \in {"read", "read end"} THEN <<>> ELSE o.text
<1>0. Answer(o, FALSE, text)
  BY DEF GiveUp
<1> HIDE DEF text
<1> DEFINE a == [call |-> o.call, ok |-> FALSE, text |-> text]
<1>4. op' = {} /\ answer' = {a}
  BY <1>0 DEF Answer
<1>1. op' = {} /\ answer' = {a} /\ a.call = o.call /\ ~a.ok /\ a.text = text
  BY <1>4
<1> HIDE DEF a
<1>2. o.try \in 1..MaxRetries
  BY UnderWay DEF StorageInv
<1>3. Ended(a)'
  BY <1>1, <1>2 DEF Ended, Left, text
<1> QED BY <1>1, <1>3 DEF StorageInv

LEMMA TriesAgain ==
  ASSUME StorageInv, NEW o \in op, Failed(o), StorageTypeOK', Left(o)',
         ~Writes(o) => file' = before' /\ o.step \in {"open", "read"}
  PROVE  StorageInv'
<1>1. StorageTypeOK /\ o.try \in Nat /\ Packet \in Nat /\ o.text \in Seq(Byte)
  BY UnderWay, SdStorageAssumption DEF StorageInv
<1>2. CASE GiveUp(o)
  BY <1>2, GivesUp
<1>3. CASE Goes(o, "open", o.text, o.try + 1)
  <2>1. PICK p : /\ op' = {p} /\ answer' = {}
                 /\ p.call = o.call /\ p.text = o.text /\ p.step = "open" /\ p.try = o.try + 1
    BY <1>1, <1>3, GoesOn
  <2>3. p.call = "append" => Appending(p)'
    <3> SUFFICES ASSUME o.call = "append", NEW t \in Prefixes(o.text)
                 PROVE  Added(before', file' \o t, o.text, o.try + 1)
      BY <2>1 DEF Appending
    <3>1. /\ o.try \in Nat \ {0} /\ t \in Seq(Byte) /\ IsPrefix(t, o.text)
          /\ before' \in Seq(Byte) /\ file' \in Seq(Byte)
      BY <1>1, PrefixesAre, UnderWay DEF StorageTypeOK
    <3>2. Added(before', file', o.text, o.try)
      BY DEF Left
    <3> QED BY <3>1, <3>2, OneMorePiece
  <2>4. p.call = "overwrite" => Overwriting(p)'
    BY <2>1 DEF Overwriting, Left
  <2>5. ~Writes(p) => Reading(p)'
    BY <2>1 DEF Reading, Writes
  <2>6. Course(p)'
    BY <2>1 DEF Course
  <2>7. Stage(p)'
    BY <2>3, <2>4, <2>5, <2>6 DEF Stage, Writes
  <2> QED BY <2>1, <2>7 DEF StorageInv
<1>4. CASE o.call = "truncate" /\ Goes(o, "cut", <<>>, o.try)
  <2>1. PICK p : /\ op' = {p} /\ answer' = {}
                 /\ p.call = "truncate" /\ p.text = <<>> /\ p.step = "cut"
    BY <1>1, <1>4, GoesOn
  <2>2. KeptEnd(p.text)'
    BY <1>1, <2>1, EmptySeq DEF KeptEnd
  <2>3. Reading(p)' /\ Course(p)'
    BY <1>4, <2>1, <2>2 DEF Reading, Course, Writes
  <2>4. Stage(p)'
    BY <2>1, <2>3 DEF Stage
  <2> QED BY <2>1, <2>4 DEF StorageInv
<1> QED BY <1>2, <1>3, <1>4 DEF Failed

(* The steps that write. *)

LEMMA OpenKeeps ==
  ASSUME StorageInv, NEW o \in op, OpenFile(o), UNCHANGED before, StorageTypeOK'
  PROVE  StorageInv'
<1>1. Stage(o) /\ o.step = "open" /\ Writes(o) /\ o.text \in Seq(Byte)
  BY UnderWay DEF StorageInv, OpenFile
<1>2. file' = IF o.call = "overwrite" THEN <<>> ELSE file
  BY DEF OpenFile
<1>3. PICK p : /\ op' = {p} /\ answer' = {}
               /\ p.call = o.call /\ p.text = o.text /\ p.step = "write" /\ p.try = o.try
  BY GoesOn DEF OpenFile, StorageInv
<1>4. p.call = "append" => Appending(p)'
  BY <1>1, <1>2, <1>3 DEF Stage, Appending
<1>5. p.call = "overwrite" => Overwriting(p)'
  BY <1>1, <1>2, <1>3, WholeAndNothing DEF Overwriting
<1>6. Stage(p)'
  BY <1>1, <1>3, <1>4, <1>5 DEF Stage, Course, Writes
<1> QED BY <1>3, <1>6 DEF StorageInv

LEMMA OpenFailsKeeps ==
  ASSUME StorageInv, NEW o \in op, OpenFails(o), UNCHANGED before, StorageTypeOK'
  PROVE  StorageInv'
<1>1. Stage(o) /\ o.step = "open" /\ Writes(o) /\ o.text \in Seq(Byte)
  BY UnderWay DEF StorageInv, OpenFails
<1>2. file' = file \/ (o.call = "overwrite" /\ file' = <<>>)
  BY DEF OpenFails
<1>3. o.call = "append" => AppendKeeps
  BY StorageInvMeans
<1>4. Left(o)'
  BY <1>1, <1>2, <1>3, WholeAndNothing DEF Left, Stage, Overwriting, AppendKeeps, Writes
<1> QED BY <1>1, <1>4, TriesAgain DEF OpenFails

LEMMA WriteKeeps ==
  ASSUME StorageInv, NEW o \in op, WriteData(o), UNCHANGED before, StorageTypeOK'
  PROVE  StorageInv'
<1>1. Stage(o) /\ o.step = "write" /\ o.text \in Seq(Byte) /\ file' = file \o o.text /\ file \in Seq(Byte)
  BY UnderWay DEF StorageInv, StorageTypeOK, WriteData
<1>2. PICK p : /\ op' = {p} /\ answer' = {}
               /\ p.call = o.call /\ p.text = o.text /\ p.step = "flush" /\ p.try = o.try
  BY GoesOn DEF WriteData, StorageInv
<1>3. Writes(o)
  BY <1>1 DEF Stage, Course
<1>4. p.call = "append" => Appending(p)'
  <2> SUFFICES ASSUME o.call = "append"
               PROVE  /\ Len(o.text) <= Len(file') /\ IsSuffix(o.text, file')
                      /\ \A n \in (Len(file') - Len(o.text))..Len(file') :
                           Added(before', SubSeq(file', 1, n), o.text, o.try)
    BY <1>2 DEF Appending
  <2>1. Len(o.text) \in Nat /\ Len(file) \in Nat /\ Len(file') = Len(file) + Len(o.text)
    BY <1>1, LenProperties, Appended
  <2>2. IsSuffix(o.text, file')
    BY <1>1, AppendedLast
  <2>3. ASSUME NEW n \in Len(file)..(Len(file) + Len(o.text))
        PROVE  Added(before', SubSeq(file', 1, n), o.text, o.try)
    <3> DEFINE m == n - Len(file)
    <3>1. m \in 0..Len(o.text) /\ n = Len(file) + m
      BY <2>1
    <3> HIDE DEF m
    <3>2. SubSeq(file', 1, n) = file \o SubSeq(o.text, 1, m)
      BY <1>1, <3>1, CutBehind
    <3>3. SubSeq(o.text, 1, m) \in Prefixes(o.text)
      BY <3>1 DEF Prefixes
    <3>4. Appending(o)
      BY <1>1, <1>3 DEF Stage
    <3> QED BY <1>1, <3>2, <3>3, <3>4 DEF Appending
  <2> QED BY <2>1, <2>2, <2>3
<1>5. p.call = "overwrite" => Overwriting(p)'
  BY <1>1, <1>2, WholeAndNothing DEF Stage, Overwriting
<1>6. Stage(p)'
  BY <1>2, <1>3, <1>4, <1>5 DEF Stage, Course, Writes
<1> QED BY <1>2, <1>6 DEF StorageInv

LEMMA WriteFailsKeeps ==
  ASSUME StorageInv, NEW o \in op, WriteFails(o), UNCHANGED before, StorageTypeOK'
  PROVE  StorageInv'
<1>1. Stage(o) /\ o.step = "write" /\ o.text \in Seq(Byte) /\ Writes(o)
  BY UnderWay DEF StorageInv, WriteFails, Stage, Course
<1>2. PICK t \in Prefixes(o.text) : file' = file \o t
  BY DEF WriteFails
<1>3. t \in Seq(Byte) /\ IsPrefix(t, o.text)
  BY <1>1, PrefixesAre
<1>4. o.call = "append" => Added(before', file', o.text, o.try)
  BY <1>1, <1>2 DEF Stage, Appending
<1>5. o.call = "overwrite" => IsPrefix(file', o.text)
  BY <1>1, <1>2, <1>3, WholeAndNothing DEF Stage, Overwriting
<1>6. Left(o)'
  BY <1>1, <1>4, <1>5 DEF Left, Writes
<1> QED BY <1>1, <1>6, TriesAgain DEF WriteFails

LEMMA FlushKeeps ==
  ASSUME StorageInv, NEW o \in op, FlushAndClose(o), UNCHANGED before, StorageTypeOK'
  PROVE  StorageInv'
<1>1. Stage(o) /\ o.step = "flush" /\ UNCHANGED file /\ Writes(o)
  BY DEF StorageInv, FlushAndClose, Stage, Course
<1>2. PICK a : op' = {} /\ answer' = {a} /\ a.call = o.call /\ a.text = o.text /\ a.ok
  BY Succeeds DEF FlushAndClose
<1>3. o.call = "append" => \E n \in 1..MaxRetries : Added(before, file, o.text, n)
  BY <1>1, AddedSoFar, UnderWay DEF StorageInv, Stage
<1>4. Ended(a)'
  BY <1>1, <1>2, <1>3 DEF Ended, Stage, Appending, Overwriting, Writes
<1> QED BY <1>2, <1>4 DEF StorageInv

LEMMA FlushFailsKeeps ==
  ASSUME StorageInv, NEW o \in op, FlushFails(o), UNCHANGED before, StorageTypeOK'
  PROVE  StorageInv'
<1>1. Stage(o) /\ o.step = "flush" /\ UNCHANGED file /\ Writes(o) /\ AppendKeeps
  BY StorageInvMeans DEF StorageInv, FlushFails, Stage, Course
<1>2. Left(o)'
  BY <1>1 DEF Left, Stage, Overwriting, AppendKeeps, Writes
<1> QED BY <1>1, <1>2, TriesAgain DEF FlushFails

(* The steps that read. *)

LEMMA OpenToReadKeeps ==
  ASSUME StorageInv, NEW o \in op, OpenToRead(o), UNCHANGED before, StorageTypeOK'
  PROVE  StorageInv'
<1>1. Stage(o) /\ o.step = "open" /\ ~Writes(o) /\ UNCHANGED file /\ file = before
  BY DEF StorageInv, OpenToRead, Stage, Reading
<1>2. PICK p : /\ op' = {p} /\ answer' = {}
               /\ p.call = o.call /\ p.text = <<>> /\ p.step = "read" /\ p.at = 0
  BY GoesOn DEF OpenToRead, StorageInv
<1>3. ReadSoFar(p)'
  <2> DEFINE source == Source(p)'
             size == BufferSize(p)
  <2>1. source \in Seq(Byte) /\ Len(source) \in Nat /\ size \in Nat
    <3>1. file' \in Seq(Byte)
      BY DEF StorageTypeOK
    <3>2. source = file' \/ source = EndOf(file')
      BY DEF Source
    <3> QED BY <3>1, <3>2, EndIs, LenProperties, SdStorageAssumption DEF BufferSize
  <2> HIDE DEF source, size
  <2>2. 0 = 0 * size /\ SubSeq(source, 1, 0) = <<>> /\ Len(<<>>) = 0
    BY <2>1, SubSeqEmpty, EmptySeq
  <2>3. \E k \in Nat : p.at = k * size
    BY <1>2, <2>2
  <2> QED BY <1>2, <2>1, <2>2, <2>3 DEF ReadSoFar, source, size
<1>4. Stage(p)'
  BY <1>1, <1>2, <1>3 DEF Stage, Course, Writes, Reading
<1> QED BY <1>2, <1>4 DEF StorageInv

LEMMA ReadBytesKeeps ==
  ASSUME StorageInv, NEW o \in op, ReadBytes(o), UNCHANGED before, StorageTypeOK'
  PROVE  StorageInv'
<1> DEFINE source == Source(o)
           size == BufferSize(o)
           reach == AtMost(o.at + size, Len(source))
           buffer == SubSeq(source, o.at + 1, reach)
           text == IF Valid(buffer) THEN o.text \o buffer ELSE o.text
<1>1. Stage(o) /\ o.step = "read" /\ UNCHANGED file
  BY DEF StorageInv, ReadBytes
<1>2. ~Writes(o) /\ file = before /\ ReadSoFar(o)
  BY <1>1 DEF Stage, Course, Reading
<1>3. PICK p : /\ op' = {p} /\ answer' = {}
               /\ p.call = o.call /\ p.step = "read" /\ p.at = reach /\ p.text = text
  BY ReadsOn DEF StorageInv, Reached
<1>4. /\ source \in Seq(Byte) /\ Len(source) \in Nat /\ o.at < Len(source) /\ size \in Nat \ {0}
      /\ o.at \in Nat /\ o.text \in Seq(Byte) /\ Len(o.text) \in Nat
  BY ReadsOn, UnderWay, LenProperties DEF StorageInv
<1>5. source' = source /\ Source(p)' = source /\ BufferSize(p) = size
  BY <1>1, <1>3 DEF Source, BufferSize
<1>6. /\ Len(o.text) <= o.at
      /\ Unbroken(source, size) => o.text = SubSeq(source, 1, o.at)
      /\ \E k \in Nat : o.at = k * size
  BY <1>2, <1>4 DEF ReadSoFar
<1> HIDE DEF source, size
<1>7. /\ reach \in Nat /\ o.at < reach /\ reach <= Len(source)
      /\ buffer \in Seq(Byte) /\ Len(buffer) = reach - o.at
      /\ SubSeq(source, 1, o.at) \o buffer = SubSeq(source, 1, reach)
      /\ \A k \in Nat : o.at = k * size =>
           /\ reach = Len(source) \/ reach = (k + 1) * size
           /\ Unbroken(source, size) => Valid(buffer)
  BY <1>4, NextBuffer
<1> HIDE DEF reach, buffer
<1>8. PICK k \in Nat : o.at = k * size
  BY <1>6
<1>9. /\ reach = Len(source) \/ \E n \in Nat : reach = n * size
      /\ Unbroken(source, size) => Valid(buffer)
  <2>1. k + 1 \in Nat
    OBVIOUS
  <2> QED BY <1>7, <1>8, <2>1
<1>10. Len(text) <= reach
  <2> DEFINE soFar == o.text
  <2>2. soFar \in Seq(Byte)
    BY <1>4
  <2> HIDE DEF soFar
  <2>3. Len(soFar \o buffer) = Len(soFar) + Len(buffer)
    BY <1>7, <2>2, ConcatProperties
  <2>1. Len(o.text \o buffer) = Len(o.text) + Len(buffer)
    BY <2>3 DEF soFar
  <2> QED BY <1>4, <1>6, <1>7, <2>1
<1>11. Unbroken(source, size) => text = SubSeq(source, 1, reach)
  BY <1>6, <1>7, <1>9
<1> HIDE DEF text
<1>12. ReadSoFar(p)'
  BY <1>3, <1>5, <1>7, <1>9, <1>10, <1>11 DEF ReadSoFar
<1>13. Stage(p)'
  BY <1>1, <1>2, <1>3, <1>12 DEF Stage, Course, Writes, Reading
<1> QED BY <1>3, <1>13 DEF StorageInv

(* At the end of the file all of it was read, unless a character was cut.  *)
LEMMA ReadAll ==
  ASSUME StorageInv, NEW o \in op, o.step = "read", o.at = Len(Source(o))
  PROVE  /\ ~Writes(o) /\ file = before /\ Course(o)
         /\ o.call = "read" /\ Unbroken(file, ReadBuffer) => o.text = file
         /\ o.call # "read" /\ Unbroken(LastBytes(file), EndBuffer) => o.text = LastBytes(file)
         /\ o.call # "read" => Len(o.text) <= Packet
<1>1. ~Writes(o) /\ file = before /\ ReadSoFar(o) /\ Course(o)
  BY DEF StorageInv, Stage, Course, Reading
<1>2. file \in Seq(Byte) /\ o.text \in Seq(Byte)
  BY UnderWay DEF StorageInv, StorageTypeOK
<1>3. Source(o) \in Seq(Byte)
  BY <1>2, EndIs DEF Source
<1>4. SubSeq(Source(o), 1, o.at) = Source(o)
  BY <1>3, SubSeqFull
<1>5. Unbroken(Source(o), BufferSize(o)) => o.text = Source(o)
  BY <1>1, <1>4 DEF ReadSoFar
<1>6. o.call # "read" => Source(o) = LastBytes(file) /\ BufferSize(o) = EndBuffer
  BY <1>2, EndIs DEF Source, BufferSize
<1>7. o.call = "read" => Source(o) = file /\ BufferSize(o) = ReadBuffer
  BY DEF Source, BufferSize
<1>8. o.call # "read" => Len(o.text) <= Packet
  <2> SUFFICES ASSUME o.call # "read" PROVE Len(o.text) <= Packet
    OBVIOUS
  <2>1. Source(o) = EndOf(file)
    BY DEF Source
  <2>2. Len(Source(o)) <= Packet /\ Len(o.text) <= Len(Source(o))
    BY <1>1, <1>2, <2>1, EndIs DEF ReadSoFar
  <2>3. Len(Source(o)) \in Nat /\ Len(o.text) \in Nat /\ Packet \in Nat
    BY <1>2, <1>3, LenProperties, SdStorageAssumption
  <2> QED BY <2>2, <2>3
<1> QED BY <1>1, <1>5, <1>6, <1>7, <1>8

LEMMA CloseReadKeeps ==
  ASSUME StorageInv, NEW o \in op, CloseRead(o), UNCHANGED before, StorageTypeOK'
  PROVE  StorageInv'
<1>1. o.step = "read" /\ o.at = Len(Source(o)) /\ UNCHANGED file
  BY DEF CloseRead
<1>2. CASE o.call = "truncate"
  <2>1. PICK p : /\ op' = {p} /\ answer' = {}
                 /\ p.call = o.call /\ p.text = o.text /\ p.step = "cut"
    BY <1>2, GoesOn DEF CloseRead, StorageInv
  <2>2. KeptEnd(o.text)'
    BY <1>1, <1>2, ReadAll DEF KeptEnd, LastBytes
  <2>3. Stage(p)'
    BY <1>1, <1>2, <2>1, <2>2, ReadAll DEF Stage, Course, Writes, Reading
  <2> QED BY <2>1, <2>3 DEF StorageInv
<1>3. CASE o.call # "truncate"
  <2>1. PICK a : op' = {} /\ answer' = {a} /\ a.call = o.call /\ a.ok /\ a.text = o.text
    BY <1>3, Succeeds DEF CloseRead
  <2>2. o.call \notin {"append", "overwrite"}
    BY <1>1, ReadAll DEF Writes
  <2>3. o.call = "read" /\ Unbroken(file, ReadBuffer)' => a.text = file'
    <3>1. Unbroken(file, ReadBuffer)' <=> Unbroken(file, ReadBuffer)
      BY <1>1 DEF Unbroken, Valid
    <3> QED BY <1>1, <2>1, <3>1, ReadAll
  <2>4. o.call = "read end" /\ Unbroken(LastBytes(file), EndBuffer)' => a.text = LastBytes(file)'
    <3>1. LastBytes(file)' = LastBytes(file)
      BY <1>1 DEF LastBytes
    <3>2. Unbroken(LastBytes(file), EndBuffer)' <=> Unbroken(LastBytes(file), EndBuffer)
      BY <3>1 DEF Unbroken, Valid
    <3> QED BY <1>1, <2>1, <3>1, <3>2, ReadAll
  <2>5. Ended(a)'
    BY <1>3, <2>1, <2>2, <2>3, <2>4 DEF Ended
  <2> QED BY <2>1, <2>5 DEF StorageInv
<1> QED BY <1>2, <1>3

LEMMA ReadFailsKeeps ==
  ASSUME StorageInv, NEW o \in op, ReadFails(o), UNCHANGED before, StorageTypeOK'
  PROVE  StorageInv'
<1>1. ~Writes(o) /\ o.step \in {"open", "read"} /\ UNCHANGED file /\ file = before
  BY DEF StorageInv, ReadFails, Stage, Reading
<1>2. Left(o)'
  BY <1>1 DEF Left, CutShortened, Writes
<1> QED BY <1>1, <1>2, TriesAgain DEF ReadFails

(* Truncating what was read. *)

LEMMA CutKeeps ==
  ASSUME StorageInv, NEW o \in op, Cut(o), UNCHANGED before, StorageTypeOK'
  PROVE  StorageInv'
<1>1. o.step = "cut" /\ o.call = "truncate" /\ file = before /\ KeptEnd(o.text)
  BY DEF Cut, StorageInv, Stage, Course, Writes, Reading
<1>2. CASE Len(file) > Threshold /\ file' = <<>> /\ Goes(o, "put", o.text, o.try)
  <2>1. PICK p : /\ op' = {p} /\ answer' = {}
                 /\ p.call = o.call /\ p.text = o.text /\ p.step = "put"
    BY <1>2, GoesOn DEF StorageInv
  <2>2. KeptEnd(p.text)' /\ Len(before') > Threshold
    BY <1>1, <1>2, <2>1 DEF KeptEnd
  <2>3. Stage(p)'
    BY <1>1, <1>2, <2>1, <2>2 DEF Stage, Course, Writes, Reading
  <2> QED BY <2>1, <2>3 DEF StorageInv
<1>3. CASE Answer(o, TRUE, o.text) /\ UNCHANGED file
  <2>1. PICK a : op' = {} /\ answer' = {a} /\ a.call = o.call
    BY <1>3, Succeeds
  <2>2. Ended(a)'
    BY <1>1, <1>3, <2>1 DEF Ended, CutShortened
  <2> QED BY <2>1, <2>2 DEF StorageInv
<1> QED BY <1>2, <1>3 DEF Cut

(* What is put back is a beginning of what was kept. *)
LEMMA PutBack ==
  ASSUME StorageInv, NEW o \in op, o.step = "put", UNCHANGED before,
         file' = o.text \/ file' \in Prefixes(o.text)
  PROVE  o.call = "truncate" /\ CutShortened'
<1>1. o.call = "truncate" /\ KeptEnd(o.text) /\ Len(before) > Threshold
  BY DEF StorageInv, Stage, Course, Writes, Reading
<1>2. o.text \in Seq(Byte) /\ Len(o.text) \in Nat /\ Packet \in Nat
  BY UnderWay, LenProperties, SdStorageAssumption DEF StorageInv
<1>3. file' \in Seq(Byte) /\ IsPrefix(file', o.text) /\ Len(file') <= Len(o.text)
  <2>1. CASE file' = o.text
    BY <1>2, <2>1, WholeAndNothing
  <2>2. CASE file' \in Prefixes(o.text)
    <3>1. PICK n \in 0..Len(o.text) : file' = SubSeq(o.text, 1, n)
      BY <2>2 DEF Prefixes
    <3> QED BY <1>2, <3>1, Beginnings
  <2> QED BY <2>1, <2>2
<1>4. Len(file') <= Packet
  BY <1>1, <1>2, <1>3, LenProperties DEF KeptEnd
<1>5. LastBytes(before) \in Seq(Byte)
  BY EndIs DEF StorageInv, StorageTypeOK
<1>6. o.text = <<>> => file' = <<>> /\ IsPrefix(file', LastBytes(before))
  <2> SUFFICES ASSUME o.text = <<>> PROVE file' = <<>> /\ IsPrefix(file', LastBytes(before))
    OBVIOUS
  <2>1. Len(file') = 0
    BY <1>3, EmptySeq, LenProperties
  <2>2. file' = <<>>
    BY <1>3, <2>1, EmptySeq
  <2> QED BY <1>5, <2>2, WholeAndNothing
<1>7. Unbroken(LastBytes(before), EndBuffer) => IsPrefix(file', LastBytes(before))
  BY <1>1, <1>3, <1>6 DEF KeptEnd
<1>8. LastBytes(before)' = LastBytes(before)
  BY DEF LastBytes
<1> QED BY <1>1, <1>4, <1>7, <1>8 DEF CutShortened

LEMMA PutKeeps ==
  ASSUME StorageInv, NEW o \in op, Put(o), UNCHANGED before, StorageTypeOK'
  PROVE  StorageInv'
<1>1. o.call = "truncate" /\ CutShortened'
  BY PutBack DEF Put
<1>2. PICK a : op' = {} /\ answer' = {a} /\ a.call = o.call
  BY Succeeds DEF Put
<1>3. Ended(a)'
  BY <1>1, <1>2 DEF Ended
<1> QED BY <1>2, <1>3 DEF StorageInv

(* An operation that begins owes nothing yet. *)
LEMMA BeginKeeps ==
  ASSUME StorageInv, NEW call \in Call, NEW text \in Seq(Byte), Begin(call, text), StorageTypeOK'
  PROVE  StorageInv'
<1> DEFINE p == [call |-> call, text |-> text, step |-> "open", try |-> 1, at |-> 0]
<1>1. op' = {p} /\ answer' = {} /\ UNCHANGED file /\ before' = file'
  BY DEF Begin
<1>2. p.call = call /\ p.text = text /\ p.step = "open" /\ p.try = 1
  OBVIOUS
<1> HIDE DEF p
<1>3. file' \in Seq(Byte)
  BY DEF StorageTypeOK
<1>4. Appending(p)'
  <2>1. \A t \in Prefixes(text) : t \in Seq(Byte) /\ IsPrefix(t, text)
    BY PrefixesAre
  <2>2. \A t \in Prefixes(text) : Added(before', file' \o t, text, 1)
    BY <1>1, <1>3, <2>1, FirstPiece
  <2> QED BY <1>1, <1>2, <2>2 DEF Appending
<1>5. Overwriting(p)' /\ Reading(p)' /\ Course(p)'
  BY <1>1, <1>2 DEF Overwriting, Reading, Course
<1> QED BY <1>1, <1>4, <1>5 DEF StorageInv, Stage

(* Power may go at any stage: an append loses no more than it has just     *)
(* written, and so does an overwrite, of which a beginning stays.          *)
LEMMA LosePowerKeeps ==
  ASSUME StorageInv, LosePower, StorageTypeOK'
  PROVE  StorageInv'
<1>1. PICK o \in op :
        /\ GiveUp(o)
        /\ UNCHANGED before
        /\ \/ UNCHANGED file
           \/ o.step = "put" /\ file' \in Prefixes(o.text)
           \/ o.step = "flush" /\ \E lost \in 0..Len(o.text) : file' = SubSeq(file, 1, Len(file) - lost)
  BY DEF LosePower
<1>2. /\ Stage(o) /\ AppendKeeps /\ o.text \in Seq(Byte) /\ o.call \in Call
      /\ file \in Seq(Byte) /\ before \in Seq(Byte)
  BY StorageInvMeans, UnderWay DEF StorageInv, StorageTypeOK
<1>3. CASE UNCHANGED file /\ o.step # "put"
  <2>1. Left(o)'
    BY <1>1, <1>2, <1>3 DEF Left, Stage, Overwriting, Reading, AppendKeeps, CutShortened, Writes
  <2> QED BY <1>1, <2>1, GivesUp
<1>4. CASE o.step = "put" /\ (UNCHANGED file \/ file' \in Prefixes(o.text))
  <2>1. <<>> \in Prefixes(o.text)
    <3>1. 0 \in 0..Len(o.text) /\ SubSeq(o.text, 1, 0) = <<>>
      BY <1>2, LenProperties, SubSeqEmpty
    <3> QED BY <3>1 DEF Prefixes
  <2>2. file' \in Prefixes(o.text)
    BY <1>2, <1>4, <2>1 DEF Stage, Course, Writes, Reading
  <2>3. o.call = "truncate" /\ CutShortened'
    BY <1>1, <1>4, <2>2, PutBack
  <2>4. Left(o)'
    BY <2>3 DEF Left
  <2> QED BY <1>1, <2>4, GivesUp
<1>5. ASSUME o.step = "flush", NEW lost \in 0..Len(o.text), file' = SubSeq(file, 1, Len(file) - lost)
      PROVE  StorageInv'
  <2> DEFINE n == Len(file) - lost
  <2>0. /\ Len(file) \in Nat /\ Len(before) \in Nat /\ Len(o.text) \in Nat /\ lost \in Nat
        /\ lost <= Len(o.text) /\ Writes(o)
    BY <1>2, <1>5, LenProperties DEF Stage, Course
  <2>1. ASSUME o.call = "append" PROVE Added(before, file', o.text, o.try)
    <3>1. Len(o.text) <= Len(file) /\ Appending(o)
      BY <1>2, <1>5, <2>1 DEF Stage, Appending
    <3>2. n \in (Len(file) - Len(o.text))..Len(file)
      BY <2>0, <3>1
    <3>3. file' = SubSeq(file, 1, n)
      BY <1>5
    <3> HIDE DEF n
    <3> QED BY <1>5, <3>1, <3>2, <3>3 DEF Appending
  <2>2. ASSUME o.call = "overwrite" PROVE IsPrefix(file', o.text)
    <3>1. file = o.text
      BY <1>2, <1>5, <2>2 DEF Stage, Overwriting
    <3>2. n \in 0..Len(o.text) /\ file' = SubSeq(o.text, 1, n)
      BY <1>5, <2>0, <3>1
    <3> HIDE DEF n
    <3> QED BY <1>2, <3>2, Beginnings
  <2>3. Left(o)'
    BY <1>1, <2>0, <2>1, <2>2 DEF Left, Writes
  <2> QED BY <1>1, <2>3, GivesUp
<1> QED BY <1>1, <1>3, <1>4, <1>5

LEMMA StorageInvNext == StorageInv /\ [Next]_vars => StorageInv'
<1> SUFFICES ASSUME StorageInv, [Next]_vars PROVE StorageInv'
  OBVIOUS
<1>0. StorageTypeOK'
  BY TypeNext DEF StorageInv
<1>1. ASSUME NEW call \in {"append", "overwrite"}, NEW text \in Texts, Begin(call, text)
      PROVE  StorageInv'
  <2>1. call \in Call /\ text \in Seq(Byte)
    BY SdStorageAssumption DEF Call
  <2> QED BY <1>0, <1>1, <2>1, BeginKeeps
<1>2. ASSUME NEW call \in {"read", "read end", "truncate"}, Begin(call, <<>>)
      PROVE  StorageInv'
  <2>1. call \in Call /\ <<>> \in Seq(Byte)
    BY EmptySeq DEF Call
  <2> QED BY <1>0, <1>2, <2>1, BeginKeeps
<1>3. ASSUME SdStep PROVE StorageInv'
  <2>1. PICK o \in op : /\ UNCHANGED before
                        /\ \/ OpenFile(o) \/ OpenFails(o)
                           \/ WriteData(o) \/ WriteFails(o)
                           \/ FlushAndClose(o) \/ FlushFails(o)
                           \/ OpenToRead(o) \/ ReadBytes(o) \/ CloseRead(o) \/ ReadFails(o)
                           \/ Cut(o) \/ Put(o)
    BY <1>3 DEF SdStep
  <2> QED
    BY <1>0, <2>1, OpenKeeps, OpenFailsKeeps, WriteKeeps, WriteFailsKeeps, FlushKeeps, FlushFailsKeeps,
       OpenToReadKeeps, ReadBytesKeeps, CloseReadKeeps, ReadFailsKeeps, CutKeeps, PutKeeps
<1>4. CASE Delete
  BY <1>0, <1>4 DEF Delete, StorageInv
<1>5. CASE LosePower
  BY <1>0, <1>5, LosePowerKeeps
<1>6. CASE UNCHANGED vars
  <2>1. \A o : Stage(o)' <=> Stage(o)
    BY <1>6 DEF vars, Stage, Course, Appending, Overwriting, Reading, ReadSoFar, KeptEnd, LastBytes,
                Source, EndOf, Unbroken, Valid
  <2>2. \A a : Ended(a)' <=> Ended(a)
    BY <1>6 DEF vars, Ended, CutShortened, LastBytes, Unbroken, Valid
  <2> QED BY <1>0, <1>6, <2>1, <2>2 DEF vars, StorageInv
<1> QED BY <1>1, <1>2, <1>3, <1>4, <1>5, <1>6 DEF Next

LEMMA StorageInvariant == Spec => []StorageInv
BY StorageInvInit, StorageInvNext, PTL DEF Spec

(* Whatever fails and whenever power is lost, an append costs nothing that *)
(* was there, adds one piece of the text for each attempt and nothing      *)
(* else, and ends with the whole text when it says so.                     *)
THEOREM AppendsKeep == Spec => []AppendKeeps
BY StorageInvariant, StorageInvMeans, PTL

(* For every text, every number of attempts, every fault and every loss of *)
(* power, a file that is overwritten holds what it held before or a        *)
(* beginning of its new contents, and all of them once it is told to.      *)
THEOREM NeverMixed == Spec => []OverwriteReplaces
BY StorageInvariant, StorageInvMeans, PTL

(* Whatever the size of the buffers and the attempts before, a read that   *)
(* succeeds returns the file or its end as it is, if no character of it    *)
(* lies across the border of two buffers, and one that fails nothing.      *)
THEOREM ReadsAreTrue == Spec => []ReadsBack
BY StorageInvariant, StorageInvMeans, PTL

(* A file is truncated only when it is too long, to no more than a packet, *)
(* and to a beginning of its end if no character was cut.                  *)
THEOREM TruncationKeepsEnd == Spec => []TruncateKeepsEnd
BY StorageInvariant, StorageInvMeans, PTL
=============================================================================
