---------------------------- MODULE ClockProofs ----------------------------
(***************************************************************************)
(* Theorems about the clock: the conversion turns the pages of the         *)
(* calendar for every day there will be, and the clock tells that time     *)
(* from every start, for every interval and every offset.                  *)
(***************************************************************************)
EXTENDS Clock, TLAPS

---------------------------------------------------------------------------
(* The place of a day in its era: c centuries, q times four years, t years *)
(* and u days.  A day 365 is the leap day at the end of a year: that of    *)
(* every fourth year, but of a century's last only in the fourth century.  *)
LeapPlace(c, q, t) == t = 3 /\ (q < 24 \/ c = 3)

Place(c, q, t, u) ==
  /\ c \in 0..3 /\ q \in 0..24 /\ t \in 0..3
  /\ u \in Nat /\ u <= 365 /\ (u = 365 => LeapPlace(c, q, t))

DayAt(c, q, t, u) == 36524 * c + 1461 * q + (365 * t + u)

YearAt(c, q, t) == 100 * c + 4 * q + t

LEMMA PlaceExists ==
  ASSUME NEW doe \in Nat, doe < 146097
  PROVE  \E c, q, t, u : Place(c, q, t, u) /\ doe = DayAt(c, q, t, u)
<1>1. PICK c \in Nat, r \in Nat : c <= 3 /\ r <= 36524 /\ doe = 36524 * c + r /\ (r = 36524 => c = 3)
  <2>1. CASE doe >= 109572
    <3>1. doe - 109572 \in Nat /\ doe - 109572 <= 36524 /\ doe = 36524 * 3 + (doe - 109572)
      BY <2>1
    <3> QED BY <3>1
  <2>2. CASE doe < 109572
    <3>1. doe \div 36524 \in Nat /\ doe \div 36524 <= 3 /\ doe % 36524 \in Nat /\ doe % 36524 < 36524
      BY <2>2
    <3>2. doe = 36524 * (doe \div 36524) + (doe % 36524)
      BY <2>2
    <3> QED BY <3>1, <3>2
  <2> QED BY <2>1, <2>2
<1>2. PICK q \in Nat, s \in Nat : q <= 24 /\ s <= 1460 /\ r = 1461 * q + s /\ (s = 1460 => q < 24 \/ c = 3)
  <2>1. CASE r >= 35064
    <3>1. r - 35064 \in Nat /\ r - 35064 <= 1460 /\ r = 1461 * 24 + (r - 35064) /\ (r - 35064 = 1460 => c = 3)
      BY <1>1, <2>1
    <3> QED BY <3>1
  <2>2. CASE r < 35064
    <3>1. r \div 1461 \in Nat /\ r \div 1461 <= 23 /\ r % 1461 \in Nat /\ r % 1461 <= 1460
      BY <1>1, <2>2
    <3>2. r = 1461 * (r \div 1461) + (r % 1461)
      BY <2>2
    <3> QED BY <3>1, <3>2
  <2> QED BY <2>1, <2>2
<1>3. PICK t \in Nat, u \in Nat : t <= 3 /\ u <= 365 /\ s = 365 * t + u /\ (u = 365 => t = 3 /\ s = 1460)
  <2>1. CASE s >= 1095
    <3>1. s - 1095 \in Nat /\ s - 1095 <= 365 /\ s = 365 * 3 + (s - 1095) /\ (s - 1095 = 365 => s = 1460)
      BY <1>2, <2>1
    <3> QED BY <3>1
  <2>2. CASE s < 1095
    <3>1. s \div 365 \in Nat /\ s \div 365 <= 2 /\ s % 365 \in Nat /\ s % 365 < 365
      BY <1>2, <2>2
    <3>2. s = 365 * (s \div 365) + (s % 365)
      BY <2>2
    <3> QED BY <3>1, <3>2
  <2> QED BY <2>1, <2>2
<1>4. doe = DayAt(c, q, t, u)
  BY <1>1, <1>2, <1>3 DEF DayAt
<1>5. Place(c, q, t, u)
  <2>1. u = 365 => LeapPlace(c, q, t)
    BY <1>2, <1>3 DEF LeapPlace
  <2>2. c \in 0..3 /\ q \in 0..24 /\ t \in 0..3
    BY <1>1, <1>2, <1>3
  <2> QED BY <1>3, <2>1, <2>2 DEF Place
<1> QED BY <1>4, <1>5

(* The divisions that look odd find the year ... *)
LEMMA YearOfPlace ==
  ASSUME NEW c, NEW q, NEW t, NEW u, Place(c, q, t, u)
  PROVE  /\ DayAt(c, q, t, u) \in Nat /\ DayAt(c, q, t, u) < 146097
         /\ YearAt(c, q, t) \in Nat
         /\ YearOfEra(DayAt(c, q, t, u)) = YearAt(c, q, t)
<1>1. /\ c \in 0..3 /\ q \in 0..24 /\ t \in 0..3 /\ u \in Nat
      /\ u <= 365 /\ (u = 365 => t = 3 /\ (q < 24 \/ c = 3))
  BY DEF Place, LeapPlace
<1>2. PICK y \in Nat, doe \in Nat, s \in Nat, n \in Nat :
        /\ y = YearAt(c, q, t) /\ y = 100 * c + 4 * q + t
        /\ doe = DayAt(c, q, t, u) /\ doe = 36524 * c + 1461 * q + s
        /\ s = 365 * t + u /\ n = 25 * c + q
  <2>1. YearAt(c, q, t) \in Nat /\ YearAt(c, q, t) = 100 * c + 4 * q + t
    BY <1>1 DEF YearAt
  <2>2. DayAt(c, q, t, u) \in Nat /\ DayAt(c, q, t, u) = 36524 * c + 1461 * q + (365 * t + u)
    BY <1>1 DEF DayAt
  <2>3. 365 * t + u \in Nat /\ 25 * c + q \in Nat
    BY <1>1
  <2> QED BY <2>1, <2>2, <2>3
<1>3. s <= 1460 /\ n - c \in Nat /\ n - c <= 96 /\ doe = 1460 * n + (n - c + s)
  <2>1. s <= 1460
    BY <1>1, <1>2
  <2>2. n - c \in Nat /\ n - c <= 96
    BY <1>1, <1>2
  <2>3. doe = 1460 * n + (n - c + s)
    BY <1>1, <1>2
  <2> QED BY <2>1, <2>2, <2>3
<1>4. PICK e \in {0, 1} : doe \div 1460 = n + e /\ (e = 1 <=> n - c + s >= 1460)
  <2>0. PICK x \in Nat : x = n - c + s /\ x < 2920 /\ doe = 1460 * n + x
    BY <1>3
  <2>1. CASE x >= 1460
    <3>1. doe \div 1460 = n + 1
      BY <2>0, <2>1
    <3> QED BY <2>0, <2>1, <3>1
  <2>2. CASE x < 1460
    <3>1. doe \div 1460 = n
      BY <2>0, <2>2
    <3> QED BY <2>0, <2>2, <3>1
  <2> QED BY <2>0, <2>1, <2>2
<1>5. doe < 146097 /\ doe \div 36524 - doe \div 146096 = c
  <2>1. PICK x \in Nat : x <= 36524 /\ doe = 36524 * c + x /\ (x = 36524 => c = 3)
    <3>1. 1461 * q + s \in Nat /\ 1461 * q + s <= 36524
      BY <1>1, <1>2, <1>3
    <3>2. 1461 * q + s = 36524 => c = 3
      BY <1>1, <1>2, <1>3
    <3>3. doe = 36524 * c + (1461 * q + s)
      BY <1>1, <1>2
    <3> QED BY <3>1, <3>2, <3>3
  <2>2. CASE x = 36524
    BY <1>1, <2>1, <2>2
  <2>3. CASE x < 36524
    BY <1>1, <2>1, <2>3
  <2> QED BY <2>1, <2>2, <2>3
<1>6. PICK v \in Nat : v = u - e /\ v < 365
  <2>1. u - e \in Nat /\ u - e < 365
    BY <1>1, <1>2, <1>3, <1>4
  <2> QED BY <2>1
<1>7. doe - (n + e) + c = 365 * y + v
  BY <1>1, <1>2, <1>6
<1>8. (365 * y + v) \div 365 = y
  BY <1>6
<1>9. doe - doe \div 1460 + doe \div 36524 - doe \div 146096 = 365 * y + v
  <2>1. doe \div 1460 \in Int /\ doe \div 36524 \in Int /\ doe \div 146096 \in Int
    OBVIOUS
  <2> QED BY <1>1, <1>4, <1>5, <1>7, <2>1
<1>10. YearOfEra(doe) = y
  BY <1>8, <1>9 DEF YearOfEra
<1> QED BY <1>2, <1>5, <1>10

(* ... and the day of it. *)
LEMMA DayOfPlace ==
  ASSUME NEW c, NEW q, NEW t, NEW u, Place(c, q, t, u)
  PROVE  DayOfYear(DayAt(c, q, t, u)) = u
<1>1. c \in 0..3 /\ q \in 0..24 /\ t \in 0..3 /\ u \in Nat
  BY DEF Place
<1>2. PICK y \in Nat, d \in Nat :
        /\ y = YearAt(c, q, t) /\ y = 100 * c + 4 * q + t
        /\ d = DayAt(c, q, t, u) /\ d = 36524 * c + 1461 * q + (365 * t + u)
        /\ YearOfEra(d) = y
  BY YearOfPlace DEF YearAt, DayAt
<1>3. y \div 4 = 25 * c + q /\ y \div 100 = c
  <2>1. y = 100 * c + 4 * q + t
    BY <1>2
  <2>2. y \div 4 = 25 * c + q
    <3>1. PICK n \in Nat : n = 25 * c + q /\ y = 4 * n + t
      BY <1>1, <2>1
    <3>2. y \div 4 = n
      BY <1>1, <3>1
    <3> QED BY <3>1, <3>2
  <2>3. y \div 100 = c
    <3>1. PICK r \in Nat : r < 100 /\ y = 100 * c + r
      BY <1>1, <2>1
    <3> QED BY <1>1, <3>1
  <2> QED BY <2>2, <2>3
<1>4. d - (365 * y + y \div 4 - y \div 100) = u
  <2>1. 365 * y = 36500 * c + 1460 * q + 365 * t
    BY <1>1, <1>2
  <2>2. d - (36500 * c + 1460 * q + 365 * t + (25 * c + q) - c) = u
    BY <1>1, <1>2
  <2> QED BY <1>3, <2>1, <2>2
<1>5. DayOfYear(d) = u
  BY <1>2, <1>4 DEF DayOfYear
<1> QED BY <1>2, <1>5

---------------------------------------------------------------------------
(* The months of a year that begins in March. *)
MonthLength(mp) == IF mp \in {1, 3, 6, 8} THEN 30 ELSE 31

LEMMA MonthRange ==
  ASSUME NEW u \in Nat, u <= 365
  PROVE  MonthFrom(u) \in 0..11 /\ DayOfMonth(u) \in 1..31
BY DEF MonthFrom, DayOfMonth

(* The day after is the next of the same month, or the first of the next   *)
(* when the month has been as long as it is; February has no end here.     *)
LEMMA MonthStep ==
  ASSUME NEW u \in Nat, u < 365
  PROVE  \/ /\ MonthFrom(u + 1) = MonthFrom(u)
            /\ DayOfMonth(u + 1) = DayOfMonth(u) + 1
            /\ MonthFrom(u) < 11 => DayOfMonth(u) < MonthLength(MonthFrom(u))
            /\ MonthFrom(u) = 11 => DayOfMonth(u) = u - 336
         \/ /\ MonthFrom(u) < 11
            /\ MonthFrom(u + 1) = MonthFrom(u) + 1
            /\ DayOfMonth(u + 1) = 1
            /\ DayOfMonth(u) = MonthLength(MonthFrom(u))
BY SMTT(60) DEF MonthFrom, DayOfMonth, MonthLength

LEMMA MonthEnds ==
  /\ MonthFrom(0) = 0 /\ DayOfMonth(0) = 1
  /\ MonthFrom(364) = 11 /\ DayOfMonth(364) = 28
  /\ MonthFrom(365) = 11 /\ DayOfMonth(365) = 29
BY DEF MonthFrom, DayOfMonth

LEMMA LeapYears ==
  ASSUME NEW era \in Nat, NEW c \in 0..3, NEW q \in 0..24, NEW t \in 0..3
  PROVE  IsLeap(400 * era + YearAt(c, q, t) + 1) <=> LeapPlace(c, q, t)
<1>1. PICK y \in Nat : y = 400 * era + (100 * c + 4 * q + t) + 1
  OBVIOUS
<1>2. y % 4 = 0 <=> t = 3
  BY <1>1
<1>3. y % 100 = 0 <=> t = 3 /\ q = 24
  BY <1>1
<1>4. y % 400 = 0 <=> t = 3 /\ q = 24 /\ c = 3
  BY <1>1
<1>5. IsLeap(y) <=> t = 3 /\ (q < 24 \/ c = 3)
  BY <1>2, <1>3, <1>4 DEF IsLeap
<1> QED BY <1>1, <1>5 DEF LeapPlace, YearAt

---------------------------------------------------------------------------
(* The date u days after the first of March of the year y. *)
Dated(y, u) ==
  [year  |-> IF MonthFrom(u) < 10 THEN y ELSE y + 1,
   month |-> IF MonthFrom(u) < 10 THEN MonthFrom(u) + 3 ELSE MonthFrom(u) - 9,
   day   |-> DayOfMonth(u)]

LEMMA CivilAtPlace ==
  ASSUME NEW days \in Nat, NEW era \in Nat, NEW c, NEW q, NEW t, NEW u,
         Place(c, q, t, u), days + 719468 = 146097 * era + DayAt(c, q, t, u)
  PROVE  Civil(days) = Dated(400 * era + YearAt(c, q, t), u)
<1>1. u \in Nat /\ u <= 365
  BY DEF Place
<1>2. PICK y \in Nat, doe \in Nat :
        /\ y = YearAt(c, q, t) /\ doe = DayAt(c, q, t, u) /\ doe < 146097
        /\ YearOfEra(doe) = y /\ DayOfYear(doe) = u
  BY YearOfPlace, DayOfPlace
<1>3. (days + 719468) \div 146097 = era /\ days + 719468 - era * 146097 = doe
  BY <1>2
<1>4. MonthFrom(u) \in 0..11
  BY <1>1, MonthRange
<1>5. Civil(days) =
        LET m == IF MonthFrom(u) < 10 THEN MonthFrom(u) + 3 ELSE MonthFrom(u) - 9
        IN  [year  |-> y + era * 400 + IF m <= 2 THEN 1 ELSE 0,
             month |-> m,
             day   |-> DayOfMonth(u)]
  BY <1>2, <1>3 DEF Civil
<1>6. CASE MonthFrom(u) < 10
  BY <1>2, <1>4, <1>5, <1>6 DEF Dated
<1>7. CASE ~(MonthFrom(u) < 10)
  BY <1>2, <1>4, <1>5, <1>7 DEF Dated
<1> QED BY <1>6, <1>7

(* Every day has a place. *)
LEMMA DayHasPlace ==
  ASSUME NEW days \in Nat
  PROVE  \E era \in Nat : \E c, q, t, u :
           Place(c, q, t, u) /\ days + 719468 = 146097 * era + DayAt(c, q, t, u)
<1>1. PICK era \in Nat, doe \in Nat : doe < 146097 /\ days + 719468 = 146097 * era + doe
  <2>1. PICK x \in Nat : x = days + 719468
    OBVIOUS
  <2>2. x \div 146097 \in Nat /\ x - 146097 * (x \div 146097) \in Nat
    BY <2>1
  <2>3. x - 146097 * (x \div 146097) < 146097
    BY <2>1
  <2>4. x = 146097 * (x \div 146097) + (x - 146097 * (x \div 146097))
    BY <2>2
  <2>5. \E doe \in Nat : doe < 146097 /\ x = 146097 * (x \div 146097) + doe
    <3> WITNESS x - 146097 * (x \div 146097) \in Nat
    <3> QED BY <2>3, <2>4
  <2>6. \E era \in Nat, doe \in Nat : doe < 146097 /\ x = 146097 * era + doe
    <3>1. x \div 146097 \in Nat
      BY <2>2
    <3> WITNESS x \div 146097 \in Nat
    <3> QED BY <2>5
  <2> QED BY <2>1, <2>6
<1>2. PICK c, q, t, u : Place(c, q, t, u) /\ doe = DayAt(c, q, t, u)
  BY <1>1, PlaceExists
<1>3. days + 719468 = 146097 * era + DayAt(c, q, t, u)
  BY <1>1, <1>2
<1> QED BY <1>2, <1>3

(* A date's place tells whether tomorrow is in the same month and year. *)
LEMMA TomorrowInYear ==
  ASSUME NEW y \in Nat, NEW u \in Nat, u < 365, u = 364 => IsLeap(y + 1)
  PROVE  Tomorrow(Dated(y, u)) = Dated(y, u + 1)
<1>1. MonthFrom(u) \in 0..11 /\ DayOfMonth(u) \in 1..31
  BY MonthRange
<1> DEFINE d == Dated(y, u)
<1>2. CASE /\ MonthFrom(u + 1) = MonthFrom(u)
           /\ DayOfMonth(u + 1) = DayOfMonth(u) + 1
           /\ MonthFrom(u) < 11 => DayOfMonth(u) < MonthLength(MonthFrom(u))
           /\ MonthFrom(u) = 11 => DayOfMonth(u) = u - 336
  <2>1. DayOfMonth(u) < DaysIn(d.year, d.month)
    <3>1. CASE MonthFrom(u) = 11
      <4>1. d.month = 2 /\ d.year = y + 1
        BY <1>1, <3>1 DEF Dated
      <4> QED BY <1>2, <3>1, <4>1 DEF DaysIn
    <3>2. CASE MonthFrom(u) < 10
      <4>1. d.month = MonthFrom(u) + 3
        BY <3>2 DEF Dated
      <4> QED BY <1>1, <1>2, <3>2, <4>1 DEF DaysIn, MonthLength
    <3>3. CASE MonthFrom(u) = 10
      <4>1. d.month = 1
        BY <3>3 DEF Dated
      <4> QED BY <1>1, <1>2, <3>3, <4>1 DEF DaysIn, MonthLength
    <3> QED BY <1>1, <3>1, <3>2, <3>3
  <2>2. Tomorrow(d) = [d EXCEPT !.day = @ + 1]
    BY <2>1 DEF Tomorrow, Dated
  <2> QED BY <1>2, <2>2 DEF Dated
<1>3. CASE /\ MonthFrom(u) < 11
           /\ MonthFrom(u + 1) = MonthFrom(u) + 1
           /\ DayOfMonth(u + 1) = 1
           /\ DayOfMonth(u) = MonthLength(MonthFrom(u))
  <2>1. CASE MonthFrom(u) < 9
    <3>1. d = [year |-> y, month |-> MonthFrom(u) + 3, day |-> DayOfMonth(u)]
      BY <1>1, <2>1 DEF Dated
    <3>2. ~(d.day < DaysIn(d.year, d.month)) /\ d.month < 12
      BY <1>1, <1>3, <2>1, <3>1 DEF DaysIn, MonthLength
    <3>3. Tomorrow(d) = [year |-> y, month |-> MonthFrom(u) + 3 + 1, day |-> 1]
      BY <3>1, <3>2 DEF Tomorrow
    <3> QED BY <1>1, <1>3, <2>1, <3>3 DEF Dated
  <2>2. CASE MonthFrom(u) = 9
    <3>1. d = [year |-> y, month |-> 12, day |-> 31]
      BY <1>3, <2>2 DEF Dated, MonthLength
    <3>2. Tomorrow(d) = [year |-> y + 1, month |-> 1, day |-> 1]
      BY <3>1 DEF Tomorrow, DaysIn
    <3> QED BY <1>3, <2>2, <3>2 DEF Dated
  <2>3. CASE MonthFrom(u) = 10
    <3>1. d = [year |-> y + 1, month |-> 1, day |-> 31]
      BY <1>3, <2>3 DEF Dated, MonthLength
    <3>2. Tomorrow(d) = [year |-> y + 1, month |-> 2, day |-> 1]
      BY <3>1 DEF Tomorrow, DaysIn
    <3> QED BY <1>3, <2>3, <3>2 DEF Dated
  <2> QED BY <1>1, <1>3, <2>1, <2>2, <2>3
<1> QED BY <1>2, <1>3, MonthStep

LEMMA TomorrowNewYear ==
  ASSUME NEW y \in Nat, NEW u \in {364, 365}, u = 365 <=> IsLeap(y + 1)
  PROVE  Tomorrow(Dated(y, u)) = Dated(y + 1, 0)
<1>1. Dated(y, u) = [year |-> y + 1, month |-> 2, day |-> u - 336]
  BY MonthEnds DEF Dated
<1>2. DaysIn(y + 1, 2) = u - 336
  BY DEF DaysIn
<1>3. Tomorrow(Dated(y, u)) = [year |-> y + 1, month |-> 3, day |-> 1]
  BY <1>1, <1>2 DEF Tomorrow
<1> QED BY <1>3, MonthEnds DEF Dated

LEMMA NextPlace ==
  ASSUME NEW era \in Nat, NEW c, NEW q, NEW t, NEW u, Place(c, q, t, u)
  PROVE  \/ /\ u < 365 /\ (u = 364 => LeapPlace(c, q, t))
            /\ Place(c, q, t, u + 1) /\ DayAt(c, q, t, u + 1) = DayAt(c, q, t, u) + 1
         \/ /\ u \in {364, 365} /\ (u = 365 <=> LeapPlace(c, q, t))
            /\ \E era2 \in Nat : \E c2, q2, t2 :
                 /\ Place(c2, q2, t2, 0)
                 /\ 146097 * era2 + DayAt(c2, q2, t2, 0) = 146097 * era + DayAt(c, q, t, u) + 1
                 /\ 400 * era2 + YearAt(c2, q2, t2) = 400 * era + YearAt(c, q, t) + 1
<1>1. /\ c \in 0..3 /\ q \in 0..24 /\ t \in 0..3 /\ u \in Nat
      /\ u <= 365 /\ (u = 365 => LeapPlace(c, q, t))
  BY DEF Place
<1>2. CASE u < 364 \/ (u = 364 /\ LeapPlace(c, q, t))
  <2>1. Place(c, q, t, u + 1)
    BY <1>1, <1>2 DEF Place
  <2>2. DayAt(c, q, t, u + 1) = DayAt(c, q, t, u) + 1
    BY <1>1 DEF DayAt
  <2> QED BY <1>1, <1>2, <2>1, <2>2
<1>3. CASE u = 365 \/ (u = 364 /\ ~LeapPlace(c, q, t))
  <2> DEFINE Follows(era2, c2, q2, t2) ==
               /\ Place(c2, q2, t2, 0)
               /\ 146097 * era2 + DayAt(c2, q2, t2, 0) = 146097 * era + DayAt(c, q, t, u) + 1
               /\ 400 * era2 + YearAt(c2, q2, t2) = 400 * era + YearAt(c, q, t) + 1
  <2> DEFINE Succeeded == \E era2 \in Nat : \E c2, q2, t2 : Follows(era2, c2, q2, t2)
  <2>1. ASSUME t < 3 PROVE Succeeded
    <3>1. Follows(era, c, q, t + 1)
      BY <1>1, <1>3, <2>1 DEF Place, DayAt, YearAt, LeapPlace
    <3>2. era \in Nat
      OBVIOUS
    <3> HIDE DEF Follows
    <3> QED BY <3>1, <3>2
  <2>2. ASSUME t = 3 /\ q < 24 PROVE Succeeded
    <3>1. Follows(era, c, q + 1, 0)
      BY <1>1, <1>3, <2>2 DEF Place, DayAt, YearAt, LeapPlace
    <3>2. era \in Nat
      OBVIOUS
    <3> HIDE DEF Follows
    <3> QED BY <3>1, <3>2
  <2>3. ASSUME t = 3 /\ q = 24 /\ c < 3 PROVE Succeeded
    <3>1. Follows(era, c + 1, 0, 0)
      BY <1>1, <1>3, <2>3 DEF Place, DayAt, YearAt, LeapPlace
    <3>2. era \in Nat
      OBVIOUS
    <3> HIDE DEF Follows
    <3> QED BY <3>1, <3>2
  <2>4. ASSUME t = 3 /\ q = 24 /\ c = 3 PROVE Succeeded
    <3>1. Follows(era + 1, 0, 0, 0)
      BY <1>1, <1>3, <2>4 DEF Place, DayAt, YearAt, LeapPlace
    <3>2. era + 1 \in Nat
      OBVIOUS
    <3> HIDE DEF Follows
    <3> QED BY <3>1, <3>2
  <2>5. t < 3 \/ (t = 3 /\ q < 24) \/ (t = 3 /\ q = 24 /\ c < 3) \/ (t = 3 /\ q = 24 /\ c = 3)
    BY <1>1
  <2>6. Succeeded
    <3> HIDE DEF Succeeded
    <3> QED BY <2>1, <2>2, <2>3, <2>4, <2>5
  <2>7. u \in {364, 365} /\ (u = 365 <=> LeapPlace(c, q, t))
    BY <1>1, <1>3
  <2> QED BY <2>6, <2>7
<1> QED BY <1>1, <1>2, <1>3

(* Every day from 1970 on, the conversion says what the calendar says the  *)
(* day after: the divisors 1460, 36524 and 146096 are the right ones.      *)
THEOREM CivilIsCalendar ==
  ASSUME NEW days \in Nat
  PROVE  Civil(days + 1) = Tomorrow(Civil(days))
<1>1. PICK era \in Nat : \E c, q, t, u :
        Place(c, q, t, u) /\ days + 719468 = 146097 * era + DayAt(c, q, t, u)
  BY DayHasPlace
<1>2. PICK c, q, t, u :
        Place(c, q, t, u) /\ days + 719468 = 146097 * era + DayAt(c, q, t, u)
  BY <1>1
<1>3. PICK y \in Nat : y = 400 * era + YearAt(c, q, t)
  BY <1>2, YearOfPlace
<1>4. Civil(days) = Dated(y, u)
  BY <1>2, <1>3, CivilAtPlace
<1>5. IsLeap(y + 1) <=> LeapPlace(c, q, t)
  <2>1. c \in 0..3 /\ q \in 0..24 /\ t \in 0..3
    BY <1>2 DEF Place
  <2> QED BY <1>3, <2>1, LeapYears
<1>6. u \in Nat
  BY <1>2 DEF Place
<1>7. CASE /\ u < 365 /\ (u = 364 => LeapPlace(c, q, t))
           /\ Place(c, q, t, u + 1) /\ DayAt(c, q, t, u + 1) = DayAt(c, q, t, u) + 1
  <2>1. Tomorrow(Dated(y, u)) = Dated(y, u + 1)
    BY <1>5, <1>6, <1>7, TomorrowInYear
  <2>2. DayAt(c, q, t, u) \in Nat
    BY <1>2, YearOfPlace
  <2>3. days + 1 \in Nat /\ (days + 1) + 719468 = 146097 * era + DayAt(c, q, t, u + 1)
    BY <1>2, <1>7, <2>2
  <2>4. Civil(days + 1) = Dated(y, u + 1)
    BY <1>3, <1>7, <2>3, CivilAtPlace
  <2> QED BY <1>4, <2>1, <2>4
<1>8. CASE /\ u \in {364, 365} /\ (u = 365 <=> LeapPlace(c, q, t))
           /\ \E era2 \in Nat : \E c2, q2, t2 :
                /\ Place(c2, q2, t2, 0)
                /\ 146097 * era2 + DayAt(c2, q2, t2, 0) = 146097 * era + DayAt(c, q, t, u) + 1
                /\ 400 * era2 + YearAt(c2, q2, t2) = 400 * era + YearAt(c, q, t) + 1
  <2>1. PICK era2 \in Nat : \E c2, q2, t2 :
          /\ Place(c2, q2, t2, 0)
          /\ 146097 * era2 + DayAt(c2, q2, t2, 0) = 146097 * era + DayAt(c, q, t, u) + 1
          /\ 400 * era2 + YearAt(c2, q2, t2) = 400 * era + YearAt(c, q, t) + 1
    BY <1>8
  <2>2. PICK c2, q2, t2 :
          /\ Place(c2, q2, t2, 0)
          /\ 146097 * era2 + DayAt(c2, q2, t2, 0) = 146097 * era + DayAt(c, q, t, u) + 1
          /\ 400 * era2 + YearAt(c2, q2, t2) = 400 * era + YearAt(c, q, t) + 1
    BY <2>1
  <2>3. Tomorrow(Dated(y, u)) = Dated(y + 1, 0)
    BY <1>5, <1>8, TomorrowNewYear
  <2>4. DayAt(c, q, t, u) \in Nat /\ DayAt(c2, q2, t2, 0) \in Nat
    BY <1>2, <2>2, YearOfPlace
  <2>5. days + 1 \in Nat /\ (days + 1) + 719468 = 146097 * era2 + DayAt(c2, q2, t2, 0)
    BY <1>2, <2>2, <2>4
  <2>6. Civil(days + 1) = Dated(400 * era2 + YearAt(c2, q2, t2), 0)
    BY <2>2, <2>5, CivilAtPlace
  <2>7. 400 * era2 + YearAt(c2, q2, t2) = y + 1
    BY <1>3, <2>2
  <2> QED BY <1>4, <2>3, <2>6, <2>7
<1> QED BY <1>2, <1>7, <1>8, NextPlace

LEMMA DatedIsDate ==
  ASSUME NEW y \in Nat, NEW u \in Nat, u <= 365, u = 365 => IsLeap(y + 1)
  PROVE  IsDate(Dated(y, u))
<1>1. MonthFrom(u) \in 0..11 /\ DayOfMonth(u) \in 1..31
  BY MonthRange
<1>2. u < 365 =>
        /\ MonthFrom(u) < 11 => DayOfMonth(u) <= MonthLength(MonthFrom(u))
        /\ MonthFrom(u) = 11 => DayOfMonth(u) = u - 336
  BY MonthStep, <1>1 DEF MonthLength
<1>3. CASE u = 365
  BY <1>3, MonthEnds DEF Dated, IsDate, DaysIn
<1>4. CASE u < 365 /\ MonthFrom(u) < 10
  BY <1>1, <1>2, <1>4 DEF Dated, IsDate, DaysIn, MonthLength
<1>5. CASE u < 365 /\ MonthFrom(u) = 10
  BY <1>1, <1>2, <1>5 DEF Dated, IsDate, DaysIn, MonthLength
<1>6. CASE u < 365 /\ MonthFrom(u) = 11
  BY <1>1, <1>2, <1>6 DEF Dated, IsDate, DaysIn, MonthLength
<1> QED BY <1>1, <1>3, <1>4, <1>5, <1>6

LEMMA CivilIsDate ==
  ASSUME NEW days \in Nat
  PROVE  IsDate(Civil(days))
<1>1. PICK era \in Nat : \E c, q, t, u :
        Place(c, q, t, u) /\ days + 719468 = 146097 * era + DayAt(c, q, t, u)
  BY DayHasPlace
<1>2. PICK c, q, t, u :
        Place(c, q, t, u) /\ days + 719468 = 146097 * era + DayAt(c, q, t, u)
  BY <1>1
<1>3. PICK y \in Nat : y = 400 * era + YearAt(c, q, t)
  BY <1>2, YearOfPlace
<1>4. Civil(days) = Dated(y, u)
  BY <1>2, <1>3, CivilAtPlace
<1>5. IsLeap(y + 1) <=> LeapPlace(c, q, t)
  <2>1. c \in 0..3 /\ q \in 0..24 /\ t \in 0..3
    BY <1>2 DEF Place
  <2> QED BY <1>3, <2>1, LeapYears
<1>6. u \in Nat /\ u <= 365 /\ (u = 365 => LeapPlace(c, q, t))
  BY <1>2 DEF Place
<1> QED BY <1>4, <1>5, <1>6, DatedIsDate

---------------------------------------------------------------------------
(* The clock. *)

LEMMA DateTimeIsMoment ==
  ASSUME NEW m \in Nat
  PROVE  IsMoment(DateTime(m))
<1>1. m \div MinutesPerDay \in Nat /\ m % MinutesPerDay \in 0..(MinutesPerDay - 1)
  BY DEF MinutesPerDay
<1>2. /\ DateTime(m).date = Civil(m \div MinutesPerDay)
      /\ DateTime(m).minute = m % MinutesPerDay
  BY DEF DateTime
<1> QED BY <1>1, <1>2, CivilIsDate DEF IsMoment

(* Time passes as the calendar says, over midnight as well. *)
LEMMA DateTimeLater ==
  ASSUME NEW m \in Nat, NEW k \in 1..MinutesPerDay
  PROVE  Later(DateTime(m), k) = DateTime(m + k)
<1>1. PICK d \in Nat, r \in Nat : m = 1440 * d + r /\ r < 1440
                                /\ m \div 1440 = d /\ m % 1440 = r
  <2>1. m \div 1440 \in Nat /\ m % 1440 \in Nat /\ m % 1440 < 1440
    OBVIOUS
  <2>2. m = 1440 * (m \div 1440) + (m % 1440)
    OBVIOUS
  <2> QED BY <2>1, <2>2
<1>2. k \in Nat /\ k <= 1440
  BY DEF MinutesPerDay
<1>3. DateTime(m) = [date |-> Civil(d), minute |-> r]
  BY <1>1 DEF DateTime, MinutesPerDay
<1>4. CASE r + k < 1440
  <2>1. (m + k) \div 1440 = d /\ (m + k) % 1440 = r + k
    BY <1>1, <1>2, <1>4
  <2>2. DateTime(m + k) = [date |-> Civil(d), minute |-> r + k]
    BY <2>1 DEF DateTime, MinutesPerDay
  <2> QED BY <1>3, <1>4, <2>2 DEF Later, MinutesPerDay
<1>5. CASE r + k >= 1440
  <2>1. (m + k) \div 1440 = d + 1 /\ (m + k) % 1440 = r + k - 1440
    BY <1>1, <1>2, <1>5
  <2>2. DateTime(m + k) = [date |-> Civil(d + 1), minute |-> r + k - 1440]
    BY <2>1 DEF DateTime, MinutesPerDay
  <2>3. Later(DateTime(m), k) = [date |-> Tomorrow(Civil(d)), minute |-> r + k - 1440]
    BY <1>1, <1>2, <1>3, <1>5 DEF Later, MinutesPerDay
  <2> QED BY <2>2, <2>3, CivilIsCalendar
<1> QED BY <1>1, <1>2, <1>4, <1>5

(* What keeps the clock right: the time of the synchronisation and the     *)
(* time since then add up to the time, and the conversion agrees with the  *)
(* calendar on the wall.                                                   *)
InStep ==
  /\ utc \in Nat /\ base \in Nat /\ age \in Nat
  /\ base + age = utc
  /\ utc + UtcOffset \in Nat
  /\ today = DateTime(utc + UtcOffset)

LEMMA Offset == UtcOffset \in Int
BY ClockAssumption

LEMMA InStepInit == Init => InStep
<1> SUFFICES ASSUME Init PROVE InStep
  OBVIOUS
<1>1. PICK s \in Starts : utc = s.utc /\ today = s.local
  BY DEF Init
<1>2. s.utc \in Nat /\ s.utc + UtcOffset \in Nat /\ s.local = DateTime(s.utc + UtcOffset)
  BY ClockAssumption
<1> QED BY <1>1, <1>2 DEF Init, InStep

LEMMA InStepNext == InStep /\ [Next]_vars => InStep'
<1> SUFFICES ASSUME InStep, [Next]_vars PROVE InStep'
  OBVIOUS
<1>1. ASSUME NEW k \in Passes, Pass(k) PROVE InStep'
  <2>1. k \in 1..MinutesPerDay
    BY ClockAssumption
  <2>2. k \in Nat
    BY <2>1 DEF MinutesPerDay
  <2>3. utc' = utc + k /\ age' = age + k /\ base' = base /\ today' = Later(today, k)
    BY <1>1 DEF Pass
  <2>4. PICK m \in Nat : m = utc + UtcOffset /\ m + k = utc' + UtcOffset
    BY <2>2, <2>3, Offset DEF InStep
  <2>5. today' = DateTime(m + k)
    BY <2>1, <2>3, <2>4, DateTimeLater DEF InStep
  <2>6. utc' \in Nat /\ age' \in Nat /\ base' + age' = utc' /\ m + k \in Nat
    BY <2>2, <2>3, <2>4 DEF InStep
  <2> QED BY <2>3, <2>4, <2>5, <2>6 DEF InStep
<1>2. CASE Ask \/ AskSync \/ NotSynced
  BY <1>2 DEF Ask, AskSync, NotSynced, InStep
<1>3. CASE Synced
  BY <1>3 DEF Synced, InStep
<1>4. CASE UNCHANGED vars
  BY <1>4 DEF vars, InStep
<1> QED BY <1>1, <1>2, <1>3, <1>4 DEF Next

(* Whatever the starts, the offset and the intervals, the clock tells the  *)
(* date and the time on the wall whenever it is asked.                     *)
THEOREM AlwaysTellsTheTime == Spec => TellsTheTime
<1>1. InStep /\ [Next]_vars => [phase' = "idle" /\ UNCHANGED utc => shown' = {today}]_vars
  <2> SUFFICES ASSUME InStep, Next, phase' = "idle", UNCHANGED utc PROVE shown' = {today}
    BY DEF vars
  <2>1. ASSUME NEW k \in Passes, Pass(k) PROVE FALSE
    <3>1. k \in 1..MinutesPerDay
      BY ClockAssumption
    <3> QED BY <2>1, <3>1 DEF Pass, InStep, MinutesPerDay
  <2>2. CASE Ask \/ NotSynced
    BY <2>2 DEF Ask, NotSynced, Answer, InStep
  <2>3. ~AskSync
    BY DEF AskSync
  <2>4. CASE Synced
    <3>1. shown' = {DateTime(utc + 0 + UtcOffset)}
      BY <2>4 DEF Synced, Answer
    <3>2. utc + 0 = utc
      BY DEF InStep
    <3> QED BY <3>1, <3>2 DEF InStep
  <2> QED BY <2>1, <2>2, <2>3, <2>4 DEF Next
<1> QED BY <1>1, InStepInit, InStepNext, PTL DEF Spec, TellsTheTime

ClockInv == InStep /\ ClockTypeOK

LEMMA AnswerIsMoment == InStep => IsMoment(Answer(base, age)) /\ IsMoment(Answer(utc, 0))
<1> SUFFICES ASSUME InStep PROVE IsMoment(Answer(base, age)) /\ IsMoment(Answer(utc, 0))
  OBVIOUS
<1>1. PICK m \in Nat : m = utc + UtcOffset
  BY DEF InStep
<1>2. base + age + UtcOffset = m /\ utc + 0 + UtcOffset = m
  BY <1>1 DEF InStep
<1> QED BY <1>2, DateTimeIsMoment DEF Answer

LEMMA ClockTypeInit == Init => ClockTypeOK
<1> SUFFICES ASSUME Init PROVE ClockTypeOK
  OBVIOUS
<1>1. utc \in Nat /\ base \in Nat /\ age \in Nat /\ IsMoment(today)
  BY InStepInit, DateTimeIsMoment DEF InStep
<1>2. elapsed = 0 /\ elapsed <= Horizon /\ phase = "idle" /\ shown = {}
  BY ClockAssumption DEF Init
<1> QED BY <1>1, <1>2 DEF ClockTypeOK

LEMMA ClockTypeNext == ClockInv /\ [Next]_vars => ClockTypeOK'
<1> SUFFICES ASSUME InStep, ClockTypeOK, [Next]_vars PROVE ClockTypeOK'
  BY DEF ClockInv
<1>1. {utc', base', age'} \subseteq Nat /\ IsMoment(today')
  BY InStepNext, DateTimeIsMoment DEF InStep
<1>2. elapsed' \in Nat /\ elapsed' <= Horizon /\ phase' \in {"idle", "syncing"}
  <2>1. ASSUME NEW k \in Passes, Pass(k)
        PROVE  elapsed' \in Nat /\ elapsed' <= Horizon /\ phase' \in {"idle", "syncing"}
    <3>1. k \in Nat
      BY ClockAssumption DEF MinutesPerDay
    <3> QED BY <2>1, <3>1 DEF Pass, ClockTypeOK
  <2>2. CASE Ask \/ AskSync \/ Synced \/ NotSynced \/ UNCHANGED vars
    BY <2>2 DEF Ask, AskSync, Synced, NotSynced, vars, ClockTypeOK
  <2> QED BY <2>1, <2>2 DEF Next
<1>3. \A moment \in shown' : IsMoment(moment)
  BY AnswerIsMoment DEF Next, Pass, Ask, AskSync, Synced, NotSynced, vars, ClockTypeOK
<1>4. {utc', base', age', elapsed'} \subseteq Nat
  BY <1>1, <1>2
<1> QED BY <1>1, <1>2, <1>3, <1>4 DEF ClockTypeOK, IsMoment, IsDate, DaysIn, IsLeap

(* What the clock answers is a day the calendar has. *)
THEOREM ClockTypes == Spec => []ClockTypeOK
<1>1. Init => ClockInv
  BY InStepInit, ClockTypeInit DEF ClockInv
<1>2. ClockInv /\ [Next]_vars => ClockInv'
  BY InStepNext, ClockTypeNext DEF ClockInv
<1>3. ClockInv => ClockTypeOK
  BY DEF ClockInv
<1> QED BY <1>1, <1>2, <1>3, PTL DEF Spec

=============================================================================
