------------------------------- MODULE Clock -------------------------------
(***************************************************************************)
(* The clock (src/ntp.rs): the time at the last synchronisation and the    *)
(* time since then, told as a date in a fixed time zone.                   *)
(*                                                                         *)
(* Time is counted in minutes from 1970-01-01 00:00 UTC.  The device's own *)
(* timer is taken to be exact, so every error is one of the code: in       *)
(* keeping the two times together or in the conversion, which is compared  *)
(* with a calendar that turns its pages one day at a time.                 *)
(***************************************************************************)
EXTENDS Integers

CONSTANTS
  UtcOffset,   \* minutes: -5 * 60
  Resync,      \* RESYNC_INTERVAL, in minutes: 24 * 60
  Starts,      \* where a history may begin: [utc, local], local being that time's date
  Passes,      \* how many minutes may pass at once, at most a day
  Horizon      \* bound: for how many minutes a history is followed

VARIABLES
  utc,      \* what an NTP server would answer
  today,    \* the calendar on the wall beside the box
  base,     \* base_unix
  age,      \* Instant::now() - synced_at
  phase,    \* "idle", or "syncing" for a request for the time
  shown,    \* the last answer, {} at first
  elapsed   \* minutes since the start

vars == <<utc, today, base, age, phase, shown, elapsed>>

---------------------------------------------------------------------------
(* The conversion. *)

MinutesPerDay == 1440

(* A day of an era of 400 years, in which the years begin in March.        *)
YearOfEra(doe) == (doe - doe \div 1460 + doe \div 36524 - doe \div 146096) \div 365

DayOfYear(doe) ==
  LET yoe == YearOfEra(doe) IN doe - (365 * yoe + yoe \div 4 - yoe \div 100)

(* The months counted from March. *)
MonthFrom(doy) == (5 * doy + 2) \div 153

DayOfMonth(doy) == doy - (153 * MonthFrom(doy) + 2) \div 5 + 1

(* Mutant of Civil: the new year begins a month late. *)
CivilLate(days) ==
  LET z   == days + 719468
      era == z \div 146097
      doe == z - era * 146097
      doy == DayOfYear(doe)
      m   == IF MonthFrom(doy) <= 10 THEN MonthFrom(doy) + 3 ELSE MonthFrom(doy) - 9
  IN  [year  |-> YearOfEra(doe) + era * 400 + IF m <= 2 THEN 1 ELSE 0,
       month |-> m,
       day   |-> DayOfMonth(doy)]

(* A day counted from 1970-01-01, not before it. *)
Civil(days) ==
  LET z   == days + 719468
      era == z \div 146097
      doe == z - era * 146097
      doy == DayOfYear(doe)
      m   == IF MonthFrom(doy) < 10 THEN MonthFrom(doy) + 3 ELSE MonthFrom(doy) - 9
  IN  [year  |-> YearOfEra(doe) + era * 400 + IF m <= 2 THEN 1 ELSE 0,
       month |-> m,
       day   |-> DayOfMonth(doy)]

(* unix_to_datetime *)
DateTime(unix) ==
  [date |-> Civil(unix \div MinutesPerDay), minute |-> unix % MinutesPerDay]

---------------------------------------------------------------------------
(* The calendar, as everybody knows it. *)

IsLeap(year) == year % 4 = 0 /\ (year % 100 # 0 \/ year % 400 = 0)

DaysIn(year, month) ==
  IF month = 2 THEN IF IsLeap(year) THEN 29 ELSE 28
  ELSE IF month \in {4, 6, 9, 11} THEN 30 ELSE 31

Tomorrow(date) ==
  IF date.day < DaysIn(date.year, date.month) THEN [date EXCEPT !.day = @ + 1]
  ELSE IF date.month < 12 THEN [year |-> date.year, month |-> date.month + 1, day |-> 1]
  ELSE [year |-> date.year + 1, month |-> 1, day |-> 1]

(* k minutes later, for at most a day. *)
Later(moment, k) ==
  IF moment.minute + k < MinutesPerDay THEN [moment EXCEPT !.minute = @ + k]
  ELSE [date |-> Tomorrow(moment.date), minute |-> moment.minute + k - MinutesPerDay]

ASSUME ClockAssumption ==
  /\ UtcOffset \in Int
  /\ Resync \in Nat /\ Horizon \in Nat
  /\ Passes \subseteq 1..MinutesPerDay
  /\ \A s \in Starts :
       /\ s.utc \in Nat /\ s.utc + UtcOffset \in Nat
       /\ s.local = DateTime(s.utc + UtcOffset)

---------------------------------------------------------------------------
(* start_clock has synchronised. *)
Init ==
  /\ \E s \in Starts : utc = s.utc /\ today = s.local
  /\ base = utc
  /\ age = 0
  /\ phase = "idle"
  /\ shown = {}
  /\ elapsed = 0

Pass(k) ==
  /\ elapsed + k <= Horizon
  /\ utc' = utc + k
  /\ today' = Later(today, k)
  /\ age' = age + k
  /\ elapsed' = elapsed + k
  /\ UNCHANGED <<base, phase, shown>>

(* What now() answers; the sum is made before the offset is applied. *)
Answer(b, a) == DateTime(b + a + UtcOffset)

(* A request that finds the synchronisation at most a day old. *)
Ask ==
  /\ phase = "idle"
  /\ age <= Resync
  /\ shown' = {Answer(base, age)}
  /\ UNCHANGED <<utc, today, base, age, phase, elapsed>>

(* An older one is renewed first, which takes its time ... *)
AskSync ==
  /\ phase = "idle"
  /\ age > Resync
  /\ phase' = "syncing"
  /\ UNCHANGED <<utc, today, base, age, shown, elapsed>>

(* Mutant of Synced: the moment of the synchronisation is not kept. *)
SyncedUndated ==
  /\ phase = "syncing"
  /\ phase' = "idle"
  /\ base' = utc
  /\ shown' = {Answer(utc, age)}
  /\ UNCHANGED <<utc, today, age, elapsed>>

(* ... and if it succeeds begins a new age. *)
Synced ==
  /\ phase = "syncing"
  /\ phase' = "idle"
  /\ base' = utc
  /\ age' = 0
  /\ shown' = {Answer(utc, 0)}
  /\ UNCHANGED <<utc, today, elapsed>>

(* let _ = self.sync().await: without an answer the old age goes on. *)
NotSynced ==
  /\ phase = "syncing"
  /\ phase' = "idle"
  /\ shown' = {Answer(base, age)}
  /\ UNCHANGED <<utc, today, base, age, elapsed>>

Next ==
  \/ \E k \in Passes : Pass(k)
  \/ Ask
  \/ AskSync
  \/ Synced
  \/ NotSynced

Spec == Init /\ [][Next]_vars

---------------------------------------------------------------------------
(* Properties. *)

IsDate(date) ==
  date.year \in Nat /\ date.month \in 1..12 /\ date.day \in 1..DaysIn(date.year, date.month)

IsMoment(moment) == IsDate(moment.date) /\ moment.minute \in 0..(MinutesPerDay - 1)

(* Every variable has its type; an answer is a day the calendar has, so    *)
(* that its 17 characters hold it.                                         *)
ClockTypeOK ==
  /\ {utc, base, age, elapsed} \subseteq Nat
  /\ elapsed <= Horizon
  /\ phase \in {"idle", "syncing"}
  /\ IsMoment(today)
  /\ \A moment \in shown : IsMoment(moment)

(* Whenever the clock is asked it tells the date and the time on the wall: *)
(* across midnight in either time zone, ends of months and years, leap     *)
(* days, and synchronisations that succeed, fail or take long.             *)
TellsTheTime ==
  [][phase' = "idle" /\ UNCHANGED utc => shown' = {today}]_vars
=============================================================================
