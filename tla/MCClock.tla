------------------------------ MODULE MCClock ------------------------------
(* The last evening of a February and of a year, the years being leap      *)
(* years by the rules for 4, 100 and 400 or not.                           *)
EXTENDS Clock

Evening(y, m, d, days) ==
  [utc   |-> days * MinutesPerDay + 23 * 60 + 30,
   local |-> [date |-> [year |-> y, month |-> m, day |-> d], minute |-> 18 * 60 + 30]]

MCStarts ==
  {Evening(2000, 2, 28, 11015), Evening(2025, 2, 28, 20147), Evening(2028, 2, 28, 21242),
   Evening(2100, 2, 28, 47540), Evening(2026, 12, 30, 20817), Evening(2026, 4, 29, 20572)}

MCPasses == {90, 720, 1440}
MCUtcOffset == 0 - 300
============================================================================
