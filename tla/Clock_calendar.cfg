\* Three days around the ends of months, asked every hour and a half.
SPECIFICATION Spec
CONSTANTS
  UtcOffset <- MCUtcOffset
  Resync = 1440
  Starts <- MCStarts
  Passes <- MCPasses
  Horizon = 4320
INVARIANT ClockTypeOK
PROPERTY TellsTheTime
