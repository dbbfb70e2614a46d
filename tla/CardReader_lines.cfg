\* Cards following each other in any way, any pulse missed.
SPECIFICATION FairSpec
CONSTANTS
  Width = 4
  IdBits = 2
  Frames <- MCFrames
INVARIANTS
  ReaderTypeOK
  WholeIsRead
PROPERTIES
  NotMisread
  CardRead
  Forgotten
