CONSTANTS
  Limit = 3
  Block = 2
  Pipe = 2
  MaxWrite = 4
  Timeout = 2
  Grace = 1
  Helpers = TRUE
SPECIFICATION FairSpec
CHECK_DEADLOCK FALSE
INVARIANTS
  TypeOK
  FinishedIsComplete
  NoChildLeft
PROPERTIES
  CallEnds
  DrainsBothStreams
  ImplementsNativeCall
