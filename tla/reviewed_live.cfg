CONSTANTS
  Modes = {"execute", "review-only", "continue", "recover", "inspect"}
  Caller = {c1, c2}
  NoCaller = NoCaller
  MaxTime = 2
  FreshUntil = 2
  ReviewReserve = 1
  ReviewAge = 2
  MandateWindow = 2
  Reserve = 1
SPECIFICATION FairSpec
CHECK_DEADLOCK FALSE
PROPERTIES
  EveryInvocationEnds
