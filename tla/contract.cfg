CONSTANTS
  None = None
  Undeclared = Undeclared
  Drafts <- MCDrafts
  FieldEdits <- Edits
  PartEdits <- Parts
  MaxEdits = 2
  MaxNow = 1
SPECIFICATION Spec
CHECK_DEADLOCK FALSE
INVARIANTS
  TypeOK
  PermittedIsSupported
  SearchIsExact
  CompleteNeverWaitsOnItself
  ReservationIsShared
PROPERTIES
  FactsLeaveWiringAlone
  SettlingNeverBlocks
  IndependentStaysIndependent
