CONSTANTS
  Modes = {"execute", "review-only", "continue", "recover", "inspect"}
  Caller = {c1, c2}
  NoCaller = NoCaller
  MaxTime = 5
  FreshUntil = 5
  ReviewReserve = 2
  ReviewAge = 4
  MandateWindow = 3
  Reserve = 1
SPECIFICATION Spec
SYMMETRY CallerSymmetry
CHECK_DEADLOCK FALSE
INVARIANTS
  TypeOK
  OneProviderRequest
  OneGrant
  AuthorityWithinReview
  SpendWithinOriginalDeadline
  NoAuthorityWithoutAcceptedReview
  EvidencePrecedesEffect
  SuccessIsSettled
PROPERTIES
  ReviewOnlyClaimHolds
  ImplementsOccurrence
  FollowsCallContract
