SPECIFICATION FairSpec
CONSTANTS
  users = users
  teams = teams
  follows = follows
  likes = likes
  b1 = b1
  b2 = b2
  s1 = s1
  Unqualified = Unqualified
  Untyped = Untyped
  NoSchema = NoSchema
  NoFingerprint = NoFingerprint
  NoEstimate = NoEstimate
  OtherPlan = OtherPlan
  Sessions <- MCSessions
  Bindings <- MCBindings
  Requests <- MCRequests
  Registries <- MCRegistries
  CapabilitySets <- MCCapabilitySets
  Rewrites <- MCRewrites
  Residuals <- MCResiduals
  ResultSizes <- MCResultSizes
INVARIANTS
  TypeOK
  ClosureCoherent
  ImplementedExactly
  
  WithinReviewedBudget
  KeysetTotal
  CommandBoundToPlan
  RefusedAtOnce
PROPERTIES
  PlansAtomically
  StaleForCause
  StalenessEnds
