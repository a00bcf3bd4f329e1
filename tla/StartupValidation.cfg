\* Declarations and manifests change in any order, before and after startup.
SPECIFICATION Spec
CONSTANTS
  Unqualified = Unqualified
  Untyped = Untyped
  NoSchema = NoSchema
  NoFingerprint = NoFingerprint
  NoEstimate = NoEstimate
  NoManifest = NoManifest
  users = users
  teams = teams
  follows = follows
  likes = likes
  b1 = b1
  b2 = b2
  Queries <- MCQueries
  Bindings <- MCBindings
  Manifests <- MCManifests
INVARIANTS
  ReadyServes
  UnreadyForCause
