SPECIFICATION Spec
CONSTANTS
  Unqualified = Unqualified
  Untyped = Untyped
  NoSchema = NoSchema
  NoFingerprint = NoFingerprint
  NoEstimate = NoEstimate
  Vocabularies <- FormVocabularies
  Labels <- FormLabels
  Operation <- MCOperation
  Registry <- MCRegistry
INVARIANTS
  TypeOK
  RebuiltEqual
  NothingHides
  SpellingBlind
CHECK_DEADLOCK FALSE
