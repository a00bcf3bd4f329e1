SPECIFICATION Spec
CONSTANTS
  b1 = b1
  t1 = t1
  t2 = t2
  Unqualified = Unqualified
  Untyped = Untyped
  NoSchema = NoSchema
  NoFingerprint = NoFingerprint
  NoEstimate = NoEstimate
  NoRow = NoRow
  Start = Start
  MutableField = "age"
  Values = {1, 2}
  Partners = {t1}
  MaxWrites = 2
  Registry <- MCRegistry
  Operations <- MCOperations
  Identities <- MCIdentities
INVARIANTS
  TypeOK
  StableReadOnce
  SortTupleUnique
  

  
CHECK_DEADLOCK FALSE
