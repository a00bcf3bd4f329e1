SPECIFICATION Spec
CONSTANTS
  n1 = n1
  n2 = n2
  k1 = k1
  k2 = k2
  s1 = s1
  s2 = s2
  schemaA = schemaA
  schemaB = schemaB
  EmptySort = EmptySort
  NoContext = NoContext
  NoResult = NoResult
  Nodes <- MCNodes
  KeyIds <- MCKeyIds
  Secrets <- MCSecrets
  Signers <- MCSigners
  TicksPerSecond = 2
  MaxPageSize = 2
  Contexts <- MCContexts
  SortTuples = {after1, EmptySort}
  MaxTtl = 2
  MaxSkew = 1
  MaxDrift = 1
  MaxNow = 8
  MaxIssued = 1
INVARIANTS
  TypeOK
  AcceptedWithinLifetime
  
  FutureOnlyBeyondSkew
CHECK_DEADLOCK FALSE
