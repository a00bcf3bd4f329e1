SPECIFICATION RotationSpec
CONSTANTS
  n1 = n1
  n2 = n2
  k1 = k1
  k2 = k2
  s1 = s1
  s2 = s2
  schemaA = schemaA
  EmptySort = EmptySort
  NoContext = NoContext
  NoResult = NoResult
  Nodes <- MCNodes
  KeyIds <- MCKeyIds
  Secrets <- MCSecrets
  Signers <- MCSigners
  KeyBytes <- MCKeyBytes
  FirstKey = k1
  Contexts <- MCContexts
  SortTuples = {after1}
  TicksPerSecond = 2
  MaxPageSize = 2
  MaxTtl = 2
  MaxSkew = 1
  MaxDrift = 1
  MaxNow = 9
  MaxIssued = 2
INVARIANT FreshNeverRefused
CHECK_DEADLOCK FALSE
