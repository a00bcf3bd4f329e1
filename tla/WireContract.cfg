\* One plan, sent at any stage, rewritten at most once, read under any policy.
SPECIFICATION Spec
CONSTANTS
  None = None
  where = where
  scope = scope
  Plans <- MCPlans
  Closures <- MCClosures
  Scopes <- MCScopes
  Policies <- MCPolicies
  Foreign <- MCForeign
INVARIANTS
  TypeOK
  NothingRaisesMidway
  ReadBack
  RespelledSame
  NothingIgnored
\* A plan that was received, or raised, is at its end.
CHECK_DEADLOCK FALSE
