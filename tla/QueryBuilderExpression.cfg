SPECIFICATION Spec
CONSTANTS
  users = users
  teams = teams
  follows = follows
  pinned = pinned
  adult = adult
  tenant = tenant
  match = match
  name = name
  byAge = byAge
  byTeam = byTeam
  large = large
  hint = hint
  shown = shown
  NoSchema = NoSchema
  NoMatch = NoMatch
  NoFingerprint = NoFingerprint
  NoHint = NoHint
  NoAlias = NoAlias
  Resource = users
  Schemas = {pinned}
  Predicates = {adult}
  Matches = {match}
  Sorts = {byAge}
  Groupings = {name}
  JoinPredicates = {byTeam}
  Consistencies = {"session"}
  Budgets = {large}
  Hints = {hint}
  Pages <- MCPages
  Projections <- MCProjections
  Metrics <- MCMetrics
  Traversals <- MCTraversals
  JoinTargets <- MCJoinTargets
  DefaultPage <- MCDefaultPage
  Scopes <- MCScopes
  Closure <- MCClosure
  MaxCalls = 3
INVARIANT ExpressionKeepsFilter
CHECK_DEADLOCK FALSE
