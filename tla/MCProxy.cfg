\* Two requests at once, each for one of two aliases.
SPECIFICATION FairSpec
CONSTANTS
  east = east
  west = west
  m = m
  n = n
  Request = {r1, r2}
  Model <- MCModel
  Group <- MCGroup
  Pools <- MCPools
  GroupConfig <- MCGroups
  UnknownModel = UnknownModel
  AllowRelay = FALSE
  RecorderLimit = 1
  Outcomes = {"ok", "retryable", "fatal", "broken"}
  MaxTime = 2
INVARIANT PassiveHealthBounds
INVARIANT AttemptPlan
INVARIANT FailoverIsExhaustive
INVARIANT UnavailableMeansUntried
INVARIANT RetryAccounting
INVARIANT RecordsTellOutcomes
PROPERTY ImplementsChatService
PROPERTY RequestsClose
CHECK_DEADLOCK FALSE
