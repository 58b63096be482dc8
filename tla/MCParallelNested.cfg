CONSTANTS
  Scopes <- NestedScopes
  next <- NestedNext
  prev <- NestedPrev
  Prefix <- NestedPrefix
  Root = 1
  NumThreads = 2
  MaxRounds = 1
  Nobody = Nobody
SPECIFICATION FairSpec
INVARIANT StartedAccounting
INVARIANT JoinComplete
INVARIANT RoundOutcome
PROPERTY ImplementsRounds
PROPERTY Terminates
