CONSTANTS
  Scopes <- NestedScopes
  next <- NestedNext
  prev <- NestedPrev
  Prefix <- NestedPrefix
  Root = 1
  NumThreads = 1
  MaxRounds = 1
  Nobody = Nobody
SPECIFICATION FairSpec
PROPERTY Terminates
CHECK_DEADLOCK FALSE
