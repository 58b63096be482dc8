CONSTANTS
  Scopes <- FlatScopes
  next <- FlatNext
  prev <- FlatPrev
  Prefix <- FlatPrefix
  Root = 1
  NumThreads = 2
  MaxRounds = 3
  Nobody = Nobody
SPECIFICATION Spec
INVARIANT TypeOK
INVARIANT StartedAccounting
INVARIANT JoinComplete
INVARIANT RoundOutcome
INVARIANT MutualExclusion
INVARIANT PermitsConserved
PROPERTY ImplementsRounds
