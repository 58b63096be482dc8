SPECIFICATION Spec
CONSTANT Queries <- MCQueries
INVARIANT NoInternalError
INVARIANT ResultIsWinning
INVARIANT ExcludedAreLosing
INVARIANT RefinementsStillValid
INVARIANT ProposalBlocked
INVARIANT LabelsGuardOneClause
