CONSTANT Circuits <- AllCircuits
SPECIFICATION Spec
INVARIANT TypeOK
INVARIANT InterfacesMatch
INVARIANT NoInternalError
INVARIANT ResultIsTruth
INVARIANT AnswerSound
INVARIANT ProposalBlocked
INVARIANT PartialAssignmentWins
INVARIANT ValuesSound
PROPERTY ImplementsRounds
PROPERTY RefinementsAreNew
