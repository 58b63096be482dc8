CONSTANT Invocations <- AllInvocations
SPECIFICATION Spec
INVARIANT NoAssertionFails
INVARIANT TruthPreserved
INVARIANT EncodedIsWellFormed
INVARIANT PreprocessingIsComplete
INVARIANT PrenexResult
INVARIANT RoundsShrink
