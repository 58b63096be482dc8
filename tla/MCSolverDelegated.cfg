SPECIFICATION Spec
CONSTANT Circuits <- DelegatedGate
INVARIANT ResultIsTruth
