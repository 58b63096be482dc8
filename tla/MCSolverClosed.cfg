SPECIFICATION Spec
CONSTANT Circuits <- ClosedSubformula
INVARIANT ResultIsTruth
