SPECIFICATION Spec
CONSTANT Circuits <- MinimizedGate
INVARIANT NoInternalError
