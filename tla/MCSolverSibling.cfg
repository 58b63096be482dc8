SPECIFICATION Spec
CONSTANT Circuits <- SiblingGate
INVARIANT ValuesSound
