SPECIFICATION FairSpec
CONSTANT Circuits <- FewCircuits
PROPERTY Terminates
