SPECIFICATION CertSpec
CONSTANT Files <- SmallFiles
CONSTANT Circuits <- SmallCircuits
INVARIANT CertificateWellFormed
INVARIANT CasesWin
INVARIANT CertificateWins
