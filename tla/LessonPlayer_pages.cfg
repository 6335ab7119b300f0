SPECIFICATION PlayerSpec
CONSTANTS
    N = 2
    Readings <- ReadLast
    MaxSaves = 2
INVARIANTS PagesTellTruth OpenAsServed
