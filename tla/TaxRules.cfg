SPECIFICATION Spec
CONSTANTS
    w1 = w1
    w2 = w2
    Ids = {1, 2, 3}
    Workers <- MCWorkers
    Candidates <- MCCandidates
    Patches <- MCPatches
    Inputs <- MCInputs
    MaxRequests = 4
SYMMETRY Sym
INVARIANTS TypeOK ConflictIsReported ConflictsComeFromRaces
CHECK_DEADLOCK FALSE
