\* Two agents, three jobs of two kinds, one retry.
CONSTANTS
    j1 = j1
    j2 = j2
    j3 = j3
    Agents = {a1, a2}
    Jobs <- MCJobs
    Kinds = {"tsc", "startup"}
    Kind <- MCKind
    MaxRetries = 1
SPECIFICATION FairSpec
INVARIANTS
    TypeOK
    ResultsAreComplete
    TokenCoversItsUses
PROPERTY RequestAnswered
