\* Three posters: a write takes at most half of the delay between two tries.
CONSTANTS
    Posters = {p1, p2, p3}
    MaxTries = 5
    RetryDelay = 2
    MaxLatency = 1
SPECIFICATION FairSpec
INVARIANTS
    TypeOK
    SuccessIsVisible
    TriesSuffice
PROPERTIES
    ImplementsBoard
    EventuallyAllReported
