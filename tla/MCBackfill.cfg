SPECIFICATION FairSpec
CONSTANTS
    MaxRuns = 3
    Kinds <- MCKinds
    MaxCommits = 3
    MinRun = 2
    MaxUpload = 1
    StartCommit = 2
    MaxStarts = 2
INVARIANTS
    TypeOK
    KindsAgree
    NoCommitSkipped
    OneBackfillAtATime
PROPERTIES
    LatestNeverOlder
    EventuallyLatest
CHECK_DEADLOCK FALSE
