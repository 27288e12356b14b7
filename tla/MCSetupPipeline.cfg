\* Two commits, a preset and two arguments.
CONSTANTS
    HostLists <- MCHostLists
    Sanitized <- MCSanitized
    NumCommits = 2
    MaxParts = 3
SPECIFICATION SetupSpec
INVARIANTS
    PlannedAsAsked
    BuildsWhatIsAsked
PROPERTY ImplementsSetup
