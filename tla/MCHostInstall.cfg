CONSTANTS
    n1 = n1
    n2 = n2
    b1 = b1
    Hosts <- MCHosts
    KindOf <- MCKindOf
    OtherArch <- MCOtherArch
    Pairs <- MCPairs
    MaxCommands = 3
SPECIFICATION FairSpec
INVARIANTS
    TypeOK
    ListedIsComplete
    DoneOrReported
PROPERTIES
    OthersUntouched
    EventuallyEnds
