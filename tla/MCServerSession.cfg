CONSTANTS
    Configs <- MCConfigs
    Files = 2
SPECIFICATION FairSpec
INVARIANTS
    TypeOK
    NumberedAlike
    TimesAreComplete
    ExitCodeIsRight
PROPERTIES
    EventuallyEnds
