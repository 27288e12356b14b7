\* Two marks, up to three snapshots in three turns.
CONSTANTS
    Marks = {m1, m2}
    MaxSnapshots = 3
    MaxTurns = 3
SPECIFICATION FairSpec
INVARIANTS
    TypeOK
    SnapshotsAreWhole
PROPERTY EventuallySettled
