\* One scenario on one host: a warmup and two measured iterations.
CONSTANTS
    Kinds <- MCKinds
    NumPairs = 1
    NumIterations = 2
    NumWarmups = 1
    NumLines = 2
    Scale = 2
SPECIFICATION Spec
INVARIANTS
    TypeOK
    LinesCreditedOnce
    CompilerSamplesComplete
    MeasurementSizes
    FirstCompileStartsClean
