\* Four posters, with the latency of MCPostPerfResult.cfg.
CONSTANTS
    Posters = {p1, p2, p3, p4}
    MaxTries = 5
    RetryDelay = 2
    MaxLatency = 1
SYMMETRY PosterSymmetry
SPECIFICATION Spec
INVARIANT SuccessIsVisible
