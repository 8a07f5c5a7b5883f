SPECIFICATION CalSpec
CONSTANTS
    size = size
    density = density
    timing = timing
    Knobs = {size, density, timing}
    Spec <- MCSpec
    Targets <- MCTargets
    Budget = 9
    Tol = 5
    TiesUp <- MCTiesUp
    MaxRuns = 2
    NoFile = NoFile
    Torn = Torn
    NoPolicy = NoPolicy
CHECK_DEADLOCK FALSE
INVARIANTS CalTypeOK EdgesLocated BandMeasured
