\* The driver stops at the end of its session.
CHECK_DEADLOCK FALSE
SPECIFICATION Spec
CONSTANTS
    Ks = {0, 1, 2}
    Metrics = {"clock_power_w", "clock_wirelength_um"}
    Required = {"def", "timing_rpt"}
    Names <- MCNames
    Policy <- MCPolicy
    Domain <- MCDomain
    PerAxis = 2
    WorstScore = 3
    Tol = 1
    Turns = 2
    Attempts = 2
    MaxCalls = 3
    Offered = {"predict_knobs"}
    Named = {"predict_knobs", "propose_candidate"}
    CallsPerReply = 2
INVARIANTS
    CalibrationHonest
    ScreenSound
    Paired
PROPERTIES
    SessionEnds
