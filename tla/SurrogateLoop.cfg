SPECIFICATION LoopSpec
CONSTANTS
    util = util
    density = density
    v1 = v1
    text1 = text1
    Knobs = {util, density}
    Values = {v1}
    Texts = {text1}
    Unset = Unset
    Str <- MCStr
    Coerce <- MCCoerce
    Allowed <- MCAllowed
    Deltas <- MCDeltas
    Modes = {TRUE, FALSE}
    Slots = 3
    DriverSlots = 1
    MaxRows = 4
    MaxRuns = 2
    Turns = 2
    PerTurn = 2
    TopK = 1
CHECK_DEADLOCK FALSE
INVARIANTS LoopTypeOK SettledBetweenTurns SeedQuiet FullBuildsBounded
PROPERTIES LedgerForward PromotedOnce LoopEnds
