SPECIFICATION ToolSpec
CONSTANTS
    size = size
    density = density
    int20 = int20
    float20 = float20
    int99 = int99
    half = half
    text20 = text20
    text20p0 = text20p0
    text99 = text99
    textHalf = textHalf
    Knobs = {size, density}
    Values = {int20, float20, int99, half}
    Texts = {text20, text20p0, text99, textHalf}
    Unset = Unset
    Str <- MCStr
    Coerce <- MCCoerce
    Allowed <- MCAllowed
    Deltas <- MCDeltas
    Modes = {FALSE}
    Slots = 2
    DriverSlots = 0
    MaxRows = 3
    MaxRuns = 3
CHECK_DEADLOCK FALSE
INVARIANTS LogMatchesLedger SeedInherited NothingForgotten
PROPERTIES NoRebuild
