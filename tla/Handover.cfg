SPECIFICATION HSpec
CONSTANTS
    N = 3
    Observed = 1
    Routed = 2
    Parts = 2
    Asked <- MCAsked
    density = density
    extra = extra
    v1 = v1
    v2 = v2
    Knobs = {density, extra}
    Values = {v1, v2}
    Unset = Unset
    NoRecord = NoRecord
    None = None
    KnobStage <- MCKnobStage
    Reads <- MCReads
    Verdict <- MCVerdict
    Requests <- MCRequests
    ReportedBy <- MCReportedBy
    Slack <- MCSlack
    Extracted <- MCExtracted
    Period = 400
INVARIANTS FiguresOwn BlameOwn HandedOwn
