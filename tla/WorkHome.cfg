SPECIFICATION Spec
CONSTANTS
    N = 3
    density = density
    cluster = cluster
    extra = extra
    v1 = v1
    Knobs = {density, cluster, extra}
    Values = {v1}
    Unset = Unset
    NoRecord = NoRecord
    KnobStage <- MCKnobStage
    Reads <- MCReads
    Verdict <- MCVerdict
    Requests <- MCRequests
INVARIANTS ResultFaithful ManifestHonest KeptIsFresh NoHoles
PROPERTIES PrefixKept FreshBuildSpec
