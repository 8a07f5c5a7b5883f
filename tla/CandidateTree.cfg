SPECIFICATION TreeSpec
CONSTANTS
    N = 4
    Gate = 3
    Through = 2
    MaxAttempts = 3
    density = density
    cluster = cluster
    extra = extra
    v1 = v1
    v2 = v2
    Knobs = {density, cluster, extra}
    Values = {v1, v2}
    Unset = Unset
    NoRecord = NoRecord
    KnobStage <- MCKnobStage
    Reads <- MCReads
    Verdict <- MCVerdict
    Requests <- MCRequests
    Seeds <- MCSeeds
CHECK_DEADLOCK FALSE
INVARIANTS TreeTypeOK CandidateFaithful OwnArtifacts
PROPERTIES GateHolds PromotionResumes ImplementsTask TaskAdvances TaskEnds
