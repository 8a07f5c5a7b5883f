SPECIFICATION Spec
CONSTANTS
    int20 = int20
    float20 = float20
    boolTrue = boolTrue
    strTrue = strTrue
    text20 = text20
    text20p0 = text20p0
    textOne = textOne
    textTrue = textTrue
    congested = congested
    overfull = overfull
    Spellings = {int20, float20, boolTrue, strTrue}
    Booleans = {boolTrue}
    Texts = {text20, text20p0, textOne, textTrue}
    Infos = {congested, overfull}
    MakeText <- MCMakeText
    StrText <- MCStrText
    Torn = Torn
    MaxFailures = 4
    MaxTears = 2
INVARIANTS LogTypeOK KnownBadSound ReloadExact LossBounded
