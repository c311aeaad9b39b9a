SPECIFICATION FairSpec
CONSTANTS
    KeyReq = {k1, k2, k3}
    PlainReq = {p1}
    MaxConns = 2
INVARIANTS
    TypeOK
    StallOnlyByKeys
PROPERTIES
    AnsweredUnlessStalled
