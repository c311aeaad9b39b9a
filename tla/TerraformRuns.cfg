SPECIFICATION FairSpec
CONSTANTS
    Run = {r1, r2}
    Worker = {w1, w2}
    NoRun = NoRun
    Texts = {"text", "bytes"}
    FaultKinds = {"crash", "shutdown", "db"}
    MaxFaults = 1
INVARIANTS
    TypeOK
    ExclusiveRun
    QueueOrder
    LiveProcessHasDir
    JobAfterRun
PROPERTIES
    Lifecycle
    EveryRunClaimed
    ConfiguredRunEnds
    DirReclaimed
