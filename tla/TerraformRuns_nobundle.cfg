SPECIFICATION FairSpec
CONSTANTS
    Run = {r1}
    Worker = {w1}
    NoRun = NoRun
    Texts = {"text"}
    FaultKinds = {}
    MaxFaults = 0
PROPERTY NoBundleFails
