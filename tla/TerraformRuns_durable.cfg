SPECIFICATION FairSpec
CONSTANTS
    Run = {r1}
    Worker = {w1}
    NoRun = NoRun
    Texts = {"text"}
    FaultKinds = {"crash"}
    MaxFaults = 1
PROPERTY DurableRun
