SPECIFICATION WSpec
CONSTANTS
    Upload = {u1, u2, u3}
    Torn = Torn
    NoUpload = NoUpload
    Run = {r1, r2}
    Worker = {w1}
    NoRun = NoRun
    Texts = {"text"}
    FaultKinds = {}
    MaxFaults = 0
SYMMETRY Symmetry
INVARIANTS
    TypeOK
    VersionsAreSequence
    CommittedHasFile
    BundleIntact
    RunsUseTheirVersion
    PlanIsWhatIsApplied
PROPERTY AppendOnly
