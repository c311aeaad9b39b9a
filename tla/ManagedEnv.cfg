SPECIFICATION Spec
CONSTANTS
    Req = {r1, r2, r3}
    Body <- MCBody
    Unknown = Unknown
    MaxFaults = 1
SYMMETRY Symmetry
INVARIANTS
    TypeOK
    PlainValuesKept
    
CHECK_DEADLOCK FALSE
