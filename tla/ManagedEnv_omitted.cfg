SPECIFICATION Spec
CONSTANTS
    Req = {r1, r2}
    Body <- MCBody
    Unknown = Unknown
    MaxFaults = 0
PROPERTIES
    OmittedKeysUnchanged
CHECK_DEADLOCK FALSE
