SPECIFICATION FairSpec
CONSTANTS
    Api = {a1, a2, a3}
    Statements = 3
    Files = 3
    Repeatable = {3}
    MaxFaults = 1
INVARIANTS
    TypeOK
    ServesReady
    OneDevUser
    RacesNeverStrand
PROPERTIES
    StartFailsOnlyIfRaced
    EveryApiServes
\* Once every process serves and no fault is left, nothing remains to be done.
CHECK_DEADLOCK FALSE
