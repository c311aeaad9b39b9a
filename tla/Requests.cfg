SPECIFICATION MCSpec
CONSTANTS
    Req = {r1, r2}
    Node = {n1, n2}
    Guest = {g1, g2}
    Container = {g2}
    Op <- MCOp
    Org = {1, 2}
    NoOrg = 0
    OldKey = OldKey
    KeyMaker = r1
    Prefix = {p1, p2}
    MaxEvents = 1
\* Every request ends: then nothing may be left to do.
CHECK_DEADLOCK FALSE
INVARIANTS
    TypeOK
    AccountedFor
    RolesAreCurrent
    KeysSignIn
    AnsweredOnce
    ListedOnce
PROPERTIES
    Contract
    EveryRequestEnds
