SPECIFICATION Spec
CONSTANTS
    Save = {s1, s2, s3}
    Api = {a1, a2}
    Token = {t1, t2}
    Secret = {x1, x2}
    Blank = Blank
    NoRow = NoRow
    MaxKey = 1
SYMMETRY Symmetry
INVARIANTS
    TypeOK
    TokenMatchesSecret
PROPERTIES
    BlankKeepsUnlessRaced
    FullSaveIsUsable
