SPECIFICATION Spec
CONSTANTS
    Save = {s1, s2, s3}
    Api = {a1}
    Token = {t1}
    Secret = {x1, x2}
    Blank = Blank
    NoRow = NoRow
    MaxKey = 0
SYMMETRY Symmetry
PROPERTY BlankKeepsSecret
