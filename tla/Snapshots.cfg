SPECIFICATION Spec
CONSTANTS
    a = a
    b = b
    p = p
    q = q
    Clusters = {a, b}
    Prefixes = {p, q}
    Retentions = {1, 2}
    MaxTime = 4
INVARIANTS TypeOK OwnKept NewestIsOwn
PROPERTY NewestStay
SYMMETRY Symmetry
CHECK_DEADLOCK FALSE
