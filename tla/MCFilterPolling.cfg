CONSTANTS
    g = g
    a1 = a1
    a2 = a2
    b1 = b1
    s1 = s1
    s2 = s2
    NoBlock = NoBlock
    NoFilter = NoFilter
    Block = {g, a1, a2, b1}
    Parent <- MCParent
    Emitting = {a1, a2, b1}
    Slot = {s1, s2}
    MAX_QUERY_NUMBER = 1
    MaxId = 2
    MaxAnswers = 1
SPECIFICATION Spec
INVARIANTS
    TypeOK
    NoLogSkipped
    NoNumberSkipped
PROPERTIES
    LogsReported
