CONSTANTS
    t1 = t1
    Taxpayers = {t1}
    Suffixed = {}
    Declared <- MCDeclared
    Officers = {a, b}
    Scopes <- MCScopes
    Threshold = 20
    Overrides = {150}
    Limits = {1, 2}
    DefaultLimit = 1
    Confidences = {90}
    Ttl = 1
    QueryLimit = 1
    MaxTime = 3
    MaxIncome = 2
    MaxScans = 2
    MaxChanges = 2
SPECIFICATION MCSpec
CHECK_DEADLOCK FALSE
INVARIANTS TypesOK ScansAddUp 
PROPERTIES WordsStand 
