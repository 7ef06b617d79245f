CONSTANTS
    k = k
    t = t
    All = All
    Nothing = Nothing
    Row = {1, 2, 3}
    Kind = {k}
    Matching <- MCMatching
    Text = {t}
    Naming <- MCNaming
    Limit = 1
    ListAsks = 4
    MaxLeaves = 1
    RecordAsks = 4
    MaxOthers = 1
    MaxTurns = 2
    MaxOpens = 2
    Window = 1
    Session = 2
    StepUp = 1
    MaxTime = 5
    MaxGrants = 2
    MaxRevokes = 1
SPECIFICATION MCSpec
CHECK_DEADLOCK FALSE
INVARIANTS TypesOK ShownIsAsked 
PROPERTIES NothingHangs
