CONSTANTS
    Hands = {p1, p2}
    Clerks = {1, 2, 3}
    MaxInFlight = 2
    Month = 2
    Figures <- MCFigures
    MaxTime = 5
    MaxFilings = 2
    Fields = {"f1", "f2"}
    Values = {0, 1}
    Default <- MCDefault
    MaxVersion = 4
    Cases = {"c1"}
    Evidence <- MCEvidence
    LlmEnabled = TRUE
    Limit = 1
    MaxRows = 2
    Staff = {"o1", "o2"}
    Case = "c"
    MaxDrafts = 2
    MaxDone = 2
    Taxpayers = {"a", "b"}
    Batches <- MCBatches
    Largest = 2
    Amounts = {1, 2}
    Employers = {"a", "b"}
    Earning = {"a", "b"}
    Official = TRUE
    MaxPayments = 3
    Institutions = {i1, i2}
    Readers = {o1}
    Matters = {c1}
    Flagged = {c1}
    YearDays = 5
    PeriodsPerYear = 2
    DueDays = 1
    Horizon = 2
    MaxDay = 5
    MaxNotices = 3
    Filing = {i1}
    AlertDays = 4
    MaxAlerts = 2
SPECIFICATION MCSpec
SYMMETRY MCSymmetry
CHECK_DEADLOCK FALSE
INVARIANTS TypesOK ObligationsStand ProposalsAnsweredOnce TaxRecordsAreFaithful 
PROPERTIES NothingIsUndone
