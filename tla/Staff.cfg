CONSTANTS
    p1 = p1
    p2 = p2
    Slots = {p1, p2}
    ResetTtl = 1
    InviteTtl = 2
    MaxTime = 3
    MaxPassword = 2
    MaxLinks = 2
    AdminStaff = {"a1", "s1"}
    SuperAdmins = {"s1"}
    RedeemWindow = 1
    SessionHours = 2
    GrantTime = 5
    MaxGrants = 2
    MaxAssignments = 2
    MaxTokens = 2
    Officers = {"o", "a", "b", "s"}
    Approvers = {"a", "b", "s"}
    OfficerSupers = {"s"}
    RevealWindow = 2
    MaxRows = 2
    CodesPer = 2
    StepUpTtl = 1
    Ceiling = 2
    FactorTime = 5
    MaxMade = 3
    IdleMs = 2
    WarningMs = 1
    Throttle = 2
    IdleTime = 7
    Names = {"n1"}
    Recognised = {}
    MaxIterations = 2
    MaxTurns = 2
    Questions = {"q1", "q2"}
    Topic <- MCTopic
    Quota <- MCQuota
    Fields = {"f1"}
    Duration = 1
    Revised = {"q1"}
    ExamTime = 1
SPECIFICATION MCSpec
SYMMETRY MCSymmetry
CHECK_DEADLOCK FALSE
INVARIANTS TypesOK EvictedByChange ShownByRight 
PROPERTIES AccessIsAsDecided
