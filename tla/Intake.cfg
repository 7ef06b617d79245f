CONSTANTS
    Requests = {1, 2, 3, 4, 5, 6}
    TotalParts = 2
    Declared = Declared
    Damaged = Damaged
    HasChecksum = TRUE
    MaxInFlight = 3
    MaxCrashes = 1
    Filers = {1, 2, 3}
    Returns <- MCReturns
    Periods = {"q1", "q2"}
    Accounts = {"a1", "a2"}
    NoAccount = "no account"
    Batch = 2
    MaxServed = 2
    MaxGrants = 1
    MaxFailures = 1
    Explored = {"q1"}
    Taxpayers = {"t1", "t2"}
    Issued = {7, 8}
    Callers = {1, 2, 3}
    MaxEdits = 2
    Headers = {"h1", "h2"}
    Rank <- MCRank
    Kind <- MCKind
    Fields = {"inflow"}
    Wants <- MCWants
    Required = {"inflow"}
    Guess <- MCGuess
    Slots = {1, 2}
    Ttl = 0
    MaxTime = 1
    MaxDrafts = 2
    MaxChanges = 1
SPECIFICATION MCSpec
CHECK_DEADLOCK FALSE
INVARIANTS TypesOK FilingsAreTrue  FedFileIsIntact
PROPERTIES  NeverOverwrittenUnlessOverlapped
