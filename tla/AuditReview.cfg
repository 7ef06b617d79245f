CONSTANTS
    w1 = w1
    w2 = w2
    w3 = w3
    Writers = {w1, w2, w3}
    Bodies <- ReviewBodies
    Undefined = Undefined
    Null = Null
    NoWriter = NoWriter
    MaxClock = 2
    MaxFailures = 0
    Ids = {1, 2}
    Values = {"x", "y"}
    KeyIds = {1, 2}
    PageSize = 1
    FileRows = {1, 2, 3}
    Opened = {2}
    Pair = {"a", "b"}
    Kinds = {"bvn", "nin"}
    Batch = 2
    MaxImports = 2
    MaxSpoils = 1
    Files <- MCFiles
    Filed = {"a"}
    Logins = {"l1", "l2"}
    Authorities = {"ogirs", "fctirs", "tirs"}
    Databases = {"main", "demo", "demo_fct", "demo_tirs"}
    DatabaseOf <- MCDatabaseOf
    Within <- MCWithin
    Tables = 2
    MaxOps = 3
SPECIFICATION MCSpec
CHECK_DEADLOCK FALSE
INVARIANTS ChainVerifies
