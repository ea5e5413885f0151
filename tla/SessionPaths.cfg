SPECIFICATION SessionSpec
CONSTANTS
    Dest = {d1}
    Feed = {}
    Authority = {}
    Member = {}
    Masks <- BothPaths
    VelocityWindows <- OneWindow
    TimeLocks = {}
    Bands = {}
    Freshness = {}
    MaxConfidence = {}
    SpendingCaps = {}
    SessionLimits <- OneSession
    RecoveryPolicies = {}
    Decimals = {}
    Day = 2
    Week = 4
    U64Max = 20
    MaxDestinations = 1
    MaxOracleFeeds = 1
    MaxSpendingFeeds = 1
    MaxMembers = 1
    Slots = {0, 1}
    Kinds = {"SESSION_KEY", "VELOCITY"}
    Msg = {m1, m2}
    Amounts = {2}
    Assets = {0}
    Prices = {}
    MaxPriceStaleness = 2
    MaxPriceFuture = 1
    MinRefreshInterval = 1
    StartTime = 8
    MaxTime = 10
    MaxCommands = 3
    MaxRequests = 1
    MaxBundle = 1
    SessionIndexes = {0}
    Grants <- SomeGrants
    MaxSessionDests = 1
    MaxSessionCommands = 2
    MaxDecisions = 0
SYMMETRY MsgSymmetry
CHECK_DEADLOCK FALSE
INVARIANTS
    SessionWithinLimits
    SessionEndsOnce
PROPERTIES
    PausedStopsSigning
