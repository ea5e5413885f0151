SPECIFICATION Spec
CONSTANTS
    Dest = {d1}
    Feed = {f1}
    Authority = {a1}
    Member = {b1}
    Masks <- NormalOnly
    VelocityWindows = {}
    TimeLocks <- Locks
    Bands <- Band
    Freshness = {1}
    MaxConfidence = {0}
    SpendingCaps <- Caps
    SessionLimits <- OneLimit
    RecoveryPolicies <- OnePolicy
    Decimals = {0}
    Day = 1
    Week = 2
    U64Max = 20
    MaxDestinations = 1
    MaxOracleFeeds = 1
    MaxSpendingFeeds = 1
    MaxMembers = 1
    Slots = {0}
    Kinds = {"TIME_LOCK", "SPENDING_USD", "ORACLE", "PASSKEY", "FHE_GATED", "SESSION_KEY", "RECOVERY"}
    Msg = {m1, m2}
    Amounts = {1}
    Assets = {0}
    Prices <- TwoPrices
    MaxPriceStaleness = 2
    MaxPriceFuture = 1
    MinRefreshInterval = 1
    StartTime = 8
    MaxTime = 9
    MaxCommands = 3
    MaxRequests = 1
    MaxBundle = 2
    MaxDecisions = 1
SYMMETRY MsgSymmetry
CHECK_DEADLOCK FALSE
INVARIANTS
    DecisionBacked
    SpendingWithinCaps
