SPECIFICATION RecoverySpec
CONSTANTS
    Dest = {d1}
    Feed = {}
    Authority = {}
    Member = {b1, b2}
    Masks <- BothPaths
    VelocityWindows = {}
    TimeLocks = {}
    Bands = {}
    Freshness = {}
    MaxConfidence = {}
    SpendingCaps = {}
    SessionLimits = {}
    RecoveryPolicies <- TwoOfN
    Decimals = {}
    Day = 2
    Week = 4
    U64Max = 20
    MaxDestinations = 1
    MaxOracleFeeds = 1
    MaxSpendingFeeds = 1
    MaxMembers = 2
    Slots = {0}
    Kinds = {"RECOVERY"}
    Msg = {m1, m2}
    Amounts = {1}
    Assets = {0}
    Prices = {}
    MaxPriceStaleness = 2
    MaxPriceFuture = 1
    MinRefreshInterval = 1
    StartTime = 8
    MaxTime = 10
    MaxCommands = 4
    MaxRequests = 0
    MaxBundle = 1
    WebauthnMembers = {b2}
    SessionSeeds = {0}
    Ttls = {2}
    QuorumTtl = 2
    EphemeralTtl = 1
    MaxPrimarySignatures = 2
    MaxUses = 1
    MaxDecisions = 0
SYMMETRY MsgSymmetry
CHECK_DEADLOCK FALSE
INVARIANTS
    QuorumEndorsed
    RecoveryWithinDailyLimit
PROPERTIES
    PausedStopsRecovery
