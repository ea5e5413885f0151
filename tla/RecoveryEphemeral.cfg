SPECIFICATION RecoverySpec
CONSTANTS
    Dest = {d1, d2}
    Feed = {}
    Authority = {}
    Member = {}
    Masks <- BothPaths
    VelocityWindows = {}
    TimeLocks = {}
    Bands = {}
    Freshness = {}
    MaxConfidence = {}
    SpendingCaps = {}
    SessionLimits = {}
    RecoveryPolicies <- Ephemeral
    Decimals = {}
    Day = 2
    Week = 4
    U64Max = 20
    MaxDestinations = 1
    MaxOracleFeeds = 1
    MaxSpendingFeeds = 1
    MaxMembers = 2
    Slots = {0, 1}
    Kinds = {"RECOVERY", "ALLOWLIST"}
    Msg = {m1, m2}
    Amounts = {1}
    Assets = {0}
    Prices = {}
    MaxPriceStaleness = 2
    MaxPriceFuture = 1
    MinRefreshInterval = 1
    StartTime = 8
    MaxTime = 10
    MaxCommands = 3
    MaxRequests = 0
    MaxBundle = 1
    WebauthnMembers = {}
    SessionSeeds = {0}
    Ttls = {2}
    QuorumTtl = 2
    EphemeralTtl = 1
    MaxPrimarySignatures = 1
    MaxUses = 2
    MaxDecisions = 0
SYMMETRY MsgSymmetry
CHECK_DEADLOCK FALSE
INVARIANTS
    SessionsWithinGrant
