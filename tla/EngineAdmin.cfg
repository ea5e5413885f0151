SPECIFICATION Spec
CONSTANTS
    Dest = {d1, d2}
    Feed = {}
    Authority = {}
    Member = {}
    Masks <- NormalOnly
    VelocityWindows <- OneWindow
    TimeLocks = {}
    Bands = {}
    Freshness = {}
    MaxConfidence = {}
    SpendingCaps = {}
    SessionLimits = {}
    RecoveryPolicies = {}
    Decimals = {}
    Day = 4
    Week = 8
    U64Max = 20
    MaxDestinations = 1
    MaxOracleFeeds = 1
    MaxSpendingFeeds = 1
    MaxMembers = 1
    Slots = {0, 1}
    Kinds = {"ALLOWLIST", "VELOCITY"}
    Msg = {m1}
    Amounts = {1}
    Assets = {0}
    Prices = {}
    MaxPriceStaleness = 2
    MaxPriceFuture = 1
    MinRefreshInterval = 1
    StartTime = 8
    MaxTime = 8
    MaxCommands = 4
    MaxRequests = 1
    MaxBundle = 1
    MaxDecisions = 0
SYMMETRY DestSymmetry
CHECK_DEADLOCK FALSE
INVARIANTS
    TypeOK
    HeadersMirrored
    SlotsConsistent
    CommandsAppliedOnce
    GenerationIdentifiesRules
    ApprovedUnderSeenRules
