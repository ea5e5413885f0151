SPECIFICATION WorkersSpec
CONSTANTS
    Candidate = {x1, x2, x3}
    NoReplica = NoReplica
    MaxElectionFaults = 4
    Replica = {r1, r2}
    Returns = FALSE
    MaxFaults = 1
    Trigger = {1}
    TriggerTypes = {"slot_time", "external_webhook"}
    DueSlots = {1}
    Lifetimes = {1}
    MaxTime = 1
    MaxRetryCount = 2
    Polls = {"fire", "notYet", "error"}
    Completions = {"signed", "unread", "refused"}
    MaxStoreFaults = 1
    Watcher = {w1, w2}
    Creator = {c1}
    PriceValue = {4, 5}
    Min1e8 = 4
    Max1e8 = 8
    HysteresisBps = 1
    BasisPoints = 4
    MaxTriggerRetries = 2
    MaxArmedPerTenant = 1
    TriggerTTL = 1
    StuckFiringTimeout = 1
    MaxPublishLag = 1
    MaxTriggers = 1
    MaxTriggerTime = 4
    MaxMonitorFaults = 1
    Relay = {y1}
    PythPrice = {1, 3}
    MaxDeviationBPS = 5000
    MaxDeviationRejectStreak = 3
    MaxFeedLag = 1
    MinRefresh = 1
    MaxFeedTime = 3
    MaxFeedFaults = 1
    Tenant = {t1, t2}
    Appender = {a1, a2}
    Signer = {n1, n2}
    Batch = 2
    MaxRows = 2
    Constraints = {}
    MaxSeq = 3
    MaxAuditFaults = 1
    Event = {e1}
    Endpoint = {p1}
    HookReplica = {h1, h2}
    MaxAttempts = 2
    MaxHookFaults = 2
    MaxLate = 1
    MaxLimited = 1
    MaxAdmin = 1
    Wallet = wallet
    i1 = i1
    s1 = s1
    SwapIntent = {i1}
    FamiliesOf <- EveryFamily
    Submitter = {s1}
    SubmitsFor <- OneSubmit
    SignatureKinds = {"swap", "approve", "bundle"}
    MaxNonce = 2
    MaxIntentFaults = 1
CHECK_DEADLOCK FALSE
INVARIANTS
    ElectionGuarded
    TriggerRowsTrue
    FiringExclusive
    RowBehindChain
    ChainKept
    DeliverySafe
PROPERTIES
    EndedStaysEnded
    WorkersCatchUp
