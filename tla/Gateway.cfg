SPECIFICATION GatewaySpec
CONSTANTS
    k1 = k1
    k2 = k2
    Client = {k1, k2}
    Endpoints <- AllEndpoints
    Payload = {1, 2}
    Sends <- TwoSubmits
    Changing = {k1}
    Challenges = {"c1"}
    Job = {j1, j2}
    Harvest = {h1, h2}
    MaxInflightJobs = 2
    MaxPerMinute = 1
    PresignTTL = 2
    DispatchTimeout = 1
    MaxTime = 5
    MaxEpoch = 2
    MaxRedisFaults = 1
    Call = {c1, c2, c3}
    Burst = 2
    Rps = 1
    FailOpen = TRUE
    TripAfter = 2
    OpenFor = 1
    MaxTicks = 3
    MaxOutages = 1
    Tenant = {t1, t2}
    Destination = {d1}
    Feed = {f1}
    Content <- TwoFiles
    Evaluation = {e1}
    VariationThreshold = 30
    MaxRiskFaults = 1
    Programs <- TwoPrograms
    EndpointList <- TwoEndpoints
    Transaction <- ThreeTransactions
    ListenerBurst = 2
    ListenerRate = 1
    MaxTx = 3
    MaxListenerTicks = 2
    MaxListenerFaults = 2
    Request = {q1, q2, q3}
    Body = {b1, b2}
    None = None
    MaxFaults = 1
    MaxExpiries = 1
CHECK_DEADLOCK FALSE
INVARIANTS
    RoundTripAgrees
    
    PresignSafe
    
    
    RelayFaithful
    KeyHonoured
