SPECIFICATION BackendSpec
CONSTANTS
    k1 = k1
    k2 = k2
    Checkout = {k1, k2}
    Gift = {g1}
    Handler = {h1, h2}
    Plan = {1}
    StripeStatus = {"active", "unpaid"}
    MaxRows = 2
    MaxUsed = 2
    MaxChanges = 1
    MaxFaults = 1
    MaxStops = 1
    Request = {q1, q2}
    LockoutThreshold = 1
    AdminLockoutThreshold = 2
    LockoutDuration = 1
    RefreshTokenTTL = 2
    PasswordResetTTL = 1
    MaxAccounts = 2
    MaxTokens = 3
    MaxPasswords = 3
    MaxResets = 1
    MaxTime = 2
    MaxAccountFaults = 1
    User = {u1, u2}
    Value = {1, 2}
    Notice = 1
    Level = {1, 2}
    MaxDay = 2
    MaxScheduled = 2
    MaxMail = 2
    MaxTrouble = 1
SYMMETRY BackendSymmetry
CHECK_DEADLOCK FALSE
INVARIANTS
    PaymentsOnce
    
    
    NoticesKept
