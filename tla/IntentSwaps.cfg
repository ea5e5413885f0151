SPECIFICATION MCIntentSpec
CONSTANTS
    Wallet = wallet
    i1 = i1
    i2 = i2
    SwapIntent = {i1, i2}
    FamiliesOf <- MCFamiliesOf
    s1 = s1
    s2 = s2
    Submitter = {s1, s2}
    SubmitsFor <- MCSubmitsFor
    SignatureKinds = {"swap", "approve", "bundle"}
    MaxNonce = 2
    MaxIntentFaults = 1
INVARIANTS
    LegsInOrder
    VerdictsTrue
    
CHECK_DEADLOCK FALSE
