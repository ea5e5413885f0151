SPECIFICATION MeterSpec
CONSTANTS
    r1 = r1
    r2 = r2
    r3 = r3
    MeterRequest = {r1, r2, r3}
    KeyOf <- MCKeyOf
    RouteOf <- MCRouteOf
    MonthlyTokens = 2
    Prices = {3}
    CreditAmount = 2
    PeriodLength = 1
    CreditLife = 1
    MaxSub = 2
    MaxCredit = 1
    MaxTime = 1
    MaxSettings = 1
    MaxMeterFaults = 1
INVARIANTS LedgerConsistent
PROPERTIES OverageLast MeteringImplementsAccount
SYMMETRY MCSymmetry
CHECK_DEADLOCK FALSE
