SPECIFICATION AuditSpec
CONSTANTS
    Tenant = {t1}
    Appender = {a1, a2}
    Signer = {w1}
    Batch = 2
    MaxRows = 1
    Constraints = {}
    MaxSeq = 3
    MaxAuditFaults = 0
PROPERTIES
    EntriesGetArchived
CHECK_DEADLOCK FALSE
