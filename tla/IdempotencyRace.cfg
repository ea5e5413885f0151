SPECIFICATION IdemSpec
CONSTANTS
    Request = {q1, q2}
    Body = {b1, b2}
    None = None
    MaxFaults = 0
    MaxExpiries = 0
CHECK_DEADLOCK FALSE
INVARIANTS
    RunsOnce
