SPECIFICATION Spec
CONSTANTS
    MaxAttempts = 4
    Base = 1
    Cap = 40
    Timeout = 60
    Durations = {0, 59, 60}
    MaxWaits = 2
    RetryAfters = {10, 2400}
    Absent = Absent
INVARIANTS
    TypeOK
    AppliedAtMostOnce
    HeldOnlyWhileServed
CHECK_DEADLOCK FALSE
