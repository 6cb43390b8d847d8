SPECIFICATION Spec
CONSTANTS
    Users = {u1, u2}
    Cooldown = 2
    MaxConcurrent = 2
    MaxMessages = 3
    MaxNow = 2
    MaxFaults = 1
INVARIANTS AlertsBounded UrgentReaches
CHECK_DEADLOCK FALSE
