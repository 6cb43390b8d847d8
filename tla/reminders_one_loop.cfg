SPECIFICATION Spec
CONSTANTS
    Users = {u1}
    Handlers = {h1}
    Loops = {l1}
    NumReminders = 2
    MaxNow = 3
    MinLeadTime = 0
    MaxFuture = 2
    Cooldown = 1
    MaxSendAttempts = 2
    MaxFaults = 2
    MaxStops = 1
INVARIANTS DeliveriesBounded AttemptsBounded
PROPERTIES NeverEarly
