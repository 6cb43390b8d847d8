SPECIFICATION Spec
CONSTANTS
    Users = {u1}
    Handlers = {h1}
    Loops = {l1}
    NumReminders = 1
    MaxNow = 3
    MinLeadTime = 0
    MaxFuture = 3
    Cooldown = 1
    MaxSendAttempts = 2
    MaxFaults = 0
    MaxStops = 0
PROPERTY NoDeliveryAfterCancel
