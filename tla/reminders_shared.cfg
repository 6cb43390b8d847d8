SPECIFICATION FairSpec
CONSTANTS
    Users = {u1}
    Handlers = {h1}
    Loops = {l1, l2}
    NumReminders = 1
    MaxNow = 2
    MinLeadTime = 0
    MaxFuture = 3
    Cooldown = 1
    MaxSendAttempts = 2
    MaxFaults = 1
    MaxStops = 1
INVARIANT NothingLost
PROPERTIES KeepsPromise EveryReminderSettled ShutdownCompletes
