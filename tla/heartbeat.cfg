SPECIFICATION FairHeartbeatSpec
CONSTANTS
    Loops = {l1, l2, l3, l4}
    MaxRetries = 2
    MaxCrashes = 1
    MaxStops = 1
    StaleAfter = 2
    MaxWriteErrors = 1
INVARIANTS HealthTruthful OnlineOnlyRecently
PROPERTIES ExitsOffline StaysOnline KeepsSchedule
