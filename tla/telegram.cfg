SPECIFICATION FairTrishnaSpec
CONSTANTS
    Others = {feed}
    PollLimit = 2
    MaxRetries = 2
    MaxUpdates = 3
    MaxFaults = 4
    MaxStops = 1
INVARIANTS AnsweredOnce HeardIsAnswered
PROPERTIES StaleNotAnswered UpdatesSettled KeepsSchedule ShutdownCompletes
CHECK_DEADLOCK FALSE
