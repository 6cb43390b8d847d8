SPECIFICATION Spec
CONSTANTS
    Games = {"sky"}
    Replies = {"reply"}
    SeenLimit = 2
    PageSize = 2
    MaxMessages = 2
    MaxFaults = 2
    MaxMinutes = 1
    MaxHalfHours = 1
    MaxStops = 0
INVARIANTS AnsweredOnce RateLimited PromosSpaced HealthHonest
CHECK_DEADLOCK FALSE
