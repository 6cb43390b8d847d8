SPECIFICATION FairSpec
CONSTANTS
    Games = {"sky"}
    Replies = {"ask", "reply"}
    SeenLimit = 2
    PageSize = 2
    MaxMessages = 1
    MaxFaults = 2
    MaxMinutes = 1
    MaxHalfHours = 0
    MaxStops = 1
INVARIANTS NeverAnswersItself
PROPERTIES CatchesUp
CHECK_DEADLOCK FALSE
