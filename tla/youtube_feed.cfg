SPECIFICATION FairSpec
CONSTANTS
    MaxVideos = 4
    FeedSize = 3
    MaxFaults = 2
    MaxStops = 1
INVARIANTS SeenIsSettled RepostsBounded
PROPERTIES NoSilentRebaseline PostedInOrder UploadsSettled
CHECK_DEADLOCK FALSE
