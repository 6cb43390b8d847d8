SPECIFICATION FairSpec
CONSTANTS
    MaxAuths = 2
    MaxFaults = 2
    MaxCrashes = 2
INVARIANTS RefreshTokenKept NewGrantKept
PROPERTIES KeepsServing
