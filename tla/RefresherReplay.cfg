SPECIFICATION Spec
CONSTANTS
    NoChannel = NoChannel
    Requests = {r1, r2}
    Channels = {c1, c2}
    Stored = TRUE
    Cooldown = 2
    Delays = {1}
    MaxAttempts = 2
    MaxGeneration = 2
    MaxClock = 2
SYMMETRY Symmetry
INVARIANT ReplayOnFreshSession
