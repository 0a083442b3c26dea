SPECIFICATION Spec
CONSTANTS
    NoChannel = NoChannel
    Requests = {r1, r2}
    Channels = {c1, c2}
    Stored = FALSE
    Cooldown = 2
    Delays = {1, 3}
    MaxAttempts = 2
    MaxGeneration = 3
    MaxClock = 5
SYMMETRY Symmetry
INVARIANTS
    FlightOwnsGeneration
    CooldownIsPerGeneration
    ReplayOnFreshSession
    FailureIsOwnOrLater
PROPERTIES
    CooldownHolds
