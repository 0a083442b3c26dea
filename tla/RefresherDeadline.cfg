SPECIFICATION Spec
CONSTANTS
    NoChannel = NoChannel
    Requests = {r1, r2}
    Channels = {c1, c2}
    Stored = FALSE
    Cooldown = 2
    Delays = {1, 3}
    MaxAttempts = 2
    MaxGeneration = 2
    MaxClock = 5
SYMMETRY Symmetry
PROPERTY NoHandshakeBeforeDeadline
