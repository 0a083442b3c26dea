SPECIFICATION Spec
CONSTANTS
    Processes = {p1, p2, p3}
    NoProcess = NoProcess
    Cooldown = 1
    Delays = {2}
    Faults = {"storage", "crash"}
    MaxSession = 3
    MaxClock = 3
SYMMETRY Symmetry
INVARIANTS
    TypeOK
    GenerationNamesSession
    LoginOnlyWithoutSession
PROPERTIES
    InvalidatesOnlyDeadSessions
    StoreGenerationGrows
    NoLoginBeforeSharedDeadline
