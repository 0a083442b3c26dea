SPECIFICATION Spec
CONSTANTS
    session = session
    csrf = csrf
    Keys = {session, csrf}
    Goroutines = {g1, g2}
    Answers <- MCAnswers
    NoCookie = NoCookie
    TTL = 2
    MaxSerial = 2
    MaxClock = 3
SYMMETRY Symmetry
INVARIANTS
    TypeOK
    LifetimeKept
    SnapshotWhole
    
