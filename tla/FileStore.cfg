SPECIFICATION FairSpec
CONSTANTS
    Users = {u1, u2, u3}
    NoUser = NoUser
    Deadlines = {1, 2}
    MaxFailures = 2
INVARIANTS
    EntryReadable
    TemporariesBounded
PROPERTIES
    ImplementsMarker
    LockGivenBack
