SPECIFICATION FairSpec
CONSTANTS
    Callers = {g1, g2, g3}
    Keys = {k1}
    Calls = {p1, p2}
    Clients = {h1, h2}
    NoKey = NoKey
    NoCall = NoCall
    NoClient = NoClient
INVARIANTS
    OneLoginPerKey
    OneClientPerKey
    NotPoisoned
PROPERTIES
    LoginReturns
