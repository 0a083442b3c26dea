SPECIFICATION FairSpec
CONSTANTS
    Callers = {g1, g2, g3}
    Accounts = {a1}
    Locks = {l1, l2}
    NoAccount = NoAccount
    NoLock = NoLock
INVARIANTS
    TokenIsSomewhere
    TableIsExact
PROPERTIES
    ImplementsMutex
    WaiterServed
