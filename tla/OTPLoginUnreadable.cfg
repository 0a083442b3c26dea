SPECIFICATION Spec
CONSTANTS
    p1 = p1
    p2 = p2
    s1 = s1
    x1 = x1
    s2 = s2
    Processes <- MCProcesses
    Clients <- MCClients
    ProcessOf <- MCProcessOf
    StoredClients = {s1, s2}
    NoClient = NoClient
    MaxAttempts = 2
    Faults = {"unreadable"}
    MaxDisturbances = 1
    MaxStep = 3
INVARIANT SpentStepRemembered
