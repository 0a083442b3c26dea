SPECIFICATION Spec
CONSTANTS
    Answers <- MCAnswers
    Impersonates = TRUE
    MaxAttempts = 4
    BaseDelay = 4
    MaxDelay = 10
    Cooldown = 2
    LockoutWait = 12
    Window = 4
    MaxLogins = 2
INVARIANTS
    HintReachesDeadline
    RejectedOTPIsFresh
    EventsTellRequests
PROPERTIES
    WaitsAsAsked
CHECK_DEADLOCK FALSE
