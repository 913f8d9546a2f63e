SPECIFICATION Spec
CONSTANTS
    ip = ip
    email = email
    QuotaKeys <- MCQuotaKeys
    LockoutKeys <- MCLockoutKeys
    MaxCalls <- MCMaxCalls
    Period <- MCPeriod
    MaxTime = 6
    MaxCharges = 3
INVARIANTS
    TypeOK
    QuotaRespected
    NoLiveEntryForgotten
PROPERTY
    ImplementsSlidingWindow
CHECK_DEADLOCK FALSE
