SPECIFICATION Spec
CONSTANTS
    t1 = t1
    t2 = t2
    None = None
    Threads <- MCThreads
    Backoff <- MCBackoff
    Threshold = 2
    Cooldown = 2
    Attempts = 2
    Quota = 2
    Period = 3
    Calls = 3
    MaxLag = 1
INVARIANT
    OnlyLLMUnavailable
