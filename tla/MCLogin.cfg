SPECIFICATION LoginSpec
CONSTANTS
    Threads = {t1, t2}
    Ips = {home, cafe}
    Emails = {ann, bob}
    MaxAttempts = 1
    LoginWindow = 2
    MaxFailures = 2
    LockoutWindow = 2
INVARIANTS
    LoginTypeOK
    GuessBound
    SprayBound
PROPERTY
    LockEnds
