SPECIFICATION Spec
CONSTANTS
    boss = boss
    ann = ann
    kyc = kyc
    c1 = c1
    c2 = c2
    Workers = {w1}
    Clients = {c1, c2}
    Users = {boss, ann}
    Seeded = boss
    Names = {kyc}
    Orders <- MCOrders
    NoUser = NoUser
    MaxRows = 1
    TokenLife = 2
    MaxTokens = 2
    MaxTime = 2
SYMMETRY Symmetric
PROPERTIES
    ChangedByAdmins
    SeededAsAdmin
    RevokedStaysRefused
CHECK_DEADLOCK FALSE
