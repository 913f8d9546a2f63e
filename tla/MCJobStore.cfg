SPECIFICATION Spec
CONSTANTS
    w1 = w1
    w2 = w2
    k1 = k1
    k2 = k2
    Nothing = Nothing
    Workers <- MCWorkers
    Clients <- MCClients
    Home = w1
    MaxOutages = 2
INVARIANTS
    ReadsAreFresh
    EndIsSeen
SYMMETRY ClientSymmetry
