SPECIFICATION Spec
CONSTANTS
    a1 = a1
    a2 = a2
    s1 = s1
    c1 = c1
    c2 = c2
    c3 = c3
    Shared = Shared
    Nobody = Nobody
    NoStore = NoStore
    Absent = Absent
    Torn = Torn
    Adders <- MCAdders
    Searchers <- MCSearchers
    Chunk <- MCChunk
    Batch <- MCBatch
    TopK = 2
    MaxErrors = 1
    MaxCrashes = 1
INVARIANTS
    Aligned
    SearchFaithful
    ReturnedIsStored
    NoDuplicateIds
PROPERTY
    EveryCallEnds
CHECK_DEADLOCK FALSE
