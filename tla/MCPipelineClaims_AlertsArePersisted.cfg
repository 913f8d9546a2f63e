SPECIFICATION Spec
CONSTANTS
    j1 = j1
    j2 = j2
    p1 = p1
    c1 = c1
    c2 = c2
    NoOne = NoOne
    Absent = Absent
    Torn = Torn
    Jobs <- MCJobs
    Policies <- MCPolicies
    Chunk <- MCChunk
    Documents <- MCDocuments
    References <- MCReferences
    TopK = 1
    RerankK = 1
    MaxCrashes = 1
INVARIANT
    AlertsArePersisted
CHECK_DEADLOCK FALSE
