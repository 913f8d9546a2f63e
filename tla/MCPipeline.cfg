SPECIFICATION Spec
CONSTANTS
    j1 = j1
    j2 = j2
    p1 = p1
    c1 = c1
    c2 = c2
    c3 = c3
    NoOne = NoOne
    Absent = Absent
    Torn = Torn
    Jobs <- MCJobs
    Policies <- MCPolicies
    Chunk <- MCChunk
    Documents <- MCDocuments
    References <- MCReferences
    TopK = 2
    RerankK = 2
    MaxCrashes = 1
INVARIANTS
    TypeOK
    ReportedIsCommitted
    CitationsResolve
    CommittedIsSearchable
    LockHolderWillRelease
PROPERTIES
    JobsEnd
    ImplementsJobLedger
CHECK_DEADLOCK FALSE
