SPECIFICATION Spec
CONSTANTS
    i = i
    j = j
    older = older
    oldest = oldest
    Jobs <- MCJobs
    Older <- MCOlder
    Texts <- MCTexts
    NumberOf <- MCNumberOf
    OlderLinks <- MCOlderLinks
    References <- MCReferences
    Searchers = {s}
    Nobody = Nobody
    None = None
    SearchTopK = 2
    MinChunk = 2
    RRF_K = 2
    MaxCrashes = 1
INVARIANTS TypeOK SpansPointAtText ScoredByOwnText AgreementFirst
           AmendedIffSuperseded HistoriesAreWhole OneOfTwoLinks
CHECK_DEADLOCK FALSE
