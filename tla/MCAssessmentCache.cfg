SPECIFICATION Spec
CONSTANTS
    Rows <- MCRows
    PolicyOf <- MCPolicyOf
    ClauseOf <- MCClauseOf
    ReasoningOf <- MCReasoningOf
    Reviews <- MCReviews
    Asked <- MCAsked
    Versions <- MCVersions
    Reviewers = {r1, r2}
    NoNote = NoNote
    Idle = Idle
    Jobs = {j1, j2}
    Script = s
    MaxPositive = 2
    MaxNegative = 2
    MaxReviews = 2
    MaxSize = 1
    MaxAsked = 2
    MaxRuns = 2
    MaxOutages = 1
    MaxRestarts = 1
SYMMETRY Symmetry
INVARIANTS TypeOK ServedFits FreshlyAssessed
CHECK_DEADLOCK FALSE
