SPECIFICATION Spec
CONSTANTS
    Rows <- MCRows
    PolicyOf <- MCPolicyOf
    ClauseOf <- MCClauseOf
    ReasoningOf <- MCReasoningOf
    Reviews <- MCReviews
    Asked <- MCAsked
    Versions = {1}
    Reviewers = {r1}
    NoNote = NoNote
    Idle = Idle
    Jobs = {j1}
    Script = s
    MaxPositive = 2
    MaxNegative = 2
    MaxReviews = 3
    MaxSize = 1
    MaxAsked = 2
    MaxRuns = 0
    MaxOutages = 0
    MaxRestarts = 0
INVARIANT PromptFits
CHECK_DEADLOCK FALSE
