SPECIFICATION EnvironmentSpec
CONSTANTS
    Keys = {k1}
    Specs = {e1}
    ProcessBudgets = {3}
    SemanticBudgets = {2}
    MaxIndex = 9
    TokenMax = 3
    None = None
INVARIANTS
    TraceFaithful
    StaleSelectionsRejected
    ClosureCountsActions
    ResponsesReported
PROPERTIES
    ImplementsContract
    PublicCallReturns
CHECK_DEADLOCK FALSE
