SPECIFICATION RunSpec
CONSTANTS
    Keys = {k1, k2}
    Specs = {e1}
    ProcessBudgets = {3}
    SemanticBudgets = {3}
    MaxIndex = 9
    TokenMax = 3
    None = None
INVARIANTS
    RecordsAreTransitions
    RecorderFailsWithEnvironment
    VerdictIsDeserved
