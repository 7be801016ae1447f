SPECIFICATION StorageSpec
CONSTANTS
    Artifacts = {a1}
    Processes = {p1, p2}
    Threads = {t1}
    MaxAttempts = 2
    SeqMax = 2
    Nothing = Nothing
INVARIANTS
    TempsAreAccountedFor
PROPERTIES
    ImplementsStore
    OutcomeIsTrue
CHECK_DEADLOCK FALSE
