SPECIFICATION FairSpec
CONSTANTS
    Names = {m, n}
    Recorders = {r}
    Scenarios <- MCScenarios
INVARIANTS TypeOK  DeletedStaysDeleted
PROPERTIES RepoWinsAlone Converges
CHECK_DEADLOCK FALSE
