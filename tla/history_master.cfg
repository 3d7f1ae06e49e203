SPECIFICATION Spec
CONSTANTS
    Branches = {"x", "y"}
    Scenarios <- MCScenarios
INVARIANTS TypeOK MarkersComplete NothingTwice StateFits
PROPERTIES NothingDropped
CHECK_DEADLOCK FALSE
