SPECIFICATION Spec
CONSTANTS
    Branches = {"x", "y"}
    Scenarios <- MCScenarios
INVARIANT UserWorkKept
CHECK_DEADLOCK FALSE
