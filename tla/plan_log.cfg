SPECIFICATION Spec
CONSTANTS
    Sessions = {1, 2}
    Titles <- MCTitles
    Scenarios <- MCScenarios
   
PROPERTIES OthersStay
CHECK_DEADLOCK FALSE
