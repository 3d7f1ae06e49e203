SPECIFICATION FairSpec
CONSTANTS
    Sessions = {1, 2}
    Scenarios <- MCScenarios
INVARIANTS  NothingMissing 
PROPERTIES QuestionsRecorded
CHECK_DEADLOCK FALSE
