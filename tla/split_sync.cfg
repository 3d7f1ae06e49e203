SPECIFICATION Spec
CONSTANTS
    CodePaths = {"code", "readme"}
    AiPaths = {"notes"}
    NoisyPaths = {"readme"}
    Blobs = {"b1", "b2"}
    Absent = "absent"
    Main = 1
    HistoryMain = 2
    Store <- MCStore
    Incoming <- MCIncoming
    Edits <- MCEdits
    Dates = {1, 2}
    Answers <- MCAnswers
    Flags = {"menu", "fake"}
    Rewrites = {FALSE, TRUE}
    Scenarios <- MCScenarios
INVARIANTS TypeOK  RebuiltShowsSides OriginHasNoAi
PROPERTIES LedgerSpec 
CHECK_DEADLOCK FALSE
