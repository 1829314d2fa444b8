SPECIFICATION BridgeSpec
CONSTANTS
    Calls = {c1}
    EnvToken = TRUE
    MaxFaults = 2
CHECK_DEADLOCK FALSE
INVARIANTS
    ToolRunsAsTold
    OnlyTimeoutsCutTools
PROPERTIES
    CallsSettle
    ProcessesEnd
