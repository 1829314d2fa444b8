SPECIFICATION FlowSpec
CONSTANTS
    NONE = NONE
    Denials <- SomeDenials
    Callers = {c1}
    Jobs = {j1, j2}
    MaxPolls = 2
    MaxFaults = 2
CHECK_DEADLOCK FALSE
INVARIANTS
    ToldIsTrue
    JobsAccountedFor
PROPERTIES
    VerdictIsFinal
    CallsAreAnswered
    DecisionReachesCaller
