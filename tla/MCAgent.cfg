SPECIFICATION AgentFairSpec
CONSTANT MaxDeaths = 7
INVARIANTS
    AgentTypeOK
    NoneAfterStop
PROPERTIES
    StopStops
    EndsWithContext
    ComesUpAgain
CHECK_DEADLOCK FALSE
