SPECIFICATION FairSpec
CONSTANTS
    Call <- MCCall
    Tool <- MCTool
    ToolOf <- MCToolOf
    Risk <- MCRisk
    Registered <- MCTool
    WellFormed <- MCWellFormed
    Scopeable <- MCScopeable
    Scope <- MCScope
    Config <- MCConfig
    MaxIterations = 3
    ReflectEvery = 1
    MaxBatch = 2
    MaxTurns = 1
PROPERTY DenialRemembered
CHECK_DEADLOCK FALSE
