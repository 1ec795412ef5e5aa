SPECIFICATION Spec
CONSTANTS
    Indices = {0, 1}
    MaxPieces = 3
    MaxCompletions = 2
    TurnTools <- MCTurnTools
    Defaults = {"calculator", "datetime"}
    Requests <- MCRequests
    MaxSteps = 2
    MaxDepth = 2
    TurnSteps = 1
    TurnBatch = 2
    MaxBatch = 1
    MaxFrames = 4
    Names = {"Log triage", "log_triage"}
    Stem <- MCStem
    Numbered <- MCNumbered
    Brought <- MCBrought
    MaxChanges = 4
    MaxVersion = 2
    Texts <- MCTexts
    Edited = "y"
    Sources = {"notes", "guide"}
    Blank = {"line"}
    SentenceEnds = {"dot", "line"}
    Settings <- MCSettings
    Beginning = 1
    MaxIngests = 2
    MaxChunks = 6
INVARIANTS
    AnswerAssembled
    Attributed
    NestingNarrows
    RestartForgetsNothing
    EverythingFound
PROPERTY
    ServicesEnd
CHECK_DEADLOCK FALSE
