CONSTANTS
    draw = draw
    send = send
    post = post
    bash = bash
    Tool <- MCTool
    DangerousTools <- MCDangerousTools
    Registry <- MCTool
    AllowedTools <- MCAllowedTools
    Declared <- MCDeclared
    NotDeclared = NotDeclared
    MeasureStreaming = TRUE
    MaxIterations = 1
    MaxCalls = 1
    MaxScriptedCalls = 2
    MaxTurns = 2

SPECIFICATION Spec

\* The turns are used up.
CHECK_DEADLOCK FALSE

INVARIANTS
    TypeOK
    OnlyPermitted
    OneBudget
    ReportIsTrue
    ShownAsDone
    StreamTellsResult

PROPERTIES
    ImplementsStream
    TurnEnds
