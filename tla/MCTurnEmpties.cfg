CONSTANTS
    draw = draw
    send = send
    post = post
    bash = bash
    Tool <- MCTwoTools
    DangerousTools <- MCDangerousTools
    Registry <- MCTwoTools
    AllowedTools <- MCTwoTools
    Declared <- MCDeclaredOnce
    NotDeclared = NotDeclared
    MeasureStreaming = TRUE
    MaxIterations = 1
    MaxCalls = 1
    MaxScriptedCalls = 1
    MaxTurns = 1

SPECIFICATION Spec

\* The turn is used up.
CHECK_DEADLOCK FALSE

INVARIANT
    EveryEmptyCounts
