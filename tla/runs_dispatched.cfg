CONSTANTS
    Shapes <- DispatchedShapes
    Dispatchers = {d1, d2}
    MaxAttempts = 2
SPECIFICATION SpecSends
INVARIANTS
    QueuedRunHasOutbox
    AttemptUsedAtMostTwice
PROPERTIES
    TerminalRunFinal
    StartedRunEnds
