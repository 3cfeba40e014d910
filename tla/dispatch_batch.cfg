CONSTANTS
    Shapes <- BatchShapes
    Dispatchers = {d1, batch}
    Batch = batch
    MaxAttempts = 1
SPECIFICATION BatchSpec
PROPERTY TerminalRunFinal
