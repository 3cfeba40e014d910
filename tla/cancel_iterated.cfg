CONSTANTS
    Shapes <- IteratedShapes
    Dispatchers = {d1}
    MaxAttempts = 1
SPECIFICATION Spec
INVARIANT LateCompletionIsAccepted
