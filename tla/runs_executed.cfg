CONSTANTS
    Shapes <- ExecutedShapes
    Dispatchers = {d1}
    MaxAttempts = 1
SPECIFICATION Spec
INVARIANTS
    TypeOK
    VerdictMatchesCases
    ClosedCaseHasClosedSteps
    SummaryMatchesCases
    ResultMatchesCase
    AiSuccessWasEvaluated
    NothingRunsUnclaimed
    ForceStoppedIsCancelled
PROPERTIES
    RecordedOutcomesFinal
    KeepsContract
